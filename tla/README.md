# ObservAI API: specifications

TLA+ specifications of the ObservAI API (`src/`), checked with TLC on small
instances and, for the results that matter most, proved with TLAPS for every
value of the constants. Paths below are relative to `src/`; `analysis.go` alone
means `internal/core/usecase/analysis.go`.

## 1. The system

The API accepts requests for an analysis of an incident, runs them in the
background against observability providers and an LLM, stores the result and
lets clients chat about it. It is a hexagonal Go service: use cases in
`internal/core/usecase`, ports in `internal/core/ports`, adapters for Postgres,
Redis, asynq, memory, providers and LLMs in `internal/adapters/outbound`, HTTP in
`internal/adapters/inbound/http`, wired together in `cmd/observai-api`. Several
instances may share Postgres and Redis.

| Component | State | Operations | Interacts with |
| --- | --- | --- | --- |
| Analysis jobs (`analysis.go`) | `activeCancels`: job id to cancel function of the run in this process, under a mutex | SubmitAnalysis, RunAnalysisJob, CancelJob | job repository, queue, collectors, LLM, analysis repository, context cache, notifier |
| Job repositories (`inmemory`, `postgres`) | rows of `analysis_jobs`: status, phase, progress, attempt, analysis id, error | Create, Find, MarkRunning/Phase/Completed/Failed/Canceled | called by the use case, polled by clients |
| Queue backends | a Go channel; a Redis list; asynq tasks with leases, retries and an archive | EnqueueAnalysis, the worker loops | hand job ids to RunAnalysisJob |
| Process (`cmd/observai-api/main.go`) | worker context, HTTP server | start, graceful shutdown, crash | cancels the contexts of the workers |
| Analysis repository, context cache | finished analyses; a cache of what chat needs of them, with a TTL | Save, Find, delete; List with filters, orders and pages, statistics | jobs, chat, retention |
| Collectors, LLM adapters, policies, retry | none; one analysis passes through them | ask every provider, try again, rank and cap the evidence, check the LLM's answer | jobs, configuration |
| Chat (`chat.go`) and lockers | history per analysis; one lock per analysis (mutex, or Redis key with a TTL) | Ask, AskStream, Regenerate, SubmitFeedback | locker, cache, LLM, history |
| Webhooks (`webhook.go`, `webhooks/dispatcher.go`) | subscriptions; delivery rows: status, attempt, next attempt | DispatchEvent, Retry, Test, DispatchPending, the delivery goroutine | notifier, scheduler, receivers |
| Scheduler (`asynq/scheduler.go`) | periodic tasks | retention purge, retry sweep | retention, webhooks |
| Retention (`retention.go`) | none of its own | Delete, Purge, PurgeByQuantity | analysis repository |
| Sessions (`auth.go`) | refresh tokens with a family, revocation, expiry | Login, Refresh, Logout, ChangePassword | users |
| Provider and LLM configuration | rows in Postgres; the collector, generator, responder and trace provider in use; a capabilities snapshot | create, update, activate, delete, reload | every analysis and chat |
| Users, setup (`user.go`, `setup.go`) | rows of `users` | create, change role and status, delete, bootstrap of the first admin | sessions |
| HTTP middleware and routes | buckets of the rate limiter; access tokens are signed, not stored | limit, authenticate, CSRF check, role guard, handler, audit entry | every use case |
| API keys, audit log | rows of `api_keys`, `audit_log` | Issue, Revoke, Resolve; Append | middleware |
| Health, export, telemetry queries | none | read-only | |

What is hard about it:

* **Jobs.** Three parties write to one row with unconditional updates: the run, a
  cancel request (maybe on another instance) and, with asynq, a second run of the
  same job. Statements of a run are refused once its context is canceled, by a
  client, a shutdown or a lost lease. Statements and processes fail anywhere, and retention deletes analyses
  without a look at the jobs. What makes it correct: an outcome nobody is working on is
  final; *completed* means that the analysis was stored and only retention removes it;
  the cancel map names live runs only; a cancellation is
  lost to a completion only in the window the code leaves; a queued job settles.
* **Chat.** Exchanges about one analysis are serialized by a lock whose Redis form
  is a lease and whose in-memory form has waiters that give up; the context is
  read before the lock is taken and written to the cache afterwards.
* **Webhooks.** The row of a delivery is written by goroutines that hold an old
  copy of it, by manual retries and by the sweep, none of which claims it.
* **Configuration.** Reloads run in the request that changes something, several
  at a time, and replace parts of a shared snapshot.
* **Sessions and accounts.** Rotation reads, creates and revokes in three statements,
  while passwords, roles, states and accounts change. What makes it correct: a family
  has one live token unless two requests presented one or a rotation broke off; what
  is revoked, ended or locked out stays so.
* **Middleware.** Authentication reads a row that may change while the request runs,
  the rate limiter reads the clock before its lock, and the audit entry is written
  after the response by another goroutine.
* **Diagnosis.** A provider may fail without the analysis failing, and a cancellation
  looks like a provider's failure to the code that forgives it. Severity, evidence and
  recommendations must hold whatever the providers and the LLM answer.
* **Lists.** A page is two statements, a walk many requests; offsets change their
  width on the way; two repositories must answer alike.

`PROJECT.json` lists each hazard at its line with the properties that cover it.

## 2. Modules

| Module | Models |
| --- | --- |
| `JobRows` | the row of `analysis_jobs` and its five updates as pure operators, with the difference between the two stores (the memory store keeps the old percentage when a run starts) |
| `AnalysisJobs` | the job use case, the three queue backends, the cancel map, the process, the cache and what retention deletes; rows, queue and process compose here |
| `MCAnalysisJobs` | values of the constants for TLC |
| `JobLifecycle` | the abstract specification of a job: one run at a time, which begins on a job without an outcome and leaves at most one; `FollowsLifecycle` of `AnalysisJobs` is the refinement |
| `AnalysisJobsProofs` | theorems that hold with every backend; those that need a job to have one owner; the refinement |
| `WebhookDelivery` | delivery rows, the goroutines that attempt them, events and test calls, manual retries, the retry sweep, crashes |
| `MCWebhookDelivery` | its constants and symmetries for TLC |
| `WebhookDeliveryProofs` | types, earned statuses, the attempt budget and who may write a settled row |
| `ChatTurns` | the abstract specification of the lock of an analysis: who holds it takes turns |
| `AnalysisLocker` | both lockers; `TakesTurns` is the refinement of `ChatTurns` |
| `Chat` | EXTENDS `AnalysisLocker`: requests of the chat, history, feedback, context cache, runs that store and retention that deletes |
| `MCChat` | its constants |
| `ChatProofs` | the refinement of `ChatTurns`, the references, the pairing of exchanges and that what is forgotten stays so |
| `AccountRows` | the tables `users` and `refresh_tokens` and the statements on them |
| `Accounts` | EXTENDS `AccountRows`: sessions, administration of users, bootstrap |
| `MCAccounts`, `AccountsProofs` | constants and symmetry; types, revocation, ended sessions, lock-out, the one heir of a family |
| `ConfigReload`, `MCConfigReload` | configurations of providers and LLMs, the swap of the active LLM, and the reload of an instance |
| `ConfigReloadProofs` | one active LLM, nothing unbuildable in use, and what a change that ran alone leaves |
| `HttpRoutes` | every handler with its effect and every route with its guard |
| `HttpGateway`, `MCHttpGateway` | EXTENDS `HttpRoutes`: requests on their way through the middleware |
| `HttpGatewayProofs` | lock-out, roles, the log of changes and the rate |
| `AnalysisList`, `MCAnalysisList` | lists, statistics and purges over both repositories |
| `AnalysisListProofs` | walks along the links, the agreement of the repositories, purges |
| `Policies` | validation, severity, evidence filter, guard and recommendations, as operators |
| `Providers` | EXTENDS `Policies`: what each provider is asked, makes evidence of and retries |
| `Diagnosis`, `MCDiagnosis` | EXTENDS `Providers`: one analysis from the request to the stored result |
| `DiagnosisProofs` | what a stored analysis holds: whole evidence, its severity, what is shown, cited and named; a run cut short is not stored |

Where parts meet: a run's `Notify` sends an event, whose deliveries are a call of
`DispatchEvent`; the job only sends it (its `CompletedIsStored` says when) and the
deliveries never look back. `SaveAnalysis` and `DeleteAnalyses` of `Chat` stand for
the runs of `AnalysisJobs` and for retention: any run, any set of analyses, at any
time. `Diagnosis` is the inside of the steps `Advance` to `SaveAnalysis` of one run.
The accounts of `HttpGateway` change in one step each, since `Accounts` has their
statements apart. So each part is checked by itself against everything its neighbours
may do.

### How `AnalysisJobs` corresponds to the code

A step is one call that another actor can observe: a statement on the row, an
operation on the queue, the mutex-protected map, a provider call. `at[w]` says
where worker `w` is in `RunAnalysisJob`, `cancelAt[c]` where request `c` is in
`CancelJob`.

| Action | Code |
| --- | --- |
| `SubmitAnalysis`, `EnqueueAnalysis`, `EnqueueFails` | `SubmitAnalysis`: insert the row, then enqueue; both can fail on their own |
| `Dequeue` | the worker loops; BLPOP and the channel forget the job, asynq waits for the result (`holds`) |
| `Redeliver`, `TakeTask` | asynq: retry or recovery of a task; the lease is lost or the server stops waiting, so the task context is canceled |
| `Load` | `jobs.Find` and the early return for completed and canceled rows |
| `RegisterCancel`, `StartRun` | `registerCancel`, `MarkRunning` |
| `Advance` | the end of one phase of `executeAnalyze` and `MarkPhase` of the next, whose error is ignored |
| `ProviderFails`, `ProviderCanceled` | the error of a collector or the LLM; an interrupted retry reports the provider's error (`retry.Do`) |
| `SaveAnalysis` | `repository.Save`, then the best-effort `cache.Save` |
| `DeleteAnalyses` | retention deletes any analyses; no foreign key leads from a job to its analysis, and the cache is not told |
| `CompleteRun`, `FailRun`, `CancelRun` | `MarkCompleted` under the run's context, `MarkFailed` and `MarkCanceled` under a context of their own |
| `Notify` | the completed or failed event |
| `ReturnRun` | the deferred `releaseCancel` and what the backend does with the handler's result |
| `RequestCancel`, `MarkJobCanceled`, `InvokeCancel`, `AnswerCancel` | `CancelJob` |
| `Shutdown`, `Restart` | `workerCancel` after a signal; the end of the process and a new one |

`CtxCanceled(w)` is the run's context: canceled by `invokeCancel` or
`releaseCancel`, with the channel and the list also by the worker context the pool
passes on, with asynq by the task context. `StoreAccepts` is what a repository
does with a canceled context: pgx refuses the statement, the memory repositories
ignore the context. `StoreFault` is a statement that fails before or after it took
effect. The statements of a cancel request run under the context of its HTTP request:
with `"client"` in `Faults` the client may leave before any of them, the second `Find`
included (`RequestFails`). A list worker may still be handed a job by BLPOP after the
server began to stop.

`saved` are the jobs whose analysis was ever stored, `deleted` those retention has
removed since; what can be read is `saved \ deleted`. `asked` and `notified` are history:
what clients asked of a job without an outcome, and what they were told. `Uses` switches
the cache and retention on.

Abstractions:

* Requests, results, timestamps and error texts are left out; an error message is
  present or not, `analysis_id` is set or not (a job's analysis has the job's id).
* A collector or LLM call is one step that succeeds, fails or is canceled. It may
  succeed although the context was just canceled (a lenient collector policy, an
  answer that had already arrived).
* A statement has its effect, if it has one, before the call that sent it returns.
* `RequestCancel` is possible for a job whose enqueue failed, although no client
  learns its id.
* `MaxDeliveries` counts every delivery of an asynq task, also after a shutdown
  hand-back, which asynq itself does not count; it bounds both.
* The memory repositories die with the process, so with `Store = "memory"` there
  is no restart: the new process is a new system.
* Bounds: `MaxDeliveries`, `MaxMishaps` (restarts of instances and lost leases),
  `QueueBuffer`, and the sets `Job`,
  `Worker`, `Canceler`, `Instance`. `Faults` chooses what may go wrong in a run.

### How `WebhookDelivery` corresponds to the code

A delivery is a pair of a call and a subscription; `flights[f]` is a delivery
goroutine with the copy of the row it was given.

| Action | Code |
| --- | --- |
| `DispatchEvent`, `Test` | the calls up to the subscriptions they found |
| `DispatchOnce`, `DispatchOnceFails` | `persistDelivery` and `Dispatch` for one subscriber; an error ends the call |
| `Post` | `post`: the answer as `deliver` tells them apart (`Accepted`, refused, `Transient`) |
| `Record`, `RecordLost` | `MarkDelivered`, `MarkFailed` or `ScheduleRetry` with the attempt counted from the copy; a failing update is only logged |
| `BecomesDue` | `next_attempt_at` passes |
| `SweepList`, `SweepDispatch`, `SweepFails` | `DispatchPending`: `ListPending` with its order and limit, then a goroutine for each copy |
| `RetryFind`, `RetryCommit`, `RetryFails` | `Retry`: `Find`, then `ScheduleRetry` with the attempt it read, then `Dispatch` |
| `Crash` | a process ends; the rows stay |

The updates are the statements of `webhook_deliveries.sql`: they address a row by id
and never look at its status.

Abstractions:

* Which subscriptions an event finds is an input: any set (Create, Update and
  Disable change it at any time, and nothing else in a delivery depends on them;
  subscriptions are never deleted, and their URL was parsed when they were stored).
* Inserting the row and starting its goroutine is one step: a crash between them
  equals one right after, and a sweep between them only finds a row without its
  goroutine, which a crash produces too.
* A request and its answer are one step; what can happen in between happens between
  the start of the goroutine and the step. With several processes a crash loses any
  part of the goroutines, sweeps and calls, which is how `Crash` is written.
* Every instance has a scheduler of its own that runs five tasks at once and asks for
  none to be unique (`scheduler.go:96-125`), so sweeps overlap: `Sweeper` is the set of
  sweep tasks that run at the same time, and two of them may list a row before either
  dispatches it.
* The sweep needs the scheduler, which is off unless configured; without it a row
  that waits for its next attempt waits for an operator.
* `posts`, `answers` and `overlap` are history: what the receiver saw, and which
  rows a sweep listed while an attempt was under way or another sweep had them listed.
  No action looks at them.
* Bounds: `Flight` (goroutines up at once), `Sweeper`, `Retrier`, `MaxRetries`, `MaxFaults`,
  and `PostCap`, where `posts` stops counting.

### How `AnalysisLocker` and `Chat` correspond to the code

A caller is one call of `Acquire` with the release it returned. `owner[a]` is who has
the mutex or whose token is in the key; `Inside` maps the callers that hold to
`ChatTurns`, `overdue` those whose key expired under them. `at[r]` is where request
`r` is, `context[r]` the version of the analysis it read before it took the lock.

| Action | Code |
| --- | --- |
| `Acquire`, `Grant`, `TakeGrant`, `Abandon`, `HandOn` | `inmemory/locker.go`: a goroutine per caller locks the mutex; a caller that leaves has a second one unlock it |
| `SetKey`, `StopWaiting`, `Release`, `Expire`, `Vanish` | `redis/locker.go`: SET NX polled, the script that deletes its own token (tried once), the TTL, a process that dies |
| `Ask`, `Regenerate`, `CacheFind`, `CacheEvict`, `Load`, `Fill` | `loadContext`: cache, repository, writing back |
| `Locked`, `NotLocked`, `Answer` | `Acquire` with its outcome; scope policy, history, LLM |
| `BeginExchange`, `InsertQuestion`, `InsertReply`, `CommitExchange`, `RollBackExchange`, `AppendExchange` | `SaveExchange`: one transaction in Postgres, one append in memory |
| `KeepContext`, `ReleaseLock` | the context written to the cache after the exchange, the deferred release |
| `SubmitFeedback`, `RateFind`, `RateList`, `RateSave` | `SubmitFeedback`: the analysis, the list of messages, the insert |
| `SaveAnalysis`, `CacheAnalysis`, `DeleteAnalyses`, `CacheExpires`, `Crash` | runs, retention with its cascade, expiry, a process that dies |

* A question in or out of scope, an answer and a refusal are exchanges alike. AskStream
  is Ask followed by the events of a complete answer; History only reads.
* Postgres gives both messages of an exchange the time their transaction began. **No
  two transactions begin in the same microsecond** is assumed by `clock`:
  `ExchangesPaired` needs it only where a key expired and two exchanges overlap.
* Bounds: `Window` (how far the newest messages are looked for), `MaxAsks`, `MaxSaves`.

### How `Accounts` corresponds to the code

Rows of `users` and `refresh_tokens` are in `AccountRows`, one operator per
statement, for both stores. A token's row has its family, its heir, its state and,
as history, the password the session goes back to.

| Action | Code |
| --- | --- |
| `Login`, `Issue`, `Rotate` | `Login` up to the check of the password; `issueSession`: create, then revoke the token it replaces |
| `Refresh`, `FindOwner`, `CondemnFamily` | `Refresh`: the token, its user; a revoked token condemns its family |
| `Logout`, `LogoutRevoke`, `ChangePassword`, `StorePassword`, `RevokeSessions` | `auth.go` |
| `CreateUser`, `UpdateProfile`, `PatchUser`, `PatchRole`, `PatchReread`, `PatchStatus`, `DeleteSessions`, `Delete` | `user.go` and the PATCH handler: role and status in statements of their own, the revocation after a deactivation, the cascade |
| `Bootstrap`, `BootstrapAdmin`, `BootstrapLogin` | `setup.go`: the status, the insert, the login a taken address falls back to |
| `ProvidersChange`, `Abandon` | what the setup status depends on; a client that goes away |

`delivered` are the tokens some client got and may present; an expired token is only
refused. Access tokens are in `HttpGateway`. Names, preferences, the must-change flag
and the last login are left out. Bounds: `MaxTokens`, `MaxChanges`, `MaxCalls`.

### How `ConfigReload` corresponds to the code

A configuration is the number of the edit that wrote it and what the factory makes of
it (a collector; one with traces; one whose traces cannot be built; an error). `live`
is one instance: the adapters in the registries of `dynamic/registry.go`, and
`published` and `model`, the two parts of the capabilities snapshot.

| Action | Code |
| --- | --- |
| `CreateProvider`, `CreateLlm`, `UpdateFind`, `UpdateWrite`, `SetActive`, `Delete` | `provider_config.go`, `llm_config.go` |
| `Activate`, `Begin`, `DeactivateAll`, `ActivateOne`, `Commit` | `llm_config_repository.go`: the transaction under read committed, with the unique index over active rows |
| `FindAfter` | the read between the change and the reload |
| `ReloadList`, `SetCollector`, `PublishGet`, `PublishSet`, `SetTraces`, `FindActiveLlm`, `SetGenerator`, `SetResponder`, `ModelGet`, `ModelSet` | `newAdapterReloader`, `capabilities.go`: each registry is set by itself, the snapshot is read, changed and set |
| `Restart` | a start builds from what it reads, falls back to the configuration file |

The reload runs in the request, under its context: with `"store"` it may be cut off at
each read. Other instances are not told of a change; they are further processes with a
`live` of their own and nothing to relate it to. Locks of rows are held until the
commit. Bounds: `MaxEdits`, `MaxCalls`.

### How `HttpGateway` corresponds to the code

`HttpRoutes` lists every handler with what it may do to a request and every route with
what must be configured for it, its guard and whether its method is unsafe.
`HttpGateway` takes a request through the chain the router builds.

| Action | Code |
| --- | --- |
| `Arrive`, `Limit` | the clock of `rateLimiter.Allow`, then its lock: eviction, refill, take |
| `Present`, `FindUser`, `Bear` | `auth_middleware.go`: cookie with the row of its user, then static key, then stored key; CSRF |
| `Dispatch`, `Refuse`, `Fail`, `Answer`, `Write` | role guard and handler, by the effect of the route |
| `LogIn`, `Sign`, `BootstrapAdmin`, `CreateUser`, `UpdateRole`, `SetActive`, `DeleteUser`, `IssueKey`, `RevokeKey` | handlers later requests depend on |
| `Audit`, `Append`, `AppendFails`, `Panic`, `Crash`, `Tick` | the entry after the response, its goroutine; time |

What a client sends is chosen where the code first looks at it. `held`, `owed`,
`admitted`, `earlier` and the `out` of a call are history. Requests are those of one
address, so there is one bucket; a request without an address passes. Nothing is assumed
of burst, rate and eviction age: any positive rate and burst are accepted and the age is
fixed at 10 minutes, so an evicted bucket may start fuller than it would have become.
`RateHolds` therefore speaks of the requests each bucket let through (`admitted`; those
of buckets evicted before are `earlier`), and says that a new full bucket comes only
after the address was idle for the age, less what two late readings of the clock hide.
Which paths need no authentication is the built-in list and what `HTTPAuth.Skip` adds
(`exempt`; a path with a parameter may be exempt for some values only, so a request may
come to an exempt route either way).
Bodies and responses are accepted or not; CORS, request ids, logging and the metrics
are left out. Bounds: `MaxClock`, `MaxRequests`, `MaxTokens`, `MaxDelay` (the longest
wait for the limiter's lock).

### How `AnalysisList` corresponds to the code

A client asks for a page and follows the links until there is none. `InMemory(f)` and
`Selected(f)` are the filters of the two repositories, `MemoryPage` and `SQLPage` their
pages, `MemoryStats` and `SQLStats` their counts. In memory a page is one step, in
Postgres `CountAnalyses` and `ListAnalyses`. `Save`, `DeleteByID`, `DeleteOlderThan`
and `DeleteKeepingNewest` come in between. `int32(...)` and 64-bit sums are taken
modulo `Int32Max`, `Int64Max`.

Texts are words an analysis contains; a text of wildcards (`%`, `_`), which ILIKE
interprets and memory does not, is a query of its own and left apart in
`BackendsAgree`. The statements of the Postgres statistics are one step, and the
session time zone of `date_trunc` is that of the days.

The limit of a page is clamped before it is narrowed; that of `GET /v1/services` is not,
so `SQLServices` narrows any number: 2^32 is LIMIT 0, beyond 2^31 it fails. The names in
an analysis are trimmed and not empty, since `llmguard` lets no others through, so the
trimming in memory does nothing. The database sorts names by its own `Collation`, memory
by bytes: between names mentioned equally often the two may choose differently, and
`BackendsAgree` counts how many services are shown with each count. Ids are UUIDs of
digits and lower-case letters, which sort alike.

`Overflow(keep)` is what `ORDER BY created_at DESC OFFSET int32(keep)` may select: the
rows behind the offset in any order that puts newer ones first (`AgeOrders`); the preview
orders ties by itself. Bounds: `MaxTime`, `MaxWrites`.

### How `Policies`, `Providers` and `Diagnosis` correspond to the code

Names of services are compared as the code does: `Trimmed` and `Folded` are what
`strings.TrimSpace` and `strings.EqualFold` make of them, `SameService` matches evidence
with a request, `DistinctServices` and `NonEmpty` trim and drop what is empty. Without a
provider that collects, the factory installs the null collector and the run fails
(`CollectingStops`).

Evidence is a record of what the policies look at: provider, signal, service, unit,
value (a natural number), time, whether its text mentions an error, id and severity.
`Classify`, `Reconcile`, `EvidenceSeverity`, `FilterEvidence`, `Decode` and
`Recommendations` are the functions of `internal/core/policy` and of the parser and
guard behind the LLM. `Collector` says what each of the seven providers is asked for a
request, and with which templates; `ToEvidence` what it makes of an answer; `Retried`
which failures its client tries again.

| Action | Code |
| --- | --- |
| `Start` | the validation of the request |
| `NextCollector`, `CollectingStops`, `EndOfCollector`, `CollectorFails` | the loop of `composite/signal_collector.go` with the partial-failure policy the factory installs |
| `Send`, `Answered`, `Generated`, `Backoff`, `GiveUp`, `Abandon` | `retry.Do` around each query and the call of the LLM |
| `Normalize`, `Save`, `SaveFails`, `Cancel` | ids, severities and the filter; the repository; the end of the context |

`given`, `missed` and `cut` are history. The texts of queries and prompts, parsing of
payloads, the length of the delays and redaction of the LLM's copy are left out; only
the built-in templates exist (the factory passes no others). Thresholds are constants
(`ManyErrors`, `Volume`, `MaxLLMEvidenceItems`, `FallbackItems`), so that small numbers
reach them; `MaxAttempts` is the policy's.

## 3. Runs

Deadlock is not checked where the system may stop with nothing in progress: clients
are not obliged to send anything (jobs, chat, accounts, configuration, middleware),
and a diagnosis ends. In the webhook runs it is: `Quiet` names the states in which
everything has been called and settled, and only there may nothing more happen. In
`listing` a walk always ends and a finished client may ask again.

| Run | Instance | Shows |
| --- | --- | --- |
| `jobs_list` | list, Postgres, 1 instance, 2 jobs, 2 workers, a cancel request at a time, failing providers and enqueues, clients that leave (653 000 states) | `CanceledByClient`; a completion overwrites a cancellation only in the window or where the client left (`CompletionOverCancelOnlyInWindow`); a job left behind is one whose completion a cancel interrupted, or that was inserted and could not be enqueued, and that no worker ever had (`UnattendedIsExplained`) |
| `jobs_asynq` | asynq, 1 instance, 2 workers that share its map, 2 jobs delivered twice, a cancel request at a time, a lost lease or a crash (1 949 000 states) | with overlapping runs of one job beside those of another: `CancelRegistry`, `OutcomeIsFinal` |
| `jobs_memory` | channel of capacity 1, memory store, shutdown, failing enqueue | where no statement is ever refused: `SingleOwner`, and `FollowsLifecycle` (the refinement of `JobLifecycle`) (221 000 states) |
| `jobs_asynq_live` | asynq, 2 instances, 1 crash, cancel requests from one, 3 deliveries, no lost leases, the cache and retention, fairness (16 000 states) | `CompletedIsStored`, `QueuedJobSettles`, `ProgressWithinAttempt` |
| `webhook_retries` | 1 delivery, 3 attempts, a manual retry, 2 goroutines, 2 sweeps at once, every answer, a failing statement or a crash (627 000 states) | `StatusEarned`, `AttemptBudget`, `SettledStays` |
| `webhook_live` | an event and a test call, 1 goroutine, 2 sweeps at once that list 1 row each, 2 attempts, 1 fault, fairness (85 000 states) | `DeliverySettles` |
| `chat` | both lockers, both stores, 2 requests at a time and 3 in all about 1 analysis, every fault, a run that stores it and retention, fairness (237 000 states) | `TakesTurns` (the refinement of `ChatTurns`), `ExchangesPaired`, `NothingOutlivesAnalysis`, `ForgottenStaysForgotten`, `LockReturns` |
| `accounts` | both stores, 2 users, 2 addresses, 2 requests at a time and 4 in all, a token for each, failing statements (175 000 states) | `SingleHeir`, `RevocationIsFinal`, `EndedStaysEnded`, `LockedOutStaysOut` |
| `reload` | 1 provider and 2 LLM configurations, 2 changes at a time and 3 in all, 2 edits, failing statements and restarts (521 000 states) | `OneActive`, `OnlyBuiltServes`, `SettledIsCurrent` |
| `gateway` | 4 deployments (one with exempt paths), 1 user, 1 API key, 2 requests at a time and 3 in all, 4 instants, a bucket that is evicted before it is full, failing statements, panics, crashes (622 000 states) | `LockedOutIsRefused`, `RoleIsRecent`, `RateHolds`, `ChangeIsLogged` |
| `listing` | both stores, 3 analyses of 2 kinds, 2 instants, 3 writes, 6 queries, pages of 1 or 2, offsets, limits and numbers to keep at and beyond the ends of the two widths, a database that sorts names the other way round (119 000 states) | `QuietWalkIsExact`, `InsertionsHideNothing`, `BackendsAgree`, `PurgesAsPreviewed` |
| `diagnosis` | Elasticsearch, New Relic and Jaeger, OpenAI, 2 attempts a call, 4 requests (of two services, of one named twice, of none, with an inverted window; names in another case or with blanks), 3 payloads, a cancellation anywhere (327 000 states) | `WholeOrNothing`, `CutShortIsNotStored`, `NeverUnderReported`, `BestEvidenceShown`, `Grounded`, `GapsAreNamed` |

Why these bounds are enough:

* *Jobs.* Two workers and one job are enough for two overlapping runs, which is what
  the cancel map and the row can confuse; two jobs for a mix-up between jobs, of
  which the map of one instance holds both; two deliveries for a retry and for a
  lost lease, three for a run that a cancellation interrupted, one that a crash did,
  and the one that settles (with fewer the task may be used up). `jobs_asynq` needs no
  shutdown of its own: what it does to an asynq worker, a lost lease and a crash do.
  Two things are left to the theorems, which cover every combination of faults: failing
  statements (in `jobs_lifecycle.cfg` besides), and that a repeated run does not bring
  back an analysis retention deleted (a part of `OutcomeIsFinal`). More of the same adds interleavings of actors that share nothing but the row. The
  proofs remove the bounds for the properties they cover.
* *Webhooks.* Two goroutines and one delivery are what overlapping attempts need: one
  that counts from an old copy and one that has moved the row on. Three attempts tell
  the first, the middle and the last apart, and one manual retry can meet each of
  them. Two sweeps at once are what two listings of one row need. `webhook_live` has two
  rows, of which a sweep lists one; there the copies that two sweeps and one goroutine
  hold stand for goroutines that wait their turn. A second fault would
  only repeat the first: each loses what goroutines, copies and calls there are, and
  the sweep starts over from the row.
* *Chat.* Analyses share nothing but the map of locks, so one is enough; two requests
  overlap, the third comes after what they left. One save and one deletion make every
  order of storing, reading and forgetting. The proofs have no such bounds.
* *Accounts.* One request overlaps another; a login, two refreshes that overlap and one
  that comes after them make a family fork and be condemned; a second user and address
  are there to meet a foreign row. Symmetry is over users, addresses and requests,
  which are interchangeable.
* *Reload.* Two overlapping reloads produce every mix of adapters, and the third change
  repairs it. Two LLM configurations are what a swap needs: two creations that activate,
  or an activation beside one, race each other.
* *Gateway.* One request is on its way while the other changes what it depends on; the
  third comes after. Time goes far enough for a token to expire, a bucket to be evicted
  and to refill. Each deployment is observed for a time of its own (`until`): the one
  with the limiter the longest, the one with users and static keys, where a route that
  changes something and one that a role guards are exempt, for no time at all. A key that was
  issued and revoked over Postgres and is then presented is not reached within three
  requests: `LockedOutRefused` covers it.
* *Listing.* Three rows over pages of one and two give a first, a middle and a last
  page; two instants and two contents give ties in every order. Offsets cross both
  widths; limits and numbers to keep are narrowed to one, to zero and to less than zero.
* *Diagnosis.* Three providers give one before, at and after a failure, and the three
  ways to make evidence: of counts, of rows, of traces. `MCAnswers` has answers with no,
  one and several items, in and before the window, of a service asked for and of
  another; `MCPayloads` has an LLM that invents, one that is right and one that says
  nothing. Thresholds of three and four and a cap of two are passed by them. The
  other collectors and clients differ from these only in their tables of `Providers`.

### Where code and its comments disagree

Each of these configurations checks one sentence of the repository and ends with TLC's
counterexample: `tlc -config <name>.cfg <module>`. They are kept for that and are not
among the runs that must pass.

| Configuration (module) | Sentence | What happens |
| --- | --- | --- |
| `jobs_shutdown` (`MCAnalysisJobs`) | `domain/job.go:26`: canceled "by a client before completion" | graceful shutdown cancels the worker context, the run reports `context.Canceled` and marks its row canceled |
| `jobs_final_status` (`MCAnalysisJobs`) | `docs/en/architecture/concurrency.md:44`: the worker's last step marks a final status | canceled after `Save`, the run cannot `MarkCompleted` and leaves the row as it is |
| `jobs_cancel_final` (`MCAnalysisJobs`) | `domain/job.go:26` | `MarkRunning` overwrites a cancellation stored after the worker's `Find` |
| `webhook_every_subscriber` (`MCWebhookDelivery`) | `webhook.go:127`: "to every active subscriber" | the call returns at the first delivery it cannot store |
| `chat_fifo` (`MCChat`) | `docs/en/architecture/concurrency.md:29`: "FIFO chat per analysis ID" | the waiter whose poll comes first gets the key |
| `accounts_password` (`MCAccounts`) | `auth.go:196`: "a stolen session cannot survive the rotation" | a refresh that has read its token before the revocation issues an heir after it |
| `reload_pair` (`MCConfigReload`) | `providers.go:294`: "atomically swaps the collector/generator/responder/traces" | two reloads leave the generator of one configuration beside the responder of another |
| `gateway_annotations` (`MCHttpGateway`) | `audit_middleware.go:26`: `AnnotateAudit` stamps its data on the context "so the audit middleware can persist it" | the timeout middleware, on by default, copies the request, and the entry is written without them |

`jobs_lifecycle.cfg` (`MCAnalysisJobs`) is no counterexample: it checks `FollowsLifecycle`
once more, over asynq with failing statements and enqueues and crashes (79 000 states),
and passes; the theorem covers these cases for every instance.

Others were met while reading and are visible in the definitions only:

* Jobs and webhooks: asynq runs a failed job again (`domain/job.go:24` calls failed
  unrecoverable); an answer in the 400s fails a delivery at its first attempt
  (`domain/webhook.go:38`: "exhausted its retries"); every status below 400 counts as
  delivered (`domain/webhook.go:36`: "a 2xx").
* Retention: `retention.go:16-20` says that foreign keys of `analysis_jobs` cascade;
  migration 000003 has none, so a job goes on saying that it completed with an analysis
  that is gone (`CompletedIsStored` allows it for what retention deleted), and the cache
  keeps its context.
* Chat: one exact pattern of the scope policy has two letters and can never match a
  question, which has at least three.
* Configuration: an activation that loses the race ends in an error of the unique index
  ("so the partial unique index never blocks the swap"); activating an unknown LLM
  deactivates the others and answers 404; deleting the active LLM reloads nothing;
  `Update` never writes `type` although its response shows the new one; two overlapping
  changes of the capabilities may lose one.
* Middleware: login, refresh and setup annotate and are never audited; refusals of the
  CSRF check are not audited, those of the role guard are; access tokens outlive logout
  and password change, and keep their role until they expire.
* Lists: ties come in opposite orders from the two stores; memory computes statistics
  over the newest thousand analyses only; a limit of `GET /v1/services` or a number to
  keep beyond 32 bits is narrowed; an insertion between count and rows can end
  a walk early.
* Diagnosis: a Prometheus query without samples leaves no evidence although the comment
  of `Collect` promises an entry that says so; `service_up` = 1 counts as a medium
  ratio; a sample of zero from a template whose name contains "error" is error
  evidence; percentiles of New Relic arrive under a key nobody reads; a service
  named twice is asked and counted twice; a skipped provider is logged and, when no
  signal was asked for, not told to the caller (`collector_error.go:8`); severities of evidence
  items do not raise that of the analysis; the delay between attempts may exceed
  `MaxDelay` by the jitter; a NaN of Prometheus makes the message to the LLM fail.

### Fairness

`FairSpec` assumes that a worker or a cancel request that can take a step takes
one (Go schedules every goroutine; provider and repository calls have timeouts),
that the handler of a submitted request enqueues it, and that asynq delivers what
is due. It does not assume that clients send anything, that a shutdown or crash
occurs, or that a provider eventually answers.
`QueuedJobSettles` allows a canceled job not to settle: `jobs_final_status` shows
the row left running.

`FairSpec` of the chat assumes that a request that can go on does (the LLM client has a
timeout), that the goroutine of a caller that left unlocks the mutex, that a poller
stops at its deadline, and that keys expire. It does not assume that a client leaves,
asks, or that any call succeeds.

`FairSpec` of the webhooks assumes that goroutines and calls that were started go on
(the HTTP client has a timeout), that time passes, and that the cron entry of the
sweep keeps firing. It does not assume that anyone calls or retries, that receivers
ever accept, or that statements fail. Manual retries are left out of `webhook_live`
(each may reopen a row); `webhook_retries` has them.

## 4. Proofs

`tlapm` checks every proof to the leaves. A theorem assumes what the `ASSUME`s of its
module say of the constants, which TLC evaluates in the runs, and the hypotheses named
below. Every invariant and every action property of the runs is proved, and both
refinements; liveness is not.

**Jobs** (`AnalysisJobsProofs`), for any jobs, workers, requests, instances, backends,
stores and faults unless a hypothesis restricts them:

1. `TypeCorrect`: `TypeOK` is not inductive by itself, because a busy worker must
   have a job for its updates to be typed. `TypeInv` adds `BusyInv`: a worker has a
   job exactly while it is not idle, a canceler likewise, and asynq waits only for
   busy workers.
2. `CancelRegistryCorrect`: `CancelRegistry` is inductive on top of `TypeInv`.
   The lemma `RunSteps` says which steps begin and end a run, so one case covers
   all that do neither. Overlapping runs remove each other's entry but never leave a
   dead one.
3. `OutcomesAreFinal`: the lemma `RowSteps` says who can write a row: a run at a
   recording step, or a canceler that has decided to. `StartSteps` and
   `CancelSteps` say that both decide on a row that is not final, `SavingSteps` that
   only `SaveAnalysis` stores an analysis, which a job with a final row has no run for.
4. `CompletedStored`: the strengthening `StoredInv` adds that a run about to mark or
   announce completion has its analysis stored before (`StoredBefore`), be it deleted
   since.
5. `OneOwner`, under `NoOverlap`: the backend delivers once, or no lease expires and no
   server stops (asynq hands a task to a second worker in these two cases only).
   `OwnerInv` says that submitter, queue, broker and workers exclude each other and
   that what was never inserted is nowhere.
6. `ReachableRuns` follows from it: with one run per job no other run can take the
   entry away.
7. `CancelLostInWindowOnly`, under `NoOverlap`, for one instance over Postgres while no
   statement fails: `WindowInv` says that a run that may still complete over a canceled
   row has its context canceled, a canceler about to do it or a client that left in the
   middle; Postgres refuses the completion of the first.
8. `ProgressGrows`, under `NoOverlap`, over Postgres or with a backend that delivers
   once: `ProgressInv` says that a row is not ahead of what its run has reported, and
   that a job nobody has started made no progress (the memory store keeps the old
   percentage, and so needs that no job is run twice).
9. `CanceledByClients` and `UnattendedExplained`, under `Quiet`: no fault but those of
   providers, of the enqueue and of clients. `ToldInv` says that whatever cancels a run's
   context was a client who asked for it while the job had no outcome; `LeftInv`, that a job
   that is given up has its outcome, or its analysis and a client that canceled it, or,
   like a job that is still with its submitter, is `Untouched`: the row as it was
   inserted, and no delivery.
10. `JobsFollowLifecycle` (refinement, under `NoOverlap`): `RunOf` maps the one worker of
    a job to the stage of its run, `StatusOf` its row to its status and `Deciding` a
    request to the job it is about to cancel. `StagesNow` says that the stage of a job is
    that of its worker (by `SingleOwner`), `StageMoves` and `StatusMoves` what a step
    does to both; then one lemma per action: `SubmitIsSubmit`, `LoadIsBegin`,
    `StartIsStart` (which may give up), `SaveIsStore`, `OutcomeIsFinish` (a completed
    outcome needs `StoredInv`), `RequestIsDecide`, `MarkIsCancel`, `RestartIsVanish`, and
    stutters for what JobLifecycle does not know: the queue, the map of cancel
    functions, phases and events. Without `NoOverlap` it is false: a second run begins
    while the first is running.

**Webhooks** (`WebhookDeliveryProofs`), for any faults, limits and goroutines:

11. `TypeCorrect`: `TypeOK` is inductive by itself.
12. `StatusIsEarned`: a failed row says little about its own count, because a stale
    copy may have written it. `EarnedInv` says that every count in sight (of a row, a
    goroutine, a copy of the sweep or of a manual retry) is backed by as many posts,
    and that what a goroutine is about to record was answered.
13. `AttemptsAreBudgeted`: `BudgetInv` says that whatever carries a pending row's
    count carries one with an attempt left in the budget; a manual retry raises the
    budget in the step that takes its copy.
14. `SettledRowsStay`: for a row that was neither retried nor listed while a copy of
    it was out, `CalmInv` says that at most one goroutine or sweep has it, and only
    while it is pending; `KnownInv`, that a row that was never inserted is nowhere.

**Chat** (`ChatProofs`), for any requests, analyses and faults, with both lockers and
stores:

15. `LockTakesTurns` (refinement): `LockInv` ties `owner` to what callers do: who holds
    the mutex is its owner, and a holder of a key that is not overdue has its token in
    it. Each action is then a step of `ChatTurns` or a stutter: `EnterIsTurn`,
    `LeaveIsTurn`, `ExpireIsTurn`, `WaitingIsNoTurn`.
16. `ChatTakesTurns` carries it over: every step of `Chat` is a step of the locker or
    leaves it alone (`StepIsLockStep`).
17. `NothingOutlives` and `ExchangesArePaired` rest on `ChatInv`: message ids are unique
    (also those of open transactions), what is stored refers to what is stored, the
    memory store has no open transactions, and no two exchanges have one time.
18. `ForgottenForGood`: `IdleForgets` says that a request that is not at work has no
    context left; then only a run that stores the analysis has one to bring.

**Accounts** (`AccountsProofs`), for any users, requests, patches, faults and bounds:

19. `TypeCorrect`: `AccountsInv` adds that a request carries what its step needs: a user
    from the look-up on, a token it rotates with that token's family.
20. `RevocationFinal`: every statement on tokens keeps revoked rows (`RowTypes`,
    `RevokeKeeps`, `StepOnTokens`).
21. `EndedIsEnded`: a rotation needs a live token (`RotationNeedsLive`) and a family
    without either gets neither (`NoNewRotation`).
22. `LockedOutIsOut`: an account stays without a session as long as no step reactivates
    it (`AccountStays`, `IssuingNeedsAccount`).
23. `OneHeirPerFamily`: `SingleHeir` says nothing of a family in the middle of a
    rotation. `HeirInv` says that in a family whose rotation was neither raced nor broken
    off one request at most is issuing, and which of its tokens may be live at each step.

**Configuration** (`ConfigReloadProofs`), for any configurations, requests, adapters and
bounds:

24. `TypeCorrect`, and `OneIsActive`: `ActivationInv` says that a transaction that swaps
    the active configuration has locked the rows it wrote, and that two of them cannot
    both reach their commit; the index refuses what is left.
25. `OnlyBuilt`: `BuiltInv` says of every reload under way that what it has read, built
    and not yet set can be built, so that it does not matter when it is set or what is
    stored by then.
26. `SettlesCurrent`: `TrustInv` follows a change that runs alone through its reload: what
    is set so far is what is stored, what is not set yet was read since.

**Middleware** (`HttpGatewayProofs`), for any accounts, keys, deployments, rates and
faults:

27. `TypeCorrect`; `LockedOutRefused`: `OutInv` says that who was locked out when a
    request arrived, and was not let in since, is locked out now and not its principal.
28. `RolesAreRecent`: `RoleInv` ties the role of a token to one the account had while it
    was active, at an instant the token's life bounds.
29. `ChangesAreLogged`: `LoggedInv` says that a change not in the log belongs to a request
    that has not been answered or to an entry on its way.
30. `RateIsHeld`: `Covers` bounds what a bucket has let through in every stretch of time
    by what it held, gained and still holds (`Worth`), although readings come late and
    turn it back; a new bucket begins with nothing let through, so this needs no relation
    of burst, rate and eviction age. `ReadingsArePast` says how far a reading may lie
    after the bucket was last seen, and so that what an evicted bucket let through is old.

**Lists** (`AnalysisListProofs`), for any analyses, queries, orders, limits and bounds:

31. `TypeCorrect`, `PurgesKeepTheirWord`: an order by age is a bijection of the rows and
    their places, so as many lie behind an offset as there are places behind it, however
    ties are ordered (`BehindOffset`), and none of them is newer than one before it.
32. `NothingIsHidden` and `QuietWalksAreExact`, under `WithinWidth` (no more analyses than
    an offset of 32 bits counts, and a limit that can be added to it in 64 bits):
    `WalkInv` says which positions a walk has behind it; a page shows the positions from
    its offset on (`PageShows`), and a new analysis pushes others back, never forward
    (`PositionsGrow`).
33. `RepositoriesAgree`: equals come in opposite orders, but the places of equals are the
    same ones (`PlacesAreConsecutive`, `DescendingPagesAgree`); the statistics count the
    same sets (`StatisticsAgree`). Of the services, whatever order decides between names
    mentioned equally often, as many are shown with each count (`TopAlike`); a narrowed
    limit is never more than the limit asked for (`NarrowedIsLess`, `ServicesAgree`).

**Diagnosis** (`DiagnosisProofs`), for any collectors, requests, answers, payloads,
thresholds and number of attempts:

34. `TypeCorrect`: `TypeInv` adds what the loop variables have to do with each other; the
    lemmas say that the queries, what each kind of collector makes of its answers, and
    every policy return what they should.
35. `SeverityIsReconciled`, `StrongestIsShown`, `ResultsAreGrounded`, `GapsAreReported`:
    `OutcomeInv` says how the result follows from the evidence and the LLM's answer. The
    ranking is the function that counts who comes before (`Place`), so what is proved of
    the filter needs no induction over a sort.
36. `AllOrNothing`, when no provider is configured twice (`OneOfAKind`; two would put
    their evidence under one name): `WholeInv` says that the evidence consists of what
    finished providers gave, and that what the one being asked has given is held back.
37. `CutShortIsLost`: `CutInv` says where a run can still be once a provider was cut
    short: before the LLM is asked, or waiting to ask it, with its context done; the
    retry loop looks at the context before every attempt, so the call that would make a
    result of the rest is never sent.

Only model-checked is liveness, which is beyond these provers (a proof needs ENABLED and
well-founded induction): `QueuedJobSettles`, `LockReturns` and `DeliverySettles`, each on
the instance of its run and under its fairness. `TypeOK` of the lock and the chat is
contained in `LockInv` and `ChatTypes` as far as their proofs need it.

## 5. Plan

What is left, in this order:

1. Several instances in `ConfigReload`, which have no news of each other's changes: what
   a restart of each repairs.
2. An abstract delivery that `WebhookDelivery` implements, as `JobLifecycle` is one of
   jobs: attempts that are posted, answered and counted, whoever holds a copy.
3. Users as `Accounts` and `HttpGateway` have them, in one module: what a session may do
   from the change of an account to the end of its access token.

## 6. Not modelled

* Text: prompts, parsing of payloads and answers, redaction and masking, export, the
  patterns of the scope policy, and HTTP encoding. What the code decides by them
  (accepted or not, which class of item) is an input or a field of the models.
* Queries to providers: how a template becomes a query, credentials, and the mapping of
  every field; the trace and telemetry endpoints, which fetch and format.
* Values that are not natural numbers: a NaN or an infinity of Prometheus or Loki.
* Health checks: a fan-out of probes without state.
* Configuration, cryptography, logging, metrics, migrations, start-up wiring; generated
  code, except that the statements the models stand for are mapped where they are.

`PROJECT.json` lists every component with its status.
