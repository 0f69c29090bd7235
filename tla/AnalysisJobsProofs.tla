-------------------------- MODULE AnalysisJobsProofs --------------------------
(***************************************************************************)
(* Theorems about AnalysisJobs for every set of jobs, workers, cancel      *)
(* requests and instances and, unless a hypothesis says otherwise, for     *)
(* every backend, repository and combination of faults; and, for the        *)
(* asynchronous contexts that never overlap, that one analysis's run is     *)
(* the life of JobLifecycle.                                                *)
(***************************************************************************)
EXTENDS AnalysisJobs, TLAPS

\* A worker has a job, and a canceler too, exactly while it is not idle; asynq
\* waits for no idle worker.
BusyInv ==
    /\ \A w \in Worker : at[w] = "idle" <=> runJob[w] = None
    /\ \A w \in Worker : holds[w] => runJob[w] # None
    /\ \A c \in Canceler : cancelAt[c] = "idle" <=> cancelJob[c] = None

TypeInv == TypeOK /\ BusyInv

-----------------------------------------------------------------------------
(* The row updates *)

\* Every update of a row yields a row.
LEMMA RowUpdates ==
    ASSUME NEW row \in Row
    PROVE  /\ MarkRunning(row) \in Row
           /\ \A phase \in JobPhase : MarkPhase(row, phase) \in Row
           /\ MarkCompleted(row) \in Row
           /\ MarkFailed(row) \in Row
           /\ MarkCanceled(row) \in Row
<1>1. MarkRunning(row) \in Row
  <2>1. row.attempt + 1 \in Nat /\ row.progress \in 0..100 /\ 0 \in 0..100
    BY DEF Row
  <2>2. CASE Store = "postgres"
    BY <2>1, <2>2 DEF MarkRunning, Row, JobStatus, JobPhase
  <2>3. CASE Store # "postgres"
    BY <2>1, <2>3 DEF MarkRunning, Row, JobStatus, JobPhase
  <2>4. QED BY <2>2, <2>3
<1>2. ASSUME NEW phase \in JobPhase PROVE MarkPhase(row, phase) \in Row
  <2>1. ProgressOf(phase) \in 0..100
    BY <1>2 DEF ProgressOf, JobPhase
  <2>2. QED BY <2>1, <1>2 DEF MarkPhase, Row
<1>3. MarkCompleted(row) \in Row
  <2>1. ASSUME NEW n \in 0..100
        PROVE  [row EXCEPT !.status = "completed", !.analysis = TRUE,
                           !.phase = "done", !.progress = n] \in Row
    BY DEF Row, JobStatus, JobPhase
  <2>2. 100 \in 0..100
    OBVIOUS
  <2>3. QED BY <2>1, <2>2 DEF MarkCompleted
<1>4. MarkFailed(row) \in Row
  BY DEF MarkFailed, Row, JobStatus
<1>5. MarkCanceled(row) \in Row
  BY DEF MarkCanceled, Row, JobStatus
<1>6. QED BY <1>1, <1>2, <1>3, <1>4, <1>5

\* The rows SubmitAnalysis and Init write are rows.
LEMMA FirstRows == PendingRow \in Row /\ AbsentRow \in Row
<1>1. PendingRow \in Row
  BY DEF PendingRow, Row, JobStatus, JobPhase
<1>2. AbsentRow \in Row
  BY <1>1 DEF AbsentRow, Row
<1>3. QED BY <1>1, <1>2

\* The phase executeAnalyze enters next is a phase and a step of a run.
LEMMA NextPhases ==
    ASSUME NEW step \in DOMAIN NextPhase
    PROVE  NextPhase[step] \in JobPhase /\ NextPhase[step] \in Analyzing
  BY DEF NextPhase, Analyzing, JobPhase

-----------------------------------------------------------------------------
(* Types *)

\* A statement on a row, whether it takes effect or not, leaves rows.
LEMMA RowWrites ==
    ASSUME jobs \in [Job -> Row], NEW j, NEW r \in Row,
           \/ Stored(j, r)
           \/ StoreFault(j, r)
           \/ UNCHANGED jobs
    PROVE  jobs' \in [Job -> Row]
  BY DEF Stored, StoreFault

\* The row of a worker's job is a row.
LEMMA RunRow ==
    ASSUME TypeInv, NEW w \in Worker, at[w] # "idle"
    PROVE  runJob[w] \in Job /\ jobs[runJob[w]] \in Row
  BY DEF TypeInv, TypeOK, BusyInv

\* The handler's return keeps the types of what it changes.
LEMMA ReturnTypes ==
    ASSUME TypeInv, NEW w \in Worker, NEW err \in BOOLEAN, at[w] # "idle",
           HandlerReturns(w, err)
    PROVE  /\ at' \in [Worker -> RunStep]
           /\ runJob' \in [Worker -> Job \cup {None}]
           /\ holds' \in [Worker -> BOOLEAN]
           /\ redeliver' \subseteq Job
           /\ \A v \in Worker : at'[v] = "idle" <=> runJob'[v] = None
           /\ \A v \in Worker : holds'[v] => runJob'[v] # None
           /\ UNCHANGED <<queue, deliveries, submitting>>
<1>1. runJob[w] \in Job
  BY RunRow
<1>2. redeliver' \subseteq Job
  BY <1>1 DEF HandlerReturns, Retried, TypeInv, TypeOK
<1>3. QED
  BY <1>2 DEF HandlerReturns, GoTo, TypeInv, TypeOK, BusyInv, RunStep

\* The initial state is typed and every worker is idle.
THEOREM TypeInvInit == Init => TypeInv
<1> SUFFICES ASSUME Init PROVE TypeInv
  OBVIOUS
<1>1. jobs \in [Job -> Row]
  BY FirstRows DEF Init
<1>2. QED
  BY <1>1, NoneAssumption DEF Init, TypeInv, TypeOK, BusyInv, RunStep, CancelStep

\* Every step keeps the types and the frame of the busy workers.
THEOREM TypeInvNext == TypeInv /\ [Next]_vars => TypeInv'
<1> SUFFICES ASSUME TypeInv, [Next]_vars PROVE TypeInv'
  OBVIOUS
<1> USE DEF rowVars, brokerVars, runVars, cancelVars, hostVars
<1>1. ASSUME NEW j \in Job, NEW i \in Instance, SubmitAnalysis(j, i)
      PROVE  TypeInv'
  <2>1. jobs' \in [Job -> Row]
    BY <1>1, RowWrites, FirstRows DEF SubmitAnalysis, TypeInv, TypeOK
  <2>2. QED BY <2>1, <1>1 DEF SubmitAnalysis, TypeInv, TypeOK, BusyInv
<1>2. ASSUME NEW j \in Job, EnqueueAnalysis(j) PROVE TypeInv'
  BY <1>2 DEF EnqueueAnalysis, TypeInv, TypeOK, BusyInv
<1>3. ASSUME NEW j \in Job, EnqueueFails(j) PROVE TypeInv'
  BY <1>3 DEF EnqueueFails, TypeInv, TypeOK, BusyInv
<1>4. ASSUME NEW j \in Job, Redeliver(j) PROVE TypeInv'
  BY <1>4 DEF Redeliver, TypeInv, TypeOK, BusyInv
<1>5. ASSUME NEW w \in Worker, Dequeue(w) PROVE TypeInv'
  <2>1. Head(queue) \in Job /\ Tail(queue) \in Seq(Job)
    BY <1>5 DEF Dequeue, TypeInv, TypeOK
  <2>2. Head(queue) # None
    BY <2>1, NoneAssumption
  <2>3. QED
    BY <2>1, <2>2, <1>5 DEF Dequeue, GoTo, TypeInv, TypeOK, BusyInv, RunStep
<1>6. ASSUME NEW w \in Worker, Load(w) PROVE TypeInv'
  <2>1. CASE HandlerReturns(w, FALSE) \/ HandlerReturns(w, TRUE)
    BY <1>6, <2>1, ReturnTypes DEF Load, TypeInv, TypeOK, BusyInv
  <2>2. CASE GoTo(w, "register") /\ UNCHANGED <<runJob, holds, ctxDone, brokerVars>>
    BY <1>6, <2>2 DEF Load, GoTo, TypeInv, TypeOK, BusyInv, RunStep, Registered
  <2>3. QED BY <1>6, <2>1, <2>2 DEF Load
<1>7. ASSUME NEW w \in Worker, RegisterCancel(w) PROVE TypeInv'
  BY <1>7, InstanceAssumption, RunRow
     DEF RegisterCancel, GoTo, TypeInv, TypeOK, BusyInv, RunStep, Registered
<1>8. ASSUME NEW w \in Worker, StartRun(w) PROVE TypeInv'
  <2>1. jobs' \in [Job -> Row]
    BY <1>8, RunRow, RowUpdates, RowWrites
       DEF StartRun, RunStoreFault, TypeInv, TypeOK
  <2>2. QED
    BY <2>1, <1>8 DEF StartRun, GoTo, TypeInv, TypeOK, BusyInv, RunStep,
                      Registered, Analyzing, Recording
<1>9. ASSUME NEW w \in Worker, Advance(w) PROVE TypeInv'
  <2>1. NextPhase[at[w]] \in JobPhase /\ NextPhase[at[w]] \in Analyzing
    BY <1>9, NextPhases DEF Advance
  <2>2. at[w] # "idle"
    BY <1>9 DEF Advance, NextPhase, Analyzing
  <2>3. jobs' \in [Job -> Row]
    BY <1>9, <2>1, <2>2, RunRow, RowUpdates, RowWrites
       DEF Advance, RunStoreFault, TypeInv, TypeOK
  <2>4. QED
    BY <2>1, <2>2, <2>3, <1>9 DEF Advance, GoTo, TypeInv, TypeOK, BusyInv, RunStep,
                      Registered, Analyzing
<1>10. ASSUME NEW w \in Worker, ProviderFails(w) PROVE TypeInv'
  BY <1>10 DEF ProviderFails, GoTo, TypeInv, TypeOK, BusyInv, RunStep,
               Registered, Recording
<1>11. ASSUME NEW w \in Worker, ProviderCanceled(w) PROVE TypeInv'
  BY <1>11 DEF ProviderCanceled, GoTo, TypeInv, TypeOK, BusyInv, RunStep,
               Registered, Recording
<1>12. ASSUME NEW w \in Worker, SaveAnalysis(w) PROVE TypeInv'
  <2>1. runJob[w] \in Job
    BY <1>12, RunRow DEF SaveAnalysis
  <2>2. saved' \subseteq Job /\ deleted' \subseteq saved' /\ contexts' \subseteq Job
    BY <1>12, <2>1 DEF SaveAnalysis, Upserted, TypeInv, TypeOK
  <2>3. at' \in [Worker -> RunStep] /\ at[w] # "idle" /\ at'[w] # "idle"
    BY <1>12 DEF SaveAnalysis, GoTo, TypeInv, TypeOK, RunStep, Registered, Recording
  <2>4. QED
    BY <2>2, <2>3, <1>12 DEF SaveAnalysis, GoTo, TypeInv, TypeOK, BusyInv
<1>13. ASSUME NEW w \in Worker, CompleteRun(w) PROVE TypeInv'
  <2>1. jobs' \in [Job -> Row]
    BY <1>13, RunRow, RowUpdates, RowWrites
       DEF CompleteRun, RunStoreFault, TypeInv, TypeOK
  <2>2. QED
    BY <2>1, <1>13 DEF CompleteRun, GoTo, TypeInv, TypeOK, BusyInv, RunStep,
                       Registered, Recording
<1>14. ASSUME NEW w \in Worker, FailRun(w) PROVE TypeInv'
  <2>1. jobs' \in [Job -> Row]
    BY <1>14, RunRow, RowUpdates, RowWrites DEF FailRun, TypeInv, TypeOK
  <2>2. QED
    BY <2>1, <1>14 DEF FailRun, GoTo, TypeInv, TypeOK, BusyInv, RunStep,
                       Registered, Recording
<1>15. ASSUME NEW w \in Worker, CancelRun(w) PROVE TypeInv'
  <2>1. jobs' \in [Job -> Row]
    BY <1>15, RunRow, RowUpdates, RowWrites DEF CancelRun, TypeInv, TypeOK
  <2>2. QED
    BY <2>1, <1>15 DEF CancelRun, GoTo, TypeInv, TypeOK, BusyInv, RunStep,
                       Registered, Recording
<1>16. ASSUME NEW w \in Worker, Notify(w) PROVE TypeInv'
  <2>1. runJob[w] \in Job
    BY <1>16 DEF Notify, TypeInv, BusyInv, TypeOK
  <2>2. notified' \in [Job -> SUBSET Event]
    <3>1. PICK e \in Event :
              notified' = [notified EXCEPT ![runJob[w]] = @ \cup {e}]
      BY <1>16 DEF Notify, Event
    <3>2. notified \in [Job -> SUBSET Event]
      BY DEF TypeInv, TypeOK
    <3>3. notified[runJob[w]] \cup {e} \in SUBSET Event
      BY <2>1, <3>2
    <3>4. QED BY <2>1, <3>1, <3>2, <3>3
  <2>3. /\ at' \in [Worker -> RunStep]
        /\ \A v \in Worker : at'[v] = "idle" <=> at[v] = "idle"
    BY <1>16 DEF Notify, GoTo, TypeInv, TypeOK, RunStep, Registered, Recording
  <2>4. QED
    BY <2>2, <2>3, <1>16 DEF Notify, TypeInv, TypeOK, BusyInv
<1>17. ASSUME NEW w \in Worker, ReturnRun(w) PROVE TypeInv'
  <2>1. /\ at[w] # "idle"
        /\ HandlerReturns(w, at[w] = "return_err")
        /\ (at[w] = "return_err") \in BOOLEAN
    BY <1>17 DEF ReturnRun
  <2>2. activeCancels' \in [Instance -> [Job -> Worker \cup {None}]]
    BY <1>17, InstanceAssumption DEF ReturnRun, TypeInv, TypeOK
  <2>3. ctxDone' \in [Worker -> BOOLEAN]
    BY <1>17 DEF ReturnRun
  <2>4. QED
    BY <2>1, <2>2, <2>3, <1>17, ReturnTypes DEF ReturnRun, TypeInv, TypeOK, BusyInv
<1>18. ASSUME NEW w \in Worker, TakeTask(w) PROVE TypeInv'
  <2>1. redeliver' \subseteq Job
    BY <1>18 DEF TakeTask, Retried, TypeInv, TypeOK, BusyInv
  <2>2. mishaps' \in Nat /\ UNCHANGED stopping
    BY <1>18 DEF TakeTask, TypeInv, TypeOK
  <2>3. QED BY <2>1, <2>2, <1>18 DEF TakeTask, TypeInv, TypeOK, BusyInv
<1>19. ASSUME NEW c \in Canceler, NEW j \in Job, RequestCancel(c, j) PROVE TypeInv'
  <2>1. asked' \in [Job -> {"never", "asked", "left"}]
    BY <1>19 DEF RequestCancel, TypeInv, TypeOK
  <2>2. QED
    BY <1>19, <2>1, NoneAssumption DEF RequestCancel, TypeInv, TypeOK, BusyInv, CancelStep
<1>20. ASSUME NEW c \in Canceler, MarkJobCanceled(c) PROVE TypeInv'
  <2>1. cancelJob[c] \in Job /\ jobs[cancelJob[c]] \in Row
    BY <1>20 DEF MarkJobCanceled, TypeInv, TypeOK, BusyInv
  <2>2. jobs' \in [Job -> Row]
    BY <1>20, <2>1, RowUpdates, RowWrites DEF MarkJobCanceled, TypeInv, TypeOK
  <2>3. asked' \in [Job -> {"never", "asked", "left"}]
    BY <1>20 DEF MarkJobCanceled, TypeInv, TypeOK
  <2>4. QED
    BY <2>2, <2>3, <1>20 DEF MarkJobCanceled, TypeInv, TypeOK, BusyInv, CancelStep
<1>21. ASSUME NEW c \in Canceler, InvokeCancel(c) PROVE TypeInv'
  BY <1>21 DEF InvokeCancel, TypeInv, TypeOK, BusyInv, CancelStep
<1>22. ASSUME NEW c \in Canceler, AnswerCancel(c) PROVE TypeInv'
  <2>1. notified' \in [Job -> SUBSET Event]
    <3>1. CASE UNCHANGED notified
      BY <3>1 DEF TypeInv, TypeOK
    <3>2. CASE notified' = [notified EXCEPT ![cancelJob[c]] = @ \cup {"canceled"}]
      <4>1. cancelJob[c] \in Job
        BY <1>22 DEF AnswerCancel, TypeInv, TypeOK, BusyInv
      <4>2. notified[cancelJob[c]] \cup {"canceled"} \in SUBSET Event
        BY <4>1 DEF TypeInv, TypeOK, Event
      <4>3. QED BY <3>2, <4>1, <4>2 DEF TypeInv, TypeOK
    <3>3. QED BY <1>22, <3>1, <3>2 DEF AnswerCancel
  <2>2. QED BY <2>1, <1>22 DEF AnswerCancel, TypeInv, TypeOK, BusyInv, CancelStep
<1>23. ASSUME NEW i \in Instance, Shutdown(i) PROVE TypeInv'
  BY <1>23 DEF Shutdown, TypeInv, TypeOK, BusyInv
<1>24. ASSUME NEW i \in Instance, Restart(i) PROVE TypeInv'
  <2>1. /\ at' \in [Worker -> RunStep]
        /\ runJob' \in [Worker -> Job \cup {None}]
        /\ \A w \in Worker : at'[w] = "idle" <=> runJob'[w] = None
    BY <1>24 DEF Restart, TypeInv, TypeOK, BusyInv, RunStep
  <2>2. /\ cancelAt' \in [Canceler -> CancelStep]
        /\ cancelJob' \in [Canceler -> Job \cup {None}]
        /\ \A c \in Canceler : cancelAt'[c] = "idle" <=> cancelJob'[c] = None
    BY <1>24 DEF Restart, TypeInv, TypeOK, BusyInv, CancelStep
  <2>3. /\ holds' \in [Worker -> BOOLEAN] /\ ctxDone' \in [Worker -> BOOLEAN]
        /\ \A w \in Worker : holds'[w] => runJob'[w] # None
    BY <1>24 DEF Restart, TypeInv, TypeOK, BusyInv
  <2>4. redeliver' \subseteq Job
    <3>1. {runJob[w] : w \in {v \in HomeWorkers(i) : holds[v]}} \subseteq Job
      BY DEF HomeWorkers, TypeInv, TypeOK, BusyInv
    <3>2. redeliver' = Retried({runJob[w] : w \in {v \in HomeWorkers(i) : holds[v]}})
      BY <1>24 DEF Restart
    <3>3. QED BY <3>1, <3>2 DEF Retried, TypeInv, TypeOK
  <2>5. queue' \in Seq(Job)
    BY <1>24 DEF Restart, TypeInv, TypeOK
  <2>6. submitting' \in [Job -> Instance \cup {None}]
    BY <1>24 DEF Restart, TypeInv, TypeOK
  <2>7. /\ activeCancels' \in [Instance -> [Job -> Worker \cup {None}]]
        /\ stopping' \in [Instance -> BOOLEAN]
        /\ mishaps' \in Nat
    BY <1>24 DEF Restart, TypeInv, TypeOK
  <2>8. UNCHANGED <<jobs, saved, deleted, contexts, deliveries, asked, notified>>
    BY <1>24 DEF Restart
  <2>9. QED
    BY <2>1, <2>2, <2>3, <2>4, <2>5, <2>6, <2>7, <2>8 DEF TypeInv, TypeOK, BusyInv
<1>25. ASSUME NEW ids \in SUBSET Job, DeleteAnalyses(ids) PROVE TypeInv'
  <2>1. deleted' \subseteq saved
    BY <1>25 DEF DeleteAnalyses, Analyses, TypeInv, TypeOK
  <2>2. QED BY <2>1, <1>25 DEF DeleteAnalyses, TypeInv, TypeOK, BusyInv
<1>26. CASE UNCHANGED vars
  BY <1>26 DEF vars, TypeInv, TypeOK, BusyInv
<1>27. QED
  BY <1>1, <1>2, <1>3, <1>4, <1>5, <1>6, <1>7, <1>8, <1>9, <1>10, <1>11, <1>12,
     <1>13, <1>14, <1>15, <1>16, <1>17, <1>18, <1>19, <1>20, <1>21, <1>22, <1>23,
     <1>24, <1>25, <1>26 DEF Next, WorkerStep, CancelerStep

\* Every variable keeps the type its declaration gives.
THEOREM TypeCorrect == Spec => [](TypeOK /\ BusyInv)
  BY TypeInvInit, TypeInvNext, PTL DEF Spec, TypeInv

-----------------------------------------------------------------------------
(* The map of cancel functions *)

\* What most steps do: they leave the runs and the map alone, or move one worker
\* from a step of its run to another.
InRun ==
    /\ UNCHANGED <<runJob, activeCancels>>
    /\ \A w \in Worker : \/ at'[w] = at[w]
                         \/ at[w] \in Registered /\ at'[w] \in Registered

\* A step of a registered run that does not end it.
LEMMA WorkerRuns ==
    ASSUME TypeInv, NEW w \in Worker,
           \/ StartRun(w) \/ Advance(w) \/ ProviderFails(w) \/ ProviderCanceled(w)
           \/ SaveAnalysis(w) \/ CompleteRun(w) \/ FailRun(w) \/ CancelRun(w)
           \/ Notify(w)
    PROVE  InRun
<1> USE DEF rowVars, brokerVars, runVars, cancelVars, hostVars, InRun
<1>1. ASSUME NEW step \in Registered, at[w] \in Registered,
             GoTo(w, step), UNCHANGED <<runJob, activeCancels>>
      PROVE  InRun
  BY <1>1 DEF GoTo, TypeInv, TypeOK
<1>2. ASSUME StartRun(w) \/ Advance(w) \/ ProviderFails(w) \/ ProviderCanceled(w)
      PROVE  InRun
  <2>1. CASE StartRun(w)
    BY <2>1, <1>1 DEF StartRun, Registered, Analyzing, Recording
  <2>2. CASE Advance(w)
    <3>1. at[w] \in Registered /\ NextPhase[at[w]] \in Registered
      BY <2>2, NextPhases DEF Advance, Registered, NextPhase
    <3>2. QED BY <2>2, <3>1, <1>1 DEF Advance
  <2>3. CASE ProviderFails(w)
    BY <2>3, <1>1 DEF ProviderFails, Registered, Analyzing, Recording
  <2>4. CASE ProviderCanceled(w)
    BY <2>4, <1>1 DEF ProviderCanceled, Registered, Analyzing, Recording
  <2>5. QED BY <1>2, <2>1, <2>2, <2>3, <2>4
<1>3. ASSUME \/ SaveAnalysis(w) \/ CompleteRun(w) \/ FailRun(w) \/ CancelRun(w)
             \/ Notify(w)
      PROVE  InRun
  <2>1. CASE SaveAnalysis(w)
    BY <2>1, <1>1 DEF SaveAnalysis, Registered, Analyzing, Recording
  <2>2. CASE CompleteRun(w)
    BY <2>2, <1>1 DEF CompleteRun, Registered, Recording
  <2>3. CASE FailRun(w)
    BY <2>3, <1>1 DEF FailRun, Registered, Recording
  <2>4. CASE CancelRun(w)
    BY <2>4, <1>1 DEF CancelRun, Registered, Recording
  <2>5. CASE Notify(w)
    BY <2>5, <1>1 DEF Notify, Registered, Recording
  <2>6. QED BY <1>3, <2>1, <2>2, <2>3, <2>4, <2>5
<1>4. QED BY <1>2, <1>3

\* Only these steps begin or end a run or a registration.
LEMMA RunSteps ==
    ASSUME TypeInv, [Next]_vars
    PROVE  \/ InRun
           \/ \E w \in Worker :
                 Dequeue(w) \/ Load(w) \/ RegisterCancel(w) \/ ReturnRun(w)
           \/ \E i \in Instance : Restart(i)
<1> USE DEF rowVars, brokerVars, runVars, cancelVars, hostVars, InRun
<1>1. ASSUME NEW w \in Worker, TakeTask(w) PROVE InRun
  BY <1>1 DEF TakeTask
<1>2. ASSUME NEW j \in Job,
             \/ \E i \in Instance : SubmitAnalysis(j, i)
             \/ EnqueueAnalysis(j) \/ EnqueueFails(j) \/ Redeliver(j)
      PROVE  InRun
  BY <1>2 DEF SubmitAnalysis, EnqueueAnalysis, EnqueueFails, Redeliver
<1>3. ASSUME NEW c \in Canceler,
             \/ \E j \in Job : RequestCancel(c, j)
             \/ MarkJobCanceled(c) \/ InvokeCancel(c) \/ AnswerCancel(c)
      PROVE  InRun
  BY <1>3 DEF RequestCancel, MarkJobCanceled, InvokeCancel, AnswerCancel
<1>4. ASSUME NEW i \in Instance, Shutdown(i) PROVE InRun
  BY <1>4 DEF Shutdown
<1>5. ASSUME \/ \E ids \in SUBSET Job : DeleteAnalyses(ids)
             \/ UNCHANGED vars
      PROVE  InRun
  BY <1>5 DEF DeleteAnalyses, vars
<1>6. QED
  BY WorkerRuns, <1>1, <1>2, <1>3, <1>4, <1>5 DEF Next, WorkerStep, CancelerStep

\* Load registers nothing and ends or continues a delivery that is not registered.
LEMMA LoadFrame ==
    ASSUME TypeInv, NEW w \in Worker, Load(w)
    PROVE  /\ at[w] \notin Registered /\ at'[w] \notin Registered
           /\ UNCHANGED activeCancels
           /\ \A v \in Worker \ {w} : at'[v] = at[v] /\ runJob'[v] = runJob[v]
  BY DEF Load, HandlerReturns, GoTo, TypeInv, TypeOK, Registered, Analyzing,
         Recording, runVars

\* Entries come from registerCancel and go with the run they name.
LEMMA CancelRegistryNext ==
    ASSUME TypeInv, CancelRegistry, [Next]_vars
    PROVE  CancelRegistry'
<1>1. CASE InRun
  BY <1>1 DEF InRun, CancelRegistry, TypeInv, TypeOK
<1>2. ASSUME NEW w \in Worker, Dequeue(w) PROVE CancelRegistry'
  <2>1. at[w] \notin Registered /\ UNCHANGED activeCancels
    BY <1>2 DEF Dequeue, Registered, Analyzing, Recording
  <2>2. \A v \in Worker \ {w} : at'[v] = at[v] /\ runJob'[v] = runJob[v]
    BY <1>2 DEF Dequeue, GoTo, TypeInv, TypeOK
  <2>3. QED BY <2>1, <2>2 DEF CancelRegistry, TypeInv, TypeOK
<1>3. ASSUME NEW w \in Worker, Load(w) PROVE CancelRegistry'
  <2>1. /\ at[w] \notin Registered /\ UNCHANGED activeCancels
        /\ \A v \in Worker \ {w} : at'[v] = at[v] /\ runJob'[v] = runJob[v]
    BY <1>3, LoadFrame
  <2>2. QED BY <2>1 DEF CancelRegistry, TypeInv, TypeOK
<1>4. ASSUME NEW w \in Worker, RegisterCancel(w) PROVE CancelRegistry'
  <2>1. at' = [at EXCEPT ![w] = "mark_running"] /\ UNCHANGED runJob
    BY <1>4 DEF RegisterCancel, GoTo
  <2>2. \A v \in Worker : at[v] \in Registered => at'[v] \in Registered
    BY <2>1 DEF TypeInv, TypeOK, Registered
  <2>3. ASSUME NEW i \in Instance, NEW j \in Job
        PROVE  \/ activeCancels'[i][j] = activeCancels[i][j]
               \/ activeCancels'[i][j] = w /\ i = Home[w] /\ j = runJob[w]
    BY <1>4 DEF RegisterCancel, TypeInv, TypeOK
  <2>4. at'[w] \in Registered
    BY <2>1 DEF TypeInv, TypeOK, Registered
  <2>5. QED BY <2>1, <2>2, <2>3, <2>4 DEF CancelRegistry, TypeInv, TypeOK
<1>5. ASSUME NEW w \in Worker, ReturnRun(w) PROVE CancelRegistry'
  <2>1. \A v \in Worker \ {w} : at'[v] = at[v] /\ runJob'[v] = runJob[v]
    BY <1>5 DEF ReturnRun, HandlerReturns, GoTo, TypeInv, TypeOK
  <2>2. runJob[w] \in Job /\ Home[w] \in Instance
    BY <1>5, RunRow, InstanceAssumption DEF ReturnRun
  <2>3. ASSUME NEW i \in Instance, NEW j \in Job
        PROVE  \/ activeCancels'[i][j] = None
               \/ /\ activeCancels'[i][j] = activeCancels[i][j]
                  /\ ~(i = Home[w] /\ j = runJob[w])
    BY <1>5, <2>2 DEF ReturnRun, TypeInv, TypeOK
  <2>4. ASSUME NEW i \in Instance, NEW j \in Job, activeCancels'[i][j] # None
        PROVE  /\ Home[activeCancels'[i][j]] = i
               /\ runJob'[activeCancels'[i][j]] = j
               /\ at'[activeCancels'[i][j]] \in Registered
    <3> DEFINE v == activeCancels[i][j]
    <3>1. activeCancels'[i][j] = v /\ v \in Worker /\ ~(i = Home[w] /\ j = runJob[w])
      BY <2>3, <2>4 DEF TypeInv, TypeOK
    <3>2. Home[v] = i /\ runJob[v] = j /\ at[v] \in Registered
      BY <3>1, <2>4 DEF CancelRegistry
    <3>3. v \in Worker \ {w}
      BY <3>1, <3>2
    <3>4. QED BY <2>1, <3>1, <3>2, <3>3
  <2>5. QED BY <2>4 DEF CancelRegistry
<1>6. ASSUME NEW i \in Instance, Restart(i) PROVE CancelRegistry'
  <2>1. \A w \in Worker : Home[w] # i => at'[w] = at[w] /\ runJob'[w] = runJob[w]
    BY <1>6 DEF Restart, HomeWorkers, TypeInv, TypeOK
  <2>2. \A k \in Instance, j \in Job :
           activeCancels'[k][j] = IF k = i THEN None ELSE activeCancels[k][j]
    BY <1>6 DEF Restart, TypeInv, TypeOK
  <2>3. QED BY <2>1, <2>2 DEF CancelRegistry, TypeInv, TypeOK
<1>7. QED BY <1>1, <1>2, <1>3, <1>4, <1>5, <1>6, RunSteps

\* The map of cancel functions has live runs only, with every backend.
THEOREM CancelRegistryCorrect == Spec => []CancelRegistry
<1>1. Init => CancelRegistry
  BY DEF Init, CancelRegistry
<1>2. QED
  BY <1>1, TypeInvInit, TypeInvNext, CancelRegistryNext, PTL DEF Spec
-----------------------------------------------------------------------------
(* Who writes to a row *)

\* Worker w's step writes to the row of j, its job.
RunWrites(w, j) ==
    /\ WorkerStep(w) /\ runJob[w] = j
    /\ \/ at[w] = "mark_running" /\ jobs'[j] = MarkRunning(jobs[j])
       \/ /\ at[w] \in DOMAIN NextPhase
          /\ jobs'[j] = MarkPhase(jobs[j], NextPhase[at[w]])
       \/ /\ at[w] = "mark_completed"
          /\ StoreAccepts(w) \/ "store" \in Faults
          /\ jobs'[j] = MarkCompleted(jobs[j])
       \/ at[w] = "mark_failed" /\ jobs'[j] = MarkFailed(jobs[j])
       \/ at[w] = "mark_canceled" /\ jobs'[j] = MarkCanceled(jobs[j])

\* Canceler c's step marks the row of j canceled.
CancelWrites(c, j) ==
    MarkJobCanceled(c) /\ cancelJob[c] = j /\ jobs'[j] = MarkCanceled(jobs[j])

\* A statement on one row leaves the others alone.
LEMMA OneRow ==
    ASSUME jobs \in [Job -> Row], NEW k \in Job, NEW r, NEW j \in Job,
           \/ Stored(k, r)
           \/ StoreFault(k, r)
           \/ UNCHANGED jobs
    PROVE  jobs'[j] = jobs[j] \/ (k = j /\ jobs'[j] = r)
  BY DEF Stored, StoreFault

\* A row changes by the insert, by a statement of the run that has the job or by
\* the statement of a canceler, and in no other way.
LEMMA RowSteps ==
    ASSUME TypeInv, [Next]_vars, NEW j \in Job, jobs'[j] # jobs[j]
    PROVE  \/ /\ jobs[j].status = "absent" /\ jobs'[j] = PendingRow
              /\ \E i \in Instance : SubmitAnalysis(j, i)
           \/ \E w \in Worker : RunWrites(w, j)
           \/ \E c \in Canceler : CancelWrites(c, j)
<1> USE DEF rowVars, brokerVars, runVars, cancelVars, hostVars
<1>1. jobs \in [Job -> Row]
  BY DEF TypeInv, TypeOK
<1>2. ASSUME NEW k \in Job, NEW i \in Instance, SubmitAnalysis(k, i)
      PROVE  jobs[j].status = "absent" /\ jobs'[j] = PendingRow /\ j = k
  BY <1>1, <1>2, OneRow DEF SubmitAnalysis
<1>3. ASSUME NEW w \in Worker, WorkerStep(w) PROVE RunWrites(w, j)
  <2>1. CASE StartRun(w)
    BY <1>1, <1>3, <2>1, RunRow, OneRow DEF StartRun, RunStoreFault, StoreFault, RunWrites
  <2>2. CASE Advance(w)
    <3>1. at[w] # "idle"
      BY <2>2 DEF Advance, NextPhase, Analyzing
    <3>2. QED BY <1>1, <1>3, <2>2, <3>1, RunRow, OneRow DEF Advance, RunStoreFault, RunWrites
  <2>3. CASE CompleteRun(w)
    BY <1>1, <1>3, <2>3, RunRow, OneRow DEF CompleteRun, RunStoreFault, StoreFault, RunWrites
  <2>4. CASE FailRun(w)
    BY <1>1, <1>3, <2>4, RunRow, OneRow DEF FailRun, RunWrites
  <2>5. CASE CancelRun(w)
    BY <1>1, <1>3, <2>5, RunRow, OneRow DEF CancelRun, RunWrites
  <2>6. CASE \/ Dequeue(w) \/ Load(w) \/ RegisterCancel(w) \/ ProviderFails(w)
             \/ ProviderCanceled(w) \/ SaveAnalysis(w) \/ Notify(w) \/ ReturnRun(w)
    BY <2>6 DEF Dequeue, Load, RegisterCancel, ProviderFails, ProviderCanceled,
                SaveAnalysis, Notify, ReturnRun
  <2>7. QED BY <1>3, <2>1, <2>2, <2>3, <2>4, <2>5, <2>6 DEF WorkerStep
<1>4. ASSUME NEW c \in Canceler, CancelerStep(c) PROVE CancelWrites(c, j)
  <2>1. CASE MarkJobCanceled(c)
    <3>1. cancelJob[c] \in Job
      BY <2>1 DEF MarkJobCanceled, TypeInv, TypeOK, BusyInv
    <3>2. QED BY <1>1, <2>1, <3>1, OneRow DEF MarkJobCanceled, CancelWrites
  <2>2. CASE InvokeCancel(c) \/ AnswerCancel(c)
    BY <2>2 DEF InvokeCancel, AnswerCancel
  <2>3. QED BY <1>4, <2>1, <2>2 DEF CancelerStep
<1>5. ASSUME \/ \E k \in Job : EnqueueAnalysis(k) \/ EnqueueFails(k) \/ Redeliver(k)
             \/ \E w \in Worker : TakeTask(w)
             \/ \E c \in Canceler, k \in Job : RequestCancel(c, k)
             \/ \E i \in Instance : Shutdown(i) \/ Restart(i)
             \/ \E ids \in SUBSET Job : DeleteAnalyses(ids)
             \/ UNCHANGED vars
      PROVE  FALSE
  BY <1>5 DEF EnqueueAnalysis, EnqueueFails, Redeliver, TakeTask, RequestCancel,
              Shutdown, Restart, DeleteAnalyses, vars
<1>6. QED BY <1>2, <1>3, <1>4, <1>5 DEF Next

-----------------------------------------------------------------------------
(* Outcomes are final *)

\* A canceler takes a job whose row is not terminal, which thereby counts as asked for,
\* keeps it or drops it.
LEMMA CancelSteps ==
    ASSUME TypeInv, [Next]_vars, NEW c \in Canceler
    PROVE  \/ cancelJob'[c] = cancelJob[c]
           \/ cancelJob'[c] = None
           \/ /\ cancelJob'[c] \in Job
              /\ jobs[cancelJob'[c]].status \notin TerminalStatus
              /\ asked'[cancelJob'[c]] # "never"
<1> USE DEF rowVars, brokerVars, runVars, cancelVars, hostVars
<1>1. ASSUME NEW d \in Canceler, NEW j \in Job, RequestCancel(d, j)
      PROVE  \/ cancelJob'[c] = cancelJob[c]
             \/ /\ cancelJob'[c] = j /\ jobs[j].status \notin TerminalStatus
                /\ asked'[j] # "never"
  BY <1>1 DEF RequestCancel, TypeInv, TypeOK
<1>2. ASSUME NEW d \in Canceler, CancelerStep(d)
      PROVE  cancelJob'[c] = cancelJob[c] \/ cancelJob'[c] = None
  BY <1>2 DEF CancelerStep, MarkJobCanceled, InvokeCancel, AnswerCancel,
              TypeInv, TypeOK
<1>3. ASSUME NEW i \in Instance, Restart(i)
      PROVE  cancelJob'[c] = cancelJob[c] \/ cancelJob'[c] = None
  BY <1>3 DEF Restart
<1>4. ASSUME NEW w \in Worker, WorkerStep(w) \/ TakeTask(w)
      PROVE  UNCHANGED cancelJob
  BY <1>4 DEF WorkerStep, Dequeue, Load, RegisterCancel, StartRun, Advance,
       ProviderFails, ProviderCanceled, SaveAnalysis, CompleteRun, FailRun,
       CancelRun, Notify, ReturnRun, TakeTask
<1>5. ASSUME \/ \E j \in Job, i \in Instance : SubmitAnalysis(j, i)
             \/ \E j \in Job : EnqueueAnalysis(j) \/ EnqueueFails(j) \/ Redeliver(j)
             \/ \E i \in Instance : Shutdown(i)
             \/ \E ids \in SUBSET Job : DeleteAnalyses(ids)
             \/ UNCHANGED vars
      PROVE  UNCHANGED cancelJob
  BY <1>5 DEF SubmitAnalysis, EnqueueAnalysis, EnqueueFails, Redeliver, Shutdown,
      DeleteAnalyses, vars
<1>6. QED BY <1>1, <1>2, <1>3, <1>4, <1>5 DEF Next

\* A run that starts on j has found a row that is not completed or canceled.
LEMMA StartSteps ==
    ASSUME TypeInv, [Next]_vars, NEW j \in Job, NEW w \in Worker,
           runJob'[w] = j, at'[w] # "load"
    PROVE  /\ runJob[w] = j
           /\ \/ at[w] # "load"
              \/ jobs[j].status \notin {"completed", "canceled"}
<1>1. j # None
  BY NoneAssumption
<1>2. CASE InRun
  BY <1>2 DEF InRun, Registered, Analyzing, Recording
<1>3. ASSUME NEW v \in Worker, Dequeue(v)
      PROVE  runJob[w] = j /\ at[w] # "load"
  BY <1>3 DEF Dequeue, GoTo, TypeInv, TypeOK
<1>4. ASSUME NEW v \in Worker, Load(v)
      PROVE  /\ runJob[w] = j
             /\ at[w] # "load" \/ jobs[j].status \notin {"completed", "canceled"}
  BY <1>1, <1>4 DEF Load, HandlerReturns, GoTo, TypeInv, TypeOK
<1>5. ASSUME NEW v \in Worker, RegisterCancel(v)
      PROVE  runJob[w] = j /\ at[w] # "load"
  BY <1>5 DEF RegisterCancel, GoTo, TypeInv, TypeOK
<1>6. ASSUME NEW v \in Worker, ReturnRun(v)
      PROVE  runJob[w] = j /\ at[w] # "load"
  BY <1>1, <1>6 DEF ReturnRun, HandlerReturns, GoTo, TypeInv, TypeOK
<1>7. ASSUME NEW i \in Instance, Restart(i)
      PROVE  runJob[w] = j /\ at[w] # "load"
  BY <1>1, <1>7 DEF Restart, TypeInv, TypeOK
<1>8. QED BY <1>2, <1>3, <1>4, <1>5, <1>6, <1>7, RunSteps

\* Analyses are stored by a run that saves one, and deleted by retention alone.
LEMMA SavingSteps ==
    ASSUME [Next]_vars
    PROVE  \/ UNCHANGED saved /\ deleted \subseteq deleted'
           \/ \E w \in Worker : SaveAnalysis(w)
<1> USE DEF rowVars, brokerVars, runVars, cancelVars, hostVars
<1>1. ASSUME NEW w \in Worker, WorkerStep(w) \/ TakeTask(w), ~SaveAnalysis(w)
      PROVE  UNCHANGED <<saved, deleted>>
  BY <1>1 DEF WorkerStep, Dequeue, Load, RegisterCancel, StartRun, Advance, ProviderFails,
       ProviderCanceled, CompleteRun, FailRun, CancelRun, Notify, ReturnRun, TakeTask
<1>2. ASSUME NEW c \in Canceler, CancelerStep(c) \/ \E j \in Job : RequestCancel(c, j)
      PROVE  UNCHANGED <<saved, deleted>>
  BY <1>2 DEF CancelerStep, MarkJobCanceled, InvokeCancel, AnswerCancel, RequestCancel
<1>3. ASSUME \/ \E j \in Job, i \in Instance : SubmitAnalysis(j, i)
             \/ \E j \in Job : EnqueueAnalysis(j) \/ EnqueueFails(j) \/ Redeliver(j)
             \/ \E i \in Instance : Shutdown(i) \/ Restart(i)
             \/ UNCHANGED vars
      PROVE  UNCHANGED <<saved, deleted>>
  BY <1>3 DEF SubmitAnalysis, EnqueueAnalysis, EnqueueFails, Redeliver, Shutdown,
       Restart, vars
<1>4. ASSUME NEW ids \in SUBSET Job, DeleteAnalyses(ids)
      PROVE  UNCHANGED saved /\ deleted \subseteq deleted'
  BY <1>4 DEF DeleteAnalyses
<1>5. QED BY <1>1, <1>2, <1>3, <1>4 DEF Next

\* A final row has no writer, and no step gives it one; nor does a run that could save
\* its analysis again.
LEMMA FinalNext ==
    ASSUME TypeInv, [Next]_vars, NEW j \in Job, Final(j)
    PROVE  /\ Final(j)' /\ jobs'[j] = jobs[j]
           /\ j \in Analyses' => j \in Analyses
<1>1. jobs'[j] = jobs[j]
  <2>1. \A w \in Worker : ~RunWrites(w, j)
    BY DEF Final, Started, RunWrites, NextPhase, Analyzing
  <2>2. \A c \in Canceler : ~CancelWrites(c, j)
    BY DEF Final, Canceling, CancelWrites
  <2>3. jobs[j].status # "absent"
    BY DEF Final
  <2>4. QED BY <2>1, <2>2, <2>3, RowSteps
<1>2. ~Started(j)'
  BY StartSteps DEF Final, Started
<1>3. ~Canceling(j)'
  BY CancelSteps, NoneAssumption DEF Final, Canceling, TerminalStatus
<1>4. j \in Analyses' => j \in Analyses
  <2>1. CASE UNCHANGED saved /\ deleted \subseteq deleted'
    BY <2>1 DEF Analyses
  <2>2. ASSUME NEW w \in Worker, SaveAnalysis(w)
        PROVE  saved' \ {runJob[w]} = saved \ {runJob[w]} /\ runJob[w] # j
               /\ deleted' \cup {runJob[w]} = deleted \cup {runJob[w]}
    BY <2>2 DEF SaveAnalysis, Upserted, Final, Started
  <2>3. CASE \E w \in Worker : SaveAnalysis(w)
    BY <2>2, <2>3 DEF Analyses
  <2>4. QED BY <2>1, <2>3, SavingSteps
<1>5. QED BY <1>1, <1>2, <1>3, <1>4 DEF Final

\* No retry, late delivery, request or restart changes a settled outcome, with
\* every backend and whatever fails.
THEOREM OutcomesAreFinal == Spec => OutcomeIsFinal
<1>1. TypeInv /\ [Next]_vars
        => [\A j \in Job : Final(j) =>
              /\ Final(j)' /\ jobs'[j] = jobs[j]
              /\ j \in Analyses' => j \in Analyses]_vars
  BY FinalNext
<1>2. QED
  BY <1>1, TypeInvInit, TypeInvNext, PTL DEF Spec, OutcomeIsFinal
-----------------------------------------------------------------------------
(* Completed jobs have their analysis *)

\* What is said to be completed or cached was stored, deleted since or not.
StoredBefore ==
    /\ \A j \in Job : jobs[j].status = "completed" => jobs[j].analysis
    /\ \A j \in Job : jobs[j].analysis \/ "completed" \in notified[j] => j \in saved
    /\ contexts \subseteq saved

\* That, and what makes it inductive: a run about to mark its job completed, or to
\* announce it, has saved the analysis.
StoredInv ==
    /\ StoredBefore
    /\ \A w \in Worker :
          at[w] \in {"mark_completed", "notify_completed"} => runJob[w] \in saved

\* What rows say of analyses: the analysis is set by MarkCompleted alone, and
\* nothing takes it away from a completed row.
LEMMA AnalysisOfRows ==
    ASSUME TypeInv, StoredInv, [Next]_vars, NEW j \in Job
    PROVE  /\ jobs'[j].status = "completed" => jobs'[j].analysis
           /\ jobs'[j].analysis => j \in saved
<1>1. jobs[j] \in Row
  BY DEF TypeInv, TypeOK
<1>2. /\ jobs[j].status = "completed" => jobs[j].analysis
      /\ jobs[j].analysis => j \in saved
  BY DEF StoredInv, StoredBefore
<1>3. CASE jobs'[j] = PendingRow
  BY <1>3 DEF PendingRow
<1>4. ASSUME NEW w \in Worker, RunWrites(w, j)
      PROVE  /\ jobs'[j].status = "completed" => jobs'[j].analysis
             /\ jobs'[j].analysis => j \in saved
  <2>1. CASE at[w] = "mark_completed"
    <3>1. jobs'[j] = MarkCompleted(jobs[j]) /\ j \in saved
      BY <2>1, <1>4 DEF RunWrites, StoredInv, NextPhase, Analyzing
    <3>2. QED BY <3>1, <1>1 DEF MarkCompleted, Row
  <2>2. CASE jobs'[j] = MarkRunning(jobs[j])
    BY <2>2, <1>1, <1>2 DEF MarkRunning, Row
  <2>3. CASE jobs'[j] = MarkPhase(jobs[j], NextPhase[at[w]])
    BY <2>3, <1>1, <1>2 DEF MarkPhase, Row
  <2>4. CASE jobs'[j] = MarkFailed(jobs[j]) \/ jobs'[j] = MarkCanceled(jobs[j])
    BY <2>4, <1>1, <1>2 DEF MarkFailed, MarkCanceled, Row
  <2>5. QED BY <1>4, <2>1, <2>2, <2>3, <2>4 DEF RunWrites
<1>5. CASE jobs'[j] = MarkCanceled(jobs[j])
  BY <1>5, <1>1, <1>2 DEF MarkCanceled, Row
<1>6. QED BY <1>2, <1>3, <1>4, <1>5, RowSteps DEF CancelWrites

\* The steps that neither save, nor announce a completion, nor bring a run to one.
Silent ==
    /\ UNCHANGED <<saved, contexts>>
    /\ \A j \in Job : "completed" \in notified'[j] => "completed" \in notified[j]
    /\ \A w \in Worker :
          at'[w] \in {"mark_completed", "notify_completed"} =>
              at'[w] = at[w] /\ runJob'[w] = runJob[w]

\* All steps are silent but saving, marking completed and announcing it.
LEMMA SilentSteps ==
    ASSUME TypeInv, [Next]_vars
    PROVE  \/ Silent
           \/ \E w \in Worker : SaveAnalysis(w) \/ CompleteRun(w) \/ Notify(w)
<1> USE DEF rowVars, brokerVars, runVars, cancelVars, hostVars, Silent
<1>1. ASSUME NEW w \in Worker, Dequeue(w) \/ Load(w) \/ ReturnRun(w)
      PROVE  Silent
  BY <1>1 DEF Dequeue, Load, ReturnRun, HandlerReturns, GoTo, TypeInv, TypeOK
<1>2. ASSUME NEW w \in Worker,
             \/ RegisterCancel(w) \/ StartRun(w) \/ ProviderFails(w)
             \/ ProviderCanceled(w) \/ FailRun(w) \/ CancelRun(w) \/ TakeTask(w)
      PROVE  Silent
  BY <1>2 DEF RegisterCancel, StartRun, ProviderFails, ProviderCanceled, FailRun,
              CancelRun, TakeTask, GoTo, TypeInv, TypeOK
<1>3. ASSUME NEW w \in Worker, Advance(w) PROVE Silent
  <2>1. NextPhase[at[w]] \in Analyzing
    BY <1>3, NextPhases DEF Advance
  <2>2. QED BY <1>3, <2>1 DEF Advance, Analyzing, GoTo, TypeInv, TypeOK
<1>4. ASSUME NEW c \in Canceler, AnswerCancel(c) PROVE Silent
  <2>1. ASSUME NEW j \in Job, "completed" \in notified'[j]
        PROVE  "completed" \in notified[j]
    <3>1. cancelJob[c] \in Job
      BY <1>4 DEF AnswerCancel, TypeInv, TypeOK, BusyInv
    <3>2. \/ notified'[j] = notified[j]
          \/ notified'[j] = notified[j] \cup {"canceled"}
      BY <1>4, <3>1 DEF AnswerCancel, TypeInv, TypeOK
    <3>3. QED BY <2>1, <3>2
  <2>2. QED BY <1>4, <2>1 DEF AnswerCancel
<1>5. ASSUME NEW i \in Instance, Restart(i) PROVE Silent
  BY <1>5 DEF Restart, TypeInv, TypeOK
<1>6. ASSUME \/ \E j \in Job, i \in Instance : SubmitAnalysis(j, i)
             \/ \E j \in Job : EnqueueAnalysis(j) \/ EnqueueFails(j) \/ Redeliver(j)
             \/ \E c \in Canceler, j \in Job : RequestCancel(c, j)
             \/ \E c \in Canceler : MarkJobCanceled(c) \/ InvokeCancel(c)
             \/ \E i \in Instance : Shutdown(i)
             \/ \E ids \in SUBSET Job : DeleteAnalyses(ids)
             \/ UNCHANGED vars
      PROVE  Silent
  BY <1>6 DEF SubmitAnalysis, EnqueueAnalysis, EnqueueFails, Redeliver,
              RequestCancel, MarkJobCanceled, InvokeCancel, Shutdown, DeleteAnalyses, vars
<1>7. QED
  BY <1>1, <1>2, <1>3, <1>4, <1>5, <1>6 DEF Next, WorkerStep, CancelerStep

\* A run marks its row completed after it saved the analysis, never before.
LEMMA StoredInvNext ==
    ASSUME TypeInv, StoredInv, [Next]_vars
    PROVE  StoredInv'
<1>1. /\ saved \subseteq saved'
      /\ contexts' \subseteq saved'
      /\ \A j \in Job : "completed" \in notified'[j] => j \in saved'
      /\ \A w \in Worker : at'[w] \in {"mark_completed", "notify_completed"}
                              => runJob'[w] \in saved'
  <2>1. CASE Silent
    BY <2>1 DEF Silent, StoredInv, StoredBefore
  <2>2. ASSUME NEW w \in Worker, SaveAnalysis(w) PROVE <1>1!:
    BY <2>2 DEF SaveAnalysis, GoTo, brokerVars, StoredInv, StoredBefore,
                Upserted, TypeInv, TypeOK
  <2>3. ASSUME NEW w \in Worker, CompleteRun(w) PROVE <1>1!:
    BY <2>3 DEF CompleteRun, GoTo, StoredInv, StoredBefore, TypeInv, TypeOK
  <2>4. ASSUME NEW w \in Worker, Notify(w) PROVE <1>1!:
    <3>1. runJob[w] \in Job /\ UNCHANGED <<saved, contexts, runJob>>
      BY <2>4, RunRow DEF Notify, rowVars
    <3>2. \A v \in Worker : at'[v] \in {"mark_completed", "notify_completed"}
                              => at'[v] = at[v]
      BY <2>4 DEF Notify, GoTo, TypeInv, TypeOK
    <3>3. ASSUME NEW j \in Job, "completed" \in notified'[j] PROVE j \in saved
      <4>1. \/ notified'[j] = notified[j]
            \/ j = runJob[w] /\ at[w] = "notify_completed"
            \/ j = runJob[w] /\ notified'[j] = notified[j] \cup {"failed"}
        BY <2>4, <3>1 DEF Notify, TypeInv, TypeOK
      <4>2. QED BY <3>3, <4>1 DEF StoredInv, StoredBefore
    <3>4. QED BY <3>1, <3>2, <3>3 DEF StoredInv, StoredBefore
  <2>5. QED BY <2>1, <2>2, <2>3, <2>4, SilentSteps
<1>2. QED BY <1>1, AnalysisOfRows DEF StoredInv, StoredBefore

\* Whoever learns that a job completed finds its analysis unless retention deleted it
\* after it was stored, with every backend, repository and combination of faults.
THEOREM CompletedStored == Spec => []CompletedIsStored
<1>1. Init => StoredInv
  BY DEF Init, StoredInv, StoredBefore, AbsentRow, PendingRow
<1>2. TypeInv /\ StoredInv => CompletedIsStored
  BY DEF StoredInv, StoredBefore, CompletedIsStored, Analyses, TypeInv, TypeOK
<1>3. QED
  BY <1>1, <1>2, TypeInvInit, TypeInvNext, StoredInvNext, PTL DEF Spec

-----------------------------------------------------------------------------
(***************************************************************************)
(* While runs do not overlap: who has a job, which runs a cancel request    *)
(* reaches, when a completion may overwrite a cancellation, and what is     *)
(* left of a job nobody attends to.                                         *)
(***************************************************************************)

\* No run of a job is still under way when the next one starts: the channel
\* and the Redis list deliver once, and asynq takes no task from a worker that
\* runs it unless its lease expires or the server stops.
NoOverlap == SingleDelivery \/ Faults \cap {"lease", "shutdown"} = {}

\* Only asynq delivers again, a row that was never inserted has no owner, and
\* no job has two owners, one of which may be the broker.
OwnerInv ==
    /\ SingleDelivery => redeliver = {} /\ \A w \in Worker : ~holds[w]
    /\ "shutdown" \notin Faults => \A i \in Instance : ~stopping[i]
    /\ \A j \in Job : jobs[j].status = "absent" => ~Attended(j)
    /\ \A j \in redeliver : /\ ~InQueue(j) /\ submitting[j] = None
                            /\ \A w \in Worker : runJob[w] # j
    /\ SingleOwner

-----------------------------------------------------------------------------
(* The queue *)

\* No job is twice in the queue.
Distinct == \A m, n \in 1..Len(queue) : queue[m] = queue[n] => m = n

\* Appending a job that is not queued keeps the queue free of duplicates.
LEMMA QueueAppend ==
    ASSUME queue \in Seq(Job), Distinct, NEW j \in Job, ~InQueue(j),
           queue' = Append(queue, j)
    PROVE  /\ Distinct'
           /\ \A k \in Job : InQueue(k)' => InQueue(k) \/ k = j
<1>1. /\ Len(queue') = Len(queue) + 1 /\ Len(queue) \in Nat
      /\ queue'[Len(queue) + 1] = j
      /\ \A n \in 1..Len(queue) : queue'[n] = queue[n]
  OBVIOUS
<1>2. \A n \in 1..Len(queue') : n \in 1..Len(queue) \/ n = Len(queue) + 1
  BY <1>1
<1>3. QED BY <1>1, <1>2 DEF Distinct, InQueue

\* Taking the oldest job leaves it in the queue no more.
LEMMA QueueTail ==
    ASSUME queue \in Seq(Job), queue # <<>>, Distinct, queue' = Tail(queue),
           NEW j \in Job, j = Head(queue)
    PROVE  /\ Distinct'
           /\ InQueue(j) /\ ~InQueue(j)'
           /\ \A k \in Job : InQueue(k)' => InQueue(k)
<1>1. /\ Len(queue) \in Nat \ {0} /\ Len(queue') = Len(queue) - 1
      /\ j = queue[1]
      /\ \A n \in 1..Len(queue') : n + 1 \in 1..Len(queue) /\ queue'[n] = queue[n + 1]
  OBVIOUS
<1>2. Distinct'
  BY <1>1 DEF Distinct
<1>3. InQueue(j)
  BY <1>1 DEF InQueue
<1>4. \A k \in Job : InQueue(k)' => InQueue(k)
  BY <1>1 DEF InQueue
<1>5. ~InQueue(j)'
  <2>1. ASSUME NEW n \in 1..Len(queue'), queue'[n] = j PROVE FALSE
    <3>1. n + 1 = 1
      BY <1>1, <2>1 DEF Distinct
    <3>2. QED BY <3>1, <1>1
  <2>2. QED BY <2>1 DEF InQueue
<1>6. QED BY <1>2, <1>3, <1>4, <1>5

-----------------------------------------------------------------------------
(* One owner *)

\* The steps that do not pass a job from one place to another.
Keeps == UNCHANGED <<queue, submitting, runJob, redeliver, holds>>

\* Most steps of a worker move no job between the places it can be in, and
\* nobody takes a task from a worker.
LEMMA OwnerSteps ==
    ASSUME NoOverlap, TypeInv, OwnerInv, [Next]_vars
    PROVE  \/ Keeps
           \/ \E j \in Job, i \in Instance : SubmitAnalysis(j, i)
           \/ \E j \in Job : EnqueueAnalysis(j) \/ EnqueueFails(j) \/ Redeliver(j)
           \/ \E w \in Worker : Dequeue(w) \/ Load(w) \/ ReturnRun(w)
           \/ \E i \in Instance : Restart(i)
<1> USE DEF rowVars, brokerVars, runVars, cancelVars, hostVars, Keeps
<1>1. ASSUME NEW w \in Worker, WorkerStep(w), ~Dequeue(w), ~Load(w), ~ReturnRun(w)
      PROVE  Keeps
  BY <1>1 DEF WorkerStep, RegisterCancel, StartRun, Advance, ProviderFails,
       ProviderCanceled, SaveAnalysis, CompleteRun, FailRun, CancelRun, Notify
<1>2. ASSUME NEW w \in Worker, TakeTask(w) PROVE FALSE
  <2>1. Home[w] \in Instance
    BY InstanceAssumption
  <2>2. QED BY <1>2, <2>1 DEF TakeTask, OwnerInv, NoOverlap
<1>3. ASSUME \/ \E c \in Canceler, j \in Job : RequestCancel(c, j)
             \/ \E c \in Canceler : CancelerStep(c)
             \/ \E i \in Instance : Shutdown(i)
             \/ \E ids \in SUBSET Job : DeleteAnalyses(ids)
             \/ UNCHANGED vars
      PROVE  Keeps
  BY <1>3 DEF RequestCancel, CancelerStep, MarkJobCanceled, InvokeCancel,
              AnswerCancel, Shutdown, DeleteAnalyses, vars
<1>4. QED BY <1>1, <1>2, <1>3 DEF Next

\* A row that exists never becomes absent.
LEMMA RowsStay ==
    ASSUME TypeInv, [Next]_vars, NEW j \in Job, jobs[j].status # "absent"
    PROVE  jobs'[j].status # "absent"
<1>1. jobs[j] \in Row
  BY DEF TypeInv, TypeOK
<1>2. CASE jobs'[j] = PendingRow
  BY <1>2 DEF PendingRow
<1>3. ASSUME NEW w \in Worker, RunWrites(w, j) PROVE jobs'[j].status # "absent"
  BY <1>1, <1>3 DEF RunWrites, MarkRunning, MarkPhase, MarkCompleted, MarkFailed,
                    MarkCanceled, Row
<1>4. CASE jobs'[j] = MarkCanceled(jobs[j])
  BY <1>1, <1>4 DEF MarkCanceled, Row
<1>5. QED BY <1>2, <1>3, <1>4, RowSteps DEF CancelWrites

\* A handler that returns gives the job up, to the broker if that still waits
\* for the result.
LEMMA ReturnDrops ==
    ASSUME TypeInv, OwnerInv, NEW w \in Worker, NEW err \in BOOLEAN, at[w] # "idle",
           HandlerReturns(w, err)
    PROVE  /\ UNCHANGED <<queue, submitting>>
           /\ runJob' = [runJob EXCEPT ![w] = None]
           /\ \A v \in Worker : holds'[v] => holds[v] /\ v # w
           /\ redeliver' \subseteq redeliver \cup {runJob[w]}
           /\ SingleDelivery => redeliver' = redeliver
  BY DEF HandlerReturns, Retried, OwnerInv, TypeInv, TypeOK

\* Nobody stops an instance unless shutdowns occur.
LEMMA StoppingSteps ==
    ASSUME TypeInv, [Next]_vars, "shutdown" \notin Faults, \A i \in Instance : ~stopping[i]
    PROVE  \A i \in Instance : ~stopping'[i]
<1> USE DEF rowVars, brokerVars, runVars, cancelVars, hostVars
<1>1. ASSUME NEW w \in Worker, WorkerStep(w) \/ TakeTask(w) PROVE UNCHANGED stopping
  BY <1>1 DEF WorkerStep, Dequeue, Load, RegisterCancel, StartRun, Advance, ProviderFails,
       ProviderCanceled, SaveAnalysis, CompleteRun, FailRun, CancelRun, Notify,
       ReturnRun, TakeTask
<1>2. ASSUME NEW c \in Canceler, CancelerStep(c) \/ \E j \in Job : RequestCancel(c, j)
      PROVE  UNCHANGED stopping
  BY <1>2 DEF CancelerStep, MarkJobCanceled, InvokeCancel, AnswerCancel, RequestCancel
<1>3. ASSUME NEW j \in Job,
             \/ \E i \in Instance : SubmitAnalysis(j, i)
             \/ EnqueueAnalysis(j) \/ EnqueueFails(j) \/ Redeliver(j)
      PROVE  UNCHANGED stopping
  BY <1>3 DEF SubmitAnalysis, EnqueueAnalysis, EnqueueFails, Redeliver
<1>4. ASSUME NEW i \in Instance, Shutdown(i) \/ Restart(i)
      PROVE  \A k \in Instance : ~stopping'[k]
  BY <1>4 DEF Shutdown, Restart, TypeInv, TypeOK
<1>5. ASSUME NEW ids \in SUBSET Job, DeleteAnalyses(ids) PROVE UNCHANGED stopping
  BY <1>5 DEF DeleteAnalyses
<1>6. QED BY <1>1, <1>2, <1>3, <1>4, <1>5 DEF Next, vars

\* Ownership moves from the submitter to the queue to one worker, and from
\* there perhaps to the broker and to the queue again.
LEMMA OwnerInvNext ==
    ASSUME NoOverlap, TypeInv, OwnerInv, [Next]_vars
    PROVE  OwnerInv'
<1> DEFINE NobodyHolds == SingleDelivery => redeliver = {} /\ \A w \in Worker : ~holds[w]
           AbsentUnowned == \A j \in Job : jobs[j].status = "absent" => ~Attended(j)
           Waiting == \A j \in redeliver : /\ ~InQueue(j) /\ submitting[j] = None
                                           /\ \A w \in Worker : runJob[w] # j
           Calm == "shutdown" \notin Faults => \A i \in Instance : ~stopping[i]
<1> USE DEF rowVars, brokerVars, runVars, cancelVars, hostVars
<1>1. NobodyHolds /\ AbsentUnowned /\ Waiting /\ SingleOwner /\ Distinct
  BY DEF OwnerInv, SingleOwner, Distinct
<1>2. ASSUME \A j \in Job : Attended(j)' => Attended(j) PROVE AbsentUnowned'
  BY <1>1, <1>2, RowsStay
<1>a. Calm'
  BY StoppingSteps DEF OwnerInv
<1>b. ASSUME NobodyHolds', AbsentUnowned', Waiting', SingleOwner' PROVE OwnerInv'
  BY <1>a, <1>b DEF OwnerInv
<1>c. /\ \A w \in Worker : runJob[w] # None => runJob[w] \in Job
      /\ redeliver \subseteq Job
  BY DEF TypeInv, TypeOK
<1>3. CASE Keeps
  <2>1. \A j \in Job : Attended(j)' <=> Attended(j)
    BY <1>3 DEF Keeps, Attended, InQueue
  <2>2. NobodyHolds' /\ Waiting'
    BY <1>1, <1>3 DEF Keeps, InQueue
  <2>3. SingleOwner'
    BY <1>1, <1>3 DEF Keeps, SingleOwner, InQueue
  <2>4. QED BY <1>2, <1>b, <2>1, <2>2, <2>3
<1>4. ASSUME NEW j \in Job, NEW i \in Instance, SubmitAnalysis(j, i)
      PROVE  OwnerInv'
  <2>1. /\ ~Attended(j) /\ UNCHANGED <<queue, redeliver, runJob, holds>>
        /\ submitting' = [submitting EXCEPT ![j] = i] /\ i # None
    BY <1>1, <1>4, NoneAssumption DEF SubmitAnalysis
  <2>2. ASSUME NEW k \in Job, jobs'[k].status = "absent" PROVE ~Attended(k)'
    <3>1. k # j
      BY <1>4, <2>2 DEF SubmitAnalysis, Stored, PendingRow, TypeInv, TypeOK
    <3>2. ~Attended(k)
      BY <1>1, <2>2, RowsStay
    <3>3. QED BY <2>1, <3>1, <3>2 DEF Attended, InQueue, TypeInv, TypeOK
  <2>3. \A k \in Job : InQueue(k)' <=> InQueue(k)
    BY <2>1 DEF InQueue
  <2>4. ~InQueue(j) /\ j \notin redeliver /\ \A w \in Worker : runJob[w] # j
    BY <2>1 DEF Attended
  <2>5. SingleOwner'
    BY <1>1, <2>1, <2>3, <2>4 DEF SingleOwner, TypeInv, TypeOK
  <2>6. Waiting'
    BY <1>1, <1>c, <2>1, <2>3, <2>4 DEF TypeInv, TypeOK
  <2>7. QED BY <1>1, <1>b, <2>1, <2>2, <2>5, <2>6
<1>5. ASSUME NEW j \in Job, EnqueueAnalysis(j) PROVE OwnerInv'
  <2>1. /\ submitting[j] # None /\ submitting' = [submitting EXCEPT ![j] = None]
        /\ queue' = Append(queue, j) /\ UNCHANGED <<redeliver, runJob, holds>>
    BY <1>5 DEF EnqueueAnalysis
  <2>2. ~InQueue(j) /\ j \notin redeliver /\ \A w \in Worker : runJob[w] # j
    BY <1>1, <2>1, NoneAssumption DEF SingleOwner
  <2>3. Distinct' /\ \A k \in Job : InQueue(k)' => InQueue(k) \/ k = j
    BY <1>1, <2>1, <2>2, QueueAppend DEF TypeInv, TypeOK
  <2>4. \A k \in Job : Attended(k)' => Attended(k)
    BY <2>1, <2>3 DEF Attended, TypeInv, TypeOK
  <2>5. SingleOwner'
    BY <1>1, <2>1, <2>2, <2>3 DEF SingleOwner, Distinct, TypeInv, TypeOK
  <2>6. Waiting'
    BY <1>1, <1>c, <2>1, <2>2, <2>3 DEF TypeInv, TypeOK
  <2>7. QED BY <1>1, <1>2, <1>b, <2>1, <2>4, <2>5, <2>6
<1>6. ASSUME NEW j \in Job, EnqueueFails(j) PROVE OwnerInv'
  <2>1. /\ submitting' = [submitting EXCEPT ![j] = None]
        /\ UNCHANGED <<queue, redeliver, runJob, holds>>
    BY <1>6 DEF EnqueueFails
  <2>2. \A k \in Job : Attended(k)' => Attended(k)
    BY <2>1 DEF Attended, InQueue, TypeInv, TypeOK
  <2>3. SingleOwner'
    BY <1>1, <2>1 DEF SingleOwner, InQueue, TypeInv, TypeOK
  <2>4. Waiting'
    BY <1>1, <1>c, <2>1 DEF InQueue, TypeInv, TypeOK
  <2>5. QED BY <1>1, <1>2, <1>b, <2>1, <2>2, <2>3, <2>4
<1>13. ASSUME NEW j \in Job, Redeliver(j) PROVE OwnerInv'
  <2>1. /\ j \in redeliver /\ redeliver' = redeliver \ {j}
        /\ queue' = Append(queue, j) /\ UNCHANGED <<submitting, runJob, holds>>
    BY <1>13 DEF Redeliver
  <2>2. ~InQueue(j) /\ submitting[j] = None /\ \A w \in Worker : runJob[w] # j
    BY <1>1, <2>1
  <2>3. Distinct' /\ \A k \in Job : InQueue(k)' => InQueue(k) \/ k = j
    BY <1>1, <2>1, <2>2, QueueAppend DEF TypeInv, TypeOK
  <2>4. \A k \in Job : Attended(k)' => Attended(k)
    BY <2>1, <2>3 DEF Attended
  <2>5. SingleOwner'
    BY <1>1, <1>c, <2>1, <2>2, <2>3 DEF SingleOwner, Distinct
  <2>6. Waiting'
    BY <1>1, <1>c, <2>1, <2>3
  <2>7. QED BY <1>1, <1>2, <1>b, <2>1, <2>4, <2>5, <2>6
<1>7. ASSUME NEW w \in Worker, Dequeue(w) PROVE OwnerInv'
  <2>0. PICK j \in Job : j = Head(queue)
    BY <1>7 DEF Dequeue, TypeInv, TypeOK
  <2>1. /\ at[w] = "idle" /\ queue # <<>> /\ queue' = Tail(queue)
        /\ runJob' = [runJob EXCEPT ![w] = j]
        /\ UNCHANGED <<redeliver, submitting>>
    BY <1>7, <2>0 DEF Dequeue
  <2>2. NobodyHolds'
    BY <1>1, <1>7 DEF Dequeue, SingleDelivery, TypeInv, TypeOK
  <2>3. /\ Distinct' /\ InQueue(j) /\ ~InQueue(j)'
        /\ \A k \in Job : InQueue(k)' => InQueue(k)
    BY <1>1, <2>0, <2>1, QueueTail DEF TypeInv, TypeOK
  <2>4. \A k \in Job : Attended(k)' => Attended(k)
    BY <2>1, <2>3 DEF Attended, TypeInv, TypeOK
  <2>5. /\ submitting[j] = None /\ j \notin redeliver
        /\ \A v \in Worker : runJob[v] # j
    BY <1>1, <2>3, NoneAssumption DEF SingleOwner
  <2>a. \A v \in Worker : runJob'[v] = IF v = w THEN j ELSE runJob[v]
    BY <2>1 DEF TypeInv, TypeOK
  <2>6. SingleOwner'
    <3>2. \A u, v \in Worker : runJob'[u] # None /\ runJob'[u] = runJob'[v] => u = v
      BY <1>1, <2>5, <2>a DEF SingleOwner
    <3>3. \A v \in Worker : (runJob[v] # None =>
             ~InQueue(runJob[v]) /\ submitting[runJob[v]] = None)'
      <4>1. ASSUME NEW v \in Worker, NEW k \in Job, k = runJob'[v]
            PROVE  ~InQueue(k)' /\ submitting'[k] = None
        <5>1. CASE v = w
          BY <2>1, <2>3, <2>5, <2>a, <4>1, <5>1
        <5>2. CASE v # w
          <6>1. runJob[v] = k /\ k # None
            BY <2>a, <4>1, <5>2, NoneAssumption
          <6>2. ~InQueue(k) /\ submitting[k] = None
            BY <1>1, <6>1 DEF SingleOwner
          <6>3. QED BY <2>1, <2>3, <6>2
        <5>3. QED BY <5>1, <5>2
      <4>2. \A v \in Worker : runJob'[v] # None => runJob'[v] \in Job
        BY <2>a DEF TypeInv, TypeOK
      <4>3. QED BY <4>1, <4>2 DEF InQueue
    <3>4. \A k \in Job : submitting'[k] # None => ~InQueue(k)'
      BY <1>1, <2>1, <2>3 DEF SingleOwner
    <3>5. QED BY <2>3, <3>2, <3>3, <3>4 DEF SingleOwner, Distinct, InQueue
  <2>7. Waiting'
    BY <1>1, <1>c, <2>1, <2>3, <2>5, <2>a
  <2>8. QED BY <1>1, <1>2, <1>b, <2>2, <2>4, <2>6, <2>7
<1>8. ASSUME NEW w \in Worker, NEW err \in BOOLEAN, at[w] # "idle", HandlerReturns(w, err)
      PROVE  OwnerInv'
  <2>1. /\ UNCHANGED <<queue, submitting>> /\ runJob' = [runJob EXCEPT ![w] = None]
        /\ \A v \in Worker : holds'[v] => holds[v] /\ v # w
        /\ redeliver' \subseteq redeliver \cup {runJob[w]}
        /\ SingleDelivery => redeliver' = redeliver
    BY <1>8, ReturnDrops
  <2>2. runJob[w] \in Job
    BY <1>8, RunRow
  <2>3. \A k \in Job : Attended(k)' => Attended(k)
    BY <2>1, NoneAssumption DEF Attended, InQueue, TypeInv, TypeOK
  <2>4. SingleOwner'
    BY <1>1, <2>1 DEF SingleOwner, InQueue, TypeInv, TypeOK
  <2>5. Waiting'
    <3>1. ASSUME NEW k \in Job, k \in redeliver \/ k = runJob[w]
          PROVE  ~InQueue(k) /\ submitting[k] = None /\ \A v \in Worker : runJob'[v] # k
      <4>1. \A v \in Worker : runJob'[v] = IF v = w THEN None ELSE runJob[v]
        BY <2>1 DEF TypeInv, TypeOK
      <4>2. k # None
        BY NoneAssumption
      <4>3. QED BY <1>1, <3>1, <4>1, <4>2 DEF SingleOwner
    <3>2. \A k \in Job : InQueue(k)' <=> InQueue(k)
      BY <2>1 DEF InQueue
    <3>3. QED BY <1>c, <2>1, <2>2, <3>1, <3>2
  <2>6. QED BY <1>1, <1>2, <1>b, <2>1, <2>3, <2>4, <2>5
<1>9. ASSUME NEW w \in Worker, Load(w) PROVE OwnerInv'
  <2>1. CASE HandlerReturns(w, FALSE) \/ HandlerReturns(w, TRUE)
    BY <1>9, <2>1, <1>8 DEF Load
  <2>2. CASE UNCHANGED <<runJob, holds, ctxDone, brokerVars>>
    BY <2>2, <1>3 DEF Keeps
  <2>3. QED BY <1>9, <2>1, <2>2 DEF Load
<1>10. ASSUME NEW w \in Worker, ReturnRun(w) PROVE OwnerInv'
  BY <1>8, <1>10 DEF ReturnRun
<1>11. ASSUME NEW i \in Instance, Restart(i) PROVE OwnerInv'
  <2>1. /\ \A w \in Worker : runJob'[w] = None \/ runJob'[w] = runJob[w]
        /\ \A j \in Job : submitting'[j] = None \/ submitting'[j] = submitting[j]
        /\ queue' = <<>> \/ queue' = queue
        /\ \A w \in Worker : holds'[w] => holds[w]
    BY <1>11 DEF Restart
  <2>2. ASSUME NEW k \in redeliver', k \notin redeliver
        PROVE  \E w \in Worker : runJob[w] = k /\ runJob'[w] = None /\ holds[w]
    BY <1>11, <2>2 DEF Restart, Retried, HomeWorkers
  <2>3. \A j \in Job : InQueue(j)' => InQueue(j)
    BY <2>1 DEF InQueue
  <2>4. \A k \in Job : Attended(k)' => Attended(k)
    BY <2>1, <2>2, <2>3, NoneAssumption DEF Attended
  <2>5. Distinct'
    BY <1>1, <2>1 DEF Distinct
  <2>6. SingleOwner'
    <3>2. \A w \in Worker : (runJob[w] # None =>
             ~InQueue(runJob[w]) /\ submitting[runJob[w]] = None)'
      <4>1. ASSUME NEW w \in Worker, NEW k \in Job, k = runJob'[w]
            PROVE  ~InQueue(k)' /\ submitting'[k] = None
        BY <1>1, <2>1, <2>3, <4>1, NoneAssumption DEF SingleOwner
      <4>2. \A w \in Worker : runJob'[w] # None => runJob'[w] \in Job
        BY <1>c, <2>1
      <4>3. QED BY <4>1, <4>2 DEF InQueue
    <3>3. \A u, v \in Worker : runJob'[u] # None /\ runJob'[u] = runJob'[v] => u = v
      BY <1>1, <2>1 DEF SingleOwner
    <3>4. \A k \in Job : submitting'[k] # None => ~InQueue(k)'
      BY <1>1, <2>1, <2>3 DEF SingleOwner
    <3>5. QED BY <2>5, <3>2, <3>3, <3>4 DEF SingleOwner, Distinct, InQueue
  <2>7. Waiting'
    <3> SUFFICES ASSUME NEW k \in redeliver'
                 PROVE  ~InQueue(k)' /\ submitting'[k] = None
                        /\ \A v \in Worker : runJob'[v] # k
      OBVIOUS
    <3>1. CASE k \in redeliver
      <4>1. ~InQueue(k) /\ submitting[k] = None /\ k # None /\ k \in Job
            /\ \A v \in Worker : runJob[v] # k
        BY <1>1, <1>c, <3>1, NoneAssumption
      <4>2. QED BY <2>1, <2>3, <4>1
    <3>2. CASE k \notin redeliver
      <4>1. PICK w \in Worker : runJob[w] = k /\ runJob'[w] = None /\ holds[w]
        BY <2>2, <3>2
      <4>2. k # None /\ k \in Job
        BY <1>c, <4>1, NoneAssumption DEF TypeInv, BusyInv
      <4>3. ~InQueue(k) /\ submitting[k] = None /\ \A v \in Worker : runJob[v] = k => v = w
        BY <1>1, <4>1, <4>2 DEF SingleOwner
      <4>4. QED BY <2>1, <2>3, <4>1, <4>2, <4>3
    <3>3. QED BY <3>1, <3>2
  <2>8. NobodyHolds'
    <3> SUFFICES ASSUME SingleDelivery PROVE redeliver' = {} /\ \A w \in Worker : ~holds'[w]
      OBVIOUS
    <3>1. QED BY <1>1, <2>1, <2>2
  <2>9. QED BY <1>2, <1>b, <2>4, <2>6, <2>7, <2>8
<1>12. QED
  BY <1>3, <1>4, <1>5, <1>6, <1>7, <1>9, <1>10, <1>11, <1>13, OwnerSteps

\* No job is anywhere at the start.
LEMMA OwnerInvInit == Init => OwnerInv
  BY NoneAssumption DEF Init, OwnerInv, SingleOwner, Attended, InQueue

\* While runs do not overlap a job has one owner and nobody else knows it.
LEMMA OwnerInvariant == ASSUME NoOverlap PROVE Spec => []OwnerInv
<1>1. TypeInv /\ OwnerInv /\ [Next]_vars => OwnerInv'
  BY OwnerInvNext
<1>2. QED
  BY <1>1, TypeInvInit, TypeInvNext, OwnerInvInit, PTL DEF Spec

\* With the channel and the Redis list, and with asynq as long as no lease
\* expires and no server stops, a job is in one place at a time.
THEOREM OneOwner == ASSUME NoOverlap PROVE Spec => []SingleOwner
<1>1. OwnerInv => SingleOwner
  BY DEF OwnerInv
<1>2. QED
  BY <1>1, OwnerInvariant, PTL

-----------------------------------------------------------------------------
(* A registered run can be canceled *)

\* With one owner a job has one registered run, so entries are never shared.
LEMMA ReachableNext ==
    ASSUME TypeInv, SingleOwner, RunStaysReachable, [Next]_vars
    PROVE  RunStaysReachable'
<1>1. CASE InRun
  BY <1>1 DEF InRun, RunStaysReachable, TypeInv, TypeOK
<1>2. ASSUME NEW w \in Worker, Dequeue(w) PROVE RunStaysReachable'
  BY <1>2 DEF Dequeue, GoTo, runVars, RunStaysReachable, TypeInv, TypeOK,
              Registered, Analyzing, Recording
<1>3. ASSUME NEW w \in Worker, Load(w) PROVE RunStaysReachable'
  BY <1>3, LoadFrame DEF RunStaysReachable, TypeInv, TypeOK
<1>4. ASSUME NEW w \in Worker, RegisterCancel(w) PROVE RunStaysReachable'
  <2>1. /\ at[w] = "register" /\ at' = [at EXCEPT ![w] = "mark_running"]
        /\ activeCancels' = [activeCancels EXCEPT ![Home[w]][runJob[w]] = w]
        /\ UNCHANGED runJob
    BY <1>4 DEF RegisterCancel, GoTo
  <2>2. runJob[w] \in Job /\ runJob[w] # None /\ Home[w] \in Instance
    BY <2>1, RunRow, NoneAssumption, InstanceAssumption
  <2>3. activeCancels'[Home[w]][runJob[w]] = w
    BY <2>1, <2>2 DEF TypeInv, TypeOK
  <2>4. ASSUME NEW v \in Worker, v # w, at'[v] \in Registered
        PROVE  activeCancels'[Home[v]][runJob'[v]] = v
    <3>1. at[v] \in Registered /\ runJob[v] # runJob[w]
      BY <2>1, <2>2, <2>4 DEF SingleOwner, TypeInv, TypeOK
    <3>2. Home[v] \in Instance /\ runJob[v] \in Job
      BY <3>1, RunRow, InstanceAssumption DEF Registered, Analyzing, Recording
    <3>3. activeCancels'[Home[v]][runJob[v]] = activeCancels[Home[v]][runJob[v]]
      BY <2>1, <2>2, <3>1, <3>2 DEF TypeInv, TypeOK
    <3>4. QED BY <2>1, <3>1, <3>3 DEF RunStaysReachable
  <2>5. QED BY <2>1, <2>3, <2>4 DEF RunStaysReachable
<1>5. ASSUME NEW w \in Worker, ReturnRun(w) PROVE RunStaysReachable'
  <2>1. /\ at[w] \in {"return_ok", "return_err"} /\ at' = [at EXCEPT ![w] = "idle"]
        /\ activeCancels' = [activeCancels EXCEPT ![Home[w]][runJob[w]] = None]
        /\ runJob' = [runJob EXCEPT ![w] = None]
    BY <1>5 DEF ReturnRun, HandlerReturns, GoTo
  <2>2. runJob[w] \in Job /\ runJob[w] # None /\ Home[w] \in Instance
    BY <2>1, RunRow, NoneAssumption, InstanceAssumption
  <2>3. ASSUME NEW v \in Worker, at'[v] \in Registered
        PROVE  activeCancels'[Home[v]][runJob'[v]] = v
    <3>1. v # w /\ at[v] \in Registered /\ runJob'[v] = runJob[v]
      BY <2>1, <2>3 DEF TypeInv, TypeOK, Registered, Analyzing, Recording
    <3>2. runJob[v] # runJob[w]
      BY <2>2, <3>1 DEF SingleOwner
    <3>3. Home[v] \in Instance /\ runJob[v] \in Job
      BY <3>1, RunRow, InstanceAssumption DEF Registered, Analyzing, Recording
    <3>4. activeCancels'[Home[v]][runJob[v]] = activeCancels[Home[v]][runJob[v]]
      BY <2>1, <2>2, <3>2, <3>3 DEF TypeInv, TypeOK
    <3>5. QED BY <3>1, <3>4 DEF RunStaysReachable
  <2>4. QED BY <2>3 DEF RunStaysReachable
<1>6. ASSUME NEW i \in Instance, Restart(i) PROVE RunStaysReachable'
  <2>1. ASSUME NEW w \in Worker, at'[w] \in Registered
        PROVE  activeCancels'[Home[w]][runJob'[w]] = w
    <3>1. Home[w] # i /\ at'[w] = at[w] /\ runJob'[w] = runJob[w]
      BY <1>6, <2>1 DEF Restart, HomeWorkers, TypeInv, TypeOK, Registered,
                        Analyzing, Recording
    <3>2. activeCancels'[Home[w]] = activeCancels[Home[w]]
      BY <1>6, <3>1, InstanceAssumption DEF Restart, TypeInv, TypeOK
    <3>3. QED BY <2>1, <3>1, <3>2 DEF RunStaysReachable
  <2>2. QED BY <2>1 DEF RunStaysReachable
<1>7. QED BY <1>1, <1>2, <1>3, <1>4, <1>5, <1>6, RunSteps

\* While a run is registered nothing takes its entry from the map.
THEOREM ReachableRuns == ASSUME NoOverlap PROVE Spec => []RunStaysReachable
<1>1. Init => RunStaysReachable
  BY DEF Init, RunStaysReachable, Registered, Analyzing, Recording
<1>2. TypeInv /\ SingleOwner /\ RunStaysReachable /\ [Next]_vars => RunStaysReachable'
  BY ReachableNext
<1>3. QED
  BY <1>1, <1>2, OneOwner, TypeInvInit, TypeInvNext, PTL DEF Spec

-----------------------------------------------------------------------------
(* A cancellation is lost in the window of CancelJob only *)

\* The steps after which a run may still mark its job completed.
Completing == Analyzing \cup {"mark_completed"}

\* What makes the property inductive: a run that may still complete a job whose row
\* is canceled has a canceled context, unless the canceler is about to cancel it or its
\* client left while it marked the row.
WindowInv ==
    \A w \in Worker :
        at[w] \in Completing /\ jobs[runJob[w]].status = "canceled" =>
            \/ CtxCanceled(w)
            \/ \E c \in Canceler : cancelAt[c] = "invoke" /\ cancelJob[c] = runJob[w]
            \/ asked[runJob[w]] = "left"

\* What clients have asked for is not forgotten, nor that one left.
LEMMA AskedStays ==
    ASSUME TypeInv, [Next]_vars, NEW j \in Job
    PROVE  /\ asked[j] # "never" => asked'[j] # "never"
           /\ asked[j] = "left" => asked'[j] = "left"
<1> USE DEF rowVars, brokerVars, runVars, cancelVars, hostVars
<1>1. ASSUME NEW w \in Worker, WorkerStep(w) \/ TakeTask(w) PROVE UNCHANGED asked
  BY <1>1 DEF WorkerStep, Dequeue, Load, RegisterCancel, StartRun, Advance, ProviderFails,
       ProviderCanceled, SaveAnalysis, CompleteRun, FailRun, CancelRun, Notify,
       ReturnRun, TakeTask
<1>2. ASSUME NEW c \in Canceler, CancelerStep(c) \/ \E k \in Job : RequestCancel(c, k)
      PROVE  /\ asked[j] # "never" => asked'[j] # "never"
             /\ asked[j] = "left" => asked'[j] = "left"
  BY <1>2 DEF CancelerStep, MarkJobCanceled, InvokeCancel, AnswerCancel, RequestCancel,
       TypeInv, TypeOK
<1>3. ASSUME \/ \E k \in Job, i \in Instance : SubmitAnalysis(k, i)
             \/ \E k \in Job : EnqueueAnalysis(k) \/ EnqueueFails(k) \/ Redeliver(k)
             \/ \E i \in Instance : Shutdown(i) \/ Restart(i)
             \/ \E ids \in SUBSET Job : DeleteAnalyses(ids)
             \/ UNCHANGED vars
      PROVE  UNCHANGED asked
  BY <1>3 DEF SubmitAnalysis, EnqueueAnalysis, EnqueueFails, Redeliver, Shutdown,
       Restart, DeleteAnalyses, vars
<1>4. QED BY <1>1, <1>2, <1>3 DEF Next

\* A run comes to these steps by marking its job running, and keeps its job.
LEMMA CompletingSteps ==
    ASSUME TypeInv, [Next]_vars, NEW w \in Worker, at'[w] \in Completing
    PROVE  /\ runJob'[w] = runJob[w]
           /\ \/ at[w] \in Completing
              \/ at[w] = "mark_running" /\ StartRun(w) /\ at'[w] = "running"
<1> USE DEF rowVars, brokerVars, runVars, cancelVars, hostVars, Completing, Analyzing
<1>1. ASSUME NEW v \in Worker, Dequeue(v) \/ Load(v) \/ ReturnRun(v)
      PROVE  runJob'[w] = runJob[w] /\ at'[w] = at[w]
  BY <1>1 DEF Dequeue, Load, ReturnRun, HandlerReturns, GoTo, TypeInv, TypeOK
<1>2. ASSUME NEW v \in Worker,
             \/ RegisterCancel(v) \/ ProviderFails(v) \/ ProviderCanceled(v)
             \/ CompleteRun(v) \/ FailRun(v) \/ CancelRun(v) \/ Notify(v)
             \/ TakeTask(v)
      PROVE  runJob'[w] = runJob[w] /\ at'[w] = at[w]
  BY <1>2 DEF RegisterCancel, ProviderFails, ProviderCanceled, CompleteRun,
              FailRun, CancelRun, Notify, TakeTask, GoTo, TypeInv, TypeOK
<1>3. ASSUME NEW v \in Worker, Advance(v) \/ SaveAnalysis(v)
      PROVE  runJob'[w] = runJob[w] /\ at[w] \in Completing
  BY <1>3 DEF Advance, SaveAnalysis, NextPhase, GoTo, TypeInv, TypeOK
<1>4. ASSUME NEW v \in Worker, StartRun(v)
      PROVE  /\ runJob'[w] = runJob[w]
             /\ \/ at'[w] = at[w]
                \/ v = w /\ at[w] = "mark_running" /\ at'[w] = "running"
  BY <1>4 DEF StartRun, GoTo, TypeInv, TypeOK
<1>5. ASSUME NEW i \in Instance, Restart(i)
      PROVE  runJob'[w] = runJob[w] /\ at'[w] = at[w]
  BY <1>5 DEF Restart, TypeInv, TypeOK
<1>6. ASSUME \/ \E j \in Job, i \in Instance : SubmitAnalysis(j, i)
             \/ \E j \in Job : EnqueueAnalysis(j) \/ EnqueueFails(j) \/ Redeliver(j)
             \/ \E c \in Canceler, j \in Job : RequestCancel(c, j)
             \/ \E c \in Canceler : CancelerStep(c)
             \/ \E i \in Instance : Shutdown(i)
             \/ \E ids \in SUBSET Job : DeleteAnalyses(ids)
             \/ UNCHANGED vars
      PROVE  runJob'[w] = runJob[w] /\ at'[w] = at[w]
  BY <1>6 DEF SubmitAnalysis, EnqueueAnalysis, EnqueueFails, Redeliver, Shutdown,
       RequestCancel, CancelerStep, MarkJobCanceled, InvokeCancel, AnswerCancel,
           DeleteAnalyses, vars
<1>7. QED BY <1>1, <1>2, <1>3, <1>4, <1>5, <1>6 DEF Next, WorkerStep

\* A context that is canceled stays so while the run may complete.
LEMMA CanceledContexts ==
    ASSUME OneInstance, TypeInv, [Next]_vars, NEW w \in Worker,
           at'[w] \in Completing, CtxCanceled(w)
    PROVE  CtxCanceled(w)'
<1> USE DEF rowVars, brokerVars, runVars, cancelVars, hostVars
<1>1. at'[w] # "idle" /\ Home[w] \in Instance
  BY InstanceAssumption DEF Completing, Analyzing
<1>2. ASSUME NEW v \in Worker, ReturnRun(v) \/ Load(v)
      PROVE  CtxCanceled(w)'
  <2>1. UNCHANGED stopping
    BY <1>2 DEF ReturnRun, Load
  <2>2. v # w \/ UNCHANGED ctxDone
    BY <1>1, <1>2 DEF ReturnRun, Load, HandlerReturns, GoTo, TypeInv, TypeOK
  <2>3. ctxDone \in [Worker -> BOOLEAN]
    BY DEF TypeInv, TypeOK
  <2>4. Load(v) /\ v # w => (ctxDone[w] => ctxDone'[w])
    BY <2>3 DEF Load
  <2>5. ReturnRun(v) /\ v # w => (ctxDone[w] => ctxDone'[w])
    BY <2>3 DEF ReturnRun
  <2>6. v # w => (ctxDone[w] => ctxDone'[w])
    BY <1>2, <2>4, <2>5
  <2>7. QED BY <2>1, <2>2, <2>6 DEF CtxCanceled
<1>3. ASSUME NEW v \in Worker, TakeTask(v) PROVE CtxCanceled(w)'
  BY <1>3 DEF TakeTask, CtxCanceled, TypeInv, TypeOK
<1>4. ASSUME NEW c \in Canceler, InvokeCancel(c) PROVE CtxCanceled(w)'
  BY <1>4 DEF InvokeCancel, CtxCanceled
<1>5. ASSUME NEW i \in Instance, Shutdown(i) PROVE CtxCanceled(w)'
  BY <1>1, <1>5 DEF Shutdown, CtxCanceled, TypeInv, TypeOK
<1>6. ASSUME NEW i \in Instance, Restart(i) PROVE FALSE
  BY <1>1, <1>6 DEF Restart, HomeWorkers, OneInstance, TypeInv, TypeOK
<1>7. ASSUME UNCHANGED <<ctxDone, stopping>> PROVE CtxCanceled(w)'
  BY <1>7 DEF CtxCanceled
<1>8. ASSUME NEW v \in Worker,
             \/ Dequeue(v) \/ RegisterCancel(v) \/ StartRun(v) \/ Advance(v)
             \/ ProviderFails(v) \/ ProviderCanceled(v) \/ SaveAnalysis(v)
             \/ CompleteRun(v) \/ FailRun(v) \/ CancelRun(v) \/ Notify(v)
      PROVE  UNCHANGED <<ctxDone, stopping>>
  BY <1>8 DEF Dequeue, RegisterCancel, StartRun, Advance, ProviderFails,
       ProviderCanceled, SaveAnalysis, CompleteRun, FailRun, CancelRun, Notify
<1>9. ASSUME \/ \E j \in Job, i \in Instance : SubmitAnalysis(j, i)
             \/ \E j \in Job : EnqueueAnalysis(j) \/ EnqueueFails(j) \/ Redeliver(j)
             \/ \E c \in Canceler, j \in Job : RequestCancel(c, j)
             \/ \E c \in Canceler : MarkJobCanceled(c) \/ AnswerCancel(c)
             \/ \E ids \in SUBSET Job : DeleteAnalyses(ids)
             \/ UNCHANGED vars
      PROVE  UNCHANGED <<ctxDone, stopping>>
  BY <1>9 DEF SubmitAnalysis, EnqueueAnalysis, EnqueueFails, Redeliver,
       RequestCancel, MarkJobCanceled, AnswerCancel, DeleteAnalyses, vars
<1>10. QED
  BY <1>2, <1>3, <1>4, <1>5, <1>6, <1>7, <1>8, <1>9 DEF Next, WorkerStep, CancelerStep

\* A canceler about to cancel the run either cancels it or remains about to.
LEMMA InvokeSteps ==
    ASSUME OneInstance, TypeInv, RunStaysReachable, [Next]_vars, NEW w \in Worker,
           at[w] \in Completing, at'[w] \in Completing,
           NEW c \in Canceler, cancelAt[c] = "invoke", cancelJob[c] = runJob[w]
    PROVE  \/ CtxCanceled(w)'
           \/ cancelAt'[c] = "invoke" /\ cancelJob'[c] = cancelJob[c]
<1> USE DEF rowVars, brokerVars, runVars, cancelVars, hostVars
<1>1. ASSUME InvokeCancel(c) PROVE CtxCanceled(w)'
  <2>1. Home[c] = Home[w]
    BY InstanceAssumption DEF OneInstance
  <2>2. activeCancels[Home[c]][cancelJob[c]] = w
    BY <2>1 DEF RunStaysReachable, Completing, Registered, Recording
  <2>3. QED BY <1>1, <2>2 DEF InvokeCancel, CtxCanceled
<1>2. ASSUME NEW d \in Canceler,
             \/ \E j \in Job : RequestCancel(d, j)
             \/ MarkJobCanceled(d) \/ AnswerCancel(d) \/ (InvokeCancel(d) /\ d # c)
      PROVE  cancelAt'[c] = "invoke" /\ cancelJob'[c] = cancelJob[c]
  BY <1>2 DEF RequestCancel, MarkJobCanceled, AnswerCancel, InvokeCancel, TypeInv, TypeOK
<1>3. ASSUME NEW i \in Instance, Restart(i) PROVE FALSE
  BY <1>3, InstanceAssumption DEF Restart, HomeWorkers, OneInstance, TypeInv, TypeOK,
                                  Completing, Analyzing
<1>4. ASSUME NEW v \in Worker, WorkerStep(v) \/ TakeTask(v)
      PROVE  UNCHANGED cancelVars
  BY <1>4 DEF WorkerStep, Dequeue, Load, RegisterCancel, StartRun, Advance,
       ProviderFails, ProviderCanceled, SaveAnalysis, CompleteRun, FailRun,
       CancelRun, Notify, ReturnRun, TakeTask
<1>5. ASSUME \/ \E j \in Job, i \in Instance : SubmitAnalysis(j, i)
             \/ \E j \in Job : EnqueueAnalysis(j) \/ EnqueueFails(j) \/ Redeliver(j)
             \/ \E i \in Instance : Shutdown(i)
             \/ \E ids \in SUBSET Job : DeleteAnalyses(ids)
             \/ UNCHANGED vars
      PROVE  UNCHANGED cancelVars
  BY <1>5 DEF SubmitAnalysis, EnqueueAnalysis, EnqueueFails, Redeliver, Shutdown,
      DeleteAnalyses, vars
<1>6. QED BY <1>1, <1>2, <1>3, <1>4, <1>5 DEF Next, CancelerStep

\* A row that is canceled after a step was so before, was marked by a canceler that
\* is now about to cancel the run or whose client left, or belongs to a run that marks itself canceled.
LEMMA CanceledRows ==
    ASSUME TypeInv, SingleOwner, "store" \notin Faults, [Next]_vars,
           NEW w \in Worker, at[w] \in Completing, runJob[w] \in Job,
           jobs'[runJob[w]].status = "canceled"
    PROVE  \/ jobs[runJob[w]].status = "canceled"
           \/ \E c \in Canceler : cancelAt'[c] = "invoke" /\ cancelJob'[c] = runJob[w]
           \/ asked'[runJob[w]] = "left"
<1> DEFINE j == runJob[w]
<1>1. jobs[j] \in Row
  BY DEF TypeInv, TypeOK
<1>2. CASE jobs'[j] = PendingRow
  BY <1>2 DEF PendingRow
<1>3. ASSUME NEW v \in Worker, RunWrites(v, j) PROVE jobs[j].status = "canceled"
  <2>1. v = w
    BY <1>3, NoneAssumption DEF RunWrites, SingleOwner
  <2>2. ~(at[v] = "mark_running" \/ at[v] = "mark_failed" \/ at[v] = "mark_canceled")
    BY <2>1 DEF Completing, Analyzing
  <2>3. \/ jobs'[j] = MarkPhase(jobs[j], NextPhase[at[v]])
        \/ jobs'[j] = MarkCompleted(jobs[j])
    BY <1>3, <2>2 DEF RunWrites
  <2>4. CASE jobs'[j] = MarkPhase(jobs[j], NextPhase[at[v]])
    BY <1>1, <2>4 DEF MarkPhase, Row
  <2>5. CASE jobs'[j] = MarkCompleted(jobs[j])
    BY <1>1, <2>5 DEF MarkCompleted, Row
  <2>6. QED BY <2>3, <2>4, <2>5
<1>4. ASSUME NEW c \in Canceler, CancelWrites(c, j)
      PROVE  (cancelAt'[c] = "invoke" /\ cancelJob'[c] = j) \/ asked'[j] = "left"
  BY <1>4 DEF CancelWrites, MarkJobCanceled, TypeInv, TypeOK
<1>5. QED BY <1>2, <1>3, <1>4, RowSteps

\* A row is canceled by a canceler that goes on to cancel the run unless its client
\* leaves, or by the run.
LEMMA WindowNext ==
    ASSUME OneInstance, "store" \notin Faults, TypeInv, SingleOwner,
           RunStaysReachable, WindowInv, [Next]_vars
    PROVE  WindowInv'
<1> SUFFICES ASSUME NEW w \in Worker, at'[w] \in Completing,
                    jobs'[runJob'[w]].status = "canceled"
             PROVE  \/ CtxCanceled(w)'
                    \/ \E c \in Canceler :
                          cancelAt'[c] = "invoke" /\ cancelJob'[c] = runJob'[w]
                    \/ asked'[runJob'[w]] = "left"
  BY DEF WindowInv
<1>1. runJob'[w] = runJob[w]
  BY CompletingSteps
<1>2. at[w] # "idle" /\ runJob[w] \in Job
  <2>1. at[w] # "idle"
    BY CompletingSteps DEF Completing, Analyzing
  <2>2. QED BY <2>1, RunRow
<1>3. CASE at[w] \in Completing
  <2>1. CASE jobs[runJob[w]].status # "canceled"
    BY <1>1, <1>2, <1>3, <2>1, CanceledRows
  <2>2. CASE CtxCanceled(w)
    BY <2>2, CanceledContexts
  <2>3. ASSUME NEW c \in Canceler, cancelAt[c] = "invoke", cancelJob[c] = runJob[w]
        PROVE  \/ CtxCanceled(w)'
               \/ cancelAt'[c] = "invoke" /\ cancelJob'[c] = runJob'[w]
    BY <1>1, <1>3, <2>3, InvokeSteps
  <2>4. CASE asked[runJob[w]] = "left"
    BY <1>1, <1>2, <2>4, AskedStays
  <2>5. QED BY <1>3, <2>1, <2>2, <2>3, <2>4 DEF WindowInv
<1>4. CASE at[w] = "mark_running" /\ StartRun(w) /\ at'[w] = "running"
  <2>1. Stored(runJob[w], MarkRunning(jobs[runJob[w]]))
    BY <1>2, <1>4 DEF StartRun, GoTo, TypeInv, TypeOK
  <2>2. jobs[runJob[w]] \in Row /\ jobs \in [Job -> Row]
    BY <1>2 DEF TypeInv, TypeOK
  <2>3. jobs'[runJob[w]].status = "running"
    BY <1>2, <2>1, <2>2 DEF Stored, MarkRunning, Row
  <2>4. QED BY <1>1, <2>3
<1>5. QED BY <1>3, <1>4, CompletingSteps

\* Completing over a cancellation needs a canceler that is still in the window.
LEMMA WindowStep ==
    ASSUME Store = "postgres", "store" \notin Faults, TypeInv, WindowInv,
           [Next]_vars, NEW j \in Job, jobs[j].status = "canceled",
           jobs'[j].status = "completed"
    PROVE  \/ \E c \in Canceler : cancelAt[c] = "invoke" /\ cancelJob[c] = j
           \/ asked[j] = "left"
<1>1. jobs[j] \in Row
  BY DEF TypeInv, TypeOK
<1>2. jobs'[j] # PendingRow /\ jobs'[j] # MarkCanceled(jobs[j])
  BY <1>1 DEF PendingRow, MarkCanceled, Row
<1>3. PICK w \in Worker : RunWrites(w, j)
  BY <1>2, RowSteps DEF CancelWrites
<1>4. /\ jobs'[j] # MarkRunning(jobs[j]) /\ jobs'[j] # MarkFailed(jobs[j])
      /\ jobs'[j] # MarkPhase(jobs[j], NextPhase[at[w]])
  BY <1>1 DEF MarkRunning, MarkFailed, MarkPhase, Row
<1>5. at[w] = "mark_completed" /\ runJob[w] = j /\ ~CtxCanceled(w)
  BY <1>2, <1>3, <1>4 DEF RunWrites, StoreAccepts
<1>6. QED BY <1>5 DEF WindowInv, Completing

\* In one instance over Postgres, and while no statement fails, a completion
\* overwrites a cancellation only between MarkCanceled and invokeCancel, or after a
\* client left in the middle.
THEOREM CancelLostInWindowOnly ==
    ASSUME NoOverlap, OneInstance, Store = "postgres", "store" \notin Faults
    PROVE  Spec => CompletionOverCancelOnlyInWindow
<1>1. Init => WindowInv
  BY DEF Init, WindowInv, Completing, Analyzing
<1>2. TypeInv /\ SingleOwner /\ RunStaysReachable /\ WindowInv /\ [Next]_vars
        => WindowInv'
  BY WindowNext
<1>3. TypeInv /\ WindowInv /\ [Next]_vars
        => [\A j \in Job :
              jobs[j].status = "canceled" /\ jobs'[j].status = "completed" =>
                 \/ \E c \in Canceler : cancelAt[c] = "invoke" /\ cancelJob[c] = j
                 \/ asked[j] = "left"]_vars
  BY WindowStep
<1>4. QED
  BY <1>1, <1>2, <1>3, OneOwner, ReachableRuns, TypeInvInit, TypeInvNext, PTL
     DEF Spec, CompletionOverCancelOnlyInWindow
-----------------------------------------------------------------------------
(* Canceled by a client *)

\* Nothing fails but collectors, the LLM, the handing over to the queue and requests
\* whose client left.
Quiet == Faults \subseteq {"provider", "enqueue", "client"}

\* A client has asked to cancel the job.
Told(j) == asked[j] # "never"

\* Only a client's request cancels the context of a run, and that before the
\* run takes itself for canceled.
ToldInv ==
    /\ \A w \in Worker : ctxDone[w] => at[w] \in Registered /\ Told(runJob[w])
    /\ \A w \in Worker : at[w] = "mark_canceled" => Told(runJob[w])
    /\ \A j \in Job : Canceling(j) => Told(j)
    /\ CanceledByClient

\* Without shutdowns and crashes no instance stops or restarts.
LEMMA QuietContexts ==
    ASSUME Quiet, TypeInv, OwnerInv
    PROVE  /\ \A w \in Worker : CtxCanceled(w) <=> ctxDone[w]
           /\ \A i \in Instance : ~Restart(i) /\ ~Shutdown(i)
           /\ \A w \in Worker : ~TakeTask(w)
           /\ NoOverlap
<1>1. \A i \in Instance : ~stopping[i]
  BY DEF Quiet, OwnerInv
<1>2. \A w \in Worker : Home[w] \in Instance
  BY InstanceAssumption
<1>3. \A w \in Worker : CtxCanceled(w) <=> ctxDone[w]
  BY <1>1, <1>2 DEF CtxCanceled
<1>4. QED
  BY <1>1, <1>2, <1>3 DEF Quiet, Restart, Shutdown, TakeTask, NoOverlap

\* What a client asked for stays asked for.
LEMMA ToldStays ==
    ASSUME TypeInv, [Next]_vars, NEW j \in Job, Told(j)
    PROVE  Told(j)'
  BY AskedStays DEF Told

\* A context is canceled by the request that has the run's job.
LEMMA ContextSteps ==
    ASSUME Quiet, TypeInv, OwnerInv, CancelRegistry, RunStaysReachable, ToldInv,
           [Next]_vars, NEW w \in Worker, ctxDone'[w]
    PROVE  /\ at[w] \in Registered /\ at'[w] \in Registered /\ runJob'[w] = runJob[w]
           /\ Told(runJob[w])
           /\ \/ ctxDone[w]
              \/ \E c \in Canceler : InvokeCancel(c) /\ cancelJob[c] = runJob[w]
<1> USE DEF rowVars, brokerVars, runVars, cancelVars, hostVars
<1>1. CASE UNCHANGED <<at, runJob, ctxDone>>
  BY <1>1 DEF ToldInv
<1>2. CASE InRun /\ UNCHANGED ctxDone
  BY <1>2 DEF ToldInv, InRun
<1>3. ASSUME NEW v \in Worker, Dequeue(v) PROVE v # w /\ UNCHANGED ctxDone
  <2>1. at[v] = "idle" /\ UNCHANGED ctxDone
    BY <1>3 DEF Dequeue
  <2>2. at[w] # "idle"
    BY <2>1 DEF ToldInv, Registered, Analyzing, Recording
  <2>3. QED BY <2>1, <2>2
<1>4. ASSUME NEW v \in Worker, Load(v) \/ RegisterCancel(v) PROVE v # w /\ ctxDone[w]
  <2>1. at[v] \notin Registered
    BY <1>4 DEF Load, RegisterCancel, Registered, Analyzing, Recording
  <2>2. ctxDone[w]
    BY <1>4 DEF Load, RegisterCancel, TypeInv, TypeOK
  <2>3. QED BY <2>1, <2>2 DEF ToldInv
<1>5. ASSUME NEW v \in Worker, ReturnRun(v) PROVE v # w /\ ctxDone[w]
  <2>1. activeCancels[Home[v]][runJob[v]] = v
    BY <1>5 DEF ReturnRun, RunStaysReachable, Registered, Recording
  <2>2. QED BY <1>5, <2>1 DEF ReturnRun
<1>6. ASSUME NEW v \in Worker, v # w, ctxDone[w],
             Dequeue(v) \/ Load(v) \/ RegisterCancel(v) \/ ReturnRun(v)
      PROVE  at'[w] = at[w] /\ runJob'[w] = runJob[w]
  BY <1>6 DEF Dequeue, Load, RegisterCancel, ReturnRun, HandlerReturns, GoTo, TypeInv, TypeOK
<1>7. ASSUME NEW c \in Canceler, InvokeCancel(c), ~ctxDone[w]
      PROVE  /\ cancelJob[c] = runJob[w] /\ at[w] \in Registered
             /\ UNCHANGED <<at, runJob>> /\ Told(runJob[w])
  <2>1. /\ w = activeCancels[Home[c]][cancelJob[c]] /\ UNCHANGED <<at, runJob>>
        /\ cancelAt[c] = "invoke"
    BY <1>7 DEF InvokeCancel
  <2>2. cancelJob[c] \in Job /\ Home[c] \in Instance /\ w # None
    BY <2>1, InstanceAssumption, NoneAssumption DEF TypeInv, TypeOK, BusyInv
  <2>3. runJob[w] = cancelJob[c] /\ at[w] \in Registered
    BY <2>1, <2>2 DEF CancelRegistry
  <2>4. QED BY <2>1, <2>2, <2>3 DEF ToldInv, Canceling
<1>8. ASSUME NEW c \in Canceler, InvokeCancel(c) PROVE UNCHANGED <<at, runJob>>
  BY <1>8 DEF InvokeCancel
<1>9. ASSUME NEW v \in Worker,
             \/ StartRun(v) \/ Advance(v) \/ ProviderFails(v) \/ ProviderCanceled(v)
             \/ SaveAnalysis(v) \/ CompleteRun(v) \/ FailRun(v) \/ CancelRun(v) \/ Notify(v)
      PROVE  InRun /\ UNCHANGED ctxDone
  <2>1. UNCHANGED ctxDone
    BY <1>9 DEF StartRun, Advance, ProviderFails, ProviderCanceled, SaveAnalysis,
         CompleteRun, FailRun, CancelRun, Notify
  <2>2. InRun
    BY <1>9, WorkerRuns
  <2>3. QED BY <2>1, <2>2
<1>10. ASSUME \/ \E k \in Job, i \in Instance : SubmitAnalysis(k, i)
              \/ \E k \in Job : EnqueueAnalysis(k) \/ EnqueueFails(k) \/ Redeliver(k)
              \/ \E c \in Canceler, k \in Job : RequestCancel(c, k)
              \/ \E c \in Canceler : MarkJobCanceled(c) \/ AnswerCancel(c)
              \/ \E ids \in SUBSET Job : DeleteAnalyses(ids)
              \/ UNCHANGED vars
       PROVE  UNCHANGED <<at, runJob, ctxDone>>
  BY <1>10 DEF SubmitAnalysis, EnqueueAnalysis, EnqueueFails, Redeliver, RequestCancel, MarkJobCanceled,
       AnswerCancel, DeleteAnalyses, vars
<1>11. QED
  BY <1>1, <1>2, <1>3, <1>4, <1>5, <1>6, <1>7, <1>8, <1>9, <1>10, QuietContexts
     DEF Next, WorkerStep, CancelerStep, ToldInv

\* A run takes itself for canceled only while its context is.
LEMMA CancelingRuns ==
    ASSUME Quiet, TypeInv, OwnerInv, [Next]_vars, NEW w \in Worker,
           at'[w] = "mark_canceled", at[w] # "mark_canceled"
    PROVE  runJob'[w] = runJob[w] /\ ctxDone[w] /\ runJob[w] \in Job
<1> USE DEF rowVars, brokerVars, runVars, cancelVars, hostVars
<1>1. ASSUME NEW v \in Worker, ProviderCanceled(v) \/ SaveAnalysis(v)
      PROVE  runJob'[w] = runJob[w] /\ ctxDone[w] /\ runJob[w] \in Job
  <2>1. v = w
    BY <1>1 DEF ProviderCanceled, SaveAnalysis, GoTo, TypeInv, TypeOK
  <2>2. UNCHANGED runJob /\ at[w] # "idle"
    BY <1>1, <2>1 DEF ProviderCanceled, SaveAnalysis
  <2>3. CtxCanceled(w)
    BY <1>1, <2>1 DEF ProviderCanceled, SaveAnalysis, StoreAccepts, GoTo, TypeInv, TypeOK
  <2>4. QED BY <2>2, <2>3, QuietContexts, RunRow
<1>2. ASSUME NEW v \in Worker,
             \/ Dequeue(v) \/ Load(v) \/ RegisterCancel(v) \/ StartRun(v)
             \/ ProviderFails(v) \/ CompleteRun(v) \/ FailRun(v) \/ CancelRun(v)
             \/ Notify(v) \/ ReturnRun(v)
      PROVE  FALSE
  BY <1>2 DEF Dequeue, Load, RegisterCancel, StartRun, ProviderFails, CompleteRun,
       FailRun, CancelRun, Notify, ReturnRun, HandlerReturns, GoTo, TypeInv, TypeOK
<1>3. ASSUME NEW v \in Worker, Advance(v) PROVE FALSE
  <2>1. NextPhase[at[v]] \in Analyzing
    BY <1>3, NextPhases DEF Advance
  <2>2. QED BY <1>3, <2>1 DEF Advance, Analyzing, GoTo, TypeInv, TypeOK
<1>4. ASSUME \/ \E k \in Job, i \in Instance : SubmitAnalysis(k, i)
             \/ \E k \in Job : EnqueueAnalysis(k) \/ EnqueueFails(k) \/ Redeliver(k)
             \/ \E c \in Canceler, k \in Job : RequestCancel(c, k)
             \/ \E c \in Canceler : CancelerStep(c)
             \/ \E ids \in SUBSET Job : DeleteAnalyses(ids)
             \/ UNCHANGED vars
      PROVE  UNCHANGED at
  BY <1>4 DEF SubmitAnalysis, EnqueueAnalysis, EnqueueFails, Redeliver, RequestCancel, CancelerStep,
       MarkJobCanceled, InvokeCancel, AnswerCancel, DeleteAnalyses, vars
<1>5. QED BY <1>1, <1>2, <1>3, <1>4, QuietContexts DEF Next, WorkerStep

\* A row becomes canceled by a request, or by a run a request has reached.
LEMMA ToldNext ==
    ASSUME Quiet, TypeInv, OwnerInv, CancelRegistry, RunStaysReachable, ToldInv,
           [Next]_vars
    PROVE  ToldInv'
<1>1. ASSUME NEW w \in Worker, ctxDone'[w]
      PROVE  at'[w] \in Registered /\ Told(runJob[w])' /\ runJob'[w] = runJob[w]
  <2>1. /\ at[w] \in Registered /\ at'[w] \in Registered /\ runJob'[w] = runJob[w]
        /\ Told(runJob[w])
    BY <1>1, ContextSteps
  <2>2. runJob[w] \in Job
    BY <2>1, RunRow DEF Registered, Analyzing, Recording
  <2>3. \A j : j = runJob[w] => Told(j)'
    BY <2>1, <2>2, ToldStays
  <2>4. QED BY <2>1, <2>3 DEF Told
<1>2. ASSUME NEW w \in Worker, at'[w] = "mark_canceled"
      PROVE  \A j : j = runJob'[w] => Told(j)'
  <2>1. runJob'[w] \in Job
    BY <1>2, TypeInvNext DEF TypeInv, TypeOK, BusyInv
  <2>2. runJob'[w] = runJob[w]
    BY <1>2, <2>1, StartSteps
  <2>3. Told(runJob[w])
    <3>1. CASE at[w] = "mark_canceled"
      BY <3>1 DEF ToldInv
    <3>2. CASE at[w] # "mark_canceled"
      BY <1>2, <3>2, CancelingRuns DEF ToldInv
    <3>3. QED BY <3>1, <3>2
  <2>4. QED BY <2>1, <2>2, <2>3, ToldStays
<1>3. ASSUME NEW j \in Job, jobs'[j].status = "canceled" PROVE Told(j)'
  <2>1. jobs[j] \in Row
    BY DEF TypeInv, TypeOK
  <2>2. CASE jobs'[j] = jobs[j]
    BY <1>3, <2>2, ToldStays DEF ToldInv, CanceledByClient, Told
  <2>3. CASE jobs'[j] = PendingRow
    BY <1>3, <2>3 DEF PendingRow
  <2>4. ASSUME NEW w \in Worker, RunWrites(w, j) PROVE Told(j)'
    <3>1. jobs'[j] # MarkRunning(jobs[j])
      BY <1>3, <2>1 DEF MarkRunning, Row
    <3>2. jobs'[j] # MarkCompleted(jobs[j])
      BY <1>3, <2>1 DEF MarkCompleted, Row
    <3>3. jobs'[j] # MarkFailed(jobs[j])
      BY <1>3, <2>1 DEF MarkFailed, Row
    <3>4. CASE jobs[j].status = "canceled"
      BY <3>4, ToldStays DEF ToldInv, CanceledByClient, Told
    <3>5. CASE jobs[j].status # "canceled"
      <4>1. \A phase : jobs'[j] # MarkPhase(jobs[j], phase)
        BY <1>3, <2>1, <3>5 DEF MarkPhase, Row
      <4>2. at[w] = "mark_canceled" /\ runJob[w] = j
        BY <2>4, <3>1, <3>2, <3>3, <4>1 DEF RunWrites
      <4>3. QED BY <4>2, ToldStays DEF ToldInv
    <3>6. QED BY <3>4, <3>5
  <2>5. ASSUME NEW c \in Canceler, CancelWrites(c, j) PROVE Told(j)'
    BY <2>5, ToldStays DEF CancelWrites, ToldInv, Canceling
  <2>6. QED BY <2>2, <2>3, <2>4, <2>5, RowSteps
<1>4. ASSUME NEW j \in Job, Canceling(j)' PROVE Told(j)'
  <2>1. PICK c \in Canceler : cancelJob'[c] = j
    BY <1>4 DEF Canceling
  <2>2. CASE cancelJob[c] = j
    BY <2>2, ToldStays DEF ToldInv, Canceling
  <2>3. CASE cancelJob[c] # j
    BY <2>1, <2>3, CancelSteps, NoneAssumption DEF Told
  <2>4. QED BY <2>2, <2>3
<1>5. QED
  BY <1>1, <1>2, <1>3, <1>4 DEF ToldInv, CanceledByClient, Told

\* While only providers, enqueues and requests fail, a row says canceled only if a client asked for it,
\* with every backend.
THEOREM CanceledByClients == ASSUME Quiet PROVE Spec => []CanceledByClient
<1>1. NoOverlap
  BY DEF Quiet, NoOverlap
<1>2. Init => ToldInv
  BY NoneAssumption DEF Init, ToldInv, CanceledByClient, Canceling, AbsentRow, PendingRow
<1>3. TypeInv /\ OwnerInv /\ CancelRegistry /\ RunStaysReachable /\ ToldInv /\ [Next]_vars
        => ToldInv'
  BY ToldNext
<1>4. ToldInv => CanceledByClient
  BY DEF ToldInv
<1>5. QED
  BY <1>1, <1>2, <1>3, <1>4, OwnerInvariant, CancelRegistryCorrect, ReachableRuns,
     TypeInvInit, TypeInvNext, PTL DEF Spec
-----------------------------------------------------------------------------
(* What is left of a job nobody attends to *)

\* Nothing more need happen to the job: its row is terminal, or its analysis is
\* stored and a client asked to cancel it.
Left(j) == Settled(j) \/ (j \in saved /\ Told(j))

\* No worker has ever had the job, and nobody changed the row it was inserted with.
Untouched(j) == jobs[j] = PendingRow /\ deliveries[j] = 0

\* Before MarkRunning.
Early == {"load", "register", "mark_running"}

\* No run has marked the job running since it was last handed on.
Unstarted(j) ==
    \/ submitting[j] # None \/ InQueue(j) \/ j \in redeliver
    \/ \E w \in Worker : runJob[w] = j /\ at[w] \in Early

\* The steps at which a run has done all it does to the row.
Ended == {"notify_completed", "notify_failed", "return_ok", "return_err"}

\* A request knows rows that exist; one that has marked the row of a job not
\* started finds it so when it cancels the context, and a run that refuses to
\* start or has ended leaves nothing to do, nor does whoever gave the job up,
\* except that the submitter may give up a job untouched.
LeftInv ==
    /\ \A c \in Canceler : cancelAt[c] # "idle" => jobs[cancelJob[c]].status # "absent"
    /\ \A c \in Canceler :
          cancelAt[c] = "invoke" /\ Unstarted(cancelJob[c]) => Left(cancelJob[c])
    /\ \A w \in Worker :
          (at[w] = "mark_running" /\ ctxDone[w]) \/ at[w] \in Ended => Left(runJob[w])
    /\ \A j \in Job :
          jobs[j].status # "absent" /\ (submitting[j] # None \/ ~Attended(j))
              => Left(j) \/ Untouched(j)
    /\ \A j \in Job : jobs[j].status = "absent" => deliveries[j] = 0

\* What was stored stays known.
LEMMA AnalysesGrow ==
    ASSUME [Next]_vars
    PROVE  saved \subseteq saved'
  BY SavingSteps DEF SaveAnalysis, Upserted

\* Only a run that starts takes a terminal status away.
LEMMA LeftStays ==
    ASSUME Quiet, TypeInv, OwnerInv, [Next]_vars, NEW j \in Job, Left(j),
           \A w \in Worker : StartRun(w) /\ runJob[w] = j => jobs'[j] = jobs[j]
    PROVE  Left(j)'
<1>1. jobs[j] \in Row
  BY DEF TypeInv, TypeOK
<1>2. CASE ~Settled(j)
  BY <1>2, AnalysesGrow, ToldStays DEF Left
<1>3. CASE Settled(j)
  <2>1. CASE jobs'[j] = jobs[j]
    BY <1>3, <2>1 DEF Left, Settled
  <2>2. ASSUME NEW w \in Worker, RunWrites(w, j) PROVE Settled(j)'
    <3>1. CASE at[w] = "mark_running"
      <4>1. StartRun(w) /\ runJob[w] = j
        BY <2>2, <3>1 DEF RunWrites, WorkerStep, Dequeue, Load, RegisterCancel, Advance,
           NextPhase, Analyzing, ProviderFails, ProviderCanceled, SaveAnalysis,
           CompleteRun, FailRun, CancelRun, Notify, ReturnRun
      <4>2. QED BY <1>3, <4>1 DEF Settled
    <3>2. CASE at[w] # "mark_running"
      BY <1>1, <1>3, <2>2, <3>2 DEF RunWrites, MarkPhase, MarkCompleted, MarkFailed,
         MarkCanceled, Settled, TerminalStatus, Row
    <3>3. QED BY <3>1, <3>2
  <2>3. CASE jobs'[j] = MarkCanceled(jobs[j])
    BY <1>1, <2>3 DEF Left, MarkCanceled, Settled, TerminalStatus, Row
  <2>4. jobs[j].status # "absent"
    BY <1>3 DEF Settled, TerminalStatus
  <2>5. QED BY <2>1, <2>2, <2>3, <2>4, RowSteps DEF Left, CancelWrites
<1>4. QED BY <1>2, <1>3

\* A request keeps its job from RequestCancel on; it cancels the context after it
\* marked the row.
LEMMA RequestSteps ==
    ASSUME Quiet, TypeInv, OwnerInv, [Next]_vars, NEW c \in Canceler, cancelAt'[c] # "idle"
    PROVE  \/ \E j \in Job : /\ jobs[j].status # "absent" /\ cancelJob'[c] = j
                             /\ cancelAt'[c] = "mark"
           \/ /\ cancelAt[c] # "idle" /\ cancelJob'[c] = cancelJob[c]
              /\ cancelJob[c] \in Job
              /\ \/ cancelAt'[c] = cancelAt[c]
                 \/ cancelAt'[c] = "answer"
                 \/ Stored(cancelJob[c], MarkCanceled(jobs[cancelJob[c]]))
<1> USE DEF rowVars, brokerVars, runVars, cancelVars, hostVars
<1>1. ASSUME NEW d \in Canceler, NEW j \in Job, RequestCancel(d, j), d = c
      PROVE  jobs[j].status # "absent" /\ cancelJob'[c] = j /\ cancelAt'[c] = "mark"
  BY <1>1 DEF RequestCancel, TypeInv, TypeOK
<1>2. ASSUME NEW d \in Canceler, MarkJobCanceled(d), d = c
      PROVE  /\ cancelAt[c] # "idle" /\ cancelJob'[c] = cancelJob[c]
             /\ Stored(cancelJob[c], MarkCanceled(jobs[cancelJob[c]]))
  BY <1>2 DEF MarkJobCanceled, TypeInv, TypeOK
<1>3. ASSUME NEW d \in Canceler, InvokeCancel(d), d = c
      PROVE  /\ cancelAt[c] # "idle" /\ cancelJob'[c] = cancelJob[c]
             /\ cancelAt'[c] = "answer"
  BY <1>3 DEF InvokeCancel, TypeInv, TypeOK
<1>4. ASSUME NEW d \in Canceler, AnswerCancel(d), d = c PROVE FALSE
  BY <1>4 DEF AnswerCancel, TypeInv, TypeOK
<1>5. ASSUME NEW d \in Canceler, CancelerStep(d) \/ \E j \in Job : RequestCancel(d, j),
             d # c
      PROVE  cancelAt'[c] = cancelAt[c] /\ cancelJob'[c] = cancelJob[c]
  BY <1>5 DEF CancelerStep, MarkJobCanceled, InvokeCancel, AnswerCancel, RequestCancel,
       TypeInv, TypeOK
<1>6. ASSUME NEW w \in Worker, WorkerStep(w)
      PROVE  UNCHANGED cancelVars
  BY <1>6 DEF WorkerStep, Dequeue, Load, RegisterCancel, StartRun, Advance,
       ProviderFails, ProviderCanceled, SaveAnalysis, CompleteRun, FailRun,
       CancelRun, Notify, ReturnRun
<1>7. ASSUME \/ \E j \in Job, i \in Instance : SubmitAnalysis(j, i)
             \/ \E j \in Job : EnqueueAnalysis(j) \/ EnqueueFails(j) \/ Redeliver(j)
             \/ \E ids \in SUBSET Job : DeleteAnalyses(ids)
             \/ UNCHANGED vars
      PROVE  UNCHANGED cancelVars
  BY <1>7 DEF SubmitAnalysis, EnqueueAnalysis, EnqueueFails, Redeliver,
      DeleteAnalyses, vars
<1>8. cancelAt[c] # "idle" => cancelJob[c] \in Job
  BY DEF TypeInv, TypeOK, BusyInv
<1>9. QED
  BY <1>1, <1>2, <1>3, <1>4, <1>5, <1>6, <1>7, <1>8, QuietContexts DEF Next, CancelerStep

\* A worker comes to these steps by taking a job from the queue.
LEMMA EarlySteps ==
    ASSUME TypeInv, [Next]_vars, NEW w \in Worker, at'[w] \in Early
    PROVE  (at[w] \in Early /\ runJob'[w] = runJob[w]) \/ Dequeue(w)
<1> USE DEF rowVars, brokerVars, runVars, cancelVars, hostVars, Early
<1>1. ASSUME NEW v \in Worker, Dequeue(v) PROVE (at[w] \in Early /\ runJob'[w] = runJob[w]) \/ Dequeue(w)
  BY <1>1 DEF Dequeue, GoTo, TypeInv, TypeOK
<1>2. ASSUME NEW v \in Worker,
             \/ Load(v) \/ RegisterCancel(v) \/ StartRun(v) \/ ProviderFails(v)
             \/ ProviderCanceled(v) \/ SaveAnalysis(v) \/ CompleteRun(v) \/ FailRun(v)
             \/ CancelRun(v) \/ Notify(v) \/ ReturnRun(v) \/ TakeTask(v)
      PROVE  at[w] \in Early /\ runJob'[w] = runJob[w]
  BY <1>2 DEF Load, RegisterCancel, StartRun, ProviderFails, ProviderCanceled,
       SaveAnalysis, CompleteRun, FailRun, CancelRun, Notify, ReturnRun, TakeTask,
       HandlerReturns, GoTo, TypeInv, TypeOK
<1>3. ASSUME NEW v \in Worker, Advance(v) PROVE at[w] \in Early /\ runJob'[w] = runJob[w]
  <2>1. NextPhase[at[v]] \in Analyzing
    BY <1>3, NextPhases DEF Advance
  <2>2. QED BY <1>3, <2>1 DEF Advance, Analyzing, GoTo, TypeInv, TypeOK
<1>4. ASSUME NEW i \in Instance, Restart(i) PROVE at[w] \in Early /\ runJob'[w] = runJob[w]
  BY <1>4 DEF Restart, TypeInv, TypeOK
<1>5. ASSUME \/ \E j \in Job, i \in Instance : SubmitAnalysis(j, i)
             \/ \E j \in Job : EnqueueAnalysis(j) \/ EnqueueFails(j) \/ Redeliver(j)
             \/ \E c \in Canceler, j \in Job : RequestCancel(c, j)
             \/ \E c \in Canceler : CancelerStep(c)
             \/ \E i \in Instance : Shutdown(i)
             \/ \E ids \in SUBSET Job : DeleteAnalyses(ids)
             \/ UNCHANGED vars
      PROVE  at[w] \in Early /\ runJob'[w] = runJob[w]
  BY <1>5 DEF SubmitAnalysis, EnqueueAnalysis, EnqueueFails, Redeliver, Shutdown,
       RequestCancel, CancelerStep, MarkJobCanceled, InvokeCancel, AnswerCancel,
           DeleteAnalyses, vars
<1>6. QED BY <1>1, <1>2, <1>3, <1>4, <1>5 DEF Next, WorkerStep

\* The handler returns with an error only after the run ended.
LEMMA GivenUp ==
    ASSUME Quiet, TypeInv, OwnerInv, ToldInv, NEW w \in Worker, Load(w)
    PROVE  /\ redeliver' = redeliver
           /\ \/ UNCHANGED <<runJob, brokerVars>>
              \/ Settled(runJob[w]) /\ UNCHANGED jobs
<1>1. ~ctxDone[w]
  BY DEF Load, ToldInv, Registered, Analyzing, Recording
<1>2. StoreAccepts(w) /\ "store" \notin Faults
  BY <1>1, QuietContexts DEF StoreAccepts, Quiet
<1>3. QED
  BY <1>2 DEF Load, HandlerReturns, Settled, TerminalStatus, rowVars, brokerVars

\* A job is handed on when it is submitted, and by asynq when its run ended.
LEMMA UnstartedSteps ==
    ASSUME NoOverlap, TypeInv, OwnerInv, [Next]_vars, NEW j \in Job, Unstarted(j)'
    PROVE  \/ Unstarted(j)
           \/ jobs[j].status = "absent"
           \/ /\ ~SingleDelivery
              /\ \/ \E w \in Worker : runJob[w] = j /\ at[w] \in Ended
                 \/ \E i \in Instance : Restart(i)
<1> USE DEF rowVars, brokerVars, runVars, cancelVars, hostVars
<1> DEFINE Waits == submitting[j] # None \/ InQueue(j) \/ j \in redeliver
<1>1. ASSUME NEW w \in Worker, runJob'[w] = j, at'[w] \in Early PROVE Unstarted(j)
  <2>1. CASE Dequeue(w)
    <3>1. queue \in Seq(Job) /\ queue # <<>> /\ j = Head(queue)
      BY <1>1, <2>1 DEF Dequeue, TypeInv, TypeOK
    <3>2. 1 \in 1..Len(queue) /\ queue[1] = j
      BY <3>1
    <3>3. QED BY <3>2 DEF Unstarted, InQueue
  <2>2. CASE at[w] \in Early /\ runJob'[w] = runJob[w]
    BY <1>1, <2>2 DEF Unstarted
  <2>3. QED BY <1>1, <2>1, <2>2, EarlySteps
<1>2. CASE Keeps
  BY <1>1, <1>2 DEF Keeps, Unstarted, InQueue
<1>3. ASSUME NEW k \in Job, NEW i \in Instance, SubmitAnalysis(k, i), Waits'
      PROVE  Waits \/ jobs[j].status = "absent"
  BY <1>3 DEF SubmitAnalysis, InQueue, TypeInv, TypeOK
<1>4. ASSUME NEW k \in Job, EnqueueAnalysis(k) \/ Redeliver(k), Waits' PROVE Waits
  <2>1. /\ queue' = Append(queue, k) /\ ~InQueue(k)
        /\ submitting[k] # None \/ k \in redeliver
    BY <1>4 DEF EnqueueAnalysis, Redeliver, OwnerInv, SingleOwner
  <2>2. InQueue(j)' => InQueue(j) \/ j = k
    BY <2>1, QueueAppend DEF OwnerInv, SingleOwner, Distinct, TypeInv, TypeOK
  <2>3. (submitting'[j] # None => submitting[j] # None) /\ redeliver' \subseteq redeliver
    BY <1>4 DEF EnqueueAnalysis, Redeliver, TypeInv, TypeOK
  <2>4. QED BY <1>4, <2>1, <2>2, <2>3
<1>5. ASSUME NEW w \in Worker, Dequeue(w), Waits' PROVE Waits
  <2>1. queue # <<>> /\ queue' = Tail(queue) /\ UNCHANGED <<submitting, redeliver>>
    BY <1>5 DEF Dequeue
  <2>2. Head(queue) \in Job
    BY <2>1 DEF TypeInv, TypeOK
  <2>3. InQueue(j)' => InQueue(j)
    BY <2>1, <2>2, QueueTail DEF OwnerInv, SingleOwner, Distinct, TypeInv, TypeOK
  <2>4. QED BY <1>5, <2>1, <2>3
<1>6. ASSUME NEW w \in Worker, Load(w), Waits' PROVE Unstarted(j)
  <2>1. /\ at[w] \in Early /\ UNCHANGED <<queue, submitting>>
        /\ redeliver' \subseteq redeliver \cup {runJob[w]}
    BY <1>6 DEF Load, HandlerReturns, Retried, Early
  <2>2. QED BY <1>6, <2>1 DEF InQueue, Unstarted
<1>7. ASSUME NEW w \in Worker, ReturnRun(w), Waits'
      PROVE  Waits \/ (~SingleDelivery /\ runJob[w] = j /\ at[w] \in Ended)
  <2>1. at[w] \in Ended /\ at[w] # "idle"
    BY <1>7 DEF ReturnRun, Ended
  <2>2. /\ UNCHANGED <<queue, submitting>> /\ redeliver' \subseteq redeliver \cup {runJob[w]}
        /\ SingleDelivery => redeliver' = redeliver
    BY <1>7, <2>1, ReturnDrops DEF ReturnRun
  <2>3. QED BY <1>7, <2>1, <2>2 DEF InQueue
<1>11. ASSUME NEW k \in Job, EnqueueFails(k), Waits' PROVE Waits
  BY <1>11 DEF EnqueueFails, InQueue, TypeInv, TypeOK
<1>12. ASSUME NEW i \in Instance, Restart(i), SingleDelivery, Waits' PROVE Waits
  <2>1. redeliver' = redeliver /\ (submitting'[j] # None => submitting[j] # None)
    BY <1>12 DEF Restart, Retried, HomeWorkers, OwnerInv
  <2>2. queue' = <<>> \/ queue' = queue
    BY <1>12 DEF Restart
  <2>3. QED BY <1>12, <2>1, <2>2 DEF InQueue
<1>8. Waits => Unstarted(j)
  BY DEF Unstarted
<1>9. (Waits' \/ \E w \in Worker : runJob'[w] = j /\ at'[w] \in Early)
  BY DEF Unstarted
<1> HIDE DEF Waits
<1>10. QED
  BY <1>1, <1>2, <1>3, <1>4, <1>5, <1>6, <1>7, <1>8, <1>9, <1>11, <1>12, OwnerSteps

\* Whoever gives a job up for good found it settled, or has ended its run, or
\* could not enqueue it.
LEMMA AttendedSteps ==
    ASSUME Quiet, TypeInv, OwnerInv, ToldInv, [Next]_vars, NEW j \in Job, Attended(j),
           ~Attended(j)'
    PROVE  \/ Settled(j) \/ submitting[j] # None
           \/ \E w \in Worker : runJob[w] = j /\ at[w] \in Ended
<1> USE DEF rowVars, brokerVars, runVars, cancelVars, hostVars
<1>1. ~Keeps
  BY DEF Keeps, Attended, InQueue
<1>2. ASSUME NEW k \in Job, NEW i \in Instance, SubmitAnalysis(k, i) PROVE FALSE
  BY <1>2, NoneAssumption DEF SubmitAnalysis, Attended, InQueue, TypeInv, TypeOK
<1>3. ASSUME NEW k \in Job, EnqueueAnalysis(k) \/ Redeliver(k) PROVE FALSE
  <2>1. queue' = Append(queue, k) /\ queue \in Seq(Job) /\ UNCHANGED runJob
    BY <1>3 DEF EnqueueAnalysis, Redeliver, TypeInv, TypeOK
  <2>2. /\ Len(queue') = Len(queue) + 1 /\ Len(queue) \in Nat
        /\ queue'[Len(queue) + 1] = k
        /\ \A n \in 1..Len(queue) : queue'[n] = queue[n]
    BY <2>1
  <2>3. j # k /\ (InQueue(j) => InQueue(j)')
    BY <2>2 DEF Attended, InQueue
  <2>4. (submitting[j] # None => submitting'[j] # None) /\ (j \in redeliver => j \in redeliver')
    BY <1>3, <2>3 DEF EnqueueAnalysis, Redeliver, TypeInv, TypeOK
  <2>5. QED BY <2>1, <2>3, <2>4 DEF Attended
<1>4. ASSUME NEW w \in Worker, Dequeue(w) PROVE FALSE
  <2>1. /\ queue' = Tail(queue) /\ queue \in Seq(Job) /\ queue # <<>>
        /\ UNCHANGED <<submitting, redeliver>> /\ runJob[w] = None
        /\ runJob' = [runJob EXCEPT ![w] = Head(queue)]
    BY <1>4 DEF Dequeue, TypeInv, TypeOK, BusyInv
  <2>2. j # Head(queue) /\ \A v \in Worker : runJob[v] # j
    BY <2>1, NoneAssumption DEF Attended, TypeInv, TypeOK
  <2>3. ASSUME NEW n \in 1..Len(queue), queue[n] = j
        PROVE  n - 1 \in 1..Len(queue') /\ queue'[n - 1] = j
    <3>1. n # 1
      BY <2>1, <2>2, <2>3
    <3>2. QED BY <2>1, <2>3, <3>1
  <2>4. InQueue(j) => InQueue(j)'
    BY <2>3 DEF InQueue
  <2>5. QED BY <2>1, <2>2, <2>4 DEF Attended
<1>5. ASSUME NEW w \in Worker, Load(w) PROVE Settled(j)
  <2>1. /\ UNCHANGED <<queue, submitting, redeliver>>
        /\ Settled(runJob[w]) \/ UNCHANGED runJob
    BY <1>5, GivenUp DEF Load, HandlerReturns
  <2>2. \A v \in Worker \ {w} : runJob'[v] = runJob[v]
    BY <1>5, LoadFrame
  <2>3. QED BY <2>1, <2>2 DEF Attended, InQueue
<1>6. ASSUME NEW w \in Worker, ReturnRun(w) PROVE runJob[w] = j /\ at[w] \in Ended
  <2>1. /\ at[w] \in Ended
        /\ UNCHANGED <<queue, submitting>> /\ redeliver \subseteq redeliver'
        /\ \A v \in Worker \ {w} : runJob'[v] = runJob[v]
    BY <1>6 DEF ReturnRun, HandlerReturns, Retried, Ended, TypeInv, TypeOK
  <2>2. QED BY <2>1 DEF Attended, InQueue
<1>7. ASSUME NEW k \in Job, EnqueueFails(k) PROVE submitting[j] # None
  BY <1>7 DEF EnqueueFails, Attended, InQueue, TypeInv, TypeOK
<1>8. QED
  BY <1>1, <1>2, <1>3, <1>4, <1>5, <1>6, <1>7, OwnerSteps, QuietContexts

\* A run ends by marking its row, or canceled with the analysis stored.
LEMMA EndedSteps ==
    ASSUME Quiet, TypeInv, OwnerInv, StoredInv, ToldInv, LeftInv, [Next]_vars,
           NEW w \in Worker, at'[w] \in Ended
    PROVE  /\ runJob'[w] = runJob[w] /\ runJob[w] \in Job
           /\ \/ Left(runJob[w]) /\ (StartRun(w) => UNCHANGED jobs)
              \/ jobs'[runJob[w]].status \in TerminalStatus
<1> USE DEF rowVars, brokerVars, runVars, cancelVars, hostVars, Ended
<1>1. ASSUME NEW v \in Worker,
             \/ Dequeue(v) \/ Load(v) \/ RegisterCancel(v) \/ ProviderFails(v)
             \/ ProviderCanceled(v) \/ SaveAnalysis(v) \/ ReturnRun(v)
      PROVE  at'[w] = at[w] /\ runJob'[w] = runJob[w]
  BY <1>1 DEF Dequeue, Load, RegisterCancel, ProviderFails, ProviderCanceled,
       SaveAnalysis, ReturnRun, HandlerReturns, GoTo, TypeInv, TypeOK
<1>2. ASSUME NEW v \in Worker, Advance(v) PROVE at'[w] = at[w] /\ runJob'[w] = runJob[w]
  <2>1. NextPhase[at[v]] \in Analyzing
    BY <1>2, NextPhases DEF Advance
  <2>2. QED BY <1>2, <2>1 DEF Advance, Analyzing, GoTo, TypeInv, TypeOK
<1>3. ASSUME NEW v \in Worker,
             StartRun(v) \/ CompleteRun(v) \/ FailRun(v) \/ CancelRun(v) \/ Notify(v),
             v # w
      PROVE  at'[w] = at[w] /\ runJob'[w] = runJob[w]
  BY <1>3 DEF StartRun, CompleteRun, FailRun, CancelRun, Notify, GoTo, TypeInv, TypeOK
<1>4. /\ jobs \in [Job -> Row]
      /\ \A r : RunStoreFault(w, r) => ctxDone[w] /\ UNCHANGED jobs
  BY QuietContexts DEF RunStoreFault, StoreFault, StoreAccepts, Quiet, TypeInv, TypeOK
<1>5. CASE StartRun(w)
  <2>1. RunStoreFault(w, MarkRunning(jobs[runJob[w]])) /\ UNCHANGED runJob
    BY <1>5 DEF StartRun, GoTo, TypeInv, TypeOK
  <2>2. Left(runJob[w])
    BY <1>4, <1>5, <2>1 DEF StartRun, LeftInv
  <2>3. QED BY <1>4, <1>5, <2>1, <2>2, RunRow DEF StartRun
<1>6. CASE CompleteRun(w)
  <2>1. runJob[w] \in Job /\ jobs[runJob[w]] \in Row /\ UNCHANGED runJob
    BY <1>6, RunRow DEF CompleteRun
  <2>2. CASE Stored(runJob[w], MarkCompleted(jobs[runJob[w]]))
    BY <1>4, <2>1, <2>2 DEF Stored, MarkCompleted, TerminalStatus, Row
  <2>3. CASE RunStoreFault(w, MarkCompleted(jobs[runJob[w]]))
    BY <1>4, <1>6, <2>1, <2>3 DEF CompleteRun, StoredInv, ToldInv, Left
  <2>4. QED BY <1>6, <2>2, <2>3 DEF CompleteRun
<1>7. CASE FailRun(w) \/ CancelRun(w)
  <2>1. runJob[w] \in Job /\ jobs[runJob[w]] \in Row /\ UNCHANGED runJob
    BY <1>7, RunRow DEF FailRun, CancelRun
  <2>2. \/ Stored(runJob[w], MarkFailed(jobs[runJob[w]]))
        \/ Stored(runJob[w], MarkCanceled(jobs[runJob[w]]))
    BY <1>7 DEF FailRun, CancelRun, StoreFault, Quiet
  <2>3. QED
    BY <1>4, <2>1, <2>2 DEF Stored, MarkFailed, MarkCanceled, TerminalStatus, Row
<1>8. CASE Notify(w)
  BY <1>8, RunRow DEF Notify, StartRun, LeftInv
<1>9. ASSUME \/ \E k \in Job, i \in Instance : SubmitAnalysis(k, i)
             \/ \E k \in Job : EnqueueAnalysis(k) \/ EnqueueFails(k) \/ Redeliver(k)
             \/ \E c \in Canceler, k \in Job : RequestCancel(c, k)
             \/ \E c \in Canceler : CancelerStep(c)
             \/ \E ids \in SUBSET Job : DeleteAnalyses(ids)
             \/ UNCHANGED vars
      PROVE  at'[w] = at[w] /\ runJob'[w] = runJob[w]
  BY <1>9 DEF SubmitAnalysis, EnqueueAnalysis, EnqueueFails, Redeliver, RequestCancel, CancelerStep,
       MarkJobCanceled, InvokeCancel, AnswerCancel, DeleteAnalyses, vars
<1>10. CASE at'[w] = at[w] /\ runJob'[w] = runJob[w]
  BY <1>10, RunRow DEF StartRun, LeftInv
<1>11. QED
  BY <1>1, <1>2, <1>3, <1>5, <1>6, <1>7, <1>8, <1>9, <1>10, QuietContexts
     DEF Next, WorkerStep

\* A run that starts takes its job from the unstarted ones, or is refused.
LEMMA StartedSteps ==
    ASSUME TypeInv, OwnerInv, NEW w \in Worker, StartRun(w)
    PROVE  /\ runJob'[w] = runJob[w] /\ at'[w] # "mark_running"
           /\ \A j \in Job : runJob[w] = j => ~Unstarted(j)'
           /\ \A v \in Worker : runJob[v] = runJob[w] => v = w
<1>1. /\ at[w] = "mark_running" /\ UNCHANGED <<queue, submitting, redeliver, runJob>>
      /\ at'[w] \in {"running", "return_err"}
  BY DEF StartRun, GoTo, TypeInv, TypeOK, brokerVars
<1>2. runJob[w] \in Job /\ runJob[w] # None
  BY <1>1, RunRow, NoneAssumption
<1>3. ~InQueue(runJob[w]) /\ submitting[runJob[w]] = None /\ runJob[w] \notin redeliver
  BY <1>2 DEF OwnerInv, SingleOwner
<1>4. \A v \in Worker : runJob[v] = runJob[w] => v = w
  BY <1>2 DEF OwnerInv, SingleOwner
<1>5. \A j \in Job : runJob[w] = j => ~Unstarted(j)'
  BY <1>1, <1>3, <1>4 DEF Unstarted, InQueue, Early
<1>6. QED BY <1>1, <1>4, <1>5

\* Only a job in the queue is delivered.
LEMMA DeliverySteps ==
    ASSUME TypeInv, [Next]_vars, NEW j \in Job, ~InQueue(j)
    PROVE  deliveries'[j] = deliveries[j]
<1> USE DEF rowVars, brokerVars, runVars, cancelVars, hostVars
<1>1. ASSUME NEW w \in Worker, Dequeue(w) PROVE deliveries'[j] = deliveries[j]
  <2>1. /\ queue \in Seq(Job) /\ queue # <<>>
        /\ deliveries' = [deliveries EXCEPT ![Head(queue)] = @ + 1]
        /\ deliveries \in [Job -> Nat]
    BY <1>1 DEF Dequeue, TypeInv, TypeOK
  <2>2. 1 \in 1..Len(queue) /\ queue[1] = Head(queue)
    BY <2>1
  <2>3. j # Head(queue)
    BY <2>2 DEF InQueue
  <2>4. QED BY <2>1, <2>3
<1>2. ASSUME NEW w \in Worker, WorkerStep(w) \/ TakeTask(w), ~Dequeue(w)
      PROVE  UNCHANGED deliveries
  BY <1>2 DEF WorkerStep, Load, RegisterCancel, StartRun, Advance, ProviderFails,
       ProviderCanceled, SaveAnalysis, CompleteRun, FailRun, CancelRun, Notify,
       ReturnRun, TakeTask, HandlerReturns
<1>3. ASSUME NEW c \in Canceler, CancelerStep(c) \/ \E k \in Job : RequestCancel(c, k)
      PROVE  UNCHANGED deliveries
  BY <1>3 DEF CancelerStep, MarkJobCanceled, InvokeCancel, AnswerCancel, RequestCancel
<1>4. ASSUME \/ \E k \in Job, i \in Instance : SubmitAnalysis(k, i)
             \/ \E k \in Job : EnqueueAnalysis(k) \/ EnqueueFails(k) \/ Redeliver(k)
             \/ \E i \in Instance : Shutdown(i) \/ Restart(i)
             \/ \E ids \in SUBSET Job : DeleteAnalyses(ids)
             \/ UNCHANGED vars
      PROVE  UNCHANGED deliveries
  BY <1>4 DEF SubmitAnalysis, EnqueueAnalysis, EnqueueFails, Redeliver, Shutdown,
       Restart, DeleteAnalyses, vars
<1>5. QED BY <1>1, <1>2, <1>3, <1>4 DEF Next

\* Only a job without a row gets a submitter.
LEMMA SubmitterSteps ==
    ASSUME TypeInv, [Next]_vars, NEW j \in Job, jobs[j].status # "absent",
           submitting'[j] # None
    PROVE  submitting[j] # None
<1> USE DEF rowVars, brokerVars, runVars, cancelVars, hostVars
<1>1. ASSUME NEW w \in Worker, WorkerStep(w) \/ TakeTask(w)
      PROVE  UNCHANGED submitting
  BY <1>1 DEF WorkerStep, Dequeue, Load, RegisterCancel, StartRun, Advance, ProviderFails,
       ProviderCanceled, SaveAnalysis, CompleteRun, FailRun, CancelRun, Notify,
       ReturnRun, TakeTask, HandlerReturns
<1>2. ASSUME NEW c \in Canceler, CancelerStep(c) \/ \E k \in Job : RequestCancel(c, k)
      PROVE  UNCHANGED submitting
  BY <1>2 DEF CancelerStep, MarkJobCanceled, InvokeCancel, AnswerCancel, RequestCancel
<1>3. ASSUME \/ \E k \in Job, i \in Instance : SubmitAnalysis(k, i)
             \/ \E k \in Job : EnqueueAnalysis(k) \/ EnqueueFails(k) \/ Redeliver(k)
             \/ \E i \in Instance : Shutdown(i) \/ Restart(i)
             \/ \E ids \in SUBSET Job : DeleteAnalyses(ids)
             \/ UNCHANGED vars
      PROVE  submitting[j] # None
  BY <1>3 DEF SubmitAnalysis, EnqueueAnalysis, EnqueueFails, Redeliver, Shutdown,
       Restart, TypeInv, TypeOK, DeleteAnalyses, vars
<1>4. QED BY <1>1, <1>2, <1>3 DEF Next

\* A job in the hands of its submitter, or given up, is untouched or leaves nothing
\* to do, and stays so.
LEMMA GivenUpNext ==
    ASSUME Quiet, TypeInv, OwnerInv, CancelRegistry, RunStaysReachable, StoredInv,
           ToldInv, LeftInv, [Next]_vars, NEW j \in Job, jobs'[j].status # "absent",
           submitting'[j] # None \/ ~Attended(j)'
    PROVE  Left(j)' \/ Untouched(j)'
<1> USE DEF rowVars, brokerVars, runVars, cancelVars, hostVars
<1>1. ASSUME NEW w \in Worker, runJob[w] = j, runJob'[w] = j, submitting' = submitting
      PROVE  FALSE
  BY <1>1, NoneAssumption DEF Attended, OwnerInv, SingleOwner
<1>2. ASSUME NEW w \in Worker, RunWrites(w, j) PROVE FALSE
  <2>1. /\ runJob[w] = j /\ WorkerStep(w)
        /\ at[w] \notin {"idle", "load", "return_ok", "return_err"}
    BY <1>2 DEF RunWrites, NextPhase, Analyzing
  <2>2. UNCHANGED <<runJob, submitting>>
    BY <2>1 DEF WorkerStep, Dequeue, Load, RegisterCancel, StartRun, Advance,
         ProviderFails, ProviderCanceled, SaveAnalysis, CompleteRun, FailRun, CancelRun,
         Notify, ReturnRun
  <2>3. QED BY <1>1, <2>1, <2>2
<1>3. CASE jobs[j].status = "absent"
  <2>1. jobs'[j] = PendingRow /\ deliveries[j] = 0
    BY <1>2, <1>3, RowSteps DEF LeftInv, CancelWrites, MarkJobCanceled
  <2>2. ~InQueue(j)
    BY <1>3 DEF OwnerInv, Attended
  <2>3. QED BY <2>1, <2>2, DeliverySteps DEF Untouched
<1>4. CASE jobs[j].status # "absent"
  <2>1. submitting'[j] # None => submitting[j] # None
    BY <1>4, SubmitterSteps
  <2>2. Left(j) \/ Untouched(j)
    <3>1. CASE submitting[j] # None \/ ~Attended(j)
      BY <1>4, <3>1 DEF LeftInv
    <3>2. CASE submitting[j] = None /\ Attended(j)
      BY <2>1, <3>2, AttendedSteps DEF LeftInv, Left
    <3>3. QED BY <3>1, <3>2
  <2>3. CASE Left(j)
    <3>1. \A w \in Worker : ~(StartRun(w) /\ runJob[w] = j)
      BY <1>1 DEF StartRun
    <3>2. QED BY <2>3, <3>1, LeftStays
  <2>4. CASE Untouched(j)
    <3>1. CASE jobs'[j] = jobs[j]
      <4>1. ~InQueue(j) => deliveries'[j] = deliveries[j]
        BY DeliverySteps
      <4>2. CASE submitting[j] # None
        BY <2>4, <3>1, <4>1, <4>2 DEF OwnerInv, SingleOwner, Untouched
      <4>3. CASE submitting[j] = None
        <5>1. ~Attended(j)'
          BY <2>1, <4>3
        <5>2. ~InQueue(j) \/ Settled(j) \/ \E w \in Worker : runJob[w] = j /\ at[w] \in Ended
          BY <4>3, <5>1, AttendedSteps DEF Attended
        <5>3. QED BY <2>4, <3>1, <4>1, <5>2, NoneAssumption
                 DEF OwnerInv, SingleOwner, Untouched, PendingRow, Settled, TerminalStatus
      <4>4. QED BY <4>2, <4>3
    <3>2. CASE jobs'[j] # jobs[j]
      <4>1. \E c \in Canceler : CancelWrites(c, j)
        BY <1>2, <1>4, <3>2, RowSteps
      <4>2. QED BY <4>1 DEF CancelWrites, MarkCanceled, Left, Settled, TerminalStatus,
                       TypeInv, TypeOK, Row
    <3>3. QED BY <3>1, <3>2
  <2>5. QED BY <2>2, <2>3, <2>4
<1>5. QED BY <1>3, <1>4

\* No job is given up before it is settled, or canceled with its analysis stored,
\* but one its submitter could not enqueue.
LEMMA LeftNext ==
    ASSUME Quiet, TypeInv, OwnerInv, CancelRegistry, RunStaysReachable, StoredInv,
           ToldInv, LeftInv, [Next]_vars
    PROVE  LeftInv'
<1>1. ASSUME NEW c \in Canceler, cancelAt'[c] # "idle"
      PROVE  jobs'[cancelJob'[c]].status # "absent"
  BY <1>1, RequestSteps, RowsStay DEF LeftInv
<1>2. ASSUME NEW c \in Canceler, cancelAt'[c] = "invoke",
             NEW j \in Job, j = cancelJob'[c], Unstarted(j)'
      PROVE  Left(j)'
  <2>1. /\ cancelAt[c] # "idle" /\ cancelJob[c] = j
        /\ cancelAt[c] = "invoke" \/ Stored(j, MarkCanceled(jobs[j]))
    BY <1>2, RequestSteps
  <2>2. CASE Stored(j, MarkCanceled(jobs[j]))
    BY <2>2 DEF Stored, MarkCanceled, Left, Settled, TerminalStatus, TypeInv, TypeOK, Row
  <2>3. CASE cancelAt[c] = "invoke"
    <3>1. Left(j)
      BY <1>2, <2>1, <2>3, UnstartedSteps, QuietContexts DEF LeftInv
    <3>2. \A w \in Worker : ~(StartRun(w) /\ runJob[w] = j)
      BY <1>2, StartedSteps
    <3>3. QED BY <3>1, <3>2, LeftStays
  <2>4. QED BY <2>1, <2>2, <2>3
<1>3. ASSUME NEW w \in Worker, at'[w] = "mark_running", ctxDone'[w],
             NEW j \in Job, j = runJob'[w]
      PROVE  Left(j)'
  <2>1. /\ at[w] \in Registered /\ runJob[w] = j
        /\ ctxDone[w] \/ \E c \in Canceler : InvokeCancel(c) /\ cancelJob[c] = j
    BY <1>3, ContextSteps
  <2>2. at[w] = "mark_running"
    BY <1>3, <2>1, EarlySteps DEF Early, Dequeue, Registered, Analyzing, Recording
  <2>3. Left(j)
    BY <2>1, <2>2 DEF LeftInv, Unstarted, Early, InvokeCancel
  <2>4. \A v \in Worker : ~(StartRun(v) /\ runJob[v] = j)
    BY <1>3, <2>1, StartedSteps
  <2>5. QED BY <2>3, <2>4, LeftStays
<1>4. ASSUME NEW w \in Worker, at'[w] \in Ended, NEW j \in Job, j = runJob'[w]
      PROVE  Left(j)'
  <2>1. /\ runJob[w] = j
        /\ \/ Left(j) /\ (StartRun(w) => UNCHANGED jobs)
           \/ jobs'[j].status \in TerminalStatus
    BY <1>4, EndedSteps
  <2>2. CASE jobs'[j].status \in TerminalStatus
    BY <2>2 DEF Left, Settled
  <2>3. CASE Left(j) /\ (StartRun(w) => UNCHANGED jobs)
    BY <2>1, <2>3, StartedSteps, LeftStays
  <2>4. QED BY <2>1, <2>2, <2>3
<1>5. ASSUME NEW j \in Job, jobs'[j].status # "absent", submitting'[j] # None \/ ~Attended(j)'
      PROVE  Left(j)' \/ Untouched(j)'
  BY <1>5, GivenUpNext
<1>6. ASSUME NEW j \in Job, jobs'[j].status = "absent" PROVE deliveries'[j] = 0
  <2>1. jobs[j].status = "absent"
    BY <1>6, RowsStay
  <2>2. ~InQueue(j)
    BY <2>1 DEF OwnerInv, Attended
  <2>3. QED BY <2>1, <2>2, DeliverySteps DEF LeftInv
<1>7. \A c \in Canceler : cancelAt'[c] = "invoke" => cancelJob'[c] \in Job
  BY TypeInvNext DEF TypeInv, TypeOK, BusyInv
<1>8. \A w \in Worker : at'[w] \in Ended \cup {"mark_running"} => runJob'[w] \in Job
  BY TypeInvNext DEF TypeInv, TypeOK, BusyInv, Ended
<1>9. \A c \in Canceler : (cancelAt[c] = "invoke" /\ Unstarted(cancelJob[c])
                             => Left(cancelJob[c]))'
  <2>1. ASSUME NEW c \in Canceler, cancelAt'[c] = "invoke", Unstarted(cancelJob[c])'
        PROVE  Left(cancelJob[c])'
    <3>1. PICK j \in Job : j = cancelJob'[c]
      BY <1>7, <2>1
    <3>2. Unstarted(j)'
      BY <2>1, <3>1 DEF Unstarted, InQueue
    <3>3. Left(j)'
      BY <1>2, <2>1, <3>1, <3>2
    <3>4. QED BY <3>1, <3>3 DEF Left, Settled, Told
  <2>2. QED BY <2>1
<1>10. \A w \in Worker : ((at[w] = "mark_running" /\ ctxDone[w]) \/ at[w] \in Ended
                            => Left(runJob[w]))'
  <2>1. ASSUME NEW w \in Worker,
               (at'[w] = "mark_running" /\ ctxDone'[w]) \/ at'[w] \in Ended
        PROVE  Left(runJob[w])'
    <3>1. PICK j \in Job : j = runJob'[w]
      BY <1>8, <2>1
    <3>2. Left(j)'
      BY <1>3, <1>4, <2>1, <3>1
    <3>3. QED BY <3>1, <3>2 DEF Left, Settled, Told
  <2>2. QED BY <2>1 DEF Ended
<1>11. QED
  BY <1>1, <1>5, <1>6, <1>9, <1>10 DEF LeftInv

\* While only providers, the handing over to the queue and requests fail, a job that nobody
\* attends to and whose row is not terminal never reached a worker, or its analysis was
\* stored and a client asked to cancel it.
THEOREM UnattendedExplained == ASSUME Quiet PROVE Spec => []UnattendedIsExplained
<1>1. NoOverlap
  BY DEF Quiet, NoOverlap
<1>2. Init => ToldInv /\ LeftInv /\ StoredInv
  BY NoneAssumption
     DEF Init, ToldInv, CanceledByClient, Canceling, AbsentRow, PendingRow, LeftInv, StoredInv,
     StoredBefore, Ended
<1>3. TypeInv /\ OwnerInv /\ CancelRegistry /\ RunStaysReachable /\ ToldInv /\ [Next]_vars
        => ToldInv'
  BY ToldNext
<1>4. TypeInv /\ OwnerInv /\ CancelRegistry /\ RunStaysReachable /\ StoredInv /\ ToldInv
      /\ LeftInv /\ [Next]_vars => LeftInv'
  BY LeftNext
<1>5. TypeInv /\ StoredInv /\ [Next]_vars => StoredInv'
  BY StoredInvNext
<1>6. LeftInv => UnattendedIsExplained
  BY DEF LeftInv, UnattendedIsExplained, Left, Untouched, Told
<1>7. QED
  BY <1>1, <1>2, <1>3, <1>4, <1>5, <1>6, OwnerInvariant, CancelRegistryCorrect,
     ReachableRuns, TypeInvInit, TypeInvNext, PTL DEF Spec
-----------------------------------------------------------------------------
(* The progress of an attempt *)

\* The percentage a run has reported when it is at this step.
Reported(step) == IF step = "running" THEN 0 ELSE ProgressOf(step)

\* A row never inserted has made no progress, nor one that is delivered once and
\* that no run has started; a run's row is not ahead of what the run has reported.
ProgressInv ==
    /\ \A j \in Job :
          jobs[j].status = "absent" \/ (SingleDelivery /\ Unstarted(j))
              => jobs[j].progress = 0
    /\ \A w \in Worker :
          at[w] \in Analyzing => jobs[runJob[w]].progress <= Reported(at[w])

\* The phases report growing percentages.
LEMMA ReportsGrow ==
    /\ \A step \in Analyzing : Reported(step) \in 0..100
    /\ \A step \in DOMAIN NextPhase :
          /\ Reported(NextPhase[step]) = ProgressOf(NextPhase[step])
          /\ Reported(step) <= ProgressOf(NextPhase[step])
<1>1. /\ ProgressOf("collecting_signals") = 10 /\ ProgressOf("normalizing") = 35
      /\ ProgressOf("calling_llm") = 55 /\ ProgressOf("persisting") = 85
  BY DEF ProgressOf
<1>2. /\ Reported("running") = 0 /\ Reported("collecting_signals") = 10
      /\ Reported("normalizing") = 35 /\ Reported("calling_llm") = 55
      /\ Reported("persisting") = 85
  BY <1>1 DEF Reported
<1>3. \A step \in Analyzing : Reported(step) \in 0..100
  BY <1>2 DEF Analyzing
<1>4. ASSUME NEW step \in DOMAIN NextPhase
      PROVE  /\ Reported(NextPhase[step]) = ProgressOf(NextPhase[step])
             /\ Reported(step) <= ProgressOf(NextPhase[step])
  <2>1. /\ NextPhase["running"] = "collecting_signals"
        /\ NextPhase["collecting_signals"] = "normalizing"
        /\ NextPhase["normalizing"] = "calling_llm"
        /\ NextPhase["calling_llm"] = "persisting"
    BY DEF NextPhase, Analyzing
  <2>2. step \in {"running", "collecting_signals", "normalizing", "calling_llm"}
    BY DEF NextPhase, Analyzing
  <2>3. QED BY <1>1, <1>2, <2>1, <2>2
<1>5. QED BY <1>3, <1>4

\* A run is at such a step because it started or advanced, or did nothing.
LEMMA AnalyzingSteps ==
    ASSUME TypeInv, [Next]_vars, NEW w \in Worker, at'[w] \in Analyzing
    PROVE  /\ runJob'[w] = runJob[w]
           /\ \/ Advance(w)
              \/ StartRun(w) /\ at'[w] = "running"
              \/ at'[w] = at[w] /\ ~WorkerStep(w)
<1> USE DEF rowVars, brokerVars, runVars, cancelVars, hostVars
<1>1. runJob'[w] = runJob[w]
  BY CompletingSteps DEF Completing
<1>2. CASE WorkerStep(w)
  <2>1. CASE StartRun(w)
    BY <2>1, <1>1 DEF StartRun, GoTo, Analyzing, TypeInv, TypeOK
  <2>2. CASE \/ Dequeue(w) \/ Load(w) \/ RegisterCancel(w) \/ ProviderFails(w)
             \/ ProviderCanceled(w) \/ SaveAnalysis(w) \/ CompleteRun(w) \/ FailRun(w)
             \/ CancelRun(w) \/ Notify(w) \/ ReturnRun(w)
    BY <2>2 DEF Dequeue, Load, RegisterCancel, ProviderFails, ProviderCanceled,
       SaveAnalysis, CompleteRun, FailRun, CancelRun, Notify, ReturnRun, HandlerReturns,
       GoTo, Analyzing, TypeInv, TypeOK
  <2>3. QED BY <1>1, <1>2, <2>1, <2>2 DEF WorkerStep
<1>3. CASE ~WorkerStep(w)
  <2>1. ASSUME NEW v \in Worker, v # w, WorkerStep(v) PROVE at'[w] = at[w]
    BY <2>1 DEF WorkerStep, Dequeue, Load, RegisterCancel, StartRun, Advance,
       ProviderFails, ProviderCanceled, SaveAnalysis, CompleteRun, FailRun, CancelRun,
       Notify, ReturnRun, HandlerReturns, GoTo, TypeInv, TypeOK
  <2>2. ASSUME NEW i \in Instance, Restart(i) PROVE at'[w] = at[w]
    BY <2>2 DEF Restart, Analyzing, TypeInv, TypeOK
  <2>3. ASSUME \/ \E j \in Job, i \in Instance : SubmitAnalysis(j, i)
               \/ \E j \in Job : EnqueueAnalysis(j) \/ EnqueueFails(j) \/ Redeliver(j)
               \/ \E v \in Worker : TakeTask(v)
               \/ \E c \in Canceler, j \in Job : RequestCancel(c, j)
               \/ \E c \in Canceler : CancelerStep(c)
               \/ \E i \in Instance : Shutdown(i)
               \/ \E ids \in SUBSET Job : DeleteAnalyses(ids)
               \/ UNCHANGED vars
        PROVE  at'[w] = at[w]
    BY <2>3 DEF SubmitAnalysis, EnqueueAnalysis, EnqueueFails, Redeliver, TakeTask,
         Shutdown, RequestCancel, CancelerStep, MarkJobCanceled, InvokeCancel,
         AnswerCancel, DeleteAnalyses, vars
  <2>4. QED BY <1>1, <1>3, <2>1, <2>2, <2>3 DEF Next
<1>4. QED BY <1>2, <1>3

\* What a step does to a row whose run is at these steps, or has not begun.
LEMMA ProgressSteps ==
    ASSUME TypeInv, OwnerInv, [Next]_vars, NEW j \in Job, jobs'[j] # jobs[j]
    PROVE  \/ jobs[j].status = "absent" /\ jobs'[j] = PendingRow
           \/ jobs'[j].progress = jobs[j].progress /\ jobs'[j].status # "absent"
           \/ \E w \in Worker : RunWrites(w, j) /\ at[w] \in Completing \cup {"mark_running"}
<1>1. jobs[j] \in Row
  BY DEF TypeInv, TypeOK
<1>2. ASSUME NEW w \in Worker, RunWrites(w, j),
             at[w] \notin Completing \cup {"mark_running"}
      PROVE  jobs'[j].progress = jobs[j].progress /\ jobs'[j].status # "absent"
  BY <1>1, <1>2 DEF RunWrites, Completing, Analyzing, NextPhase, MarkFailed, MarkCanceled, Row
<1>3. ASSUME NEW c \in Canceler, CancelWrites(c, j)
      PROVE  jobs'[j].progress = jobs[j].progress /\ jobs'[j].status # "absent"
  BY <1>1, <1>3 DEF CancelWrites, MarkCanceled, Row
<1>4. QED BY <1>2, <1>3, RowSteps

\* What each report does to the percentage.
LEMMA ReportedSteps ==
    ASSUME TypeInv, OwnerInv, ProgressInv, [Next]_vars, NEW w \in Worker, NEW j \in Job,
           RunWrites(w, j), at[w] \in Completing \cup {"mark_running"}
    PROVE  \/ jobs'[j].progress >= jobs[j].progress
           \/ jobs'[j].attempt > jobs[j].attempt
<1>1. jobs[j] \in Row /\ runJob[w] = j
  BY DEF TypeInv, TypeOK, RunWrites
<1>2. jobs[j].progress \in 0..100 /\ jobs[j].attempt \in Nat
  BY <1>1 DEF Row
<1>3. CASE at[w] = "mark_running"
  <2>1. jobs'[j] = MarkRunning(jobs[j])
    BY <1>3 DEF RunWrites, NextPhase, Analyzing
  <2>2. jobs'[j].attempt = jobs[j].attempt + 1
    BY <1>1, <2>1 DEF MarkRunning, Row
  <2>3. QED BY <1>2, <2>2
<1>4. CASE at[w] \in DOMAIN NextPhase
  <2>1. jobs'[j].progress = ProgressOf(NextPhase[at[w]])
    BY <1>1, <1>4 DEF RunWrites, MarkPhase, Row, NextPhase, Analyzing
  <2>2. /\ jobs[j].progress <= Reported(at[w]) /\ Reported(at[w]) \in 0..100
        /\ Reported(at[w]) <= ProgressOf(NextPhase[at[w]])
        /\ NextPhase[at[w]] \in Analyzing
    BY <1>1, <1>4, ReportsGrow, NextPhases DEF ProgressInv, NextPhase
  <2>3. ProgressOf(NextPhase[at[w]]) \in 0..100
    BY <1>4, <2>2, ReportsGrow
  <2>4. \A a, b, c \in 0..100 : a <= b /\ b <= c => c >= a
    OBVIOUS
  <2>5. ProgressOf(NextPhase[at[w]]) >= jobs[j].progress
    BY <1>2, <2>2, <2>3, <2>4
  <2>6. QED BY <2>1, <2>5
<1>5. CASE at[w] = "mark_completed"
  <2>1. jobs'[j].progress = 100
    BY <1>1, <1>5 DEF RunWrites, MarkCompleted, Row, NextPhase, Analyzing
  <2>2. QED BY <1>2, <2>1
<1>6. CASE at[w] = "persisting"
  BY <1>6 DEF RunWrites, NextPhase, Analyzing
<1>7. QED BY <1>3, <1>4, <1>5, <1>6 DEF Completing, Analyzing, NextPhase

\* Runs report in order and start from nothing, or reset what they find.
LEMMA ProgressNext ==
    ASSUME NoOverlap, Store = "postgres" \/ SingleDelivery, TypeInv, OwnerInv, ProgressInv,
           [Next]_vars
    PROVE  ProgressInv'
<1>1. ASSUME NEW j \in Job, jobs'[j].status = "absent" PROVE jobs'[j].progress = 0
  <2>1. jobs[j].status = "absent" /\ ~Attended(j)
    BY <1>1, RowsStay DEF OwnerInv
  <2>2. \A w \in Worker : ~RunWrites(w, j)
    BY <2>1 DEF RunWrites, Attended
  <2>3. jobs[j].progress = 0
    BY <2>1 DEF ProgressInv
  <2>4. QED BY <1>1, <2>2, <2>3, ProgressSteps DEF PendingRow
<1>2. ASSUME NEW j \in Job, SingleDelivery, Unstarted(j)' PROVE jobs'[j].progress = 0
  <2>1. Unstarted(j) \/ jobs[j].status = "absent"
    BY <1>2, UnstartedSteps
  <2>2. jobs[j].progress = 0
    BY <1>2, <2>1 DEF ProgressInv
  <2>3. ASSUME NEW w \in Worker, RunWrites(w, j), at[w] \in Completing \cup {"mark_running"}
        PROVE  FALSE
    <3>1. runJob[w] = j /\ Attended(j) /\ j # None /\ WorkerStep(w)
      BY <2>3, NoneAssumption DEF RunWrites, Attended
    <3>2. Unstarted(j)
      BY <2>1, <3>1 DEF OwnerInv
    <3>3. /\ submitting[j] = None /\ ~InQueue(j) /\ j \notin redeliver
          /\ \A v \in Worker : runJob[v] = j => v = w
      BY <3>1 DEF OwnerInv, SingleOwner
    <3>4. at[w] = "mark_running"
      BY <2>3, <3>2, <3>3 DEF Unstarted, Early, Completing, Analyzing
    <3>5. StartRun(w)
      BY <3>1, <3>4 DEF WorkerStep, Dequeue, Load, RegisterCancel, Advance,
         NextPhase, Analyzing, ProviderFails, ProviderCanceled, SaveAnalysis,
         CompleteRun, FailRun, CancelRun, Notify, ReturnRun
    <3>6. QED BY <1>2, <3>1, <3>5, StartedSteps
  <2>4. QED BY <2>2, <2>3, ProgressSteps DEF PendingRow
<1>3. ASSUME NEW w \in Worker, at'[w] \in Analyzing
      PROVE  jobs'[runJob'[w]].progress <= Reported(at'[w])
  <2>1. /\ runJob'[w] = runJob[w]
        /\ \/ Advance(w)
           \/ StartRun(w) /\ at'[w] = "running"
           \/ at'[w] = at[w] /\ ~WorkerStep(w)
    BY <1>3, AnalyzingSteps
  <2>2. PICK j \in Job : j = runJob[w]
    <3>1. at[w] # "idle"
      BY <1>3, <2>1 DEF Advance, StartRun, NextPhase, Analyzing
    <3>2. QED BY <3>1, RunRow
  <2>3. jobs[j] \in Row /\ jobs[j].progress \in 0..100 /\ j # None /\ jobs \in [Job -> Row]
    BY NoneAssumption DEF TypeInv, TypeOK, Row
  <2>4. CASE Advance(w)
    <3>1. /\ at[w] \in DOMAIN NextPhase /\ at'[w] = NextPhase[at[w]]
          /\ jobs' \in {jobs, [jobs EXCEPT ![j] = MarkPhase(jobs[j], NextPhase[at[w]])]}
      BY <2>2, <2>4 DEF Advance, GoTo, RunStoreFault, StoreFault, Stored, TypeInv, TypeOK
    <3>2. /\ jobs[j].progress <= Reported(at[w]) /\ Reported(at[w]) \in 0..100
          /\ Reported(at[w]) <= Reported(NextPhase[at[w]])
          /\ Reported(NextPhase[at[w]]) = ProgressOf(NextPhase[at[w]])
          /\ Reported(NextPhase[at[w]]) \in 0..100
      BY <1>3, <2>2, <3>1, ReportsGrow DEF ProgressInv, NextPhase
    <3>3. CASE jobs' = jobs
      <4>1. \A a, b, c \in 0..100 : a <= b /\ b <= c => a <= c
        OBVIOUS
      <4>2. jobs[j].progress <= Reported(NextPhase[at[w]])
        BY <2>3, <3>2, <4>1
      <4>3. QED BY <2>1, <2>2, <3>1, <3>3, <4>2
    <3>4. CASE jobs' = [jobs EXCEPT ![j] = MarkPhase(jobs[j], NextPhase[at[w]])]
      <4>1. jobs'[j].progress = ProgressOf(NextPhase[at[w]])
        BY <2>3, <3>4 DEF MarkPhase, Row
      <4>2. QED BY <2>1, <2>2, <3>1, <3>2, <4>1
    <3>5. QED BY <3>1, <3>3, <3>4
  <2>5. CASE StartRun(w) /\ at'[w] = "running"
    <3>1. at[w] = "mark_running" /\ jobs' = [jobs EXCEPT ![j] = MarkRunning(jobs[j])]
      BY <2>2, <2>5 DEF StartRun, GoTo, Stored, TypeInv, TypeOK
    <3>2. jobs'[j] = MarkRunning(jobs[j])
      BY <2>3, <3>1
    <3>3. SingleDelivery => jobs[j].progress = 0
      BY <2>2, <3>1 DEF ProgressInv, Unstarted, Early
    <3>4. jobs'[j].progress = 0
      BY <2>3, <3>2, <3>3 DEF MarkRunning, Row
    <3>5. QED BY <2>1, <2>2, <2>5, <3>4 DEF Reported
  <2>6. CASE at'[w] = at[w] /\ ~WorkerStep(w)
    <3>1. \A v \in Worker : RunWrites(v, j) => FALSE
      BY <2>2, <2>3, <2>6 DEF RunWrites, OwnerInv, SingleOwner
    <3>2. jobs[j].status # "absent"
      BY <2>2 DEF OwnerInv, Attended
    <3>3. jobs'[j].progress = jobs[j].progress
      BY <3>1, <3>2, ProgressSteps
    <3>4. jobs[j].progress <= Reported(at[w])
      BY <1>3, <2>2, <2>6 DEF ProgressInv
    <3>5. QED BY <2>1, <2>2, <2>6, <3>3, <3>4
  <2>7. QED BY <2>1, <2>4, <2>5, <2>6
<1>4. \A j \in Job : Unstarted(j)' /\ SingleDelivery => jobs'[j].progress = 0
  BY <1>2
<1>5. QED
  BY <1>1, <1>3, <1>4 DEF ProgressInv, Unstarted, InQueue

\* While runs do not overlap, the percentage a client polls grows within an attempt,
\* over Postgres and with every backend that delivers once.
THEOREM ProgressGrows ==
    ASSUME NoOverlap, Store = "postgres" \/ SingleDelivery
    PROVE  Spec => ProgressWithinAttempt
<1>1. Init => ProgressInv
  BY DEF Init, ProgressInv, AbsentRow, PendingRow, Analyzing
<1>2. TypeInv /\ OwnerInv /\ ProgressInv /\ [Next]_vars => ProgressInv'
  BY ProgressNext
<1>3. ASSUME TypeInv, OwnerInv, ProgressInv, [Next]_vars, NEW j \in Job
      PROVE  jobs'[j].progress < jobs[j].progress => jobs'[j].attempt > jobs[j].attempt
  <2>1. jobs[j].progress \in 0..100 /\ jobs'[j].progress \in 0..100
    BY <1>3, TypeInvNext DEF TypeInv, TypeOK, Row
  <2>2. jobs[j].status = "absent" /\ jobs'[j] = PendingRow
          => jobs'[j].progress = jobs[j].progress
    BY <1>3 DEF ProgressInv, PendingRow
  <2>3. ASSUME NEW w \in Worker, RunWrites(w, j), at[w] \in Completing \cup {"mark_running"}
        PROVE  jobs'[j].progress >= jobs[j].progress \/ jobs'[j].attempt > jobs[j].attempt
    BY <1>3, <2>3, ReportedSteps
  <2>4. jobs'[j].progress >= jobs[j].progress => ~(jobs'[j].progress < jobs[j].progress)
    <3>1. \A a, b \in 0..100 : a >= b => ~(a < b)
      OBVIOUS
    <3>2. QED BY <2>1, <3>1
  <2>5. jobs'[j].progress = jobs[j].progress => jobs'[j].progress >= jobs[j].progress
    BY <2>1
  <2>6. jobs'[j].progress >= jobs[j].progress \/ jobs'[j].attempt > jobs[j].attempt
    BY <1>3, <2>2, <2>3, <2>5, ProgressSteps
  <2>7. QED BY <2>4, <2>6
<1>4. TypeInv /\ OwnerInv /\ ProgressInv /\ [Next]_vars
        => [\A j \in Job : jobs'[j].progress < jobs[j].progress
                              => jobs'[j].attempt > jobs[j].attempt]_vars
  BY <1>3
<1>5. QED
  BY <1>1, <1>2, <1>4, OwnerInvariant, TypeInvInit, TypeInvNext, PTL
     DEF Spec, ProgressWithinAttempt

-----------------------------------------------------------------------------
(* The lifecycle of a job *)

\* What a worker at a step does for its job, in the words of JobLifecycle.
StageOf(step) ==
    IF step \in Begun THEN "begun" ELSE IF step \in Working THEN "running" ELSE "none"

\* A job is at the stage its one worker is at.
RunsAreStages ==
    /\ \A j \in Job, w \in Worker : runJob[w] = j => RunOf[j] = StageOf(at[w])
    /\ \A j \in Job : (\A w \in Worker : runJob[w] # j) => RunOf[j] = "none"

\* No step is of two stages.
LEMMA StagesDiffer ==
    /\ Begun \cap Working = {}
    /\ {"idle", "load", "notify_completed", "notify_failed", "return_ok", "return_err"}
          \cap (Begun \cup Working) = {}
  BY DEF Begun, Working, Analyzing

\* With one worker a job, the stages of its workers are those of that worker.
LEMMA StagesNow == ASSUME SingleOwner PROVE RunsAreStages
<1>1. ASSUME NEW j \in Job, NEW w \in Worker, runJob[w] = j
      PROVE  RunOf[j] = StageOf(at[w])
  <2>1. \A v \in Worker : runJob[v] = j => v = w
    BY <1>1, NoneAssumption DEF SingleOwner
  <2>2. \A steps : HasRun(j, steps) <=> at[w] \in steps
    BY <1>1, <2>1 DEF HasRun
  <2>3. QED BY <2>2 DEF RunOf, StageOf
<1>2. ASSUME NEW j \in Job, \A w \in Worker : runJob[w] # j PROVE RunOf[j] = "none"
  BY <1>2 DEF RunOf, HasRun
<1>3. QED BY <1>1, <1>2 DEF RunsAreStages

LEMMA StagesThen == ASSUME SingleOwner' PROVE RunsAreStages'
<1>1. ASSUME NEW j \in Job, NEW w \in Worker, runJob'[w] = j
      PROVE  RunOf'[j] = StageOf(at'[w])
  <2>1. \A v \in Worker : runJob'[v] = j => v = w
    BY <1>1, NoneAssumption DEF SingleOwner
  <2>2. HasRun(j, Begun)' <=> at'[w] \in Begun
    BY <1>1, <2>1 DEF HasRun, Begun
  <2>3. HasRun(j, Working)' <=> at'[w] \in Working
    BY <1>1, <2>1 DEF HasRun, Working, Analyzing
  <2>4. QED BY <2>2, <2>3 DEF RunOf, StageOf
<1>2. ASSUME NEW j \in Job, \A w \in Worker : runJob'[w] # j PROVE RunOf'[j] = "none"
  BY <1>2 DEF RunOf, HasRun
<1>3. QED BY <1>1, <1>2 DEF RunsAreStages, StageOf, Begun, Working, Analyzing

\* What the steps of the proofs below start from.
InLife == TypeInv /\ OwnerInv /\ StoredInv /\ TypeInv' /\ OwnerInv'

\* A worker that stays at its stage, or the step of somebody else.
LEMMA StagesStay ==
    ASSUME InLife,
           \A w \in Worker : runJob'[w] = runJob[w] /\ StageOf(at'[w]) = StageOf(at[w])
    PROVE  RunOf' = RunOf
<1>1. RunsAreStages /\ RunsAreStages'
  BY StagesNow, StagesThen DEF InLife, OwnerInv
<1>2. \A j \in Job : RunOf'[j] = RunOf[j]
  BY <1>1 DEF RunsAreStages, StageOf
<1>3. QED BY <1>2, Zenon DEF RunOf

\* A worker goes on to another stage of its run, or ends it.
LEMMA StageMoves ==
    ASSUME InLife, NEW w \in Worker, NEW j \in Job, runJob[w] = j,
           runJob'[w] \in {j, None},
           \A v \in Worker \ {w} : runJob'[v] = runJob[v] /\ at'[v] = at[v]
    PROVE  RunOf[j] = StageOf(at[w]) /\ RunOf' = [RunOf EXCEPT ![j] = StageOf(at'[w])]
<1>1. RunsAreStages /\ RunsAreStages'
  BY StagesNow, StagesThen DEF InLife, OwnerInv
<1>2. RunOf[j] = StageOf(at[w])
  BY <1>1 DEF RunsAreStages
<1>3. RunOf'[j] = StageOf(at'[w])
  <2>1. CASE runJob'[w] = j
    BY <1>1, <2>1 DEF RunsAreStages, StageOf
  <2>2. CASE runJob'[w] = None
    <3>1. at'[w] = "idle"
      BY <2>2 DEF InLife, TypeInv, BusyInv
    <3>2. \A v \in Worker : runJob'[v] # j
      BY <2>2, NoneAssumption DEF InLife, OwnerInv, SingleOwner
    <3>3. RunOf'[j] = "none"
      BY <1>1, <3>2 DEF RunsAreStages
    <3>4. QED BY <3>1, <3>3, StagesDiffer DEF StageOf
  <2>3. QED BY <2>1, <2>2
<1>4. \A k \in Job \ {j} : RunOf'[k] = RunOf[k]
  BY <1>1, NoneAssumption DEF RunsAreStages, StageOf
<1>5. QED
  <2>1. \A k \in Job : RunOf'[k] = IF k = j THEN StageOf(at'[w]) ELSE RunOf[k]
    BY <1>3, <1>4
  <2>2. RunOf' = [k \in Job |-> IF k = j THEN StageOf(at'[w]) ELSE RunOf[k]]
    BY <2>1, Zenon DEF RunOf
  <2>3. RunOf = [k \in Job |-> RunOf[k]]
    BY Zenon DEF RunOf
  <2>4. QED BY <1>2, <2>2, <2>3, Zenon

\* What a statement on a row does to the statuses.
LEMMA StatusMoves ==
    ASSUME NEW j \in Job, NEW r
    PROVE  /\ Stored(j, r) /\ jobs \in [Job -> Row]
                => StatusOf' = [StatusOf EXCEPT ![j] = r.status]
           /\ StoreFault(j, r) /\ jobs \in [Job -> Row]
                => StatusOf' \in {StatusOf, [StatusOf EXCEPT ![j] = r.status]}
           /\ UNCHANGED jobs => StatusOf' = StatusOf
<1>1. ASSUME jobs' = [jobs EXCEPT ![j] = r], jobs \in [Job -> Row]
      PROVE  StatusOf' = [StatusOf EXCEPT ![j] = r.status]
  <2>1. \A k \in Job : StatusOf'[k] = IF k = j THEN r.status ELSE StatusOf[k]
    BY <1>1 DEF StatusOf
  <2>2. StatusOf' = [k \in Job |-> IF k = j THEN r.status ELSE StatusOf[k]]
    BY <2>1, Zenon DEF StatusOf
  <2>3. StatusOf = [k \in Job |-> StatusOf[k]]
    BY Zenon DEF StatusOf
  <2>4. QED BY <2>2, <2>3, Zenon
<1>2. ASSUME UNCHANGED jobs PROVE StatusOf' = StatusOf
  BY <1>2 DEF StatusOf
<1>3. QED BY <1>1, <1>2 DEF Stored, StoreFault

\* At first there are no rows, runs and requests.
LEMMA LifeBegins == Init => Lifecycle!Init
<1> SUFFICES ASSUME Init PROVE Lifecycle!Init
  OBVIOUS
<1>1. StatusOf = [j \in Job |-> "absent"]
  BY DEF Init, StatusOf, AbsentRow, PendingRow
<1>2. RunOf = [j \in Job |-> "none"]
  BY NoneAssumption DEF Init, RunOf, HasRun
<1>3. Deciding = [c \in Canceler |-> None]
  BY DEF Init, Deciding
<1>4. QED BY <1>1, <1>2, <1>3 DEF Init, Lifecycle!Init

\* The insert of the row is the first step of the life of a job.
LEMMA SubmitIsSubmit ==
    ASSUME InLife, NEW j \in Job, NEW i \in Instance, SubmitAnalysis(j, i)
    PROVE  Lifecycle!Submit(j)
<1>1. jobs \in [Job -> Row] /\ PendingRow.status = "pending"
  BY DEF InLife, TypeInv, TypeOK, PendingRow
<1>2. StatusOf[j] = "absent" /\ StatusOf' = [StatusOf EXCEPT ![j] = "pending"]
  BY <1>1, StatusMoves DEF SubmitAnalysis, StatusOf
<1>3. RunOf' = RunOf
  BY StagesStay DEF SubmitAnalysis, runVars
<1>4. Deciding' = Deciding
  BY DEF SubmitAnalysis, cancelVars, Deciding
<1>5. QED BY <1>2, <1>3, <1>4 DEF Lifecycle!Submit, SubmitAnalysis

\* A worker step changes no request, and moves no other worker.
LEMMA WorkersMoveAlone ==
    ASSUME InLife, NEW w \in Worker, WorkerStep(w)
    PROVE  /\ Deciding' = Deciding
           /\ \A v \in Worker \ {w} : runJob'[v] = runJob[v] /\ at'[v] = at[v]
           /\ ~Dequeue(w) => at[w] # "idle" /\ runJob[w] \in Job /\ runJob[w] # None
           /\ ~Dequeue(w) /\ ~Load(w) /\ ~ReturnRun(w) => runJob' = runJob
<1> USE DEF rowVars, brokerVars, runVars, cancelVars, hostVars
<1>1. UNCHANGED cancelVars
  BY DEF WorkerStep, Dequeue, Load, RegisterCancel, StartRun, Advance, ProviderFails,
     ProviderCanceled, SaveAnalysis, CompleteRun, FailRun, CancelRun, Notify, ReturnRun
<1>2. Deciding' = Deciding
  BY <1>1 DEF Deciding
<1>3. \A v \in Worker \ {w} : runJob'[v] = runJob[v] /\ at'[v] = at[v]
  <2>1. CASE Dequeue(w) \/ Load(w) \/ ReturnRun(w)
    BY <2>1 DEF Dequeue, Load, ReturnRun, HandlerReturns, GoTo, InLife, TypeInv, TypeOK
  <2>2. CASE RegisterCancel(w) \/ StartRun(w) \/ Advance(w) \/ ProviderFails(w)
             \/ ProviderCanceled(w)
    BY <2>2 DEF RegisterCancel, StartRun, Advance, ProviderFails, ProviderCanceled, GoTo,
       InLife, TypeInv, TypeOK
  <2>3. CASE SaveAnalysis(w) \/ CompleteRun(w) \/ FailRun(w) \/ CancelRun(w) \/ Notify(w)
    BY <2>3 DEF SaveAnalysis, CompleteRun, FailRun, CancelRun, Notify, GoTo,
       InLife, TypeInv, TypeOK
  <2>4. QED BY <2>1, <2>2, <2>3 DEF WorkerStep
<1>4. ASSUME ~Dequeue(w) PROVE at[w] # "idle" /\ runJob[w] \in Job /\ runJob[w] # None
  <2>1. at[w] # "idle"
    BY <1>4 DEF WorkerStep, Load, RegisterCancel, StartRun, Advance, ProviderFails,
       ProviderCanceled, SaveAnalysis, CompleteRun, FailRun, CancelRun, Notify, ReturnRun,
       NextPhase, Analyzing
  <2>2. QED BY <2>1 DEF InLife, TypeInv, TypeOK, BusyInv
<1>5. ASSUME ~Dequeue(w), ~Load(w), ~ReturnRun(w) PROVE runJob' = runJob
  BY <1>5 DEF WorkerStep, RegisterCancel, StartRun, Advance, ProviderFails,
     ProviderCanceled, SaveAnalysis, CompleteRun, FailRun, CancelRun, Notify
<1>6. QED BY <1>2, <1>3, <1>4, <1>5

\* Taking a job from the queue and giving it back are not part of its life.
LEMMA DequeueIsNothing ==
    ASSUME InLife, NEW w \in Worker, Dequeue(w)
    PROVE  UNCHANGED <<StatusOf, RunOf, Deciding, saved>>
<1>1. RunsAreStages /\ RunsAreStages'
  BY StagesNow, StagesThen DEF InLife, OwnerInv
<1>2. /\ Head(queue) \in Job /\ runJob'[w] = Head(queue) /\ at'[w] = "load"
      /\ runJob[w] = None /\ InQueue(Head(queue))
  <2>1. queue \in Seq(Job) /\ queue # <<>> /\ Head(queue) \in Job
    BY DEF InLife, TypeInv, TypeOK, Dequeue
  <2>2. 1 \in 1..Len(queue) /\ queue[1] = Head(queue)
    BY <2>1
  <2>3. QED
    BY <2>1, <2>2 DEF Dequeue, GoTo, InLife, TypeInv, TypeOK, BusyInv, InQueue
<1>3. \A v \in Worker \ {w} : runJob'[v] = runJob[v] /\ at'[v] = at[v]
  BY WorkersMoveAlone DEF WorkerStep
<1>4. \A j \in Job : RunOf'[j] = RunOf[j]
  <2>1. \A v \in Worker : runJob[v] # Head(queue)
    BY <1>2, NoneAssumption DEF InLife, OwnerInv, SingleOwner
  <2>2. RunOf[Head(queue)] = "none" /\ RunOf'[Head(queue)] = "none"
    BY <1>1, <1>2, <2>1, StagesDiffer DEF RunsAreStages, StageOf
  <2>3. ASSUME NEW j \in Job, j # Head(queue) PROVE RunOf'[j] = RunOf[j]
    BY <1>1, <1>2, <1>3, <2>3, NoneAssumption DEF RunsAreStages, StageOf
  <2>4. QED BY <2>2, <2>3
<1>5. RunOf' = RunOf
  BY <1>4, Zenon DEF RunOf
<1>6. UNCHANGED <<StatusOf, Deciding, saved>>
  BY DEF Dequeue, rowVars, cancelVars, StatusOf, Deciding
<1>7. QED BY <1>5, <1>6

\* The status is read: a run begins, or there is nothing to do.
LEMMA LoadIsBegin ==
    ASSUME InLife, NEW w \in Worker, Load(w)
    PROVE  \/ Lifecycle!Begin(runJob[w])
           \/ UNCHANGED <<StatusOf, RunOf, Deciding, saved>>
<1>1. /\ runJob[w] \in Job /\ runJob[w] # None /\ at[w] = "load" /\ Deciding' = Deciding
      /\ \A v \in Worker \ {w} : runJob'[v] = runJob[v] /\ at'[v] = at[v]
      /\ UNCHANGED <<StatusOf, saved>>
  BY WorkersMoveAlone DEF WorkerStep, Load, Dequeue, rowVars, StatusOf
<1>2. PICK j \in Job : j = runJob[w]
  BY <1>1
<1>3. StageOf("load") = "none" /\ StageOf("register") = "begun" /\ StageOf("idle") = "none"
  BY StagesDiffer DEF StageOf, Begun
<1>4. CASE HandlerReturns(w, TRUE) \/ HandlerReturns(w, FALSE)
  <2>1. runJob'[w] = None /\ at'[w] = "idle"
    BY <1>4 DEF HandlerReturns, GoTo, InLife, TypeInv, TypeOK
  <2>2. RunOf[j] = "none" /\ RunOf' = [RunOf EXCEPT ![j] = "none"]
    BY <1>1, <1>2, <1>3, <2>1, StageMoves
  <2>3. RunOf' = RunOf
    BY <2>2, Zenon DEF RunOf
  <2>4. QED BY <1>1, <2>3
<1>5. CASE /\ GoTo(w, "register") /\ runJob' = runJob
           /\ jobs[runJob[w]].status \notin {"completed", "canceled"}
  <2>1. at'[w] = "register"
    BY <1>5 DEF GoTo, InLife, TypeInv, TypeOK
  <2>2. RunOf[j] = "none" /\ RunOf' = [RunOf EXCEPT ![j] = "begun"]
    BY <1>1, <1>2, <1>3, <1>5, <2>1, StageMoves
  <2>3. jobs[j].status # "absent" /\ jobs[j] \in Row
    BY <1>1, <1>2 DEF InLife, OwnerInv, Attended, TypeInv, TypeOK
  <2>4. StatusOf[j] \in {"pending", "running", "failed"}
    BY <1>2, <1>5, <2>3 DEF StatusOf, Row, JobStatus
  <2>5. QED BY <1>1, <1>2, <2>2, <2>4 DEF Lifecycle!Begin
<1>6. QED BY <1>4, <1>5 DEF Load

\* Registering the run, its reports and its end change no stage.
LEMMA RunsOn ==
    ASSUME InLife, NEW w \in Worker,
           \/ RegisterCancel(w) \/ Advance(w) \/ ProviderFails(w) \/ ProviderCanceled(w)
           \/ Notify(w)
    PROVE  UNCHANGED <<StatusOf, RunOf, Deciding, saved>>
<1> USE DEF rowVars
<1>1. /\ runJob[w] \in Job /\ runJob' = runJob /\ at[w] # "idle" /\ Deciding' = Deciding
      /\ \A v \in Worker \ {w} : at'[v] = at[v]
  <2>1. WorkerStep(w) /\ ~Dequeue(w) /\ ~Load(w) /\ ~ReturnRun(w)
    BY DEF WorkerStep, RegisterCancel, Advance, ProviderFails, ProviderCanceled, Notify,
       Dequeue, Load, ReturnRun, NextPhase, Analyzing
  <2>2. QED BY <2>1, WorkersMoveAlone
<1>2. StageOf(at'[w]) = StageOf(at[w])
  <2>1. CASE RegisterCancel(w)
    BY <2>1 DEF RegisterCancel, GoTo, StageOf, Begun, InLife, TypeInv, TypeOK
  <2>2. CASE Advance(w)
    <3>1. at[w] \in Analyzing /\ at'[w] \in Analyzing
      BY <2>2, NextPhases DEF Advance, GoTo, NextPhase, InLife, TypeInv, TypeOK
    <3>2. QED BY <3>1, StagesDiffer DEF StageOf, Working
  <2>3. CASE ProviderFails(w) \/ ProviderCanceled(w)
    <3>1. at[w] \in Working /\ at'[w] \in Working
      BY <2>3 DEF ProviderFails, ProviderCanceled, GoTo, Working, Analyzing,
         InLife, TypeInv, TypeOK
    <3>2. QED BY <3>1, StagesDiffer DEF StageOf
  <2>4. CASE Notify(w)
    <3>1. /\ at[w] \in {"notify_completed", "notify_failed"}
          /\ at'[w] \in {"return_ok", "return_err"}
      BY <2>4 DEF Notify, GoTo, InLife, TypeInv, TypeOK
    <3>2. QED BY <3>1, StagesDiffer DEF StageOf
  <2>5. QED BY <2>1, <2>2, <2>3, <2>4
<1>3. RunOf' = RunOf
  BY <1>1, <1>2, StagesStay
<1>4. StatusOf' = StatusOf
  <2>1. CASE Advance(w)
    <3>1. jobs \in [Job -> Row] /\ jobs[runJob[w]] \in Row
      BY <1>1 DEF InLife, TypeInv, TypeOK
    <3>2. MarkPhase(jobs[runJob[w]], NextPhase[at[w]]).status = jobs[runJob[w]].status
      BY <3>1 DEF MarkPhase, Row
    <3>3. \/ jobs' = jobs
          \/ jobs' = [jobs EXCEPT ![runJob[w]] = MarkPhase(jobs[runJob[w]], NextPhase[at[w]])]
      BY <2>1 DEF Advance, Stored, RunStoreFault, StoreFault
    <3>4. \A j \in Job : jobs'[j].status = jobs[j].status
      BY <3>1, <3>2, <3>3
    <3>5. QED BY <3>4 DEF StatusOf
  <2>2. CASE ~Advance(w)
    BY <2>2 DEF RegisterCancel, ProviderFails, ProviderCanceled, Notify, StatusOf
  <2>3. QED BY <2>1, <2>2
<1>5. UNCHANGED saved
  BY DEF RegisterCancel, Advance, ProviderFails, ProviderCanceled, Notify
<1>6. QED BY <1>1, <1>3, <1>4, <1>5

LEMMA ReturnIsNothing ==
    ASSUME InLife, NEW w \in Worker, ReturnRun(w)
    PROVE  UNCHANGED <<StatusOf, RunOf, Deciding, saved>>
<1>1. /\ runJob[w] \in Job /\ runJob[w] # None /\ Deciding' = Deciding
      /\ \A v \in Worker \ {w} : runJob'[v] = runJob[v] /\ at'[v] = at[v]
  BY WorkersMoveAlone DEF WorkerStep, ReturnRun, Dequeue
<1>2. PICK j \in Job : j = runJob[w]
  BY <1>1
<1>3. runJob'[w] = None /\ at'[w] = "idle" /\ at[w] \in {"return_ok", "return_err"}
  BY DEF ReturnRun, HandlerReturns, GoTo, InLife, TypeInv, TypeOK
<1>4. StageOf(at[w]) = "none" /\ StageOf(at'[w]) = "none"
  BY <1>3, StagesDiffer DEF StageOf
<1>5. RunOf[j] = "none" /\ RunOf' = [RunOf EXCEPT ![j] = "none"]
  BY <1>1, <1>2, <1>3, <1>4, StageMoves
<1>6. RunOf' = RunOf
  BY <1>5, Zenon DEF RunOf
<1>7. QED BY <1>1, <1>6 DEF ReturnRun, rowVars, StatusOf

\* A step inside a run: the worker keeps the job, whose stage becomes that of the step.
LEMMA RunMoves ==
    ASSUME InLife, NEW w \in Worker,
           \/ StartRun(w) \/ SaveAnalysis(w) \/ CompleteRun(w) \/ FailRun(w) \/ CancelRun(w)
    PROVE  /\ runJob[w] \in Job /\ Deciding' = Deciding
           /\ RunOf[runJob[w]] = StageOf(at[w])
           /\ RunOf' = [RunOf EXCEPT ![runJob[w]] = StageOf(at'[w])]
<1>1. WorkerStep(w) /\ ~Dequeue(w) /\ ~Load(w) /\ ~ReturnRun(w)
  BY DEF WorkerStep, StartRun, SaveAnalysis, CompleteRun, FailRun, CancelRun,
     Dequeue, Load, ReturnRun
<1>2. /\ runJob[w] \in Job /\ runJob' = runJob /\ Deciding' = Deciding
      /\ \A v \in Worker \ {w} : at'[v] = at[v]
  BY <1>1, WorkersMoveAlone
<1>3. QED BY <1>2, StageMoves

\* MarkRunning starts the run or fails, with or without effect.
LEMMA StartIsStart ==
    ASSUME InLife, NEW w \in Worker, StartRun(w)
    PROVE  Lifecycle!Start(runJob[w]) \/ Lifecycle!GiveUp(runJob[w])
<1>1. PICK j \in Job : j = runJob[w]
  BY RunMoves
<1>2. /\ jobs \in [Job -> Row] /\ jobs[j] \in Row
      /\ MarkRunning(jobs[j]).status = "running"
  BY DEF InLife, TypeInv, TypeOK, MarkRunning, Row
<1>3. RunOf[j] = "begun" /\ Deciding' = Deciding /\ UNCHANGED saved
  BY <1>1, RunMoves DEF StartRun, StageOf, Begun
<1>4. CASE Stored(j, MarkRunning(jobs[j])) /\ GoTo(w, "running")
  <2>1. at'[w] = "running"
    BY <1>4 DEF GoTo, InLife, TypeInv, TypeOK
  <2>2. RunOf' = [RunOf EXCEPT ![j] = "running"]
    <3>1. StageOf(at'[w]) = "running"
      BY <2>1 DEF StageOf, Begun, Working, Analyzing
    <3>2. QED BY <1>1, <3>1, RunMoves
  <2>3. StatusOf' = [StatusOf EXCEPT ![j] = "running"]
    BY <1>2, <1>4, StatusMoves
  <2>4. QED BY <1>1, <1>3, <2>2, <2>3 DEF Lifecycle!Start
<1>5. CASE RunStoreFault(w, MarkRunning(jobs[j])) /\ GoTo(w, "return_err")
  <2>1. at'[w] = "return_err"
    BY <1>5 DEF GoTo, InLife, TypeInv, TypeOK
  <2>2. RunOf' = [RunOf EXCEPT ![j] = "none"]
    <3>1. StageOf(at'[w]) = "none"
      BY <2>1 DEF StageOf, Begun, Working, Analyzing
    <3>2. QED BY <1>1, <3>1, RunMoves
  <2>3. StatusOf' \in {StatusOf, [StatusOf EXCEPT ![j] = "running"]}
    BY <1>1, <1>2, <1>5, StatusMoves DEF RunStoreFault
  <2>4. QED BY <1>1, <1>3, <2>2, <2>3 DEF Lifecycle!GiveUp
<1>6. QED BY <1>1, <1>4, <1>5 DEF StartRun

\* The analysis is stored while the run is running, or not at all.
LEMMA SaveIsStore ==
    ASSUME InLife, NEW w \in Worker, SaveAnalysis(w)
    PROVE  \/ Lifecycle!SaveAnalysis(runJob[w])
           \/ UNCHANGED <<StatusOf, RunOf, Deciding, saved>>
<1>1. PICK j \in Job : j = runJob[w]
  BY RunMoves
<1>2. at[w] \in Working /\ at'[w] \in Working
  BY DEF SaveAnalysis, GoTo, Working, Analyzing, InLife, TypeInv, TypeOK
<1>3. StageOf(at[w]) = "running" /\ StageOf(at'[w]) = "running"
  BY <1>2, StagesDiffer DEF StageOf
<1>4. RunOf[j] = "running" /\ RunOf' = [RunOf EXCEPT ![j] = "running"]
  BY <1>1, <1>3, RunMoves
<1>5. RunOf' = RunOf
  BY <1>4, Zenon DEF RunOf
<1>6. Deciding' = Deciding /\ StatusOf' = StatusOf
  BY RunMoves DEF SaveAnalysis, StatusOf
<1>7. saved' \in {saved, saved \cup {j}}
  BY <1>1 DEF SaveAnalysis, Upserted
<1>8. QED BY <1>1, <1>4, <1>5, <1>6, <1>7 DEF Lifecycle!SaveAnalysis

\* An outcome is written by a run that is running, which then has no more to say.
LEMMA OutcomeIsFinish ==
    ASSUME InLife, NEW w \in Worker, CompleteRun(w) \/ FailRun(w) \/ CancelRun(w)
    PROVE  \E outcome \in {"completed", "failed", "canceled"} :
              Lifecycle!Finish(runJob[w], outcome)
<1>1. PICK j \in Job : j = runJob[w]
  BY RunMoves
<1>2. jobs \in [Job -> Row] /\ jobs[j] \in Row
  BY DEF InLife, TypeInv, TypeOK
<1>3. at[w] \in Working /\ at'[w] \in {"notify_completed", "notify_failed", "return_ok", "return_err"}
  BY DEF CompleteRun, FailRun, CancelRun, GoTo, Working, Analyzing, InLife, TypeInv, TypeOK
<1>4. StageOf(at[w]) = "running" /\ StageOf(at'[w]) = "none"
  BY <1>3, StagesDiffer DEF StageOf
<1>5. /\ RunOf[j] = "running" /\ RunOf' = [RunOf EXCEPT ![j] = "none"]
      /\ Deciding' = Deciding /\ UNCHANGED saved
  BY <1>1, <1>4, RunMoves DEF CompleteRun, FailRun, CancelRun
<1>6. CASE CompleteRun(w)
  <2>1. MarkCompleted(jobs[j]).status = "completed"
    BY <1>2 DEF MarkCompleted, Row
  <2>2. StatusOf' \in {StatusOf, [StatusOf EXCEPT ![j] = "completed"]}
    BY <1>1, <1>2, <1>6, <2>1, StatusMoves DEF CompleteRun, RunStoreFault
  <2>3. j \in saved
    BY <1>1, <1>6 DEF CompleteRun, InLife, StoredInv
  <2>4. Lifecycle!Finish(j, "completed")
    BY <1>5, <2>2, <2>3 DEF Lifecycle!Finish
  <2>5. QED BY <1>1, <2>4
<1>7. CASE FailRun(w)
  <2>1. MarkFailed(jobs[j]).status = "failed"
    BY <1>2 DEF MarkFailed, Row
  <2>2. StatusOf' \in {StatusOf, [StatusOf EXCEPT ![j] = "failed"]}
    BY <1>1, <1>2, <1>7, <2>1, StatusMoves DEF FailRun
  <2>3. Lifecycle!Finish(j, "failed")
    BY <1>5, <2>2 DEF Lifecycle!Finish
  <2>4. QED BY <1>1, <2>3
<1>8. CASE CancelRun(w)
  <2>1. MarkCanceled(jobs[j]).status = "canceled"
    BY <1>2 DEF MarkCanceled, Row
  <2>2. StatusOf' \in {StatusOf, [StatusOf EXCEPT ![j] = "canceled"]}
    BY <1>1, <1>2, <1>8, <2>1, StatusMoves DEF CancelRun
  <2>3. Lifecycle!Finish(j, "canceled")
    BY <1>5, <2>2 DEF Lifecycle!Finish
  <2>4. QED BY <1>1, <2>3
<1>9. QED BY <1>6, <1>7, <1>8

\* Whoever neither moves a worker nor writes a row leaves stages and statuses alone.
LEMMA OthersRest ==
    ASSUME InLife, UNCHANGED <<jobs, at, runJob>>
    PROVE  StatusOf' = StatusOf /\ RunOf' = RunOf
  BY StagesStay DEF StatusOf

\* A request that finds no outcome is about to cancel the job.
LEMMA RequestIsDecide ==
    ASSUME InLife, NEW c \in Canceler, NEW j \in Job, RequestCancel(c, j)
    PROVE  Lifecycle!Decide(c, j)
<1>1. StatusOf' = StatusOf /\ RunOf' = RunOf /\ UNCHANGED saved
  BY OthersRest DEF RequestCancel, rowVars, runVars
<1>2. Deciding[c] = None
  BY DEF RequestCancel, Deciding
<1>3. StatusOf[j] \in {"pending", "running"}
  <2>1. jobs[j] \in Row
    BY DEF InLife, TypeInv, TypeOK
  <2>2. QED BY <2>1 DEF RequestCancel, StatusOf, TerminalStatus, Row, JobStatus
<1>4. Deciding' = [Deciding EXCEPT ![c] = j]
  <2>1. \A d \in Canceler : Deciding'[d] = IF d = c THEN j ELSE Deciding[d]
    BY DEF RequestCancel, Deciding, InLife, TypeInv, TypeOK
  <2>2. Deciding' = [d \in Canceler |-> IF d = c THEN j ELSE Deciding[d]]
    BY <2>1, Zenon DEF Deciding
  <2>3. Deciding = [d \in Canceler |-> Deciding[d]]
    BY Zenon DEF Deciding
  <2>4. QED BY <2>2, <2>3, Zenon
<1>5. QED BY <1>1, <1>2, <1>3, <1>4 DEF Lifecycle!Decide

\* It cancels the job, whatever the row says by then, or its statement fails.
LEMMA MarkIsCancel ==
    ASSUME InLife, NEW c \in Canceler, MarkJobCanceled(c)
    PROVE  cancelJob[c] \in Job /\ Lifecycle!Cancel(c, cancelJob[c])
<1>1. PICK j \in Job : j = cancelJob[c]
  BY DEF MarkJobCanceled, InLife, TypeInv, TypeOK, BusyInv
<1>2. RunOf' = RunOf /\ UNCHANGED saved
  BY StagesStay DEF MarkJobCanceled, runVars
<1>3. Deciding[c] = j
  BY <1>1 DEF MarkJobCanceled, Deciding
<1>4. StatusOf' \in {StatusOf, [StatusOf EXCEPT ![j] = "canceled"]}
  <2>1. jobs \in [Job -> Row] /\ MarkCanceled(jobs[j]).status = "canceled"
    BY DEF InLife, TypeInv, TypeOK, MarkCanceled, Row
  <2>2. Stored(j, MarkCanceled(jobs[j])) \/ UNCHANGED jobs
    BY <1>1 DEF MarkJobCanceled
  <2>3. QED BY <2>1, <2>2, StatusMoves
<1>5. Deciding' = [Deciding EXCEPT ![c] = None]
  <2>1. \A d \in Canceler : Deciding'[d] = IF d = c THEN None ELSE Deciding[d]
    BY DEF MarkJobCanceled, Deciding, InLife, TypeInv, TypeOK
  <2>2. Deciding' = [d \in Canceler |-> IF d = c THEN None ELSE Deciding[d]]
    BY <2>1, Zenon DEF Deciding
  <2>3. Deciding = [d \in Canceler |-> Deciding[d]]
    BY Zenon DEF Deciding
  <2>4. QED BY <2>2, <2>3, Zenon
<1>6. QED BY <1>1, <1>2, <1>3, <1>4, <1>5 DEF Lifecycle!Cancel

\* Telling the run and the client is not part of the life of the job.
LEMMA AnswersAreNothing ==
    ASSUME InLife, NEW c \in Canceler, InvokeCancel(c) \/ AnswerCancel(c)
    PROVE  UNCHANGED <<StatusOf, RunOf, Deciding, saved>>
<1>1. StatusOf' = StatusOf /\ RunOf' = RunOf /\ UNCHANGED saved
  BY OthersRest DEF InvokeCancel, AnswerCancel, rowVars, runVars
<1>2. \A d \in Canceler : Deciding'[d] = Deciding[d]
  BY DEF InvokeCancel, AnswerCancel, Deciding, InLife, TypeInv, TypeOK
<1>3. Deciding' = Deciding
  BY <1>2, Zenon DEF Deciding
<1>4. QED BY <1>1, <1>3

\* The process takes its runs and its requests along.
LEMMA RestartIsVanish ==
    ASSUME InLife, NEW i \in Instance, Restart(i)
    PROVE  \E runs \in SUBSET Job, requests \in SUBSET Canceler :
              Lifecycle!Vanish(runs, requests)
<1> DEFINE lost == {j \in Job : \E w \in HomeWorkers(i) : runJob[w] = j}
           gone == {c \in Canceler : Home[c] = i}
<1>1. RunsAreStages /\ RunsAreStages'
  BY StagesNow, StagesThen DEF InLife, OwnerInv
<1>2. \A w \in Worker : IF Home[w] = i THEN runJob'[w] = None
                        ELSE runJob'[w] = runJob[w] /\ at'[w] = at[w]
  BY DEF Restart, HomeWorkers
<1>3. ASSUME NEW j \in Job, j \in lost PROVE RunOf'[j] = "none"
  <2>1. PICK w \in Worker : Home[w] = i /\ runJob[w] = j
    BY <1>3 DEF HomeWorkers
  <2>2. \A v \in Worker : runJob'[v] # j
    BY <1>2, <2>1, NoneAssumption DEF InLife, OwnerInv, SingleOwner
  <2>3. QED BY <1>1, <2>2 DEF RunsAreStages
<1>4. ASSUME NEW j \in Job, j \notin lost PROVE RunOf'[j] = RunOf[j]
  <2>1. \A w \in Worker : runJob[w] = j => runJob'[w] = j /\ at'[w] = at[w]
    BY <1>2, <1>4 DEF HomeWorkers
  <2>2. \A w \in Worker : runJob'[w] = j => runJob[w] = j /\ at'[w] = at[w]
    BY <1>2, NoneAssumption
  <2>3. CASE \E w \in Worker : runJob[w] = j
    BY <1>1, <2>1, <2>3 DEF RunsAreStages, StageOf
  <2>4. CASE \A w \in Worker : runJob[w] # j
    BY <1>1, <2>2, <2>4 DEF RunsAreStages
  <2>5. QED BY <2>3, <2>4
<1>5. RunOf' = [j \in Job |-> IF j \in lost THEN "none" ELSE RunOf[j]]
  <2>1. \A j \in Job : RunOf'[j] = IF j \in lost THEN "none" ELSE RunOf[j]
    BY <1>3, <1>4
  <2>2. QED BY <2>1, Zenon DEF RunOf
<1>6. Deciding' = [c \in Canceler |-> IF c \in gone THEN None ELSE Deciding[c]]
  <2>1. \A c \in Canceler : Deciding'[c] = IF c \in gone THEN None ELSE Deciding[c]
    BY DEF Restart, Deciding
  <2>2. QED BY <2>1, Zenon DEF Deciding
<1>7. UNCHANGED <<StatusOf, saved>>
  BY DEF Restart, rowVars, StatusOf
<1>8. Lifecycle!Vanish(lost, gone)
  BY <1>5, <1>6, <1>7 DEF Lifecycle!Vanish
<1>9. lost \in SUBSET Job /\ gone \in SUBSET Canceler
  OBVIOUS
<1>10. QED BY <1>8, <1>9

\* Every step of the jobs is a step of their life, or none of its business.
LEMMA LifeGoesOn ==
    ASSUME NoOverlap, InLife, [Next]_vars
    PROVE  [Lifecycle!Next]_<<StatusOf, RunOf, Deciding, saved>>
<1>1. ASSUME NEW j \in Job, NEW i \in Instance, SubmitAnalysis(j, i)
      PROVE  Lifecycle!Next
  BY <1>1, SubmitIsSubmit DEF Lifecycle!Next
<1>2. ASSUME NEW w \in Worker, WorkerStep(w)
      PROVE  [Lifecycle!Next]_<<StatusOf, RunOf, Deciding, saved>>
  <2>1. CASE Dequeue(w)
    BY <2>1, DequeueIsNothing
  <2>2. ASSUME ~Dequeue(w) PROVE runJob[w] \in Job
    BY <1>2, <2>2, WorkersMoveAlone
  <2>3. CASE Load(w)
    BY <2>2, <2>3, LoadIsBegin DEF Load, Dequeue, Lifecycle!Next
  <2>4. CASE RegisterCancel(w) \/ Advance(w) \/ ProviderFails(w) \/ ProviderCanceled(w)
             \/ Notify(w)
    BY <2>4, RunsOn
  <2>5. CASE ReturnRun(w)
    BY <2>5, ReturnIsNothing
  <2>6. CASE StartRun(w)
    BY <2>6, RunMoves, StartIsStart DEF Lifecycle!Next
  <2>7. CASE SaveAnalysis(w)
    BY <2>7, RunMoves, SaveIsStore DEF Lifecycle!Next
  <2>8. CASE CompleteRun(w) \/ FailRun(w) \/ CancelRun(w)
    BY <2>8, RunMoves, OutcomeIsFinish DEF Lifecycle!Next
  <2>9. QED BY <1>2, <2>1, <2>3, <2>4, <2>5, <2>6, <2>7, <2>8 DEF WorkerStep
<1>3. ASSUME NEW w \in Worker, TakeTask(w) PROVE FALSE
  <2>1. Home[w] \in Instance
    BY InstanceAssumption
  <2>2. QED BY <1>3, <2>1 DEF TakeTask, InLife, OwnerInv, NoOverlap
<1>4. ASSUME NEW c \in Canceler, NEW j \in Job, RequestCancel(c, j)
      PROVE  Lifecycle!Next
  BY <1>4, RequestIsDecide DEF Lifecycle!Next
<1>5. ASSUME NEW c \in Canceler, CancelerStep(c)
      PROVE  [Lifecycle!Next]_<<StatusOf, RunOf, Deciding, saved>>
  BY <1>5, MarkIsCancel, AnswersAreNothing DEF CancelerStep, Lifecycle!Next
<1>6. ASSUME NEW i \in Instance, Restart(i) PROVE Lifecycle!Next
  BY <1>6, RestartIsVanish DEF Lifecycle!Next
<1>7. ASSUME \/ \E j \in Job : EnqueueAnalysis(j) \/ EnqueueFails(j) \/ Redeliver(j)
             \/ \E i \in Instance : Shutdown(i)
             \/ \E ids \in SUBSET Job : DeleteAnalyses(ids)
             \/ UNCHANGED vars
      PROVE  UNCHANGED <<StatusOf, RunOf, Deciding, saved>>
  <2>1. UNCHANGED <<jobs, saved, at, runJob, cancelAt, cancelJob>>
    BY <1>7 DEF EnqueueAnalysis, EnqueueFails, Redeliver, Shutdown, DeleteAnalyses, vars,
                rowVars, runVars, cancelVars
  <2>2. QED BY <2>1, OthersRest DEF Deciding
<1>8. QED BY <1>1, <1>2, <1>3, <1>4, <1>5, <1>6, <1>7 DEF Next

\* With the channel and the Redis list, and with asynq as long as no lease expires and
\* no server stops, the jobs implement JobLifecycle whatever else fails: one run at a
\* time, which begins on a job without an outcome, and one outcome at most for each.
THEOREM JobsFollowLifecycle == ASSUME NoOverlap PROVE Spec => FollowsLifecycle
<1>1. Init => StoredInv
  BY DEF Init, StoredInv, StoredBefore, AbsentRow, PendingRow
<1>2. TypeInv /\ OwnerInv /\ StoredInv /\ TypeInv' /\ OwnerInv' /\ [Next]_vars
        => [Lifecycle!Next]_<<StatusOf, RunOf, Deciding, saved>>
  BY LifeGoesOn DEF InLife
<1>3. TypeInv /\ StoredInv /\ [Next]_vars => StoredInv'
  BY StoredInvNext
<1>4. QED
  BY <1>1, <1>2, <1>3, LifeBegins, OwnerInvariant, TypeInvInit, TypeInvNext, PTL
     DEF Spec, FollowsLifecycle, Lifecycle!Spec, Lifecycle!lifeVars
=============================================================================
