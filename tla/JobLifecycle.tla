----------------------------- MODULE JobLifecycle -----------------------------
(***************************************************************************)
(* The lifecycle of a job (domain/job.go, ports/job.go) as its clients may  *)
(* rely on it: a job is run by one worker at a time, which looks at its     *)
(* status, marks it running, stores the analysis and leaves at most one     *)
(* outcome; a request cancels what had no outcome when it looked.           *)
(***************************************************************************)
CONSTANTS Job, Request, None

VARIABLES
    status,     \* [Job -> status of the row, "absent" before there is one]
    run,        \* [Job -> "none", "begun": the status was read, "running"]
    deciding,   \* [Request -> the job it is about to cancel, or None]
    stored      \* jobs whose analysis is stored

lifeVars == <<status, run, deciding, stored>>

Init ==
    /\ status = [j \in Job |-> "absent"]
    /\ run = [j \in Job |-> "none"]
    /\ deciding = [c \in Request |-> None]
    /\ stored = {}

Submit(j) ==
    /\ status[j] = "absent"
    /\ status' = [status EXCEPT ![j] = "pending"]
    /\ UNCHANGED <<run, deciding, stored>>

\* A worker finds the job neither completed nor canceled; a failed one may be tried
\* again.
Begin(j) ==
    /\ run[j] = "none"
    /\ status[j] \in {"pending", "running", "failed"}
    /\ run' = [run EXCEPT ![j] = "begun"]
    /\ UNCHANGED <<status, deciding, stored>>

Start(j) ==
    /\ run[j] = "begun"
    /\ run' = [run EXCEPT ![j] = "running"]
    /\ status' = [status EXCEPT ![j] = "running"]
    /\ UNCHANGED <<deciding, stored>>

\* The statement fails, before or after it took effect.
GiveUp(j) ==
    /\ run[j] = "begun"
    /\ run' = [run EXCEPT ![j] = "none"]
    /\ status' \in {status, [status EXCEPT ![j] = "running"]}
    /\ UNCHANGED <<deciding, stored>>

SaveAnalysis(j) ==
    /\ run[j] = "running"
    /\ stored' = stored \cup {j}
    /\ UNCHANGED <<status, run, deciding>>

\* The outcome may be lost; completed is only what is stored.
Finish(j, outcome) ==
    /\ run[j] = "running"
    /\ outcome = "completed" => j \in stored
    /\ run' = [run EXCEPT ![j] = "none"]
    /\ status' \in {status, [status EXCEPT ![j] = outcome]}
    /\ UNCHANGED <<deciding, stored>>

Decide(c, j) ==
    /\ deciding[c] = None
    /\ status[j] \in {"pending", "running"}
    /\ deciding' = [deciding EXCEPT ![c] = j]
    /\ UNCHANGED <<status, run, stored>>

Cancel(c, j) ==
    /\ deciding[c] = j
    /\ deciding' = [deciding EXCEPT ![c] = None]
    /\ status' \in {status, [status EXCEPT ![j] = "canceled"]}
    /\ UNCHANGED <<run, stored>>

\* A process dies with its runs and requests.
Vanish(runs, requests) ==
    /\ run' = [j \in Job |-> IF j \in runs THEN "none" ELSE run[j]]
    /\ deciding' = [c \in Request |-> IF c \in requests THEN None ELSE deciding[c]]
    /\ UNCHANGED <<status, stored>>

Next ==
    \/ \E j \in Job : Submit(j) \/ Begin(j) \/ Start(j) \/ GiveUp(j) \/ SaveAnalysis(j)
    \/ \E j \in Job, outcome \in {"completed", "failed", "canceled"} : Finish(j, outcome)
    \/ \E c \in Request, j \in Job : Decide(c, j) \/ Cancel(c, j)
    \/ \E runs \in SUBSET Job, requests \in SUBSET Request : Vanish(runs, requests)

Spec == Init /\ [][Next]_lifeVars
=============================================================================
