------------------------------ MODULE Diagnosis ------------------------------
(***************************************************************************)
(* One analysis from the request to the stored result (executeAnalyze): the *)
(* composite collector asks one provider after the other, each query and    *)
(* the call of the LLM goes through the retry loop, and the run's context   *)
(* may be canceled at any moment, by the client, a deadline or a shutdown.  *)
(***************************************************************************)
EXTENDS Providers

CONSTANTS
    Collectors,    \* the configured providers, in their order
    LLM,           \* the active LLM
    MaxAttempts,   \* of one call
    Requests,      \* the requests of this instance
    Answers,       \* what a provider may answer to a query
    Payloads       \* what the LLM may answer

ASSUME DiagnosisAssumption ==
    /\ Collectors \in Seq(DOMAIN Collector)
    /\ MaxAttempts \in Nat \ {0}
    /\ Requests \subseteq Request
    /\ \A i \in DOMAIN Collectors : Answers[Collectors[i]] \subseteq Answer(Collectors[i])
    /\ Payloads \subseteq Payload

VARIABLES
    request,    \* the request that is diagnosed
    step,       \* where its run stands
    call,       \* the call under way: nothing sent, sent, waiting to be tried again
    attempt,    \* how often it was sent
    at,         \* the collector whose turn it is
    queue,      \* the queries it has not made yet
    own,        \* the evidence it has so far
    evidence,   \* the evidence of the collectors before it
    shown,      \* the evidence the LLM is shown
    result,     \* what is stored
    canceled,   \* the run's context is done
    given,      \* everything each collector was answered (history)
    missed,     \* the collectors that failed (history)
    cut         \* one of them failed when the context was done (history)

progress == <<step, call, attempt, at, queue>>
history == <<given, missed, cut>>
vars == <<request, progress, own, evidence, shown, result, canceled, history>>

Step == {"idle", "collect", "query", "generate", "save", "done", "failed"}

NoResult == [suggested |-> "none", severity |-> "none", services |-> {}, causes |-> {},
             actions |-> <<>>, evidence |-> <<>>]

Init ==
    /\ request \in Requests
    /\ step = "idle" /\ call = "none" /\ attempt = 0 /\ at = 0 /\ queue = <<>>
    /\ own = <<>> /\ evidence = <<>> /\ shown = <<>> /\ result = NoResult
    /\ canceled = FALSE
    /\ given = [i \in DOMAIN Collectors |-> <<>>] /\ missed = {} /\ cut = FALSE

-----------------------------------------------------------------------------
(* The run.                                                                 *)

\* A request that does not hold together is refused.
Start ==
    /\ step = "idle"
    /\ step' = IF Validate(request) THEN "collect" ELSE "failed"
    /\ UNCHANGED <<request, call, attempt, at, queue, own, evidence, shown, result,
                   canceled, history>>

Cancel ==
    /\ step \notin {"idle", "done", "failed"}
    /\ ~canceled
    /\ canceled' = TRUE
    /\ UNCHANGED <<request, progress, own, evidence, shown, result, history>>

RunFails ==
    /\ step' = "failed"
    /\ call' = "none" /\ attempt' = 0
    /\ UNCHANGED <<request, at, queue, own, evidence, shown, result, canceled, history>>

-----------------------------------------------------------------------------
(* The composite collector.                                                 *)

NextCollector ==
    /\ step = "collect"
    /\ at < Len(Collectors)
    /\ ~canceled
    /\ at' = at + 1
    /\ queue' = Queries(Collectors[at'], request)
    /\ step' = "query"
    /\ UNCHANGED <<request, call, attempt, own, evidence, shown, result, canceled, history>>

\* The context is looked at before each collector, not after the last one.
\* Without any the null collector answers that no provider is configured.
CollectingStops ==
    /\ step = "collect"
    /\ Collectors # <<>> => at < Len(Collectors) /\ canceled
    /\ RunFails

\* The evidence a collector had when it failed is kept.
KeepsWhatItHad ==
    /\ evidence' = evidence \o own
    /\ own' = <<>>

\* A failure is tolerated: nothing of the collector is kept.
DropsWhatItHad ==
    /\ own' = <<>>
    /\ UNCHANGED evidence

CollectorFails ==
    /\ DropsWhatItHad
    /\ step' = "collect" /\ call' = "none" /\ attempt' = 0 /\ queue' = <<>>
    /\ missed' = missed \cup {at}
    /\ cut' = (cut \/ canceled)
    /\ UNCHANGED <<request, at, shown, result, canceled, given>>

EndOfCollector ==
    /\ step = "query" /\ call = "none" /\ queue = <<>>
    /\ evidence' = evidence \o own
    /\ own' = <<>>
    /\ step' = "collect"
    /\ UNCHANGED <<request, call, attempt, at, queue, shown, result, canceled, history>>

Answered(answer) ==
    LET items == ToEvidence(Collectors[at], Head(queue), answer, request)
    IN  /\ step = "query" /\ call = "sent"
        /\ own' = own \o items
        /\ given' = [given EXCEPT ![at] = @ \o items]
        /\ queue' = Tail(queue)
        /\ call' = "none" /\ attempt' = 0
        /\ UNCHANGED <<request, step, at, evidence, shown, result, canceled, missed, cut>>

-----------------------------------------------------------------------------
(* A call and its retries.                                                  *)

\* Only the collectors look at the context.
InterruptedCollecting == canceled /\ step = "query"

\* The context is looked at before an attempt and while waiting for the next.
Interrupted == canceled

Calling ==
    /\ call \in {"none", "backoff"}
    /\ \/ step = "generate"
       \/ step = "query" /\ queue # <<>>

CallFails == IF step = "query" THEN CollectorFails ELSE RunFails

Send ==
    /\ Calling
    /\ ~Interrupted
    /\ call' = "sent"
    /\ attempt' = attempt + 1
    /\ UNCHANGED <<request, step, at, queue, own, evidence, shown, result, canceled, history>>

Abandon ==
    /\ Calling
    /\ Interrupted
    /\ CallFails

Retryable(failure) ==
    /\ attempt < MaxAttempts
    /\ failure \in Retried[IF step = "query" THEN Collectors[at] ELSE LLM]

\* A canceled context loses the answer of a call that was sent.
Backoff(failure) ==
    /\ call = "sent"
    /\ Retryable(failure)
    /\ call' = "backoff"
    /\ UNCHANGED <<request, step, attempt, at, queue, own, evidence, shown, result,
                   canceled, history>>

GiveUp(failure) ==
    /\ call = "sent"
    /\ ~Retryable(failure)
    /\ CallFails

-----------------------------------------------------------------------------
(* From the evidence to the result.                                         *)

\* assignEvidenceIDs, EvidenceSeverityPolicy.Apply.
Normalized(items) ==
    [i \in DOMAIN items |->
        [items[i] EXCEPT !.id = i, !.severity = EvidenceSeverity(items[i])]]

Normalize ==
    /\ step = "collect"
    /\ at = Len(Collectors) /\ Collectors # <<>>
    /\ evidence' = Normalized(evidence)
    /\ shown' = FilterEvidence(evidence', request)
    /\ step' = "generate"
    /\ UNCHANGED <<request, call, attempt, at, queue, own, result, canceled, history>>

Outcome(payload) ==
    LET decoded == Decode(payload, request, shown)
    IN  [suggested |-> payload.severity,
         severity  |-> Reconcile(decoded.severity, request, evidence),
         services  |-> decoded.services,
         causes    |-> decoded.causes,
         actions   |-> Recommendations(request, evidence, decoded.actions),
         evidence  |-> evidence]

Generated(payload) ==
    /\ step = "generate" /\ call = "sent"
    /\ result' = Outcome(payload)
    /\ step' = "save" /\ call' = "none" /\ attempt' = 0
    /\ UNCHANGED <<request, at, queue, own, evidence, shown, canceled, history>>

\* The memory repository does not look at the context.
Save ==
    /\ step = "save"
    /\ step' = "done"
    /\ UNCHANGED <<request, call, attempt, at, queue, own, evidence, shown, result,
                   canceled, history>>

SaveFails ==
    /\ step = "save"
    /\ RunFails

Next ==
    \/ Start \/ Cancel
    \/ NextCollector \/ CollectingStops \/ EndOfCollector
    \/ \E answer \in (IF step = "query" THEN Answers[Collectors[at]] ELSE {}) : Answered(answer)
    \/ Send \/ Abandon
    \/ \E failure \in Failure : Backoff(failure) \/ GiveUp(failure)
    \/ Normalize
    \/ \E payload \in Payloads : Generated(payload)
    \/ Save \/ SaveFails

Spec == Init /\ [][Next]_vars

-----------------------------------------------------------------------------
(* Properties.                                                              *)

TypeOK ==
    /\ request \in Requests
    /\ step \in Step
    /\ call \in {"none", "sent", "backoff"}
    /\ attempt \in 0..MaxAttempts
    /\ at \in 0..Len(Collectors)
    /\ queue \in Seq(Query)
    /\ own \in Seq(Evidence) /\ evidence \in Seq(Evidence) /\ shown \in Seq(Evidence)
    /\ canceled \in BOOLEAN /\ cut \in BOOLEAN
    /\ given \in [DOMAIN Collectors -> Seq(Evidence)]
    /\ missed \subseteq DOMAIN Collectors

PlacesOf(items, i) == {k \in DOMAIN items : items[k].provider = Collectors[i]}

\* Of a provider that failed a stored analysis has no evidence at all, of any
\* other all that it answered, in its order: retries duplicate nothing and a
\* failure halfway leaves nothing behind (composite/signal_collector.go).
WholeOrNothing ==
    step = "done" =>
        \A i \in DOMAIN Collectors :
            LET stored == Items(result.evidence, InOrder(PlacesOf(result.evidence, i)))
            IN  IF i \in missed THEN stored = <<>>
                ELSE /\ Len(stored) = Len(given[i])
                     /\ \A j \in DOMAIN stored :
                          stored[j] = [given[i][j] EXCEPT !.id = stored[j].id,
                                                          !.severity = stored[j].severity]

\* A provider that failed only because the run was canceled does not pass for
\* one that is down: the composite tolerates the failure, yet no analysis is
\* stored that was cut short (composite/signal_collector.go, retry.go).
CutShortIsNotStored == step \in {"save", "done"} => ~cut

\* The severity of a stored analysis is at least what the LLM suggests and
\* what any stretch of its evidence calls for: more evidence never lowers it
\* ("so the API never under-reports impact", severity.go).
NeverUnderReported ==
    step = "done" =>
        /\ Rank(result.severity) >= Rank(result.suggested)
        /\ \A i, j \in DOMAIN result.evidence :
             Rank(result.severity) >= Rank(Classify(request, SubSeq(result.evidence, i, j)))

\* No evidence is kept from the LLM that scores higher than some it is shown,
\* or while there is room ("so high-signal items survive the cap",
\* evidence.go).
BestEvidenceShown ==
    step \in {"generate", "save", "done"} =>
        \A e \in Range(evidence) :
            RelevantEvidence(request, e) /\ e \notin Range(shown) =>
                /\ Len(shown) = MaxLLMEvidenceItems
                /\ \A s \in Range(shown) : s.score >= e.score

\* A stored analysis cites nothing that it does not hold: its causes name
\* evidence of its own, its actions cite ids of its own and at least one when
\* there is evidence, its services are asked for or observed (guard.go).
Grounded ==
    step = "done" =>
        /\ \A cause \in result.causes :
             cause # {} /\ cause \subseteq {e.name : e \in Range(result.evidence)}
        /\ \A action \in Range(result.actions) :
             /\ action.ids \subseteq {e.id : e \in Range(result.evidence)}
             /\ action.ids = {} => result.evidence = <<>>
        /\ result.services \subseteq DistinctServices(request, result.evidence)

\* A signal that was asked for and is missing from the evidence, because its
\* provider failed, found nothing or does not exist, is named by an action;
\* without any evidence an action says so (recommendation.go).
GapsAreNamed ==
    step = "done" =>
        \A signal \in Range(request.signals) :
            \/ \E e \in Range(result.evidence) : e.signal = signal
            \/ \E action \in Range(result.actions) :
                 \/ action.action = [kind |-> "collect", about |-> signal]
                 \/ result.evidence = <<>> /\ action.action.kind = "connect"
=============================================================================
