-------------------------- MODULE WebhookDelivery --------------------------
(***************************************************************************)
(* Webhook deliveries (core/usecase/webhook.go, outbound/webhooks/         *)
(* dispatcher.go, query/webhook_deliveries.sql).                           *)
(*                                                                         *)
(* A delivery is a row in webhook_deliveries.  Every attempt is a          *)
(* goroutine that was given a copy of the row; it posts the payload,       *)
(* counts the attempt from its copy and writes the row by id, whatever the *)
(* row holds by then.  Attempts are started by an event or a test call     *)
(* when the row is created, by an operator's manual retry, and by the      *)
(* scheduled sweep, which lists due rows without claiming them.            *)
(*                                                                         *)
(* Subscriptions are never deleted, and only ListActive looks at the event *)
(* and the disabled_at of one: a call may find any set of subscribers.     *)
(***************************************************************************)
EXTENDS Naturals, FiniteSets

CONSTANTS
    Webhook,       \* subscriptions
    Call,          \* calls of DispatchEvent and Test
    TestCall,      \* those of Test
    Flight,        \* goroutines of Dispatch that can be up at once
    Retrier,       \* requests that are in Retry at once
    Sweeper,       \* tasks of the sweep that can run at once, on any instance
    Answer,        \* what receivers do
    Faults,        \* what can go wrong
    MaxAttempts,   \* maxAttempts of the dispatcher
    SweepLimit,    \* rows one sweep lists
    MaxRetries,    \* bound: manual retries of one delivery
    MaxFaults      \* bound: faults of a behaviour

AnswerKind == {"2xx", "3xx", "4xx", "5xx", "none"}

FaultKind == {"store", "crash"}

ASSUME WebhookAssumption ==
    /\ Answer \subseteq AnswerKind /\ Faults \subseteq FaultKind
    /\ TestCall \subseteq Call
    /\ MaxAttempts \in Nat \ {0} /\ SweepLimit \in Nat \ {0}
    /\ MaxRetries \in Nat /\ MaxFaults \in Nat

Delivery == Call \X Webhook

VARIABLES
    rows,       \* [Delivery -> row of webhook_deliveries]
    flights,    \* [Flight -> Idle, or the attempt the goroutine carries]
    sweep,      \* the copies the running sweeps have still to dispatch
    retriers,   \* [Retrier -> Idle, or the copy Retry works with]
    called,     \* calls that were made
    left,       \* [Call -> subscribers the call has still to serve]
    created,    \* number of rows inserted
    posts,      \* history: [Delivery -> requests sent, up to PostCap]
    answers,    \* history: [Delivery -> answers that settle it, as received]
    overlap,    \* history: deliveries listed while an attempt had its copy
    retries,    \* [Delivery -> manual retries]
    faults      \* number of faults so far

callVars == <<called, left, created>>
vars == <<rows, flights, sweep, retriers, callVars,
          posts, answers, overlap, retries, faults>>

-----------------------------------------------------------------------------
\* A row that was never inserted has the status "absent".  "due" says that
\* next_attempt_at is null or has passed; "born" is the order of created_at.
DeliveryRow == [status  : {"absent", "pending", "delivered", "failed"},
                attempt : Nat,
                due     : BOOLEAN,
                born    : Nat]

AbsentRow == [status |-> "absent", attempt |-> 0, due |-> TRUE, born |-> 0]

Idle == [at |-> "idle"]

\* What a goroutine was given, and the answer it got: "none" before the post
\* and when the call failed.
Carried == [at : {"post", "record"}, delivery : Delivery, attempt : Nat,
            answer : AnswerKind]

\* A copy of a row, as a sweep reads it.
Copy == [by : Sweeper, delivery : Delivery, attempt : Nat]

CopyOf(t, d) == [by |-> t, delivery |-> d, attempt |-> rows[d].attempt]

\* Retry's copy; "commit" is after Find, before ScheduleRetry.
RetryCopy == [at : {"commit"}, delivery : Delivery, attempt : Nat]

PostCap == MaxAttempts + MaxRetries

Settled(row) == row.status \in {"delivered", "failed"}

\* The call came back below 400: redirects that are not followed included.
Accepted == {"2xx", "3xx"}

\* post wraps these in a transientError.
Transient == {"5xx", "none"}

\* An attempt is under way, or a sweep has the copy for one.
Attempting(d) ==
    \/ \E f \in Flight : flights[f] # Idle /\ flights[f].delivery = d
    \/ \E s \in sweep : s.delivery = d

Init ==
    /\ rows = [d \in Delivery |-> AbsentRow]
    /\ flights = [f \in Flight |-> Idle]
    /\ sweep = {}
    /\ retriers = [r \in Retrier |-> Idle]
    /\ called = {} /\ left = [c \in Call |-> {}] /\ created = 0
    /\ posts = [d \in Delivery |-> 0]
    /\ answers = [d \in Delivery |-> {}]
    /\ overlap = {}
    /\ retries = [d \in Delivery |-> 0]
    /\ faults = 0

-----------------------------------------------------------------------------
Fault(kind) ==
    /\ kind \in Faults /\ faults < MaxFaults
    /\ faults' = faults + 1

\* The statements of webhook_deliveries.sql.  None looks at the status.
InsertRow == [status |-> "pending", attempt |-> 0, due |-> TRUE, born |-> created]

MarkDelivered(row) == [row EXCEPT !.status = "delivered", !.due = TRUE]

MarkFailed(row, attempt) ==
    [row EXCEPT !.status = "failed", !.attempt = attempt, !.due = TRUE]

ScheduleRetry(row, attempt, due) ==
    [row EXCEPT !.status = "pending", !.attempt = attempt, !.due = due]

\* Dispatch: the goroutine carries a copy of the row.
Dispatch(f, d, attempt) ==
    /\ flights[f] = Idle
    /\ flights' = [flights EXCEPT ![f] =
          [at |-> "post", delivery |-> d, attempt |-> attempt, answer |-> "none"]]

-----------------------------------------------------------------------------
\* DispatchEvent: ListActive finds the subscribers of the event.
DispatchEvent(c) ==
    /\ c \in Call \ (TestCall \cup called)
    /\ called' = called \cup {c}
    /\ \E found \in SUBSET Webhook : left' = [left EXCEPT ![c] = found]
    /\ UNCHANGED <<rows, flights, sweep, retriers, created, posts, answers,
                   overlap, retries, faults>>

\* Test: one subscription, found by its id whatever its state.
Test(c) ==
    /\ c \in TestCall \ called
    /\ called' = called \cup {c}
    /\ \E w \in Webhook : left' = [left EXCEPT ![c] = {w}]
    /\ UNCHANGED <<rows, flights, sweep, retriers, created, posts, answers,
                   overlap, retries, faults>>

\* dispatchOnce: persistDelivery inserts the row and the goroutine is started;
\* ListActive has no order.
DispatchOnce(c, w, f) ==
    /\ w \in left[c]
    /\ rows' = [rows EXCEPT ![<<c, w>>] = InsertRow]
    /\ created' = created + 1
    /\ Dispatch(f, <<c, w>>, 0)
    /\ left' = [left EXCEPT ![c] = @ \ {w}]
    /\ UNCHANGED <<sweep, retriers, called, posts, answers, overlap, retries, faults>>

\* persistDelivery returns an error (the insert may have happened all the same)
\* and the call returns it: the subscribers behind this one are not served.
DispatchOnceFails(c, w) ==
    /\ w \in left[c]
    /\ Fault("store")
    /\ \/ UNCHANGED <<rows, created>>
       \/ /\ rows' = [rows EXCEPT ![<<c, w>>] = InsertRow]
          /\ created' = created + 1
    /\ left' = [left EXCEPT ![c] = {}]
    /\ UNCHANGED <<flights, sweep, retriers, called, posts, answers, overlap, retries>>

-----------------------------------------------------------------------------
\* post: the request is sent and answered, or the call fails.
Post(f) ==
    /\ flights[f].at = "post"
    /\ LET d == flights[f].delivery IN
       \E answer \in Answer :
          /\ flights' = [flights EXCEPT ![f].at = "record", ![f].answer = answer]
          /\ posts' = [posts EXCEPT ![d] = IF @ < PostCap THEN @ + 1 ELSE @]
          /\ answers' = [answers EXCEPT ![d] = @ \cup ({answer} \ Transient)]
    /\ UNCHANGED <<rows, sweep, retriers, callVars, overlap, retries, faults>>

\* Variant: a last attempt more.
RecordedOneMore(row, flight) ==
    LET attempt == flight.attempt + 1 IN
    IF flight.answer \in Accepted THEN MarkDelivered(row)
    ELSE IF attempt > MaxAttempts \/ flight.answer \notin Transient
      THEN MarkFailed(row, attempt)
      ELSE ScheduleRetry(row, attempt, FALSE)

\* Variant: an attempt too few.
RecordedOneLess(row, flight) ==
    LET attempt == flight.attempt + 1 IN
    IF flight.answer \in Accepted THEN MarkDelivered(row)
    ELSE IF attempt + 1 >= MaxAttempts \/ flight.answer \notin Transient
      THEN MarkFailed(row, attempt)
      ELSE ScheduleRetry(row, attempt, FALSE)

\* Variant: the attempt is not counted.
RecordedSameAttempt(row, flight) ==
    IF flight.answer \in Accepted THEN MarkDelivered(row)
    ELSE IF flight.attempt >= MaxAttempts \/ flight.answer \notin Transient
      THEN MarkFailed(row, flight.attempt)
      ELSE ScheduleRetry(row, flight.attempt, FALSE)

\* What deliver writes after the post.
Recorded(row, flight) ==
    LET attempt == flight.attempt + 1 IN
    IF flight.answer \in Accepted THEN MarkDelivered(row)
    ELSE IF attempt >= MaxAttempts \/ flight.answer \notin Transient
      THEN MarkFailed(row, attempt)
      ELSE ScheduleRetry(row, attempt, FALSE)

Record(f) ==
    /\ flights[f].at = "record"
    /\ LET d == flights[f].delivery IN
       rows' = [rows EXCEPT ![d] = Recorded(@, flights[f])]
    /\ flights' = [flights EXCEPT ![f] = Idle]
    /\ UNCHANGED <<sweep, retriers, callVars, posts, answers, overlap, retries, faults>>

\* The update fails: it is logged and the goroutine ends.
RecordLost(f) ==
    /\ flights[f].at = "record"
    /\ Fault("store")
    /\ flights' = [flights EXCEPT ![f] = Idle]
    /\ UNCHANGED <<rows, sweep, retriers, callVars, posts, answers, overlap, retries>>

\* next_attempt_at passes.
BecomesDue(d) ==
    /\ ~rows[d].due
    /\ rows' = [rows EXCEPT ![d].due = TRUE]
    /\ UNCHANGED <<flights, sweep, retriers, callVars, posts, answers, overlap,
                   retries, faults>>

-----------------------------------------------------------------------------
\* Variant: the status is not looked at.
DueOfAnyStatus == {d \in Delivery : rows[d].status # "absent" /\ rows[d].due}

\* The rows ListPending may return.
Due == {d \in Delivery : rows[d].status = "pending" /\ rows[d].due}

\* The rows before d in the order of ListPending.
Older(d) == {e \in Due : rows[e].born < rows[d].born}

\* ListPending with its LIMIT.
Page == {d \in Due : Cardinality(Older(d)) < SweepLimit}

\* DispatchPending lists the due rows.  Nothing keeps two tasks of the sweep
\* apart, on one instance or on several: each lists what it finds.
SweepList(t) ==
    /\ Page # {} /\ \A s \in sweep : s.by # t
    /\ sweep' = sweep \cup {CopyOf(t, d) : d \in Page}
    /\ overlap' = overlap \cup {d \in Page : Attempting(d)}
    /\ UNCHANGED <<rows, flights, retriers, callVars, posts, answers, retries, faults>>

\* ... and dispatches the copies, oldest row first.
SweepDispatch(t, f) ==
    /\ \E s \in sweep :
          /\ s.by = t
          /\ \A u \in sweep : u.by = t => rows[s.delivery].born <= rows[u.delivery].born
          /\ Dispatch(f, s.delivery, s.attempt)
          /\ sweep' = sweep \ {s}
    /\ UNCHANGED <<rows, retriers, callVars, posts, answers, overlap, retries, faults>>

\* Find of a subscription fails: the sweep returns the error.
SweepFails(t) ==
    /\ \E s \in sweep : s.by = t
    /\ Fault("store")
    /\ sweep' = {s \in sweep : s.by # t}
    /\ UNCHANGED <<rows, flights, retriers, callVars, posts, answers, overlap, retries>>

-----------------------------------------------------------------------------
\* Retry: Find reads the row, settled or not.
RetryFind(r, d) ==
    /\ retriers[r] = Idle
    /\ rows[d].status # "absent"
    /\ retries[d] < MaxRetries
    /\ retries' = [retries EXCEPT ![d] = @ + 1]
    /\ retriers' = [retriers EXCEPT ![r] =
          [at |-> "commit", delivery |-> d, attempt |-> rows[d].attempt]]
    /\ UNCHANGED <<rows, flights, sweep, callVars, posts, answers, overlap, faults>>

\* ScheduleRetry with the copied attempt, due now; then Dispatch.
RetryCommit(r, f) ==
    /\ retriers[r].at = "commit"
    /\ LET d == retriers[r].delivery
           attempt == retriers[r].attempt IN
       /\ rows' = [rows EXCEPT ![d] = ScheduleRetry(@, attempt, TRUE)]
       /\ Dispatch(f, d, attempt)
    /\ retriers' = [retriers EXCEPT ![r] = Idle]
    /\ UNCHANGED <<sweep, callVars, posts, answers, overlap, retries, faults>>

\* ScheduleRetry returns an error, before or after it took effect.
RetryFails(r) ==
    /\ retriers[r].at = "commit"
    /\ Fault("store")
    /\ LET d == retriers[r].delivery IN
       rows' \in {rows, [rows EXCEPT ![d] =
                            ScheduleRetry(@, retriers[r].attempt, TRUE)]}
    /\ retriers' = [retriers EXCEPT ![r] = Idle]
    /\ UNCHANGED <<flights, sweep, callVars, posts, answers, overlap, retries>>

\* A process ends: what it had in hand is gone, the rows stay.  With several
\* processes a part of the goroutines and calls is lost.
Crash ==
    /\ Fault("crash")
    /\ \E gone \in SUBSET Flight :
          flights' = [f \in Flight |-> IF f \in gone THEN Idle ELSE flights[f]]
    /\ \E gone \in SUBSET Sweeper : sweep' = {s \in sweep : s.by \notin gone}
    /\ \E gone \in SUBSET Retrier :
          retriers' = [r \in Retrier |-> IF r \in gone THEN Idle ELSE retriers[r]]
    /\ \E gone \in SUBSET Call :
          left' = [c \in Call |-> IF c \in gone THEN {} ELSE left[c]]
    /\ UNCHANGED <<rows, called, created, posts, answers, overlap, retries>>

\* Everything was called and settled.
Quiet ==
    /\ called = Call /\ \A c \in Call : left[c] = {}
    /\ \A f \in Flight : flights[f] = Idle
    /\ Due = {} /\ \A d \in Delivery : rows[d].due
    /\ UNCHANGED vars

Next ==
    \/ \E c \in Call : DispatchEvent(c) \/ Test(c)
    \/ \E c \in Call, w \in Webhook :
          \/ \E f \in Flight : DispatchOnce(c, w, f)
          \/ DispatchOnceFails(c, w)
    \/ \E f \in Flight : Post(f) \/ Record(f) \/ RecordLost(f)
    \/ \E d \in Delivery : BecomesDue(d)
    \/ \E t \in Sweeper :
          \/ SweepList(t) \/ SweepFails(t)
          \/ \E f \in Flight : SweepDispatch(t, f)
    \/ \E r \in Retrier :
          \/ \E d \in Delivery : RetryFind(r, d)
          \/ \E f \in Flight : RetryCommit(r, f)
          \/ RetryFails(r)
    \/ Crash
    \/ Quiet

Spec == Init /\ [][Next]_vars

\* Goroutines and calls that were started run on, time passes, and the cron
\* entry of the sweep keeps firing.  Nobody has to call, retry or fail.
Fairness ==
    /\ \A c \in Call : WF_vars(\E w \in Webhook, f \in Flight : DispatchOnce(c, w, f))
    /\ \A f \in Flight : WF_vars(Post(f)) /\ WF_vars(Record(f))
    /\ \A d \in Delivery : WF_vars(BecomesDue(d))
    /\ WF_vars(\E t \in Sweeper : SweepList(t))
    /\ \A t \in Sweeper : WF_vars(\E f \in Flight : SweepDispatch(t, f))
    /\ \A r \in Retrier : WF_vars(\E f \in Flight : RetryCommit(r, f))

FairSpec == Spec /\ Fairness

-----------------------------------------------------------------------------
TypeOK ==
    /\ rows \in [Delivery -> DeliveryRow]
    /\ flights \in [Flight -> Carried \cup {Idle}]
    /\ sweep \in SUBSET Copy
    /\ retriers \in [Retrier -> RetryCopy \cup {Idle}]
    /\ called \subseteq Call /\ left \in [Call -> SUBSET Webhook] /\ created \in Nat
    /\ posts \in [Delivery -> 0..PostCap]
    /\ answers \in [Delivery -> SUBSET {"2xx", "3xx", "4xx"}]
    /\ overlap \subseteq Delivery
    /\ retries \in [Delivery -> 0..MaxRetries]
    /\ faults \in 0..MaxFaults

(***************************************************************************)
(* The status of a settled row is earned, although attempts overlap, count *)
(* from copies and overwrite each other: a delivered row was accepted by   *)
(* the receiver, a failed one was refused or really posted MaxAttempts     *)
(* times (dispatcher.go:105-124).                                          *)
(***************************************************************************)
StatusEarned ==
    \A d \in Delivery :
       /\ rows[d].status = "delivered" => answers[d] \cap Accepted # {}
       /\ rows[d].status = "failed" =>
             "4xx" \in answers[d] \/ posts[d] >= MaxAttempts

(***************************************************************************)
(* Every manual retry buys one attempt beyond MaxAttempts, no more, and a  *)
(* row that waits for an attempt still has one (webhook.go:164-192,        *)
(* dispatcher.go:116-123).                                                 *)
(***************************************************************************)
AttemptBudget ==
    \A d \in Delivery :
       /\ rows[d].attempt <= MaxAttempts + retries[d]
       /\ rows[d].status = "pending" => rows[d].attempt < MaxAttempts + retries[d]

(***************************************************************************)
(* Once settled a row stays as it is, unless an operator retried it or a   *)
(* sweep listed it while an attempt was under way or another sweep had     *)
(* listed it already: the updates themselves do not protect it             *)
(* (webhook_deliveries.sql:23-36), nor does anything claim a listed row.   *)
(***************************************************************************)
SettledStays ==
    [][\A d \in Delivery :
          Settled(rows[d]) /\ d \notin overlap /\ retries'[d] = 0
             => rows'[d] = rows[d]]_vars

(***************************************************************************)
(* Every stored delivery is settled in the end and not reopened again,     *)
(* whatever overlaps, crashes and lost updates there were: the sweep finds *)
(* what was lost, and stale copies cannot turn the count back for ever.    *)
(***************************************************************************)
DeliverySettles ==
    \A d \in Delivery :
       rows[d].status # "absent" ~> [](Settled(rows[d]))

(***************************************************************************)
(* webhook.go:127: "DispatchEvent fan-outs the payload to every active     *)
(* subscriber of the supplied event."  While the process runs, a           *)
(* subscriber is left behind only by its own dispatchOnce.                 *)
(***************************************************************************)
ServesEverySubscriber ==
    [][\A c \in Call : Cardinality(left[c] \ left'[c]) <= 1]_vars
=============================================================================
