-------------------------------- MODULE Chat --------------------------------
(***************************************************************************)
(* Chat about stored analyses: the use case of internal/core/usecase/chat.go *)
(* (Ask, Regenerate, SubmitFeedback) with the lock of AnalysisLocker, the   *)
(* context cache, the message and feedback tables, the runs that store      *)
(* analyses again and the retention that deletes them.                     *)
(*                                                                         *)
(* A step is one call another actor can observe: a statement, an operation  *)
(* on the cache or the lock, the call of the LLM.                          *)
(***************************************************************************)
EXTENDS AnalysisLocker, FiniteSets, FiniteSetsExt

CONSTANTS
    Faults,       \* the faults that may occur, see FaultKind
    Window,       \* messages SubmitFeedback looks at
    MaxAsks,      \* bound on the requests
    MaxSaves      \* bound on the times an analysis is stored

FaultKind == {"responder",  \* the LLM fails
              "store",      \* a call of Postgres or Redis fails
              "crash"}      \* the process of a request dies

ASSUME ChatAssumption ==
    /\ Faults \subseteq FaultKind
    /\ Window \in Nat /\ MaxAsks \in Nat /\ MaxSaves \in Nat

VARIABLES
    store,        \* "postgres" or "memory": the repositories in use
    version,      \* [Analysis -> version stored, 0 when there is none]
    saves,        \* [Analysis -> times it was stored]
    uncached,     \* contexts <<analysis, version>> a run still has to cache
    cache,        \* [Analysis -> version cached, 0 when there is none]
    expired,      \* memory: analyses whose cache entry is past its time to live
    at,           \* where each request is, see RequestStep
    topic,        \* the analysis each request is about
    context,      \* the version of the context each request found
    tx,           \* the open transaction of each request
    messages,     \* stored messages
    nextID,       \* the sequence of message ids
    clock,        \* transactions begun so far
    rated,        \* the message each request gives feedback on
    feedback,     \* ids of the messages with feedback
    asks          \* number of requests so far

storeVars   == <<store, version, saves, uncached>>
cacheVars   == <<cache, expired>>
askVars     == <<topic, context, tx>>
historyVars == <<messages, nextID, clock>>
rateVars    == <<rated, feedback>>
vars == <<lockVars, storeVars, cacheVars, at, askVars, historyVars, rateVars, asks>>

-----------------------------------------------------------------------------
Request == Caller

\* The steps that write the exchange are those of the transaction.
RequestStep == {"idle", "find", "evict", "load", "fill", "lock", "answer",
                "begin", "question", "reply", "commit", "keep", "release",
                "rate_find", "rate_list", "rate_save"}

Role == {"user", "assistant"}

Message == [id : Nat, at : Nat, role : Role, analysis : Analysis, exchange : Nat]

NoTx == [at |-> 0, question |-> 0, reply |-> 0]

Shared == locker = "redis"     \* REDIS_URL is set: lock and cache are in Redis

GoTo(r, step) == at' = [at EXCEPT ![r] = step]

CanFail(external) == external /\ "store" \in Faults

Init ==
    /\ LockInit
    /\ store \in {"postgres", "memory"}
    /\ version = [a \in Analysis |-> 0]
    /\ saves = [a \in Analysis |-> 0]
    /\ uncached = {}
    /\ cache = [a \in Analysis |-> 0]
    /\ expired = {}
    /\ at = [r \in Request |-> "idle"]
    /\ topic = [r \in Request |-> None]
    /\ context = [r \in Request |-> 0]
    /\ tx = [r \in Request |-> NoTx]
    /\ messages = {} /\ nextID = 1 /\ clock = 0
    /\ rated = [r \in Request |-> 0]
    /\ feedback = {}
    /\ asks = 0

\* The request answers its client and is over.
Done(r) ==
    /\ GoTo(r, "idle")
    /\ topic' = [topic EXCEPT ![r] = None]
    /\ context' = [context EXCEPT ![r] = 0]
    /\ tx' = [tx EXCEPT ![r] = NoTx]

-----------------------------------------------------------------------------
(* The context cache *)

CacheSave(a, v) ==
    \/ cache' = [cache EXCEPT ![a] = v] /\ expired' = expired \ {a}
    \/ CanFail(Shared) /\ UNCHANGED cacheVars

\* The time to live of an entry is over: Redis drops it, the map keeps it.
CacheExpires(a) ==
    /\ cache[a] # 0 /\ a \notin expired
    /\ IF Shared THEN cache' = [cache EXCEPT ![a] = 0] /\ UNCHANGED expired
                 ELSE expired' = expired \cup {a} /\ UNCHANGED cache
    /\ UNCHANGED <<lockVars, storeVars, at, askVars, historyVars, rateVars, asks>>

CacheFind(r) ==
    LET a == topic[r]
        hit == cache[a] # 0 /\ a \notin expired IN
    /\ at[r] = "find"
    /\ \/ /\ hit
          /\ context' = [context EXCEPT ![r] = cache[a]]
          /\ GoTo(r, "lock")
          /\ Acquire(r, a)
       \/ /\ ~hit \/ CanFail(Shared)
          /\ GoTo(r, IF a \in expired THEN "evict" ELSE "load")
          /\ UNCHANGED <<context, lockVars>>
    /\ UNCHANGED <<storeVars, cacheVars, topic, tx, historyVars, rateVars, asks>>

\* memory: whatever entry the map has by now is deleted, a new one too.
CacheEvict(r) ==
    LET a == topic[r] IN
    /\ at[r] = "evict"
    /\ cache' = [cache EXCEPT ![a] = 0]
    /\ expired' = expired \ {a}
    /\ GoTo(r, "load")
    /\ UNCHANGED <<lockVars, storeVars, askVars, historyVars, rateVars, asks>>

-----------------------------------------------------------------------------
(* Ask *)

Ask(r, a) ==
    /\ at[r] = "idle" /\ call[r] = "out"
    /\ asks < MaxAsks
    /\ asks' = asks + 1
    /\ topic' = [topic EXCEPT ![r] = a]
    /\ GoTo(r, "find")
    /\ UNCHANGED <<lockVars, storeVars, cacheVars, context, tx, historyVars, rateVars>>

\* The question of a stored message is asked again.
Regenerate(r, a) ==
    /\ \E m \in messages : m.analysis = a /\ m.role = "user"
    /\ Ask(r, a)

\* Variant: a context is cached whether or not the analysis was found.
LoadUnchecked(r) ==
    /\ at[r] = "load"
    /\ context' = [context EXCEPT ![r] = saves[topic[r]]]
    /\ GoTo(r, "fill")
    /\ UNCHANGED <<lockVars, storeVars, cacheVars, topic, tx, historyVars,
                   rateVars, asks>>

\* repository.Find, whatever error the cache gave.
Load(r) ==
    LET found == version[topic[r]] IN
    /\ at[r] = "load"
    /\ \/ /\ found # 0
          /\ context' = [context EXCEPT ![r] = found]
          /\ GoTo(r, "fill")
          /\ UNCHANGED <<topic, tx>>
       \/ /\ found = 0 \/ CanFail(store = "postgres")
          /\ Done(r)
    /\ UNCHANGED <<lockVars, storeVars, cacheVars, historyVars, rateVars, asks>>

Fill(r) ==
    /\ at[r] = "fill"
    /\ CacheSave(topic[r], context[r])
    /\ GoTo(r, "lock")
    /\ Acquire(r, topic[r])
    /\ UNCHANGED <<storeVars, askVars, historyVars, rateVars, asks>>

Locked(r) ==
    /\ at[r] = "lock"
    /\ TakeGrant(r) \/ SetKey(r)
    /\ GoTo(r, "answer")
    /\ UNCHANGED <<storeVars, cacheVars, askVars, historyVars, rateVars, asks>>

NotLocked(r) ==
    /\ at[r] = "lock"
    /\ Abandon(r) \/ StopWaiting(r)
    /\ Done(r)
    /\ UNCHANGED <<storeVars, cacheVars, historyVars, rateVars, asks>>

\* The responder's answer, or the refusal of a question out of scope; a failing
\* responder ends the request.
Answer(r) ==
    /\ at[r] = "answer"
    /\ \/ GoTo(r, "begin")
       \/ "responder" \in Faults /\ GoTo(r, "release")
    /\ UNCHANGED <<lockVars, storeVars, cacheVars, askVars, historyVars, rateVars, asks>>

-----------------------------------------------------------------------------
(* SaveExchange *)

\* now() is the time the transaction began; no two begin in the same microsecond.
BeginExchange(r) ==
    /\ at[r] = "begin" /\ store = "postgres"
    /\ clock' = clock + 1
    /\ tx' = [tx EXCEPT ![r].at = clock + 1]
    /\ GoTo(r, "question")
    /\ UNCHANGED <<lockVars, storeVars, cacheVars, topic, context, messages, nextID,
                   rateVars, asks>>

\* The foreign key refuses the message of an analysis that is gone.
InsertQuestion(r) ==
    /\ at[r] = "question"
    /\ version[topic[r]] # 0
    /\ tx' = [tx EXCEPT ![r].question = nextID]
    /\ nextID' = nextID + 1
    /\ GoTo(r, "reply")
    /\ UNCHANGED <<lockVars, storeVars, cacheVars, topic, context, messages, clock,
                   rateVars, asks>>

InsertReply(r) ==
    /\ at[r] = "reply"
    /\ tx' = [tx EXCEPT ![r].reply = nextID]
    /\ nextID' = nextID + 1
    /\ GoTo(r, "commit")
    /\ UNCHANGED <<lockVars, storeVars, cacheVars, topic, context, messages, clock,
                   rateVars, asks>>

Exchange(a, t, question, reply) ==
    {[id |-> question, at |-> t, role |-> "user", analysis |-> a, exchange |-> t],
     [id |-> reply, at |-> t, role |-> "assistant", analysis |-> a, exchange |-> t]}

CommitExchange(r) ==
    /\ at[r] = "commit"
    /\ messages' = messages \cup
           Exchange(topic[r], tx[r].at, tx[r].question, tx[r].reply)
    /\ tx' = [tx EXCEPT ![r] = NoTx]
    /\ GoTo(r, "keep")
    /\ UNCHANGED <<lockVars, storeVars, cacheVars, topic, context, nextID, clock,
                   rateVars, asks>>

\* A statement of the transaction fails: nothing of it stays.
RollBackExchange(r) ==
    /\ at[r] \in {"question", "reply", "commit"}
    /\ "store" \in Faults \/ (at[r] = "question" /\ version[topic[r]] = 0)
    /\ tx' = [tx EXCEPT ![r] = NoTx]
    /\ GoTo(r, "release")
    /\ UNCHANGED <<lockVars, storeVars, cacheVars, topic, context, historyVars,
                   rateVars, asks>>

\* memory: both messages under the mutex.
AppendExchange(r) ==
    /\ at[r] = "begin" /\ store = "memory"
    /\ clock' = clock + 1
    /\ messages' = messages \cup Exchange(topic[r], clock + 1, nextID, nextID + 1)
    /\ nextID' = nextID + 2
    /\ GoTo(r, "keep")
    /\ UNCHANGED <<lockVars, storeVars, cacheVars, askVars, rateVars, asks>>

\* The context the request found, however old by now, is cached anew.
KeepContext(r) ==
    /\ at[r] = "keep"
    /\ CacheSave(topic[r], context[r])
    /\ GoTo(r, "release")
    /\ UNCHANGED <<lockVars, storeVars, askVars, historyVars, rateVars, asks>>

ReleaseLock(r) ==
    /\ at[r] = "release"
    /\ Release(r)
    /\ Done(r)
    /\ UNCHANGED <<storeVars, cacheVars, historyVars, rateVars, asks>>

-----------------------------------------------------------------------------
(* SubmitFeedback *)

\* A client gives feedback on any message id of any analysis.
SubmitFeedback(r, a, id) ==
    /\ at[r] = "idle" /\ call[r] = "out"
    /\ asks < MaxAsks
    /\ asks' = asks + 1
    /\ topic' = [topic EXCEPT ![r] = a]
    /\ rated' = [rated EXCEPT ![r] = id]
    /\ GoTo(r, "rate_find")
    /\ UNCHANGED <<lockVars, storeVars, cacheVars, context, tx, historyVars,
                   feedback>>

RateEnds(r) == Done(r) /\ rated' = [rated EXCEPT ![r] = 0]

RateFind(r) ==
    /\ at[r] = "rate_find"
    /\ IF version[topic[r]] # 0
         THEN GoTo(r, "rate_list") /\ UNCHANGED <<askVars, rated>>
         ELSE RateEnds(r)
    /\ UNCHANGED <<lockVars, storeVars, cacheVars, historyVars, feedback, asks>>

\* Variant: the messages are listed in the order of their ids.
BeforeByID(m, n) == m.id < n.id

\* ORDER BY created_at, id
Before(m, n) == m.at < n.at \/ (m.at = n.at /\ m.id < n.id)

Listed(a) == {m \in messages : m.analysis = a}

\* The newest messages of an analysis.
Newest(a, limit) ==
    {m \in Listed(a) : Cardinality({n \in Listed(a) : Before(m, n)}) < limit}

\* Variant: questions can be rated.
RateListAnyRole(r) ==
    /\ at[r] = "rate_list"
    /\ IF \E m \in Newest(topic[r], Window) : m.id = rated[r]
         THEN GoTo(r, "rate_save") /\ UNCHANGED <<askVars, rated>>
         ELSE RateEnds(r)
    /\ UNCHANGED <<lockVars, storeVars, cacheVars, historyVars, feedback, asks>>

\* An answer that is not among the newest messages is not found.
RateList(r) ==
    /\ at[r] = "rate_list"
    /\ IF \E m \in Newest(topic[r], Window) :
             m.id = rated[r] /\ m.role = "assistant"
         THEN GoTo(r, "rate_save") /\ UNCHANGED <<askVars, rated>>
         ELSE RateEnds(r)
    /\ UNCHANGED <<lockVars, storeVars, cacheVars, historyVars, feedback, asks>>

\* An upsert; the foreign keys refuse what was deleted in the meantime.
RateSave(r) ==
    /\ at[r] = "rate_save"
    /\ feedback' = feedback \cup {m.id : m \in {n \in messages : n.id = rated[r]}}
    /\ RateEnds(r)
    /\ UNCHANGED <<lockVars, storeVars, cacheVars, historyVars, asks>>

-----------------------------------------------------------------------------
(* Runs and retention *)

\* A run upserts the analysis; with asynq more than one run may.
SaveAnalysis(a) ==
    /\ saves[a] < MaxSaves
    /\ saves' = [saves EXCEPT ![a] = @ + 1]
    /\ version' = [version EXCEPT ![a] = saves[a] + 1]
    /\ uncached' = uncached \cup {<<a, saves[a] + 1>>}
    /\ UNCHANGED <<lockVars, store, cacheVars, at, askVars, historyVars, rateVars, asks>>

\* Best effort; the run may also die before.
CacheAnalysis(a, v) ==
    /\ <<a, v>> \in uncached
    /\ uncached' = uncached \ {<<a, v>>}
    /\ CacheSave(a, v) \/ ("crash" \in Faults /\ UNCHANGED cacheVars)
    /\ UNCHANGED <<lockVars, store, version, saves, at, askVars, historyVars,
                   rateVars, asks>>

\* Delete, Purge and PurgeByQuantity remove rows, with all that refers to them, and
\* leave the cache alone.  They wait for transactions that refer to the rows.
DeleteAnalyses(S) ==
    /\ store = "postgres"
    /\ \A a \in S : version[a] # 0
    /\ \A r \in Request : topic[r] \in S => at[r] \notin {"reply", "commit"}
    /\ version' = [a \in Analysis |-> IF a \in S THEN 0 ELSE version[a]]
    /\ messages' = {m \in messages : m.analysis \notin S}
    /\ feedback' = {id \in feedback :
                      \E m \in messages : m.id = id /\ m.analysis \notin S}
    /\ UNCHANGED <<lockVars, store, saves, uncached, cacheVars, at, askVars, nextID,
                   clock, rated, asks>>

-----------------------------------------------------------------------------
Alone(A) ==
    A /\ UNCHANGED <<storeVars, cacheVars, at, askVars, historyVars, rateVars, asks>>

\* What goes on in the lock without the request: its goroutine, the TTL of its key.
LockStep ==
    \/ \E r \in Request : Alone(Grant(r)) \/ Alone(HandOn(r))
    \/ \E a \in Analysis : Alone(Expire(a))

\* The process of a request dies; Postgres rolls its transaction back.
Crash(r) ==
    /\ "crash" \in Faults
    /\ Shared /\ store = "postgres"
    /\ at[r] # "idle"
    /\ IF call[r] \in {"waiting", "holding"} THEN Vanish(r) ELSE UNCHANGED lockVars
    /\ RateEnds(r)
    /\ UNCHANGED <<storeVars, cacheVars, historyVars, feedback, asks>>

\* What a request does once its lock is out of its way.
Proceed(r) ==
    \/ CacheFind(r) \/ CacheEvict(r) \/ Load(r) \/ Fill(r)
    \/ Answer(r) \/ BeginExchange(r) \/ InsertQuestion(r) \/ InsertReply(r)
    \/ CommitExchange(r) \/ RollBackExchange(r) \/ AppendExchange(r)
    \/ KeepContext(r) \/ ReleaseLock(r)
    \/ RateFind(r) \/ RateList(r) \/ RateSave(r)

Next ==
    \/ \E r \in Request, a \in Analysis : Ask(r, a) \/ Regenerate(r, a)
    \/ \E r \in Request, a \in Analysis, id \in 1..(nextID - 1) : SubmitFeedback(r, a, id)
    \/ \E r \in Request : Proceed(r) \/ Locked(r) \/ NotLocked(r) \/ Crash(r)
    \/ LockStep
    \/ \E a \in Analysis : SaveAnalysis(a) \/ CacheExpires(a)
    \/ \E a \in Analysis, v \in 1..MaxSaves : CacheAnalysis(a, v)
    \/ \E S \in SUBSET Analysis : S # {} /\ DeleteAnalyses(S)

Spec == Init /\ [][Next]_vars

\* Requests go on, a goroutine that has the mutex unlocks it, a poller gives up at its
\* deadline, and keys expire.  Nobody needs to ask, and no client needs to leave.
Fairness ==
    /\ \A r \in Request :
          /\ WF_vars(Proceed(r)) /\ WF_vars(Locked(r))
          /\ WF_vars(Shared /\ NotLocked(r)) /\ WF_vars(Alone(HandOn(r)))
    /\ \A a \in Analysis : WF_vars(Alone(Expire(a)))

FairSpec == Spec /\ Fairness

-----------------------------------------------------------------------------
(* Properties *)

\* The variables have the types their declarations give.
TypeOK ==
    /\ LockTypeOK
    /\ store \in {"postgres", "memory"}
    /\ version \in [Analysis -> Nat] /\ saves \in [Analysis -> Nat]
    /\ uncached \subseteq Analysis \X Nat
    /\ cache \in [Analysis -> Nat] /\ expired \subseteq Analysis
    /\ at \in [Request -> RequestStep]
    /\ topic \in [Request -> Analysis \cup {None}]
    /\ context \in [Request -> Nat]
    /\ tx \in [Request -> [at : Nat, question : Nat, reply : Nat]]
    /\ messages \subseteq Message
    /\ nextID \in Nat /\ clock \in Nat /\ asks \in Nat
    /\ rated \in [Request -> Nat] /\ feedback \subseteq Nat

\* A client that reads the history finds every question directly followed by its
\* answer, also where a key expired and two exchanges were written at the same time.
ExchangesPaired ==
    \A m \in messages : m.role = "user" =>
        \E n \in Listed(m.analysis) :
            /\ n.role = "assistant" /\ n.exchange = m.exchange
            /\ Before(m, n)
            /\ ~\E k \in Listed(m.analysis) : Before(m, k) /\ Before(k, n)

\* Nothing is stored for an analysis that does not exist: no message and no feedback
\* outlives a deletion, although requests go on from the context they found before.
NothingOutlivesAnalysis ==
    /\ \A m \in messages : version[m.analysis] # 0
    /\ \A id \in feedback : \E m \in messages : m.id = id /\ m.role = "assistant"

\* Nobody knows the analysis any more: it is gone, from the cache too, and neither a
\* request nor a run has its context.
Forgotten(a) ==
    /\ version[a] = 0 /\ cache[a] = 0
    /\ ~\E v \in 1..MaxSaves : <<a, v>> \in uncached
    /\ \A r \in Request : topic[r] = a => context[r] = 0

\* A deleted analysis whose context was forgotten is not brought back by any chat
\* request, only by a run that stores it again.
ForgottenStaysForgotten ==
    [][\A a \in Analysis : Forgotten(a) /\ saves'[a] = saves[a] => Forgotten(a)']_vars

\* Whoever has the lock of an analysis, it gets free: callers that leave while they
\* wait, requests that fail or crash and releases that are lost do not keep it.
LockReturns == \A a \in Analysis : owner[a] # None ~> owner[a] = None
=============================================================================
