----------------------------- MODULE ChatProofs -----------------------------
(***************************************************************************)
(* For any number of requests and analyses, with both stores and both       *)
(* lockers and whatever fails: the steps of Chat respect the lock, what is  *)
(* stored for an analysis goes with it, and questions are followed by their *)
(* answers.                                                                *)
(***************************************************************************)
EXTENDS Chat, TLAPS

(***************************************************************************)
(* For any number of callers and analyses, both lockers of AnalysisLocker   *)
(* implement ChatTurns: callers take turns, and only a caller whose key     *)
(* expired under it may be joined.                                          *)
(***************************************************************************)

\* Of the callers that hold a lock, the one that is its owner is the only one that has
\* not overrun its lease.
LockInv ==
    /\ owner \in [Analysis -> Caller \cup {None}]
    /\ call \in [Caller -> CallState]
    /\ wants \in [Caller -> Analysis \cup {None}]
    /\ overdue \subseteq Caller
    /\ \A c \in Caller : call[c] # "out" => wants[c] \in Analysis
    /\ \A c \in Caller : call[c] = "holding" => c \in overdue \/ owner[wants[c]] = c

-----------------------------------------------------------------------------
LEMMA LockInitInv == LockInit => LockInv
  BY NoneIsNoCaller DEF LockInit, LockInv, CallState

\* Every step of the lock keeps the invariant, whoever leaves, crashes or is late.
LEMMA LockStepInv == LockInv /\ [LockNext]_lockVars => LockInv'
<1> SUFFICES ASSUME LockInv, [LockNext]_lockVars PROVE LockInv'
  OBVIOUS
<1> USE NoneIsNoCaller DEF LockInv, CallState
<1>1. ASSUME NEW c \in Caller, NEW a \in Analysis, Acquire(c, a) PROVE LockInv'
  BY <1>1 DEF Acquire
<1>2. ASSUME NEW c \in Caller, Grant(c) PROVE LockInv'
  BY <1>2 DEF Grant
<1>3. ASSUME NEW c \in Caller, TakeGrant(c) PROVE LockInv'
  BY <1>3 DEF TakeGrant, Enters
<1>4. ASSUME NEW c \in Caller, SetKey(c) PROVE LockInv'
  BY <1>4 DEF SetKey, Enters
<1>5. ASSUME NEW c \in Caller, Abandon(c) PROVE LockInv'
  BY <1>5 DEF Abandon, Leaves
<1>6. ASSUME NEW c \in Caller, HandOn(c) PROVE LockInv'
  BY <1>6 DEF HandOn
<1>7. ASSUME NEW c \in Caller, StopWaiting(c) PROVE LockInv'
  BY <1>7 DEF StopWaiting, Leaves
<1>8. ASSUME NEW c \in Caller, Release(c) PROVE LockInv'
  BY <1>8 DEF Release, Leaves
<1>9. ASSUME NEW c \in Caller, Vanish(c) PROVE LockInv'
  BY <1>9 DEF Vanish, Leaves
<1>10. ASSUME NEW a \in Analysis, Expire(a) PROVE LockInv'
  BY <1>10 DEF Expire
<1>11. CASE UNCHANGED lockVars
  BY <1>11 DEF lockVars
<1> QED
  BY <1>1, <1>2, <1>3, <1>4, <1>5, <1>6, <1>7, <1>8, <1>9, <1>10, <1>11 DEF LockNext

-----------------------------------------------------------------------------
LEMMA TurnsInit == LockInit => Turns!Init
  BY DEF LockInit, Turns!Init, Inside

\* A caller that enters is a turn: whoever still holds the lock has overrun it.
LEMMA EnterIsTurn ==
  ASSUME LockInv, NEW c \in Caller, TakeGrant(c) \/ SetKey(c)
  PROVE  Turns!Enter(c, wants[c])
<1> USE NoneIsNoCaller DEF LockInv
<1> DEFINE a == wants[c]
<1>1. call[c] = "waiting" /\ a \in Analysis /\ owner[a] \in {c, None}
  BY DEF TakeGrant, SetKey
<1>2. call' = [call EXCEPT ![c] = "holding"] /\ overdue' = overdue \ {c}
      /\ wants' = wants
  BY DEF TakeGrant, SetKey, Enters
<1>3. c \notin Inside[a]
  BY <1>1 DEF Inside
<1>4. Inside[a] \subseteq overdue
  BY <1>1 DEF Inside
<1>5. Inside' = [b \in Analysis |-> IF b = a THEN Inside[b] \cup {c} ELSE Inside[b]]
  <2>1. \A b \in Analysis : Inside'[b] = IF b = a THEN Inside[b] \cup {c} ELSE Inside[b]
    BY <1>1, <1>2 DEF Inside
  <2> QED
    BY <2>1 DEF Inside
<1>6. Inside' = [Inside EXCEPT ![a] = @ \cup {c}]
  BY <1>1, <1>5, Zenon DEF Inside
<1> QED
  BY <1>2, <1>3, <1>4, <1>6 DEF Turns!Enter

LEMMA LeaveIsTurn ==
  ASSUME LockInv, NEW c \in Caller, Release(c) \/ Vanish(c)
  PROVE  Turns!Leave(c, wants[c]) \/ UNCHANGED <<Inside, overdue>>
<1> USE NoneIsNoCaller DEF LockInv
<1>1. call[c] \in {"waiting", "holding"} /\ wants[c] \in Analysis
  BY DEF Release, Vanish
<1>2. /\ call' = [call EXCEPT ![c] = "out"] /\ overdue' = overdue
      /\ wants' = [wants EXCEPT ![c] = None]
  BY DEF Release, Vanish, Leaves
<1>3. CASE call[c] = "holding"
  <2>1. c \in Inside[wants[c]]
    BY <1>1, <1>3 DEF Inside
  <2> DEFINE a == wants[c]
  <2>2. Inside' = [b \in Analysis |-> IF b = a THEN Inside[b] \ {c} ELSE Inside[b]]
    <3>1. \A b \in Analysis : Inside'[b] = IF b = a THEN Inside[b] \ {c} ELSE Inside[b]
      BY <1>1, <1>2, <1>3 DEF Inside
    <3> QED
      BY <3>1 DEF Inside
  <2>3. Inside' = [Inside EXCEPT ![a] = @ \ {c}]
    BY <1>1, <2>2, Zenon DEF Inside
  <2> QED
    BY <1>2, <2>1, <2>3 DEF Turns!Leave
<1>4. CASE call[c] = "waiting"
  BY <1>1, <1>2, <1>4 DEF Inside
<1> QED
  BY <1>1, <1>3, <1>4

LEMMA ExpireIsTurn ==
  ASSUME LockInv, NEW a \in Analysis, Expire(a)
  PROVE  (\E c \in Caller : Turns!Overrun(c, a)) \/ UNCHANGED <<Inside, overdue>>
<1> USE NoneIsNoCaller DEF LockInv
<1> DEFINE c == owner[a]
<1>1. c \in Caller /\ call' = call /\ wants' = wants
  BY DEF Expire
<1>2. Inside' = Inside
  BY <1>1 DEF Inside
<1>3. CASE call[c] = "holding" /\ wants[c] = a /\ c \notin overdue
  <2>1. overdue' = overdue \cup {c} /\ c \in Inside[a] \ overdue
    BY <1>1, <1>3 DEF Expire, Inside
  <2> QED
    BY <1>1, <1>2, <2>1 DEF Turns!Overrun
<1>4. CASE ~(call[c] = "holding" /\ wants[c] = a /\ c \notin overdue)
  BY <1>1, <1>2, <1>4 DEF Expire
<1> QED
  BY <1>3, <1>4

\* Callers that come, wait and give up are none of the turns' business.
LEMMA WaitingIsNoTurn ==
  ASSUME LockInv, NEW c \in Caller,
         \/ \E a \in Analysis : Acquire(c, a)
         \/ Grant(c) \/ Abandon(c) \/ HandOn(c) \/ StopWaiting(c)
  PROVE  UNCHANGED <<Inside, overdue>>
<1> USE DEF LockInv
<1>1. overdue' = overdue
  BY DEF Acquire, Grant, Abandon, HandOn, StopWaiting
<1>2. call[c] # "holding" /\ call'[c] # "holding"
  BY DEF Acquire, Grant, Abandon, HandOn, StopWaiting, Leaves, CallState
<1>3. \A d \in Caller \ {c} : call'[d] = call[d] /\ wants'[d] = wants[d]
  BY DEF Acquire, Grant, Abandon, HandOn, StopWaiting, Leaves
<1>4. Inside' = Inside
  BY <1>2, <1>3 DEF Inside
<1> QED
  BY <1>1, <1>4

LEMMA TurnsStep ==
  ASSUME LockInv, [LockNext]_lockVars
  PROVE  [Turns!Next]_<<Inside, overdue>>
<1>1. ASSUME NEW c \in Caller, TakeGrant(c) \/ SetKey(c) PROVE Turns!Next
  <2>1. wants[c] \in Analysis
    BY <1>1 DEF LockInv, TakeGrant, SetKey
  <2> QED
    BY <1>1, <2>1, EnterIsTurn DEF Turns!Next
<1>2. ASSUME NEW c \in Caller, Release(c) \/ Vanish(c)
      PROVE  [Turns!Next]_<<Inside, overdue>>
  <2>1. wants[c] \in Analysis
    BY <1>2 DEF LockInv, Release, Vanish
  <2> QED
    BY <1>2, <2>1, LeaveIsTurn DEF Turns!Next
<1>3. ASSUME NEW a \in Analysis, Expire(a) PROVE [Turns!Next]_<<Inside, overdue>>
  BY <1>3, ExpireIsTurn DEF Turns!Next
<1>4. ASSUME NEW c \in Caller,
             \/ \E a \in Analysis : Acquire(c, a)
             \/ Grant(c) \/ Abandon(c) \/ HandOn(c) \/ StopWaiting(c)
      PROVE  UNCHANGED <<Inside, overdue>>
  BY <1>4, WaitingIsNoTurn
<1>5. CASE UNCHANGED lockVars
  BY <1>5 DEF lockVars, Inside
<1> QED
  BY <1>1, <1>2, <1>3, <1>4, <1>5 DEF LockNext

\* Both lockers implement the turns: at any time at most one of the callers that hold
\* the lock of an analysis has not overrun its lease, and a late release never ends
\* the turn of the caller that has the lock now.
THEOREM LockTakesTurns == LockSpec => TakesTurns
<1>1. LockSpec => []LockInv
  BY LockInitInv, LockStepInv, PTL DEF LockSpec
<1>2. LockInv /\ [LockNext]_lockVars => [Turns!Next]_<<Inside, overdue>>
  BY TurnsStep
<1> QED
  BY <1>1, <1>2, TurnsInit, PTL DEF LockSpec, TakesTurns, Turns!Spec

-----------------------------------------------------------------------------
(***************************************************************************)
(* Chat: its steps respect the lock, what is stored for an analysis goes    *)
(* with it, and questions are followed by their answers.                    *)
(***************************************************************************)

\* The part of the type invariant the arguments below rest on.
ChatTypes ==
    /\ at \in [Request -> RequestStep]
    /\ topic \in [Request -> Analysis \cup {None}]
    /\ version \in [Analysis -> Nat] /\ saves \in [Analysis -> Nat]
    /\ tx \in [Request -> [at : Nat, question : Nat, reply : Nat]]
    /\ messages \subseteq Message
    /\ context \in [Request -> Nat]
    /\ cache \in [Analysis -> Nat] /\ uncached \subseteq Analysis \X Nat
    /\ nextID \in Nat \ {0} /\ clock \in Nat
    /\ rated \in [Request -> Nat] /\ feedback \subseteq Nat
    /\ \A r \in Request : at[r] # "idle" => topic[r] \in Analysis

\* The ids an open transaction has drawn from the sequence and nobody can see yet.
Drawn(r) ==
    IF at[r] = "reply" THEN {tx[r].question}
    ELSE IF at[r] = "commit" THEN {tx[r].question, tx[r].reply} ELSE {}

\* No two messages, stored or about to be, have the same id.
IDsUnique ==
    /\ \A m \in messages : m.id < nextID
    /\ \A m, n \in messages : m.id = n.id => m = n
    /\ \A r \in Request : \A i \in Drawn(r) :
          /\ i \in Nat /\ i < nextID
          /\ \A m \in messages : m.id # i
          /\ \A s \in Request : i \in Drawn(s) => r = s
    /\ \A r \in Request : at[r] = "commit" => tx[r].question < tx[r].reply

\* What a request is about to store or to rate refers to what exists.
RefersToStored ==
    /\ \A m \in messages : version[m.analysis] # 0
    /\ \A r \in Request : at[r] \in {"reply", "commit"} => version[topic[r]] # 0
    /\ \A r \in Request : at[r] = "rate_save" =>
          /\ rated[r] < nextID
          /\ \A m \in messages : m.id = rated[r] => m.role = "assistant"
          /\ \A s \in Request : rated[r] \notin Drawn(s)
    /\ \A id \in feedback : \E m \in messages : m.id = id /\ m.role = "assistant"

Writing == {"question", "reply", "commit"}

\* The memory store never deletes: what a request or a run found is still there.
MemoryKeeps ==
    store = "memory" =>
        /\ \A a \in Analysis : cache[a] # 0 => version[a] # 0
        /\ \A u \in uncached : version[u[1]] # 0
        /\ \A r \in Request :
              at[r] \in Writing \cup {"fill", "lock", "answer", "begin", "keep"} =>
                  version[topic[r]] # 0

\* The messages of one exchange, and only they, have the time of its transaction.
TimesUnique ==
    /\ \A m \in messages : m.at \in 1..clock /\ m.exchange = m.at
    /\ \A r \in Request : at[r] \in Writing =>
          tx[r].at \in 1..clock /\ \A m \in messages : m.at # tx[r].at
    /\ \A r, s \in Request :
          r # s /\ at[r] \in Writing /\ at[s] \in Writing => tx[r].at # tx[s].at
    /\ \A m \in messages : m.role = "user" =>
          \E n \in messages :
             /\ n.role = "assistant" /\ n.analysis = m.analysis
             /\ n.at = m.at /\ m.id < n.id
             /\ \A k \in messages : k.at = m.at => k \in {m, n}

-----------------------------------------------------------------------------
LEMMA InitTypes == Init => ChatTypes
  BY NoneIsNoCaller DEF Init, ChatTypes, Request, RequestStep, NoTx, Message

LEMMA StepTypes == ChatTypes /\ [Next]_vars => ChatTypes'
<1> SUFFICES ASSUME ChatTypes, [Next]_vars PROVE ChatTypes'
  OBVIOUS
<1> USE NoneIsNoCaller DEF ChatTypes, Request, RequestStep, NoTx, Message,
        askVars, storeVars, cacheVars, historyVars, rateVars
<1>1. ASSUME NEW r \in Request, NEW a \in Analysis, Ask(r, a) PROVE ChatTypes'
  BY <1>1 DEF Ask, GoTo
<1>2. ASSUME NEW r \in Request, NEW a \in Analysis, NEW id \in 1..(nextID - 1),
      SubmitFeedback(r, a, id)
      PROVE  ChatTypes'
  BY <1>2 DEF SubmitFeedback, GoTo
<1>3. ASSUME NEW r \in Request, CacheFind(r) PROVE ChatTypes'
  BY <1>3 DEF CacheFind, GoTo
<1>4. ASSUME NEW r \in Request, CacheEvict(r) PROVE ChatTypes'
  BY <1>4 DEF CacheEvict, GoTo
<1>5. ASSUME NEW r \in Request, Load(r) PROVE ChatTypes'
  <2>1. CASE Done(r) /\ UNCHANGED <<storeVars, cacheVars, historyVars, rateVars>>
    BY <2>1 DEF Done, GoTo
  <2>2. CASE GoTo(r, "fill") /\ UNCHANGED <<storeVars, cacheVars, historyVars, rateVars,
        topic, tx>>
           /\ context' = [context EXCEPT ![r] = version[topic[r]]]
    BY <2>2, <1>5 DEF Load, GoTo
  <2> QED
    BY <1>5, <2>1, <2>2 DEF Load
<1>6. ASSUME NEW r \in Request, Fill(r) PROVE ChatTypes'
  BY <1>6 DEF Fill, GoTo, CacheSave
<1>7. ASSUME NEW r \in Request, Answer(r) PROVE ChatTypes'
  BY <1>7 DEF Answer, GoTo
<1>8. ASSUME NEW r \in Request, BeginExchange(r) PROVE ChatTypes'
  BY <1>8 DEF BeginExchange, GoTo
<1>9. ASSUME NEW r \in Request, InsertQuestion(r) PROVE ChatTypes'
  BY <1>9 DEF InsertQuestion, GoTo
<1>10. ASSUME NEW r \in Request, InsertReply(r) PROVE ChatTypes'
  BY <1>10 DEF InsertReply, GoTo
<1>11. ASSUME NEW r \in Request, CommitExchange(r) PROVE ChatTypes'
  <2>1. tx[r] \in [at : Nat, question : Nat, reply : Nat] /\ topic[r] \in Analysis
    BY <1>11 DEF CommitExchange
  <2>2. Exchange(topic[r], tx[r].at, tx[r].question, tx[r].reply) \subseteq Message
    BY <2>1 DEF Exchange, Role
  <2> QED
    BY <1>11, <2>2 DEF CommitExchange, GoTo
<1>12. ASSUME NEW r \in Request, RollBackExchange(r) PROVE ChatTypes'
  BY <1>12 DEF RollBackExchange, GoTo
<1>13. ASSUME NEW r \in Request, AppendExchange(r) PROVE ChatTypes'
  <2>1. topic[r] \in Analysis
    BY <1>13 DEF AppendExchange
  <2>2. Exchange(topic[r], clock + 1, nextID, nextID + 1) \subseteq Message
    BY <2>1 DEF Exchange, Role
  <2> QED
    BY <1>13, <2>2 DEF AppendExchange, GoTo
<1>14. ASSUME NEW r \in Request, KeepContext(r) PROVE ChatTypes'
  BY <1>14 DEF KeepContext, GoTo, CacheSave
<1>15. ASSUME NEW r \in Request, ReleaseLock(r) PROVE ChatTypes'
  BY <1>15 DEF ReleaseLock, GoTo, Done
<1>16. ASSUME NEW r \in Request, RateFind(r) PROVE ChatTypes'
  <2>1. CASE GoTo(r, "rate_list") /\ UNCHANGED <<askVars, rated>>
    BY <1>16, <2>1 DEF RateFind, GoTo
  <2>2. CASE RateEnds(r)
    BY <1>16, <2>2 DEF RateFind, GoTo, RateEnds, Done
  <2> QED
    BY <1>16, <2>1, <2>2, Zenon DEF RateFind
<1>17. ASSUME NEW r \in Request, RateList(r) PROVE ChatTypes'
  <2>1. CASE GoTo(r, "rate_save") /\ UNCHANGED <<askVars, rated>>
    BY <1>17, <2>1 DEF RateList, GoTo
  <2>2. CASE RateEnds(r)
    BY <1>17, <2>2 DEF RateList, GoTo, RateEnds, Done
  <2> QED
    BY <1>17, <2>1, <2>2 DEF RateList
<1>18. ASSUME NEW r \in Request, RateSave(r) PROVE ChatTypes'
  <2>1. \A m \in messages : m.id \in Nat
    OBVIOUS
  <2>2. \A id \in feedback' : id \in feedback \/ \E m \in messages : id = m.id
    BY <1>18 DEF RateSave
  <2>3. feedback \subseteq Nat
    OBVIOUS
  <2>4. ASSUME NEW id \in feedback' PROVE id \in Nat
    <3>1. CASE id \in feedback
      BY <2>3, <3>1, Zenon
    <3>2. ASSUME NEW m \in messages, id = m.id PROVE id \in Nat
      BY <2>1, <3>2, Zenon
    <3> QED
      BY <2>2, <3>1, <3>2
  <2> QED
    BY <1>18, <2>4 DEF RateSave, GoTo, RateEnds, Done
<1>19. ASSUME NEW r \in Request, Locked(r) PROVE ChatTypes'
  BY <1>19 DEF Locked, GoTo
<1>20. ASSUME NEW r \in Request, NotLocked(r) PROVE ChatTypes'
  BY <1>20 DEF NotLocked, GoTo, Done
<1>21. ASSUME NEW r \in Request, Crash(r) PROVE ChatTypes'
  BY <1>21 DEF Crash, GoTo, RateEnds, Done
<1>22. ASSUME NEW a \in Analysis, SaveAnalysis(a) PROVE ChatTypes'
  BY <1>22 DEF SaveAnalysis
<1>23. ASSUME NEW a \in Analysis, CacheExpires(a) PROVE ChatTypes'
  BY <1>23 DEF CacheExpires
<1>24. ASSUME NEW a \in Analysis, NEW v \in 1..MaxSaves, CacheAnalysis(a, v)
      PROVE  ChatTypes'
  BY <1>24 DEF CacheAnalysis, CacheSave
<1>25. ASSUME NEW S \in SUBSET Analysis, DeleteAnalyses(S) PROVE ChatTypes'
  BY <1>25 DEF DeleteAnalyses
<1>26. ASSUME LockStep PROVE ChatTypes'
  BY <1>26 DEF LockStep, Alone
<1>27. CASE UNCHANGED vars
  BY <1>27 DEF vars
<1> QED
  BY <1>1, <1>2, <1>3, <1>4, <1>5, <1>6, <1>7, <1>8, <1>9, <1>10, <1>11, <1>12, <1>13,
     <1>14, <1>15, <1>16, <1>17, <1>18, <1>19, <1>20, <1>21, <1>22, <1>23, <1>24,
     <1>25, <1>26, <1>27 DEF Next, Proceed, Regenerate
-----------------------------------------------------------------------------
\* Most steps leave the rows alone, and a request that moves is outside of its
\* transaction afterwards.
Calm ==
    /\ UNCHANGED <<version, messages, nextID, clock, feedback>>
    /\ \A r \in Request :
          \/ /\ at'[r] = at[r] /\ tx'[r] = tx[r]
             /\ topic'[r] = topic[r] /\ rated'[r] = rated[r]
          \/ at'[r] \in RequestStep \ Writing

\* They do not decide to store a rating either.
Quiet ==
    /\ Calm
    /\ \A r \in Request :
          at'[r] = "rate_save" => at[r] = "rate_save" /\ rated'[r] = rated[r]

LEMMA QuietSteps ==
  ASSUME ChatTypes,
         \/ \E r \in Request, a \in Analysis : Ask(r, a) \/ Regenerate(r, a)
         \/ \E r \in Request, a \in Analysis, id \in 1..(nextID - 1) : SubmitFeedback(r,
               a, id)
         \/ \E r \in Request :
               \/ CacheFind(r) \/ CacheEvict(r) \/ Load(r) \/ Fill(r) \/ Answer(r)
               \/ RollBackExchange(r) \/ KeepContext(r) \/ ReleaseLock(r) \/ RateFind(r)
               \/ Locked(r) \/ NotLocked(r) \/ Crash(r)
         \/ LockStep
         \/ \E a \in Analysis : CacheExpires(a)
         \/ \E a \in Analysis, v \in 1..MaxSaves : CacheAnalysis(a, v)
         \/ UNCHANGED vars
  PROVE  Quiet
<1> USE DEF ChatTypes, Calm, Quiet, Writing, RequestStep, Request, storeVars, askVars,
        historyVars, rateVars
<1>1. ASSUME NEW r \in Request, NEW a \in Analysis, Ask(r, a) PROVE Quiet
  BY <1>1 DEF Ask, GoTo
<1>2. ASSUME NEW r \in Request, NEW a \in Analysis, NEW id \in 1..(nextID - 1),
      SubmitFeedback(r, a, id)
      PROVE  Quiet
  BY <1>2 DEF SubmitFeedback, GoTo
<1>3. ASSUME NEW r \in Request, CacheFind(r) PROVE Quiet
  BY <1>3 DEF CacheFind, GoTo
<1>4. ASSUME NEW r \in Request, CacheEvict(r) PROVE Quiet
  BY <1>4 DEF CacheEvict, GoTo
<1>5. ASSUME NEW r \in Request, Load(r) PROVE Quiet
  BY <1>5 DEF Load, Done, GoTo
<1>6. ASSUME NEW r \in Request, Fill(r) PROVE Quiet
  BY <1>6 DEF Fill, GoTo, CacheSave
<1>7. ASSUME NEW r \in Request, Answer(r) PROVE Quiet
  BY <1>7 DEF Answer, GoTo
<1>8. ASSUME NEW r \in Request, RollBackExchange(r) PROVE Quiet
  BY <1>8 DEF RollBackExchange, GoTo
<1>9. ASSUME NEW r \in Request, KeepContext(r) PROVE Quiet
  BY <1>9 DEF KeepContext, GoTo, CacheSave
<1>10. ASSUME NEW r \in Request, ReleaseLock(r) PROVE Quiet
  BY <1>10 DEF ReleaseLock, GoTo, Done
<1>11. ASSUME NEW r \in Request, RateFind(r) PROVE Quiet
  BY <1>11 DEF RateFind, GoTo, RateEnds, Done
<1>12. ASSUME NEW r \in Request, Locked(r) PROVE Quiet
  BY <1>12 DEF Locked, GoTo
<1>13. ASSUME NEW r \in Request, NotLocked(r) PROVE Quiet
  BY <1>13 DEF NotLocked, GoTo, Done
<1>14. ASSUME NEW r \in Request, Crash(r) PROVE Quiet
  BY <1>14 DEF Crash, GoTo, RateEnds, Done
<1>15. ASSUME NEW a \in Analysis, CacheExpires(a) PROVE Quiet
  BY <1>15 DEF CacheExpires
<1>16. ASSUME NEW a \in Analysis, NEW v \in 1..MaxSaves, CacheAnalysis(a, v) PROVE Quiet
  BY <1>16 DEF CacheAnalysis, CacheSave
<1>17. ASSUME LockStep PROVE Quiet
  BY <1>17 DEF LockStep, Alone
<1>18. CASE UNCHANGED vars
  BY <1>18 DEF vars
<1> QED
  BY <1>1, <1>2, <1>3, <1>4, <1>5, <1>6, <1>7, <1>8, <1>9, <1>10, <1>11, <1>12, <1>13,
     <1>14, <1>15, <1>16, <1>17, <1>18 DEF Regenerate

LEMMA RateListIsCalm ==
  ASSUME ChatTypes, NEW r \in Request, RateList(r)
  PROVE  Calm
<1> USE DEF ChatTypes, Calm, Writing, RequestStep, Request, askVars, storeVars,
      historyVars
<1>1. CASE GoTo(r, "rate_save") /\ UNCHANGED <<askVars, rated>>
  BY <1>1 DEF RateList, GoTo
<1>2. CASE RateEnds(r)
  BY <1>2 DEF RateList, GoTo, RateEnds, Done
<1> QED
  BY <1>1, <1>2 DEF RateList

LEMMA MessageTypes ==
  ASSUME ChatTypes
  PROVE  \A m \in messages : m.id \in Nat /\ m.at \in Nat /\ m.analysis \in Analysis
BY DEF ChatTypes, Message

LEMMA CalmKeepsIDs == ChatTypes /\ IDsUnique /\ Calm => IDsUnique'
<1> SUFFICES ASSUME ChatTypes, IDsUnique, Calm PROVE IDsUnique'
  OBVIOUS
<1>1. \A r \in Request : \A i \in Drawn(r)' : i \in Drawn(r)
  BY DEF Calm, Writing, Drawn
<1>2. \A r \in Request : at'[r] = "commit" => at[r] = "commit" /\ tx'[r] = tx[r]
  BY DEF Calm, Writing
<1> QED
  BY <1>1, <1>2 DEF Calm, IDsUnique

LEMMA QuietKeepsReferences == ChatTypes /\ RefersToStored /\ Quiet => RefersToStored'
<1> SUFFICES ASSUME ChatTypes, RefersToStored, Quiet PROVE RefersToStored'
  OBVIOUS
<1>1. \A r \in Request : Drawn(r)' \in {Drawn(r), {}}
  BY DEF Quiet, Calm, Writing, Drawn
<1>2. \A r \in Request : at'[r] \in Writing => at[r] = at'[r] /\ topic'[r] = topic[r]
  BY DEF Quiet, Calm
<1>3. \A r \in Request : at'[r] = "rate_save" => at[r] = "rate_save" /\ rated'[r] =
      rated[r]
  BY DEF Quiet
<1> QED
  BY <1>1, <1>2, <1>3 DEF Quiet, Calm, RefersToStored, Writing

LEMMA CalmKeepsTimes == ChatTypes /\ TimesUnique /\ Calm => TimesUnique'
  BY DEF ChatTypes, TimesUnique, Calm, Writing

-----------------------------------------------------------------------------
LEMMA InitIDs == Init => IDsUnique
  BY DEF Init, IDsUnique, Drawn, Request

LEMMA StepIDs == ChatTypes /\ IDsUnique /\ [Next]_vars => IDsUnique'
<1> SUFFICES ASSUME ChatTypes, IDsUnique, [Next]_vars PROVE IDsUnique'
  OBVIOUS
<1> USE DEF ChatTypes, Request, RequestStep, storeVars, askVars, historyVars, rateVars
<1>1. ASSUME NEW r \in Request, BeginExchange(r) PROVE IDsUnique'
  <2>1. \A s \in Request : Drawn(s)' = Drawn(s)
    BY <1>1 DEF BeginExchange, Drawn, GoTo
  <2>2. \A s \in Request : at'[s] = "commit" => at[s] = "commit" /\ tx'[s] = tx[s]
    BY <1>1 DEF BeginExchange, GoTo
  <2>6. \A m \in messages' : m.id < nextID'
    BY MessageTypes, <1>1, <2>1, <2>2 DEF BeginExchange, IDsUnique
  <2>7. \A s \in Request : \A i \in Drawn(s)' : i \in Nat /\ i < nextID'
    BY MessageTypes, <1>1, <2>1, <2>2 DEF BeginExchange, IDsUnique
  <2>8. \A s \in Request : \A i \in Drawn(s)' : \A m \in messages' : m.id # i
    BY MessageTypes, <1>1, <2>1, <2>2 DEF BeginExchange, IDsUnique
  <2>9. \A s, u \in Request : \A i \in Drawn(s)' : i \in Drawn(u)' => s = u
    BY MessageTypes, <1>1, <2>1, <2>2 DEF BeginExchange, IDsUnique
  <2>10. \A m, n \in messages' : m.id = n.id => m = n
    BY MessageTypes, <1>1, <2>1, <2>2 DEF BeginExchange, IDsUnique
  <2>11. \A s \in Request : at'[s] = "commit" => tx'[s].question < tx'[s].reply
    BY MessageTypes, <1>1, <2>1, <2>2 DEF BeginExchange, IDsUnique
  <2> QED
    BY <2>6, <2>7, <2>8, <2>9, <2>10, <2>11 DEF IDsUnique
<1>2. ASSUME NEW r \in Request, InsertQuestion(r) PROVE IDsUnique'
  <2>1. \A s \in Request : Drawn(s)' = IF s = r THEN {nextID} ELSE Drawn(s)
    BY <1>2 DEF InsertQuestion, Drawn, GoTo
  <2>2. \A s \in Request : at'[s] = "commit" => at[s] = "commit" /\ tx'[s] = tx[s]
    BY <1>2 DEF InsertQuestion, GoTo
  <2>3. \A s \in Request : nextID \notin Drawn(s)
    BY DEF IDsUnique
  <2>6. \A m \in messages' : m.id < nextID'
    BY MessageTypes, <1>2, <2>1, <2>2, <2>3 DEF InsertQuestion, IDsUnique
  <2>7. \A s \in Request : \A i \in Drawn(s)' : i \in Nat /\ i < nextID'
    BY MessageTypes, <1>2, <2>1, <2>2, <2>3 DEF InsertQuestion, IDsUnique
  <2>8. \A s \in Request : \A i \in Drawn(s)' : \A m \in messages' : m.id # i
    BY MessageTypes, <1>2, <2>1, <2>2, <2>3 DEF InsertQuestion, IDsUnique
  <2>9. \A s, u \in Request : \A i \in Drawn(s)' : i \in Drawn(u)' => s = u
    BY MessageTypes, <1>2, <2>1, <2>2, <2>3 DEF InsertQuestion, IDsUnique
  <2>10. \A m, n \in messages' : m.id = n.id => m = n
    BY MessageTypes, <1>2, <2>1, <2>2, <2>3 DEF InsertQuestion, IDsUnique
  <2>11. \A s \in Request : at'[s] = "commit" => tx'[s].question < tx'[s].reply
    BY MessageTypes, <1>2, <2>1, <2>2, <2>3 DEF InsertQuestion, IDsUnique
  <2> QED
    BY <2>6, <2>7, <2>8, <2>9, <2>10, <2>11 DEF IDsUnique
<1>3. ASSUME NEW r \in Request, InsertReply(r) PROVE IDsUnique'
  <2>1. \A s \in Request : Drawn(s)' = IF s = r THEN Drawn(s) \cup {nextID} ELSE Drawn(s)
    BY <1>3 DEF InsertReply, Drawn, GoTo
  <2>2. tx[r].question < nextID
    BY <1>3 DEF InsertReply, IDsUnique, Drawn
  <2>3. \A s \in Request : at'[s] = "commit" => tx'[s].question < tx'[s].reply
    BY <1>3, <2>2 DEF InsertReply, IDsUnique, GoTo
  <2>4. \A s \in Request : nextID \notin Drawn(s)
    BY DEF IDsUnique
  <2>5. nextID \in Nat /\ nextID' = nextID + 1 /\ messages' = messages
    BY <1>3 DEF InsertReply
  <2>6. \A m \in messages' : m.id < nextID'
    BY MessageTypes, <2>1, <2>3, <2>4, <2>5 DEF IDsUnique
  <2>7. \A s \in Request : \A i \in Drawn(s)' : i \in Nat /\ i < nextID'
    BY MessageTypes, <2>1, <2>3, <2>4, <2>5 DEF IDsUnique
  <2>8. \A s \in Request : \A i \in Drawn(s)' : \A m \in messages' : m.id # i
    BY MessageTypes, <2>1, <2>3, <2>4, <2>5 DEF IDsUnique
  <2>9. \A s, u \in Request : \A i \in Drawn(s)' : i \in Drawn(u)' => s = u
    BY MessageTypes, <2>1, <2>3, <2>4, <2>5 DEF IDsUnique
  <2>10. \A m, n \in messages' : m.id = n.id => m = n
    BY MessageTypes, <2>1, <2>3, <2>4, <2>5 DEF IDsUnique
  <2>11. \A s \in Request : at'[s] = "commit" => tx'[s].question < tx'[s].reply
    BY MessageTypes, <2>1, <2>3, <2>4, <2>5 DEF IDsUnique
  <2> QED
    BY <2>6, <2>7, <2>8, <2>9, <2>10, <2>11 DEF IDsUnique
<1>4. ASSUME NEW r \in Request, CommitExchange(r) PROVE IDsUnique'
  <2>1. \A s \in Request : Drawn(s)' = IF s = r THEN {} ELSE Drawn(s)
    BY <1>4 DEF CommitExchange, Drawn, GoTo
  <2>2. \A s \in Request : at'[s] = "commit" => at[s] = "commit" /\ tx'[s] = tx[s]
    BY <1>4 DEF CommitExchange, GoTo
  <2>3. \A m \in messages' : m \in messages \/ m.id \in Drawn(r)
    <3>1. Drawn(r) = {tx[r].question, tx[r].reply}
      BY <1>4 DEF CommitExchange, Drawn
    <3> QED
      BY <1>4, <3>1 DEF CommitExchange, Exchange
  <2>4. \A m, n \in messages' : m.id = n.id => m = n
    BY <1>4 DEF CommitExchange, Drawn, Exchange, IDsUnique
  <2>6. \A m \in messages' : m.id < nextID'
    BY MessageTypes, <1>4, <2>1, <2>2, <2>3, <2>4 DEF CommitExchange, IDsUnique
  <2>7. \A s \in Request : \A i \in Drawn(s)' : i \in Nat /\ i < nextID'
    BY MessageTypes, <1>4, <2>1, <2>2, <2>3, <2>4 DEF CommitExchange, IDsUnique
  <2>8. \A s \in Request : \A i \in Drawn(s)' : \A m \in messages' : m.id # i
    BY MessageTypes, <1>4, <2>1, <2>2, <2>3, <2>4 DEF CommitExchange, IDsUnique
  <2>9. \A s, u \in Request : \A i \in Drawn(s)' : i \in Drawn(u)' => s = u
    BY MessageTypes, <1>4, <2>1, <2>2, <2>3, <2>4 DEF CommitExchange, IDsUnique
  <2>10. \A m, n \in messages' : m.id = n.id => m = n
    BY MessageTypes, <1>4, <2>1, <2>2, <2>3, <2>4 DEF CommitExchange, IDsUnique
  <2>11. \A s \in Request : at'[s] = "commit" => tx'[s].question < tx'[s].reply
    BY MessageTypes, <1>4, <2>1, <2>2, <2>3, <2>4 DEF CommitExchange, IDsUnique
  <2> QED
    BY <2>6, <2>7, <2>8, <2>9, <2>10, <2>11 DEF IDsUnique
<1>5. ASSUME NEW r \in Request, AppendExchange(r) PROVE IDsUnique'
  <2>1. \A s \in Request : Drawn(s)' = Drawn(s)
    BY <1>5 DEF AppendExchange, Drawn, GoTo
  <2>2. \A s \in Request : at'[s] = "commit" => at[s] = "commit" /\ tx'[s] = tx[s]
    BY <1>5 DEF AppendExchange, GoTo
  <2>3. \A m \in messages' : m \in messages \/ m.id \in {nextID, nextID + 1}
    BY <1>5 DEF AppendExchange, Exchange
  <2>4. \A m, n \in messages' : m.id = n.id => m = n
    BY <1>5 DEF AppendExchange, Exchange, IDsUnique
  <2>6. \A m \in messages' : m.id < nextID'
    BY MessageTypes, <1>5, <2>1, <2>2, <2>3, <2>4 DEF AppendExchange, IDsUnique
  <2>7. \A s \in Request : \A i \in Drawn(s)' : i \in Nat /\ i < nextID'
    BY MessageTypes, <1>5, <2>1, <2>2, <2>3, <2>4 DEF AppendExchange, IDsUnique
  <2>8. \A s \in Request : \A i \in Drawn(s)' : \A m \in messages' : m.id # i
    BY MessageTypes, <1>5, <2>1, <2>2, <2>3, <2>4 DEF AppendExchange, IDsUnique
  <2>9. \A s, u \in Request : \A i \in Drawn(s)' : i \in Drawn(u)' => s = u
    BY MessageTypes, <1>5, <2>1, <2>2, <2>3, <2>4 DEF AppendExchange, IDsUnique
  <2>10. \A m, n \in messages' : m.id = n.id => m = n
    BY MessageTypes, <1>5, <2>1, <2>2, <2>3, <2>4 DEF AppendExchange, IDsUnique
  <2>11. \A s \in Request : at'[s] = "commit" => tx'[s].question < tx'[s].reply
    BY MessageTypes, <1>5, <2>1, <2>2, <2>3, <2>4 DEF AppendExchange, IDsUnique
  <2> QED
    BY <2>6, <2>7, <2>8, <2>9, <2>10, <2>11 DEF IDsUnique
<1>6. ASSUME NEW r \in Request, RateList(r) PROVE IDsUnique'
  BY <1>6, RateListIsCalm, CalmKeepsIDs
<1>7. ASSUME NEW r \in Request, RateSave(r) PROVE IDsUnique'
  <2>1. \A s \in Request : Drawn(s)' = Drawn(s)
    BY <1>7 DEF RateSave, Drawn, GoTo, RateEnds, Done, NoTx
  <2>2. \A s \in Request : at'[s] = "commit" => at[s] = "commit" /\ tx'[s] = tx[s]
    BY <1>7 DEF RateSave, GoTo, RateEnds, Done
  <2>6. \A m \in messages' : m.id < nextID'
    BY MessageTypes, <1>7, <2>1, <2>2 DEF RateSave, IDsUnique
  <2>7. \A s \in Request : \A i \in Drawn(s)' : i \in Nat /\ i < nextID'
    BY MessageTypes, <1>7, <2>1, <2>2 DEF RateSave, IDsUnique
  <2>8. \A s \in Request : \A i \in Drawn(s)' : \A m \in messages' : m.id # i
    BY MessageTypes, <1>7, <2>1, <2>2 DEF RateSave, IDsUnique
  <2>9. \A s, u \in Request : \A i \in Drawn(s)' : i \in Drawn(u)' => s = u
    BY MessageTypes, <1>7, <2>1, <2>2 DEF RateSave, IDsUnique
  <2>10. \A m, n \in messages' : m.id = n.id => m = n
    BY MessageTypes, <1>7, <2>1, <2>2 DEF RateSave, IDsUnique
  <2>11. \A s \in Request : at'[s] = "commit" => tx'[s].question < tx'[s].reply
    BY MessageTypes, <1>7, <2>1, <2>2 DEF RateSave, IDsUnique
  <2> QED
    BY <2>6, <2>7, <2>8, <2>9, <2>10, <2>11 DEF IDsUnique
<1>8. ASSUME NEW a \in Analysis, SaveAnalysis(a) PROVE IDsUnique'
  <2>1. \A s \in Request : Drawn(s)' = Drawn(s)
    BY <1>8 DEF SaveAnalysis, Drawn
  <2>6. \A m \in messages' : m.id < nextID'
    BY MessageTypes, <1>8, <2>1 DEF SaveAnalysis, IDsUnique
  <2>7. \A s \in Request : \A i \in Drawn(s)' : i \in Nat /\ i < nextID'
    BY MessageTypes, <1>8, <2>1 DEF SaveAnalysis, IDsUnique
  <2>8. \A s \in Request : \A i \in Drawn(s)' : \A m \in messages' : m.id # i
    BY MessageTypes, <1>8, <2>1 DEF SaveAnalysis, IDsUnique
  <2>9. \A s, u \in Request : \A i \in Drawn(s)' : i \in Drawn(u)' => s = u
    BY MessageTypes, <1>8, <2>1 DEF SaveAnalysis, IDsUnique
  <2>10. \A m, n \in messages' : m.id = n.id => m = n
    BY MessageTypes, <1>8, <2>1 DEF SaveAnalysis, IDsUnique
  <2>11. \A s \in Request : at'[s] = "commit" => tx'[s].question < tx'[s].reply
    BY MessageTypes, <1>8, <2>1 DEF SaveAnalysis, IDsUnique
  <2> QED
    BY <2>6, <2>7, <2>8, <2>9, <2>10, <2>11 DEF IDsUnique
<1>9. ASSUME NEW S \in SUBSET Analysis, DeleteAnalyses(S) PROVE IDsUnique'
  <2>1. \A s \in Request : Drawn(s)' = Drawn(s)
    BY <1>9 DEF DeleteAnalyses, Drawn
  <2>6. \A m \in messages' : m.id < nextID'
    BY MessageTypes, <1>9, <2>1 DEF DeleteAnalyses, IDsUnique
  <2>7. \A s \in Request : \A i \in Drawn(s)' : i \in Nat /\ i < nextID'
    BY MessageTypes, <1>9, <2>1 DEF DeleteAnalyses, IDsUnique
  <2>8. \A s \in Request : \A i \in Drawn(s)' : \A m \in messages' : m.id # i
    BY MessageTypes, <1>9, <2>1 DEF DeleteAnalyses, IDsUnique
  <2>9. \A s, u \in Request : \A i \in Drawn(s)' : i \in Drawn(u)' => s = u
    BY MessageTypes, <1>9, <2>1 DEF DeleteAnalyses, IDsUnique
  <2>10. \A m, n \in messages' : m.id = n.id => m = n
    BY MessageTypes, <1>9, <2>1 DEF DeleteAnalyses, IDsUnique
  <2>11. \A s \in Request : at'[s] = "commit" => tx'[s].question < tx'[s].reply
    BY MessageTypes, <1>9, <2>1 DEF DeleteAnalyses, IDsUnique
  <2> QED
    BY <2>6, <2>7, <2>8, <2>9, <2>10, <2>11 DEF IDsUnique
<1>10. ASSUME Quiet PROVE IDsUnique'
  BY <1>10, CalmKeepsIDs DEF Quiet
<1> QED
  BY <1>1, <1>2, <1>3, <1>4, <1>5, <1>6, <1>7, <1>8, <1>9, <1>10, QuietSteps DEF Next,
     Proceed

LEMMA InitMemory == Init => MemoryKeeps
  BY DEF Init, MemoryKeeps, Writing, Request

LEMMA StepMemory == ChatTypes /\ MemoryKeeps /\ [Next]_vars => MemoryKeeps'
<1> SUFFICES ASSUME ChatTypes, MemoryKeeps, [Next]_vars PROVE MemoryKeeps'
  OBVIOUS
<1> USE DEF ChatTypes, MemoryKeeps, Writing, Request, RequestStep, askVars, storeVars,
      cacheVars, historyVars, rateVars
<1>1. ASSUME NEW r \in Request, NEW a \in Analysis, Ask(r, a) PROVE MemoryKeeps'
  BY <1>1 DEF Ask, GoTo
<1>2. ASSUME NEW r \in Request, NEW a \in Analysis, NEW id \in 1..(nextID - 1),
      SubmitFeedback(r, a, id)
      PROVE  MemoryKeeps'
  BY <1>2 DEF SubmitFeedback, GoTo
<1>3. ASSUME NEW r \in Request, CacheFind(r) PROVE MemoryKeeps'
  BY <1>3 DEF CacheFind, GoTo
<1>4. ASSUME NEW r \in Request, CacheEvict(r) PROVE MemoryKeeps'
  BY <1>4 DEF CacheEvict, GoTo
<1>5. ASSUME NEW r \in Request, Load(r) PROVE MemoryKeeps'
  BY <1>5 DEF Load, Done, GoTo
<1>6. ASSUME NEW r \in Request, Fill(r) PROVE MemoryKeeps'
  BY <1>6 DEF Fill, GoTo, CacheSave
<1>7. ASSUME NEW r \in Request, Answer(r) PROVE MemoryKeeps'
  BY <1>7 DEF Answer, GoTo
<1>8. ASSUME NEW r \in Request, BeginExchange(r) PROVE MemoryKeeps'
  BY <1>8 DEF BeginExchange, GoTo
<1>9. ASSUME NEW r \in Request, InsertQuestion(r) PROVE MemoryKeeps'
  BY <1>9 DEF InsertQuestion, GoTo
<1>10. ASSUME NEW r \in Request, InsertReply(r) PROVE MemoryKeeps'
  BY <1>10 DEF InsertReply, GoTo
<1>11. ASSUME NEW r \in Request, CommitExchange(r) PROVE MemoryKeeps'
  BY <1>11 DEF CommitExchange, GoTo
<1>12. ASSUME NEW r \in Request, RollBackExchange(r) PROVE MemoryKeeps'
  BY <1>12 DEF RollBackExchange, GoTo
<1>13. ASSUME NEW r \in Request, AppendExchange(r) PROVE MemoryKeeps'
  BY <1>13 DEF AppendExchange, GoTo
<1>14. ASSUME NEW r \in Request, KeepContext(r) PROVE MemoryKeeps'
  BY <1>14 DEF KeepContext, GoTo, CacheSave
<1>15. ASSUME NEW r \in Request, ReleaseLock(r) PROVE MemoryKeeps'
  BY <1>15 DEF ReleaseLock, GoTo, Done
<1>16. ASSUME NEW r \in Request, RateFind(r) PROVE MemoryKeeps'
  BY <1>16 DEF RateFind, GoTo, RateEnds, Done
<1>17. ASSUME NEW r \in Request, RateList(r) PROVE MemoryKeeps'
  BY <1>17 DEF RateList, GoTo, RateEnds, Done
<1>18. ASSUME NEW r \in Request, RateSave(r) PROVE MemoryKeeps'
  BY <1>18 DEF RateSave, GoTo, RateEnds, Done
<1>19. ASSUME NEW r \in Request, Locked(r) PROVE MemoryKeeps'
  BY <1>19 DEF Locked, GoTo
<1>20. ASSUME NEW r \in Request, NotLocked(r) PROVE MemoryKeeps'
  BY <1>20 DEF NotLocked, GoTo, Done
<1>21. ASSUME NEW r \in Request, Crash(r) PROVE MemoryKeeps'
  BY <1>21 DEF Crash, GoTo, RateEnds, Done
<1>22. ASSUME NEW a \in Analysis, SaveAnalysis(a) PROVE MemoryKeeps'
  BY <1>22 DEF SaveAnalysis
<1>23. ASSUME NEW a \in Analysis, CacheExpires(a) PROVE MemoryKeeps'
  BY <1>23 DEF CacheExpires
<1>24. ASSUME NEW a \in Analysis, NEW v \in 1..MaxSaves, CacheAnalysis(a, v)
      PROVE  MemoryKeeps'
  BY <1>24 DEF CacheAnalysis, CacheSave
<1>25. ASSUME NEW S \in SUBSET Analysis, DeleteAnalyses(S) PROVE MemoryKeeps'
  BY <1>25 DEF DeleteAnalyses
<1>26. ASSUME LockStep PROVE MemoryKeeps'
  BY <1>26 DEF LockStep, Alone
<1>27. CASE UNCHANGED vars
  BY <1>27 DEF vars
<1> QED
  BY <1>1, <1>2, <1>3, <1>4, <1>5, <1>6, <1>7, <1>8, <1>9, <1>10, <1>11, <1>12, <1>13,
     <1>14, <1>15, <1>16, <1>17, <1>18, <1>19, <1>20, <1>21, <1>22, <1>23, <1>24,
     <1>25, <1>26, <1>27 DEF Next, Proceed, Regenerate

LEMMA InitReferences == Init => RefersToStored
  BY DEF Init, RefersToStored, Request

LEMMA StepReferences == ChatTypes /\ IDsUnique /\ MemoryKeeps /\ RefersToStored /\
      [Next]_vars => RefersToStored'
<1> SUFFICES ASSUME ChatTypes, IDsUnique, MemoryKeeps, RefersToStored, [Next]_vars
      PROVE  RefersToStored'
  OBVIOUS
<1> USE DEF ChatTypes, Request, RequestStep, storeVars, askVars, historyVars, rateVars
<1>1. ASSUME NEW r \in Request, BeginExchange(r) PROVE RefersToStored'
  <2>1. \A s \in Request : Drawn(s)' = Drawn(s)
    BY <1>1 DEF BeginExchange, Drawn, GoTo
  <2> QED
    BY <1>1, <2>1 DEF BeginExchange, RefersToStored, GoTo
<1>2. ASSUME NEW r \in Request, InsertQuestion(r) PROVE RefersToStored'
  <2>1. \A s \in Request : Drawn(s)' = IF s = r THEN {nextID} ELSE Drawn(s)
    BY <1>2 DEF InsertQuestion, Drawn, GoTo
  <2> QED
    BY <1>2, <2>1 DEF InsertQuestion, RefersToStored, GoTo
<1>3. ASSUME NEW r \in Request, InsertReply(r) PROVE RefersToStored'
  <2>1. \A s \in Request : Drawn(s)' = IF s = r THEN Drawn(s) \cup {nextID} ELSE Drawn(s)
    BY <1>3 DEF InsertReply, Drawn, GoTo
  <2>2. \A s \in Request : at'[s] \in {"reply", "commit"} => at[s] \in {"reply", "commit"}
    BY <1>3 DEF InsertReply, GoTo
  <2>3. \A s \in Request : at'[s] = "rate_save" => at[s] = "rate_save"
    BY <1>3 DEF InsertReply, GoTo
  <2> QED
    BY <1>3, <2>1, <2>2, <2>3 DEF InsertReply, RefersToStored
<1>4. ASSUME NEW r \in Request, CommitExchange(r) PROVE RefersToStored'
  <2>1. \A s \in Request : Drawn(s)' \subseteq Drawn(s)
    BY <1>4 DEF CommitExchange, Drawn, GoTo
  <2>2. Drawn(r) = {tx[r].question, tx[r].reply}
    BY <1>4 DEF CommitExchange, Drawn
  <2>3. \A m \in messages' : m \in messages \/ (m.id \in Drawn(r) /\ m.analysis =
        topic[r])
    BY <1>4, <2>2 DEF CommitExchange, Exchange
  <2>4. messages \subseteq messages'
    BY <1>4 DEF CommitExchange
  <2>5. \A s \in Request : at'[s] \in {"reply", "commit", "rate_save"} => at[s] = at'[s]
    BY <1>4 DEF CommitExchange, GoTo
  <2>6. /\ version[topic[r]] # 0
        /\ UNCHANGED <<version, topic, rated, feedback, nextID>>
    BY <1>4 DEF CommitExchange, RefersToStored
  <2> QED
    BY <2>1, <2>3, <2>4, <2>5, <2>6 DEF RefersToStored
<1>5. ASSUME NEW r \in Request, AppendExchange(r) PROVE RefersToStored'
  <2>1. \A s \in Request : Drawn(s)' = Drawn(s)
    BY <1>5 DEF AppendExchange, Drawn, GoTo
  <2>2. \A m \in messages' : m \in messages \/ (m.id \in {nextID, nextID + 1} /\
        m.analysis = topic[r])
    BY <1>5 DEF AppendExchange, Exchange
  <2>3. messages \subseteq messages' /\ nextID' = nextID + 2
    BY <1>5 DEF AppendExchange
  <2>4. \A s \in Request : at'[s] \in {"reply", "commit", "rate_save"} => at[s] = at'[s]
    BY <1>5 DEF AppendExchange, GoTo
  <2>5. version[topic[r]] # 0
    BY <1>5 DEF AppendExchange, MemoryKeeps, Writing
  <2> QED
    BY <1>5, <2>1, <2>2, <2>3, <2>4, <2>5 DEF AppendExchange, RefersToStored
<1>6. ASSUME NEW r \in Request, RateList(r) PROVE RefersToStored'
  <2>1. CASE RateEnds(r)
    <3>1. Calm
      BY <1>6, RateListIsCalm
    <3>2. Quiet
      BY <2>1, <3>1 DEF Quiet, RateEnds, Done, GoTo
    <3> QED
      BY <3>2, QuietKeepsReferences
  <2>2. CASE GoTo(r, "rate_save") /\ UNCHANGED <<askVars, rated>>
             /\ \E m \in Newest(topic[r], Window) : m.id = rated[r] /\ m.role =
                   "assistant"
    <3>1. PICK m \in messages : m.id = rated[r] /\ m.role = "assistant"
      BY <2>2 DEF Newest, Listed
    <3>3. /\ rated[r] < nextID
          /\ \A n \in messages : n.id = rated[r] => n.role = "assistant"
          /\ \A s \in Request : rated[r] \notin Drawn(s)
      BY <3>1 DEF IDsUnique
    <3>4. \A s \in Request : Drawn(s)' = Drawn(s)
      BY <1>6, <2>2 DEF RateList, Drawn, GoTo
    <3> QED
      BY <1>6, <2>2, <3>3, <3>4 DEF RateList, RefersToStored, GoTo
  <2> QED
    BY <1>6, <2>1, <2>2 DEF RateList
<1>7. ASSUME NEW r \in Request, RateSave(r) PROVE RefersToStored'
  <2>1. \A s \in Request : Drawn(s)' = Drawn(s)
    BY <1>7 DEF RateSave, Drawn, GoTo, RateEnds, Done, NoTx
  <2>2. \A id \in feedback' : id \in feedback \/ \E m \in messages : m.id = id /\ m.id =
        rated[r]
    BY <1>7 DEF RateSave
  <2>3. \A m \in messages : m.id = rated[r] => m.role = "assistant"
    BY <1>7 DEF RateSave, RefersToStored
  <2>4. \A id \in feedback : \E m \in messages : m.id = id /\ m.role = "assistant"
    BY DEF RefersToStored
  <2>5. \A id \in feedback' : \E m \in messages : m.id = id /\ m.role = "assistant"
    BY <2>2, <2>3, <2>4
  <2> QED
    BY <1>7, <2>1, <2>5 DEF RateSave, RefersToStored, RateEnds, Done, GoTo
<1>8. ASSUME NEW a \in Analysis, SaveAnalysis(a) PROVE RefersToStored'
  <2>1. \A s \in Request : Drawn(s)' = Drawn(s)
    BY <1>8 DEF SaveAnalysis, Drawn
  <2> QED
    BY <1>8, <2>1 DEF SaveAnalysis, RefersToStored
<1>9. ASSUME NEW S \in SUBSET Analysis, DeleteAnalyses(S) PROVE RefersToStored'
  <2>1. \A s \in Request : Drawn(s)' = Drawn(s)
    BY <1>9 DEF DeleteAnalyses, Drawn
  <2>2. \A m \in messages' : m \in messages /\ m.analysis \notin S
    BY <1>9 DEF DeleteAnalyses
  <2>3. \A m \in messages' : version'[m.analysis] # 0
    BY <1>9, <2>2 DEF DeleteAnalyses, Message, RefersToStored
  <2>4. \A s \in Request : at'[s] \in {"reply", "commit"} => version'[topic'[s]] # 0
    BY <1>9 DEF DeleteAnalyses, RefersToStored
  <2>5. \A id \in feedback' : \E m \in messages' : m.id = id /\ m.role = "assistant"
    <3> SUFFICES ASSUME NEW id \in feedback'
          PROVE  \E m \in messages' : m.id = id /\ m.role = "assistant"
      OBVIOUS
    <3>1. id \in feedback /\ \E m \in messages' : m.id = id
      BY <1>9 DEF DeleteAnalyses
    <3> QED
      BY <2>2, <3>1 DEF RefersToStored, IDsUnique
  <2> QED
    BY <1>9, <2>1, <2>2, <2>3, <2>4, <2>5 DEF DeleteAnalyses, RefersToStored
<1>10. ASSUME Quiet PROVE RefersToStored'
  BY <1>10, QuietKeepsReferences DEF Quiet
<1> QED
  BY <1>1, <1>2, <1>3, <1>4, <1>5, <1>6, <1>7, <1>8, <1>9, <1>10, QuietSteps DEF Next,
     Proceed

LEMMA InitTimes == Init => TimesUnique
  BY DEF Init, TimesUnique, Writing, Request

LEMMA StepTimes == ChatTypes /\ IDsUnique /\ TimesUnique /\ [Next]_vars => TimesUnique'
<1> SUFFICES ASSUME ChatTypes, IDsUnique, TimesUnique, [Next]_vars PROVE TimesUnique'
  OBVIOUS
<1> USE DEF ChatTypes, Request, RequestStep, storeVars, askVars, historyVars, rateVars,
      Writing
<1>1. ASSUME NEW r \in Request, BeginExchange(r) PROVE TimesUnique'
  BY <1>1 DEF BeginExchange, TimesUnique, GoTo
<1>2. ASSUME NEW r \in Request, InsertQuestion(r) PROVE TimesUnique'
  BY <1>2 DEF InsertQuestion, TimesUnique, GoTo
<1>3. ASSUME NEW r \in Request, InsertReply(r) PROVE TimesUnique'
  BY <1>3 DEF InsertReply, TimesUnique, GoTo
<1>4. ASSUME NEW r \in Request, CommitExchange(r) PROVE TimesUnique'
  <2> DEFINE t == tx[r].at
             q == [id |-> tx[r].question, at |-> t, role |-> "user",
                   analysis |-> topic[r], exchange |-> t]
             p == [id |-> tx[r].reply, at |-> t, role |-> "assistant",
                   analysis |-> topic[r], exchange |-> t]
  <2>1. t \in 1..clock /\ q.id < p.id
    BY <1>4 DEF CommitExchange, TimesUnique, IDsUnique
  <2>2. \A m \in messages : m.at # t
    BY <1>4 DEF CommitExchange, TimesUnique
  <2>3. messages' = messages \cup {q, p} /\ clock' = clock
    BY <1>4 DEF CommitExchange, Exchange
  <2>4. \A s \in Request : at'[s] \in Writing =>
          s # r /\ at[s] \in Writing /\ tx'[s] = tx[s]
    BY <1>4 DEF CommitExchange, GoTo
  <2>5. q.at = t /\ p.at = t /\ q.exchange = t /\ p.exchange = t
        /\ p.role = "assistant" /\ q.analysis = p.analysis
    OBVIOUS
  <2>6. \A s \in Request : at[s] \in Writing /\ s # r => tx[s].at # t
    BY <1>4 DEF CommitExchange, TimesUnique
  <2> HIDE DEF t, q, p
  <2>7. ASSUME NEW m \in messages', m.role = "user"
        PROVE  \E n \in messages' :
                  /\ n.role = "assistant" /\ n.analysis = m.analysis
                  /\ n.at = m.at /\ m.id < n.id
                  /\ \A k \in messages' : k.at = m.at => k \in {m, n}
    <3>1. CASE m \in messages
      <4>1. PICK n \in messages :
               /\ n.role = "assistant" /\ n.analysis = m.analysis
               /\ n.at = m.at /\ m.id < n.id
               /\ \A k \in messages : k.at = m.at => k \in {m, n}
        BY <2>7, <3>1 DEF TimesUnique
      <4> QED
        BY <2>2, <2>3, <2>5, <3>1, <4>1
    <3>2. CASE m = q
      BY <2>1, <2>2, <2>3, <2>5, <3>2
    <3>3. m # p
      BY <2>7, <2>5
    <3> QED
      BY <2>3, <3>1, <3>2, <3>3
  <2>8. \A m \in messages' : m.at \in 1..clock' /\ m.exchange = m.at
    BY <2>1, <2>3, <2>5 DEF TimesUnique
  <2>9. \A s \in Request : at'[s] \in Writing =>
          tx'[s].at \in 1..clock' /\ \A m \in messages' : m.at # tx'[s].at
    BY <2>3, <2>4, <2>5, <2>6 DEF TimesUnique
  <2> QED
    BY <2>4, <2>7, <2>8, <2>9 DEF TimesUnique
<1>5. ASSUME NEW r \in Request, AppendExchange(r) PROVE TimesUnique'
  <2> DEFINE t == clock + 1
             q == [id |-> nextID, at |-> t, role |-> "user",
                   analysis |-> topic[r], exchange |-> t]
             p == [id |-> nextID + 1, at |-> t, role |-> "assistant",
                   analysis |-> topic[r], exchange |-> t]
  <2>1. t \in 1..clock' /\ q.id < p.id
    BY <1>5 DEF AppendExchange
  <2>2. \A m \in messages : m.at # t
    BY <1>5 DEF AppendExchange, TimesUnique
  <2>3. messages' = messages \cup {q, p} /\ clock' = clock + 1
    BY <1>5 DEF AppendExchange, Exchange
  <2>4. \A s \in Request : at'[s] \in Writing =>
          s # r /\ at[s] \in Writing /\ tx'[s] = tx[s]
    BY <1>5 DEF AppendExchange, GoTo
  <2>5. q.at = t /\ p.at = t /\ q.exchange = t /\ p.exchange = t
        /\ p.role = "assistant" /\ q.analysis = p.analysis
    OBVIOUS
  <2>6. \A s \in Request : at[s] \in Writing /\ s # r => tx[s].at # t
    BY <1>5 DEF AppendExchange, TimesUnique
  <2> HIDE DEF t, q, p
  <2>7. ASSUME NEW m \in messages', m.role = "user"
        PROVE  \E n \in messages' :
                  /\ n.role = "assistant" /\ n.analysis = m.analysis
                  /\ n.at = m.at /\ m.id < n.id
                  /\ \A k \in messages' : k.at = m.at => k \in {m, n}
    <3>1. CASE m \in messages
      <4>1. PICK n \in messages :
               /\ n.role = "assistant" /\ n.analysis = m.analysis
               /\ n.at = m.at /\ m.id < n.id
               /\ \A k \in messages : k.at = m.at => k \in {m, n}
        BY <2>7, <3>1 DEF TimesUnique
      <4> QED
        BY <2>2, <2>3, <2>5, <3>1, <4>1
    <3>2. CASE m = q
      BY <2>1, <2>2, <2>3, <2>5, <3>2
    <3>3. m # p
      BY <2>7, <2>5
    <3> QED
      BY <2>3, <3>1, <3>2, <3>3
  <2>8. \A m \in messages' : m.at \in 1..clock' /\ m.exchange = m.at
    BY <2>1, <2>3, <2>5 DEF TimesUnique
  <2>9. \A s \in Request : at'[s] \in Writing =>
          tx'[s].at \in 1..clock' /\ \A m \in messages' : m.at # tx'[s].at
    BY <2>3, <2>4, <2>5, <2>6 DEF TimesUnique
  <2> QED
    BY <2>4, <2>7, <2>8, <2>9 DEF TimesUnique
<1>6. ASSUME NEW r \in Request, RateList(r) PROVE TimesUnique'
  BY <1>6, RateListIsCalm, CalmKeepsTimes
<1>7. ASSUME NEW r \in Request, RateSave(r) PROVE TimesUnique'
  BY <1>7 DEF RateSave, TimesUnique, GoTo, RateEnds, Done
<1>8. ASSUME NEW a \in Analysis, SaveAnalysis(a) PROVE TimesUnique'
  BY <1>8 DEF SaveAnalysis, TimesUnique
<1>9. ASSUME NEW S \in SUBSET Analysis, DeleteAnalyses(S) PROVE TimesUnique'
  BY <1>9 DEF DeleteAnalyses, TimesUnique
<1>10. ASSUME Quiet PROVE TimesUnique'
  BY <1>10, CalmKeepsTimes DEF Quiet
<1> QED
  BY <1>1, <1>2, <1>3, <1>4, <1>5, <1>6, <1>7, <1>8, <1>9, <1>10, QuietSteps DEF Next,
     Proceed

-----------------------------------------------------------------------------
ChatInv == ChatTypes /\ IDsUnique /\ MemoryKeeps /\ RefersToStored /\ TimesUnique

LEMMA ChatInvariant == Spec => []ChatInv
<1>1. Init => ChatInv
  BY InitTypes, InitIDs, InitMemory, InitReferences, InitTimes DEF ChatInv
<1>2. ChatInv /\ [Next]_vars => ChatInv'
  BY StepTypes, StepIDs, StepMemory, StepReferences, StepTimes DEF ChatInv
<1> QED
  BY <1>1, <1>2, PTL DEF Spec

\* No message and no feedback outlives a deletion, however it falls among the steps of
\* the requests: an exchange is stored as a whole while its analysis exists or not at
\* all, and feedback only on an answer that is there.
THEOREM NothingOutlives == Spec => []NothingOutlivesAnalysis
<1>1. ChatInv => NothingOutlivesAnalysis
  BY DEF ChatInv, RefersToStored, NothingOutlivesAnalysis
<1> QED
  BY <1>1, ChatInvariant, PTL

\* In the order the history is read, nothing comes between a question and its answer,
\* for any number of requests in the lock at once.
THEOREM ExchangesArePaired == Spec => []ExchangesPaired
<1>1. ASSUME ChatInv PROVE ExchangesPaired
  <2> SUFFICES ASSUME NEW m \in messages, m.role = "user"
               PROVE  \E n \in Listed(m.analysis) :
                         /\ n.role = "assistant" /\ n.exchange = m.exchange
                         /\ Before(m, n)
                         /\ ~\E k \in Listed(m.analysis) : Before(m, k) /\ Before(k, n)
    BY DEF ExchangesPaired
  <2>1. PICK n \in messages :
           /\ n.role = "assistant" /\ n.analysis = m.analysis
           /\ n.at = m.at /\ m.id < n.id
           /\ \A k \in messages : k.at = m.at => k \in {m, n}
    BY <1>1 DEF ChatInv, TimesUnique
  <2>2. \A k \in messages : k.id \in Nat /\ k.at \in Nat /\ k.exchange = k.at
    BY <1>1, MessageTypes DEF ChatInv, TimesUnique
  <2>3. n \in Listed(m.analysis) /\ n.exchange = m.exchange /\ Before(m, n)
    BY <2>1, <2>2 DEF Listed, Before
  <2>4. ASSUME NEW k \in Listed(m.analysis), Before(m, k), Before(k, n) PROVE FALSE
    <3>1. k \in messages
      BY DEF Listed
    <3>2. k.at = m.at
      BY <2>1, <2>2, <2>4, <3>1 DEF Before
    <3>3. k = m \/ k = n
      BY <2>1, <3>1, <3>2
    <3> QED
      BY <2>2, <2>4, <3>1, <3>3 DEF Before
  <2> QED
    BY <2>1, <2>3, <2>4
<1> QED
  BY <1>1, ChatInvariant, PTL

-----------------------------------------------------------------------------
LEMMA InitIsLockInit == Init => LockInit
  BY DEF Init

\* Whatever a request does is a step of the lock or leaves the lock alone.
LEMMA StepIsLockStep == ChatTypes /\ [Next]_vars => [LockNext]_lockVars
<1> SUFFICES ASSUME ChatTypes, [Next]_vars PROVE [LockNext]_lockVars
  OBVIOUS
<1> USE DEF Request
<1>1. ASSUME NEW r \in Request, CacheFind(r) \/ Fill(r) PROVE [LockNext]_lockVars
  <2>1. topic[r] \in Analysis
    BY <1>1 DEF CacheFind, Fill, ChatTypes
  <2> QED
    BY <1>1, <2>1 DEF CacheFind, Fill, LockNext
<1>2. ASSUME NEW r \in Request, Locked(r) \/ NotLocked(r) \/ ReleaseLock(r) \/ Crash(r)
      PROVE  [LockNext]_lockVars
  BY <1>2 DEF Locked, NotLocked, ReleaseLock, Crash, LockNext
<1>3. ASSUME LockStep PROVE [LockNext]_lockVars
  BY <1>3 DEF LockStep, Alone, LockNext
<1>4. ASSUME NEW r \in Request,
             \/ CacheEvict(r) \/ Load(r) \/ Answer(r) \/ BeginExchange(r) \/
                   InsertQuestion(r)
             \/ InsertReply(r) \/ CommitExchange(r) \/ RollBackExchange(r)
             \/ AppendExchange(r) \/ KeepContext(r) \/ RateFind(r) \/ RateList(r)
             \/ RateSave(r)
             \/ \E a \in Analysis : Ask(r, a)
             \/ \E a \in Analysis, id \in 1..(nextID - 1) : SubmitFeedback(r, a, id)
      PROVE  UNCHANGED lockVars
  BY <1>4 DEF CacheEvict, Load, Answer, BeginExchange, InsertQuestion, InsertReply,
              CommitExchange, RollBackExchange, AppendExchange, KeepContext, RateFind,
              RateList, RateSave, Ask, SubmitFeedback
<1>5. ASSUME \/ \E a \in Analysis : SaveAnalysis(a) \/ CacheExpires(a)
             \/ \E a \in Analysis, v \in 1..MaxSaves : CacheAnalysis(a, v)
             \/ \E S \in SUBSET Analysis : DeleteAnalyses(S)
      PROVE  UNCHANGED lockVars
  BY <1>5 DEF SaveAnalysis, CacheExpires, CacheAnalysis, DeleteAnalyses
<1>6. CASE UNCHANGED vars
  BY <1>6 DEF vars
<1> QED
  BY <1>1, <1>2, <1>3, <1>4, <1>5, <1>6 DEF Next, Proceed, Regenerate

\* Chat uses the lock as the lock expects, and so its requests take turns.
THEOREM ChatTakesTurns == Spec => TakesTurns
<1>1. Spec => LockSpec
  <2>1. ChatInv /\ [Next]_vars => [LockNext]_lockVars
    BY StepIsLockStep DEF ChatInv
  <2> QED
    BY <2>1, InitIsLockInit, ChatInvariant, PTL DEF Spec, LockSpec
<1> QED
  BY <1>1, LockTakesTurns
-----------------------------------------------------------------------------
(***************************************************************************)
(* Contexts come from the store and go with the requests that found them.   *)
(***************************************************************************)

\* A request that is over has no context any more.
IdleForgets == \A r \in Request : at[r] = "idle" => context[r] = 0

\* The steps that take no context from anywhere and put none anywhere.
Forgetful ==
    /\ UNCHANGED <<version, uncached>>
    /\ \A a \in Analysis : cache'[a] = cache[a] \/ cache'[a] = 0
    /\ \A r \in Request :
          \/ context'[r] = 0
          \/ context'[r] = context[r] /\ topic'[r] = topic[r] /\ at'[r] # "idle"
          \/ context'[r] = context[r] /\ topic'[r] = topic[r] /\ at'[r] = at[r]

\* The steps of requests outside of the cache and the store are such, and what ends
\* a request takes its context away.
LEMMA ForgetfulSteps ==
    ASSUME ChatTypes, IdleForgets, [Next]_vars
    PROVE  \/ Forgetful
           \/ \E r \in Request : CacheFind(r) \/ Load(r) \/ Fill(r) \/ KeepContext(r)
           \/ \E a \in Analysis : SaveAnalysis(a)
           \/ \E a \in Analysis, v \in 1..MaxSaves : CacheAnalysis(a, v)
           \/ \E S \in SUBSET Analysis : DeleteAnalyses(S)
<1> USE DEF ChatTypes, IdleForgets, Forgetful, Request, storeVars, askVars, cacheVars,
        historyVars, rateVars, NoTx
<1>1. ASSUME NEW r \in Request, NEW a \in Analysis, Ask(r, a) PROVE Forgetful
  BY <1>1 DEF Ask, GoTo
<1>2. ASSUME NEW r \in Request, NEW a \in Analysis, NEW id \in 1..(nextID - 1),
             SubmitFeedback(r, a, id)
      PROVE  Forgetful
  BY <1>2 DEF SubmitFeedback, GoTo
<1>3. ASSUME NEW r \in Request, CacheEvict(r) PROVE Forgetful
  BY <1>3 DEF CacheEvict, GoTo
<1>4. ASSUME NEW r \in Request,
             \/ Answer(r) \/ BeginExchange(r) \/ InsertQuestion(r) \/ InsertReply(r)
             \/ CommitExchange(r) \/ RollBackExchange(r) \/ AppendExchange(r) \/ Locked(r)
      PROVE  Forgetful
  BY <1>4 DEF Answer, BeginExchange, InsertQuestion, InsertReply, CommitExchange,
       RollBackExchange, AppendExchange, Locked, GoTo
<1>5. ASSUME NEW r \in Request, ReleaseLock(r) \/ NotLocked(r) \/ RateSave(r) \/ Crash(r)
      PROVE  Forgetful
  BY <1>5 DEF ReleaseLock, NotLocked, RateSave, Crash, RateEnds, Done, GoTo
<1>6. ASSUME NEW r \in Request, RateFind(r) \/ RateList(r) PROVE Forgetful
  <2>1. UNCHANGED <<storeVars, cacheVars>>
    BY <1>6 DEF RateFind, RateList
  <2>2. \/ (GoTo(r, "rate_list") \/ GoTo(r, "rate_save")) /\ UNCHANGED askVars
        \/ Done(r)
    BY <1>6 DEF RateFind, RateList, RateEnds
  <2>3. CASE (GoTo(r, "rate_list") \/ GoTo(r, "rate_save")) /\ UNCHANGED askVars
    BY <2>1, <2>3 DEF GoTo
  <2>4. CASE Done(r)
    BY <2>1, <2>4 DEF Done, GoTo
  <2>5. QED BY <2>2, <2>3, <2>4
<1>7. ASSUME NEW a \in Analysis, CacheExpires(a) PROVE Forgetful
  BY <1>7 DEF CacheExpires
<1>8. ASSUME LockStep PROVE Forgetful
  BY <1>8 DEF LockStep, Alone
<1>9. CASE UNCHANGED vars
  BY <1>9 DEF vars
<1>10. QED
  BY <1>1, <1>2, <1>3, <1>4, <1>5, <1>6, <1>7, <1>8, <1>9 DEF Next, Proceed, Regenerate

\* What a request finds when it looks at the cache or the store, and what it puts
\* into the cache.
LEMMA ContextMoves ==
    ASSUME ChatTypes, NEW r \in Request,
           CacheFind(r) \/ Load(r) \/ Fill(r) \/ KeepContext(r)
    PROVE  /\ UNCHANGED <<version, uncached>> /\ topic[r] \in Analysis
           /\ \A a \in Analysis : \/ cache'[a] = cache[a]
                                  \/ a = topic[r] /\ cache'[a] = context[r]
           /\ \A s \in Request \ {r} :
                 context'[s] = context[s] /\ topic'[s] = topic[s] /\ at'[s] = at[s]
           /\ \/ context'[r] = context[r] /\ topic'[r] = topic[r] /\ at'[r] # "idle"
              \/ context'[r] \in {cache[topic[r]], version[topic[r]]}
                 /\ topic'[r] = topic[r] /\ at'[r] # "idle"
              \/ context'[r] = 0
<1> USE DEF ChatTypes, Request, storeVars, askVars, cacheVars
<1>1. CASE CacheFind(r)
  BY <1>1 DEF CacheFind, GoTo
<1>2. CASE Load(r)
  <2>1. UNCHANGED <<storeVars, cacheVars>> /\ topic[r] \in Analysis
    BY <1>2 DEF Load
  <2>2. CASE Done(r)
    BY <2>1, <2>2 DEF Done, GoTo
  <2>3. CASE /\ context' = [context EXCEPT ![r] = version[topic[r]]]
             /\ GoTo(r, "fill") /\ UNCHANGED <<topic, tx>>
    BY <2>1, <2>3 DEF GoTo
  <2>4. QED BY <1>2, <2>2, <2>3 DEF Load
<1>3. CASE Fill(r) \/ KeepContext(r)
  BY <1>3 DEF Fill, KeepContext, CacheSave, GoTo
<1>4. QED BY <1>1, <1>2, <1>3

LEMMA StepIdle == ChatTypes /\ IdleForgets /\ [Next]_vars => IdleForgets'
<1> SUFFICES ASSUME ChatTypes, IdleForgets, [Next]_vars PROVE IdleForgets'
  OBVIOUS
<1>1. CASE Forgetful
  BY <1>1 DEF Forgetful, IdleForgets
<1>2. ASSUME NEW r \in Request, CacheFind(r) \/ Load(r) \/ Fill(r) \/ KeepContext(r)
      PROVE  IdleForgets'
  BY <1>2, ContextMoves DEF IdleForgets
<1>3. ASSUME \/ \E a \in Analysis : SaveAnalysis(a)
             \/ \E a \in Analysis, v \in 1..MaxSaves : CacheAnalysis(a, v)
             \/ \E S \in SUBSET Analysis : DeleteAnalyses(S)
      PROVE  UNCHANGED <<at, context>>
  BY <1>3 DEF SaveAnalysis, CacheAnalysis, DeleteAnalyses, askVars
<1>4. QED BY <1>1, <1>2, <1>3, ForgetfulSteps DEF IdleForgets

\* What is forgotten comes back with a run that stores the analysis, and with
\* nothing else.
LEMMA StepForgotten ==
    ASSUME ChatTypes, IdleForgets, [Next]_vars, NEW a \in Analysis, Forgotten(a),
           saves'[a] = saves[a]
    PROVE  Forgotten(a)'
<1>1. CASE Forgetful
  BY <1>1 DEF Forgetful, Forgotten
<1>2. ASSUME NEW r \in Request, CacheFind(r) \/ Load(r) \/ Fill(r) \/ KeepContext(r)
      PROVE  Forgotten(a)'
  <2>1. /\ UNCHANGED <<version, uncached>>
        /\ cache'[a] = cache[a] \/ (a = topic[r] /\ cache'[a] = context[r])
    BY <1>2, ContextMoves
  <2>2. cache'[a] = 0
    BY <2>1 DEF Forgotten
  <2>3. ASSUME NEW s \in Request, topic'[s] = a PROVE context'[s] = 0
    BY <1>2, <2>3, ContextMoves DEF Forgotten
  <2>4. QED BY <2>1, <2>2, <2>3 DEF Forgotten
<1>3. ASSUME NEW b \in Analysis, SaveAnalysis(b) PROVE Forgotten(a)'
  <2>1. a # b
    BY <1>3 DEF SaveAnalysis, ChatTypes
  <2>2. QED
    BY <1>3, <2>1 DEF SaveAnalysis, Forgotten, ChatTypes, cacheVars, askVars
<1>4. ASSUME NEW b \in Analysis, NEW v \in 1..MaxSaves, CacheAnalysis(b, v)
      PROVE  Forgotten(a)'
  <2>1. a # b
    BY <1>4 DEF CacheAnalysis, Forgotten
  <2>2. QED
    BY <1>4, <2>1 DEF CacheAnalysis, CacheSave, Forgotten, ChatTypes, cacheVars, askVars
<1>5. ASSUME NEW S \in SUBSET Analysis, DeleteAnalyses(S) PROVE Forgotten(a)'
  BY <1>5 DEF DeleteAnalyses, Forgotten, cacheVars, askVars
<1>6. QED BY <1>1, <1>2, <1>3, <1>4, <1>5, ForgetfulSteps

\* No chat request brings a deleted analysis back once its context is forgotten,
\* whatever else fails or crashes.
THEOREM ForgottenForGood == Spec => ForgottenStaysForgotten
<1>1. Init => IdleForgets
  BY DEF Init, IdleForgets
<1>2. ChatTypes /\ IdleForgets /\ [Next]_vars
        => [\A a \in Analysis : Forgotten(a) /\ saves'[a] = saves[a] => Forgotten(a)']_vars
  BY StepForgotten
<1>3. QED
  BY <1>1, <1>2, InitTypes, StepTypes, StepIdle, PTL DEF Spec, ForgottenStaysForgotten
=============================================================================
