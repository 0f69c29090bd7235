--------------------------- MODULE AnalysisLocker ---------------------------
(***************************************************************************)
(* The lock chat takes on an analysis, in its two forms: a mutex of the     *)
(* process behind a goroutine per caller (inmemory/locker.go), and a key in *)
(* Redis with a time to live (redis/locker.go).  A caller here is one call  *)
(* of Acquire with the release it returned: a caller that is "out" may      *)
(* call again, with a token of its own.                                     *)
(***************************************************************************)
EXTENDS Naturals, Sequences, SequencesExt

CONSTANTS Analysis, Caller, None

ASSUME NoneIsNoCaller == None \notin Caller /\ None \notin Analysis

VARIABLES
    locker,     \* "memory" or "redis": chosen at start-up, never changed
    owner,      \* [Analysis -> the caller whose goroutine has the mutex, or whose
                \* token is in the key]
    call,       \* where each caller is in Acquire, see CallState
    wants,      \* the analysis each caller asked for
    overdue,    \* history: callers whose key expired while they held the lock
    arrived     \* history: [Analysis -> waiting callers, in the order they came]

lockVars == <<locker, owner, call, wants, overdue, arrived>>

\* "abandoned": the caller left, its goroutine still has to lock and unlock.
CallState == {"out", "waiting", "holding", "abandoned"}

LockInit ==
    /\ locker \in {"memory", "redis"}
    /\ owner = [a \in Analysis |-> None]
    /\ call = [c \in Caller |-> "out"]
    /\ wants = [c \in Caller |-> None]
    /\ overdue = {}
    /\ arrived = [a \in Analysis |-> <<>>]

Enters(c) ==
    /\ call' = [call EXCEPT ![c] = "holding"]
    /\ overdue' = overdue \ {c}
    /\ arrived' = [arrived EXCEPT ![wants[c]] = Remove(@, c)]

Leaves(c, state) ==
    /\ call' = [call EXCEPT ![c] = state]
    /\ arrived' = [arrived EXCEPT ![wants[c]] = Remove(@, c)]
    /\ wants' = IF state = "out" THEN [wants EXCEPT ![c] = None] ELSE wants

-----------------------------------------------------------------------------
Acquire(c, a) ==
    /\ call[c] = "out"
    /\ call' = [call EXCEPT ![c] = "waiting"]
    /\ wants' = [wants EXCEPT ![c] = a]
    /\ arrived' = [arrived EXCEPT ![a] = Append(@, c)]
    /\ UNCHANGED <<locker, owner, overdue>>

\* memory: lock.Lock returns in the caller's goroutine, whoever is waiting longest.
Grant(c) ==
    /\ locker = "memory"
    /\ call[c] \in {"waiting", "abandoned"}
    /\ owner[wants[c]] = None
    /\ owner' = [owner EXCEPT ![wants[c]] = c]
    /\ UNCHANGED <<locker, call, wants, overdue, arrived>>

\* memory: the caller's select takes the closed channel.
TakeGrant(c) ==
    /\ locker = "memory"
    /\ call[c] = "waiting"
    /\ owner[wants[c]] = c
    /\ Enters(c)
    /\ UNCHANGED <<locker, owner, wants>>

\* redis: SET NX succeeds at one of the polls of a waiter.
SetKey(c) ==
    /\ locker = "redis"
    /\ call[c] = "waiting"
    /\ owner[wants[c]] = None
    /\ owner' = [owner EXCEPT ![wants[c]] = c]
    /\ Enters(c)
    /\ UNCHANGED <<locker, wants>>

\* Variant: the goroutine of a caller that leaves is forgotten.
ForgetWaiter(c) ==
    /\ locker = "memory"
    /\ call[c] = "waiting"
    /\ Leaves(c, "out")
    /\ UNCHANGED <<locker, owner, overdue>>

\* memory: the caller's context ends, maybe after the goroutine got the mutex;
\* a second goroutine will unlock it.
Abandon(c) ==
    /\ locker = "memory"
    /\ call[c] = "waiting"
    /\ Leaves(c, "abandoned")
    /\ UNCHANGED <<locker, owner, overdue>>

HandOn(c) ==
    /\ call[c] = "abandoned"
    /\ owner[wants[c]] = c
    /\ owner' = [owner EXCEPT ![wants[c]] = None]
    /\ call' = [call EXCEPT ![c] = "out"]
    /\ wants' = [wants EXCEPT ![c] = None]
    /\ UNCHANGED <<locker, overdue, arrived>>

\* redis: the wait is over, the caller's context ends, or SET NX fails, maybe
\* after it set the key, which then stays until it expires.
StopWaiting(c) ==
    /\ locker = "redis"
    /\ call[c] = "waiting"
    /\ \/ UNCHANGED owner
       \/ owner[wants[c]] = None /\ owner' = [owner EXCEPT ![wants[c]] = c]
    /\ Leaves(c, "out")
    /\ UNCHANGED <<locker, overdue>>

\* Variant: the key is deleted whoever's token it has.
ReleaseAnyToken(c) ==
    /\ call[c] = "holding"
    /\ owner' = [owner EXCEPT ![wants[c]] = None]
    /\ Leaves(c, "out")
    /\ UNCHANGED <<locker, overdue>>

\* redis: the key is deleted if it still has the caller's token; the script is
\* tried once and may fail.
Release(c) ==
    LET a == wants[c] IN
    /\ call[c] = "holding"
    /\ \/ owner' = [owner EXCEPT ![a] = IF @ = c THEN None ELSE @]
       \/ locker = "redis" /\ UNCHANGED owner
    /\ Leaves(c, "out")
    /\ UNCHANGED <<locker, overdue>>

\* redis: the time to live of the key is over, whatever its owner is doing.
Expire(a) ==
    /\ locker = "redis"
    /\ owner[a] # None
    /\ owner' = [owner EXCEPT ![a] = None]
    /\ overdue' = IF call[owner[a]] = "holding" /\ wants[owner[a]] = a
                    THEN overdue \cup {owner[a]} ELSE overdue
    /\ UNCHANGED <<locker, call, wants, arrived>>

\* redis: the process of a caller dies; what it did in Redis stays.
Vanish(c) ==
    /\ locker = "redis"
    /\ call[c] \in {"waiting", "holding"}
    /\ Leaves(c, "out")
    /\ UNCHANGED <<locker, owner, overdue>>

LockNext ==
    \/ \E c \in Caller, a \in Analysis : Acquire(c, a)
    \/ \E c \in Caller :
          \/ Grant(c) \/ TakeGrant(c) \/ SetKey(c) \/ Abandon(c) \/ HandOn(c)
          \/ StopWaiting(c) \/ Release(c) \/ Vanish(c)
    \/ \E a \in Analysis : Expire(a)

LockSpec == LockInit /\ [][LockNext]_lockVars

-----------------------------------------------------------------------------
LockTypeOK ==
    /\ locker \in {"memory", "redis"}
    /\ owner \in [Analysis -> Caller \cup {None}]
    /\ call \in [Caller -> CallState]
    /\ wants \in [Caller -> Analysis \cup {None}]
    /\ overdue \subseteq Caller
    /\ arrived \in [Analysis -> Seq(Caller)]

Inside == [a \in Analysis |->
             {c \in Caller : call[c] = "holding" /\ wants[c] = a}]

Turns == INSTANCE ChatTurns WITH inside <- Inside, overrun <- overdue

\* Both lockers implement the promise: two callers hold the lock of an analysis at
\* once only if the key of one of them expired under it, and a late release never
\* takes the lock from the caller that has it now.
TakesTurns == Turns!Spec

\* concurrency.md: the only strict ordering requirement is FIFO chat per analysis.
FirstComeFirstServed ==
    [][\A c \in Caller :
         call[c] = "waiting" /\ call'[c] = "holding" =>
             Head(arrived[wants[c]]) = c]_lockVars
=============================================================================
