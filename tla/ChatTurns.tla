------------------------------ MODULE ChatTurns ------------------------------
(***************************************************************************)
(* What the lock of an analysis promises the chat (ports/locker.go):   *)
(* callers that hold the lock of one analysis take turns, except that a     *)
(* caller that overruns its turn may be joined by another one.             *)
(***************************************************************************)
CONSTANTS Analysis, Caller

VARIABLES
    inside,     \* [Analysis -> callers that hold its lock]
    overrun     \* callers that held a lock longer than its lease

Init ==
    /\ inside = [a \in Analysis |-> {}]
    /\ overrun = {}

\* A caller gets a lock when everyone who still has it overran the lease.
Enter(c, a) ==
    /\ c \notin inside[a]
    /\ inside[a] \subseteq overrun
    /\ inside' = [inside EXCEPT ![a] = @ \cup {c}]
    /\ overrun' = overrun \ {c}

Leave(c, a) ==
    /\ c \in inside[a]
    /\ inside' = [inside EXCEPT ![a] = @ \ {c}]
    /\ UNCHANGED overrun

Overrun(c, a) ==
    /\ c \in inside[a] \ overrun
    /\ overrun' = overrun \cup {c}
    /\ UNCHANGED inside

Next ==
    \E c \in Caller, a \in Analysis : Enter(c, a) \/ Leave(c, a) \/ Overrun(c, a)

Spec == Init /\ [][Next]_<<inside, overrun>>
=============================================================================
