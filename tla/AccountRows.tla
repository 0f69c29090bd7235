----------------------------- MODULE AccountRows -----------------------------
(***************************************************************************)
(* The tables users and refresh_tokens and what each statement of their     *)
(* repositories (internal/adapters/outbound/postgres, inmemory) does to     *)
(* them.  Names, preferences, timestamps and the flag that asks for a new   *)
(* password are data that nothing here depends on and are left out.         *)
(***************************************************************************)
EXTENDS Naturals, FiniteSets

CONSTANTS
    User,       \* the ids accounts may get; an id is never given twice
    Email,      \* the addresses accounts may have
    Nobody,     \* stands for no user
    NoEmail,    \* stands for no address
    MaxTokens   \* bound on the refresh tokens issued

ASSUME AccountRowsAssumption ==
    /\ Nobody \notin User
    /\ NoEmail \notin Email
    /\ MaxTokens \in Nat

-----------------------------------------------------------------------------
Role == {"admin", "operator", "viewer"}

\* A password is the number of the change that set it.
UserRow == [status   : {"none", "active", "inactive", "deleted"},
            email    : Email \cup {NoEmail},
            role     : Role,
            password : Nat]

NoUser == [status |-> "none", email |-> NoEmail, role |-> "viewer", password |-> 0]

Exists(us, u) == u \in User /\ us[u].status \in {"active", "inactive"}

Active(us, u) == u \in User /\ us[u].status = "active"

EmailTaken(us, e) == \E u \in User : Exists(us, u) /\ us[u].email = e

InsertUser(us, u, e, role, password) ==
    [us EXCEPT ![u] = [status |-> "active", email |-> e, role |-> role,
                       password |-> password]]

\* UPDATE ... WHERE id = u: a row that does not exist is left alone.
UpdateWhere(us, u, row) == IF Exists(us, u) THEN [us EXCEPT ![u] = row] ELSE us

SetEmail(us, u, e)       == UpdateWhere(us, u, [us[u] EXCEPT !.email = e])
SetPassword(us, u, p)    == UpdateWhere(us, u, [us[u] EXCEPT !.password = p])
SetRole(us, u, role)     == UpdateWhere(us, u, [us[u] EXCEPT !.role = role])
SetStatus(us, u, status) == UpdateWhere(us, u, [us[u] EXCEPT !.status = status])

DeleteUser(us, u) == UpdateWhere(us, u, [NoUser EXCEPT !.status = "deleted"])

-----------------------------------------------------------------------------
TokenID == 1..MaxTokens

\* Families are named after their first token.
TokenRow == [state    : {"none", "live", "revoked"},
             user     : User \cup {Nobody},
             family   : 0..MaxTokens,
             heir     : 0..MaxTokens,   \* replaced_by, 0 when it is null
             password : Nat]            \* the password the family was opened with

NoToken == [state |-> "none", user |-> Nobody, family |-> 0, heir |-> 0, password |-> 0]

Live(ts) == {t \in TokenID : ts[t].state = "live"}

LiveOf(ts, u) == {t \in Live(ts) : ts[t].user = u}

LiveIn(ts, f) == {t \in Live(ts) : ts[t].family = f}

InsertToken(ts, t, u, f, password) ==
    [ts EXCEPT ![t] = [state |-> "live", user |-> u, family |-> f, heir |-> 0,
                       password |-> password]]

\* A token that is revoked already gets another heir.
RevokeAgain(ts, t, heir) ==
    [ts EXCEPT ![t] = IF @.state # "none"
                      THEN [@ EXCEPT !.state = "revoked", !.heir = heir]
                      ELSE @]

\* Only the heir is stored.
RevokeHeirOnly(ts, t, heir) ==
    [ts EXCEPT ![t] = IF @.state = "live" THEN [@ EXCEPT !.heir = heir] ELSE @]

\* SET revoked_at, replaced_by WHERE id = t AND revoked_at IS NULL
Revoke(ts, t, heir) ==
    [ts EXCEPT ![t] = IF @.state = "live"
                      THEN [@ EXCEPT !.state = "revoked", !.heir = heir]
                      ELSE @]

RevokeAll(ts, which) ==
    [t \in TokenID |-> IF t \in which THEN [ts[t] EXCEPT !.state = "revoked"] ELSE ts[t]]

RevokeFamily(ts, f) == RevokeAll(ts, LiveIn(ts, f))

RevokeAllForUser(ts, u) == RevokeAll(ts, LiveOf(ts, u))

\* ON DELETE CASCADE (migrations/000011_create_users.up.sql): the tokens go
\* with their user.
CascadeTokens(ts, u) == [t \in TokenID |-> IF ts[t].user = u THEN NoToken ELSE ts[t]]

-----------------------------------------------------------------------------
(* The memory repositories differ in three places: an update of an unknown  *)
(* id is an error, a token may name a user that is gone, and no call fails. *)

\* What an update of user u may return to its caller.
MemoryUpdate(us, u) == IF Exists(us, u) THEN {"done"} ELSE {"refused"}

PostgresUpdate(us, u, mayFail) == {"done"} \cup IF mayFail THEN {"failed"} ELSE {}

MemoryTokenCreate(us, u) == {"done"}

PostgresTokenCreate(us, u, mayFail) ==
    IF Exists(us, u) THEN PostgresUpdate(us, u, mayFail) ELSE {"refused"}
=============================================================================
