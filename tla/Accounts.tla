------------------------------ MODULE Accounts ------------------------------
(***************************************************************************)
(* Accounts and their sessions: login, refresh, logout and password change  *)
(* (internal/core/usecase/auth.go), administration of users (user.go and    *)
(* the PATCH handler of auth_handlers.go) and the bootstrap of the first    *)
(* admin (setup.go, setup_handlers.go), as requests that run concurrently.  *)
(*                                                                         *)
(* A step is one statement of a repository another request can observe.     *)
(* Access tokens are signed and never looked up; only refresh tokens are    *)
(* state.                                                                   *)
(***************************************************************************)
EXTENDS AccountRows

CONSTANTS
    Request,      \* requests in flight at a time
    Patch,        \* the bodies PATCH /v1/users/{id} may have
    Faults,       \* {"store"}: statements fail and requests end half-way
    MaxChanges,   \* bound on the password changes
    MaxCalls      \* bound on the requests

Keep == "keep"    \* a field the body of a PATCH leaves out

ASSUME AccountsAssumption ==
    /\ Patch \subseteq [role : Role \cup {Keep}, status : {"active", "inactive", Keep}]
    /\ Faults \subseteq {"store"}
    /\ MaxChanges \in Nat /\ MaxCalls \in Nat

VARIABLES
    store,        \* "postgres" or "memory": the repositories in use
    users,        \* the table users
    tokens,       \* the table refresh_tokens
    issued,       \* tokens issued so far
    delivered,    \* tokens some client got in a response, and may present
    ready,        \* an observability and an LLM provider are configured
    call,         \* what each request is doing, see Call
    changes,      \* password changes so far
    calls,        \* requests so far
    forked        \* history: families whose rotation was raced or broke off

vars == <<store, users, tokens, issued, delivered, ready, call, changes, calls, forked>>

-----------------------------------------------------------------------------
Step == {"idle", "owner", "issue", "rotate", "family", "logout", "password",
         "revoke_all", "role", "reread", "status", "delete_revoke", "delete",
         "bootstrap", "bootstrap_login"}

\* What a request has read and was asked for.
Call == [step     : Step,
         user     : User \cup {Nobody},
         token    : 0..MaxTokens,        \* the token it rotates or revokes
         family   : 0..MaxTokens,        \* the family of that token
         heir     : 0..MaxTokens,        \* the token it issued
         password : Nat,                 \* the password the session rests on
         deliver  : BOOLEAN,             \* whether its response has the session
         patch    : Patch \cup {[role |-> Keep, status |-> Keep]},
         email    : Email \cup {NoEmail}]

Idle == [step |-> "idle", user |-> Nobody, token |-> 0, family |-> 0, heir |-> 0,
         password |-> 0, deliver |-> TRUE,
         patch |-> [role |-> Keep, status |-> Keep], email |-> NoEmail]

MayFail == store = "postgres" /\ "store" \in Faults

UserUpdate(u) ==
    IF store = "memory" THEN MemoryUpdate(users, u) ELSE PostgresUpdate(users, u, MayFail)

TokenCreate(u) ==
    IF store = "memory" THEN MemoryTokenCreate(users, u)
                        ELSE PostgresTokenCreate(users, u, MayFail)

\* A statement on tokens: it has effect, or fails and the table stays.
TokensBecome(ts) == tokens' = ts \/ (MayFail /\ UNCHANGED tokens)

\* A fresh installation, or one with its first admin, nobody signed in.
Init ==
    /\ store \in {"postgres", "memory"}
    /\ \/ users = [u \in User |-> NoUser]
       \/ \E u \in User, e \in Email :
              users = InsertUser([v \in User |-> NoUser], u, e, "admin", 0)
    /\ tokens = [t \in TokenID |-> NoToken]
    /\ issued = 0
    /\ delivered = {}
    /\ ready \in BOOLEAN
    /\ call = [r \in Request |-> Idle]
    /\ changes = 0
    /\ calls = 0
    /\ forked = {}

-----------------------------------------------------------------------------
At(r, step) == call[r].step = step

\* A request arrives and makes its first statement.
Arrive(r) == At(r, "idle") /\ calls < MaxCalls /\ calls' = calls + 1

Becomes(r, c) == call' = [call EXCEPT ![r] = c]

Continue(r, step) == Becomes(r, [call[r] EXCEPT !.step = step])

Ends(r) == Becomes(r, Idle)

\* Requests that have found token t live and may still issue its heir.
Rotating(t) == {r \in Request : call[r].token = t /\ call[r].step \in {"owner", "issue", "rotate"}}

-----------------------------------------------------------------------------
(* Sessions: auth.go. *)

\* Login up to the check of the password; any other outcome stores nothing.
Login(r) ==
    /\ Arrive(r)
    /\ \E u \in User :
          /\ Active(users, u)
          /\ Becomes(r, [Idle EXCEPT !.step = "issue", !.user = u,
                                      !.password = users[u].password])
    /\ UNCHANGED <<store, users, tokens, issued, delivered, ready, changes, forked>>

\* A revoked token is rotated like any other.
AfterLookupUnchecked(t) == "owner"

\* A revoked token that is presented again condemns its family.
AfterLookup(t) == IF tokens[t].state = "revoked" THEN "family" ELSE "owner"

\* Refresh, FindByHash; an expired token is refused (nothing is stored).
Refresh(r) ==
    /\ Arrive(r)
    /\ \E t \in delivered :
          /\ tokens[t].state # "none"
          /\ Becomes(r, [Idle EXCEPT !.step = AfterLookup(t), !.user = tokens[t].user,
                                      !.token = t, !.family = tokens[t].family,
                                      !.password = tokens[t].password])
          /\ forked' = IF tokens[t].state = "live" /\ Rotating(t) # {}
                       THEN forked \cup {tokens[t].family} ELSE forked
    /\ UNCHANGED <<store, users, tokens, issued, delivered, ready, changes>>

CondemnFamily(r) ==
    /\ At(r, "family")
    /\ TokensBecome(RevokeFamily(tokens, call[r].family))
    /\ Ends(r)
    /\ UNCHANGED <<store, users, issued, delivered, ready, changes, calls, forked>>

\* The flag is_active is not looked at.
MayRefreshAnyStatus(u) == Exists(users, u)

MayRefresh(u) == Active(users, u)

\* Refresh, FindByID.
FindOwner(r) ==
    /\ At(r, "owner")
    /\ \/ MayRefresh(call[r].user) /\ Continue(r, "issue")
       \/ ~MayRefresh(call[r].user) /\ Ends(r)
       \/ MayFail /\ Ends(r)
    /\ UNCHANGED <<store, users, tokens, issued, delivered, ready, changes, calls, forked>>

\* The family of the session a request issues.
FamilyFor(c, t) == IF c.family = 0 THEN t ELSE c.family

\* The response with the session's cookies.
Deliver(r, t) == delivered' = IF call[r].deliver THEN delivered \cup {t} ELSE delivered

\* issueSession, Create.
Issue(r) ==
    /\ At(r, "issue") /\ issued < MaxTokens
    /\ LET c == call[r]
           t == issued + 1
       IN \/ /\ "done" \in TokenCreate(c.user)
             /\ tokens' = InsertToken(tokens, t, c.user, FamilyFor(c, t), c.password)
             /\ issued' = t
             /\ IF c.token = 0
                THEN Ends(r) /\ Deliver(r, t)
                ELSE /\ Becomes(r, [c EXCEPT !.step = "rotate", !.heir = t])
                     /\ UNCHANGED delivered
          \/ /\ {"failed", "refused"} \cap TokenCreate(c.user) # {}
             /\ Ends(r)
             /\ UNCHANGED <<tokens, issued, delivered>>
    /\ UNCHANGED <<store, users, ready, changes, calls, forked>>

\* issueSession, Revoke of the token that is replaced.
Rotate(r) ==
    /\ At(r, "rotate")
    /\ \/ /\ tokens' = Revoke(tokens, call[r].token, call[r].heir)
          /\ Deliver(r, call[r].heir)
          /\ UNCHANGED forked
       \/ /\ MayFail
          /\ forked' = forked \cup {call[r].family}
          /\ UNCHANGED <<tokens, delivered>>
    /\ Ends(r)
    /\ UNCHANGED <<store, users, issued, ready, changes, calls>>

Logout(r) ==
    /\ Arrive(r)
    /\ \E t \in delivered :
          /\ tokens[t].state = "live"
          /\ Becomes(r, [Idle EXCEPT !.step = "logout", !.token = t])
    /\ UNCHANGED <<store, users, tokens, issued, delivered, ready, changes, forked>>

LogoutRevoke(r) ==
    /\ At(r, "logout")
    /\ TokensBecome(Revoke(tokens, call[r].token, 0))
    /\ Ends(r)
    /\ UNCHANGED <<store, users, issued, delivered, ready, changes, calls, forked>>

\* ChangePassword up to the check of the current password.  The caller has
\* an access token, which outlives a deactivation: the user need not be active.
ChangePassword(r) ==
    /\ Arrive(r)
    /\ \E u \in User :
          /\ Exists(users, u)
          /\ Becomes(r, [Idle EXCEPT !.step = "password", !.user = u])
    /\ UNCHANGED <<store, users, tokens, issued, delivered, ready, changes, forked>>

StorePassword(r) ==
    /\ At(r, "password") /\ changes < MaxChanges
    /\ \/ /\ "done" \in UserUpdate(call[r].user)
          /\ users' = SetPassword(users, call[r].user, changes + 1)
          /\ changes' = changes + 1
          /\ Continue(r, "revoke_all")
       \/ /\ {"failed", "refused"} \cap UserUpdate(call[r].user) # {}
          /\ Ends(r)
          /\ UNCHANGED <<users, changes>>
    /\ UNCHANGED <<store, tokens, issued, delivered, ready, calls, forked>>

\* The last statement of ChangePassword and of a deactivation; an error is
\* ignored.
RevokeSessions(r) ==
    /\ At(r, "revoke_all")
    /\ TokensBecome(RevokeAllForUser(tokens, call[r].user))
    /\ Ends(r)
    /\ UNCHANGED <<store, users, issued, delivered, ready, changes, calls, forked>>

-----------------------------------------------------------------------------
(* Administration of users: user.go and applyUserUpdate.                    *)

\* POST /v1/users; an address that is taken is refused by the statement.
CreateUser(r) ==
    /\ Arrive(r)
    /\ \E u \in User, e \in Email, role \in Role :
          /\ users[u].status = "none"
          /\ ~EmailTaken(users, e)
          /\ users' = InsertUser(users, u, e, role, 0)
    /\ UNCHANGED <<store, tokens, issued, delivered, ready, call, changes, forked>>

\* PUT /v1/me: the row is looked up for its name only.
UpdateProfile(r) ==
    /\ Arrive(r)
    /\ \E u \in User, e \in Email :
          /\ ~\E v \in User \ {u} : Exists(users, v) /\ users[v].email = e
          /\ "done" \in UserUpdate(u)
          /\ users' = SetEmail(users, u, e)
    /\ UNCHANGED <<store, tokens, issued, delivered, ready, call, changes, forked>>

\* A field is updated when the body has it and the copy has another value.
Asks(wanted, copied) == wanted # Keep /\ wanted # copied

\* PATCH /v1/users/{id}, Get.
PatchUser(r) ==
    /\ Arrive(r)
    /\ \E u \in User, p \in Patch :
          /\ Exists(users, u)
          /\ LET begun == [Idle EXCEPT !.user = u, !.patch = p]
             IN Becomes(r,
                    IF Asks(p.role, users[u].role) THEN [begun EXCEPT !.step = "role"]
                    ELSE IF Asks(p.status, users[u].status) THEN [begun EXCEPT !.step = "status"]
                    ELSE Idle)
    /\ UNCHANGED <<store, users, tokens, issued, delivered, ready, changes, forked>>

PatchRole(r) ==
    /\ At(r, "role")
    /\ \/ /\ "done" \in UserUpdate(call[r].user)
          /\ users' = SetRole(users, call[r].user, call[r].patch.role)
          /\ Continue(r, "reread")
       \/ /\ {"failed", "refused"} \cap UserUpdate(call[r].user) # {}
          /\ Ends(r)
          /\ UNCHANGED users
    /\ UNCHANGED <<store, tokens, issued, delivered, ready, changes, calls, forked>>

\* UpdateRole returns the row as it finds it then: the copy for the next field.
PatchReread(r) ==
    /\ At(r, "reread")
    /\ \/ /\ Exists(users, call[r].user)
          /\ Asks(call[r].patch.status, users[call[r].user].status)
          /\ Continue(r, "status")
       \/ /\ ~Exists(users, call[r].user) \/ MayFail
             \/ ~Asks(call[r].patch.status, users[call[r].user].status)
          /\ Ends(r)
    /\ UNCHANGED <<store, users, tokens, issued, delivered, ready, changes, calls, forked>>

\* SetActive: a deactivation goes on to revoke the sessions.
PatchStatus(r) ==
    /\ At(r, "status")
    /\ \/ /\ "done" \in UserUpdate(call[r].user)
          /\ users' = SetStatus(users, call[r].user, call[r].patch.status)
          /\ IF call[r].patch.status = "inactive" THEN Continue(r, "revoke_all") ELSE Ends(r)
       \/ /\ {"failed", "refused"} \cap UserUpdate(call[r].user) # {}
          /\ Ends(r)
          /\ UNCHANGED users
    /\ UNCHANGED <<store, tokens, issued, delivered, ready, changes, calls, forked>>

\* DELETE /v1/users/{id}: the sessions first, an error is ignored.
DeleteSessions(r) ==
    /\ Arrive(r)
    /\ \E u \in User :
          /\ Exists(users, u)
          /\ TokensBecome(RevokeAllForUser(tokens, u))
          /\ Becomes(r, [Idle EXCEPT !.step = "delete", !.user = u])
    /\ UNCHANGED <<store, users, issued, delivered, ready, changes, forked>>

Delete(r) ==
    /\ At(r, "delete")
    /\ \/ /\ users' = DeleteUser(users, call[r].user)
          /\ tokens' = IF store = "postgres" /\ Exists(users, call[r].user)
                       THEN CascadeTokens(tokens, call[r].user) ELSE tokens
       \/ MayFail /\ UNCHANGED <<users, tokens>>
    /\ Ends(r)
    /\ UNCHANGED <<store, issued, delivered, ready, changes, calls, forked>>

-----------------------------------------------------------------------------
(* The first admin: setup.go and setup_handlers.go.                         *)

SetupCompleted == ready /\ \E u \in User : Exists(users, u)

\* POST /v1/setup/admin, Status.  Once setup is completed, and when the
\* address is taken, the credentials are tried as a login.
Bootstrap(r) ==
    /\ Arrive(r)
    /\ \E e \in Email :
          Becomes(r, [Idle EXCEPT !.email = e,
                                  !.step = IF SetupCompleted THEN "bootstrap_login"
                                           ELSE "bootstrap"])
    /\ UNCHANGED <<store, users, tokens, issued, delivered, ready, changes, forked>>

\* BootstrapAdmin creates the admin and StartSessionForUser takes it as
\* created, without another look.
BootstrapAdmin(r) ==
    /\ At(r, "bootstrap")
    /\ IF EmailTaken(users, call[r].email)
       THEN Continue(r, "bootstrap_login") /\ UNCHANGED users
       ELSE \E u \in User :
               /\ users[u].status = "none"
               /\ users' = InsertUser(users, u, call[r].email, "admin", 0)
               /\ Becomes(r, [call[r] EXCEPT !.step = "issue", !.user = u])
    /\ UNCHANGED <<store, tokens, issued, delivered, ready, changes, calls, forked>>

\* tryBootstrapAdminLogin: a session is issued for any role, and given out
\* for an admin only.
BootstrapLogin(r) ==
    /\ At(r, "bootstrap_login")
    /\ \/ \E u \in User :
             /\ Active(users, u) /\ users[u].email = call[r].email
             /\ Becomes(r, [call[r] EXCEPT !.step = "issue", !.user = u,
                                            !.password = users[u].password,
                                            !.deliver = (users[u].role = "admin")])
       \/ Ends(r)
    /\ UNCHANGED <<store, users, tokens, issued, delivered, ready, changes, calls, forked>>

\* Providers are configured or removed meanwhile.
ProvidersChange ==
    /\ ready' = ~ready
    /\ UNCHANGED <<store, users, tokens, issued, delivered, call, changes, calls, forked>>

\* The client goes away, the process dies or a reply is lost: what the
\* request has stored stays, the rest is not done.
Abandon(r) ==
    /\ MayFail /\ ~At(r, "idle")
    /\ forked' = IF At(r, "rotate") THEN forked \cup {call[r].family} ELSE forked
    /\ Ends(r)
    /\ UNCHANGED <<store, users, tokens, issued, delivered, ready, changes, calls>>

-----------------------------------------------------------------------------
SessionStep(r) ==
    \/ Login(r) \/ Refresh(r) \/ CondemnFamily(r) \/ FindOwner(r)
    \/ Issue(r) \/ Rotate(r) \/ Logout(r) \/ LogoutRevoke(r)
    \/ ChangePassword(r) \/ StorePassword(r) \/ RevokeSessions(r)

UserStep(r) ==
    \/ CreateUser(r) \/ UpdateProfile(r)
    \/ PatchUser(r) \/ PatchRole(r) \/ PatchReread(r) \/ PatchStatus(r)
    \/ DeleteSessions(r) \/ Delete(r)

SetupStep(r) == Bootstrap(r) \/ BootstrapAdmin(r) \/ BootstrapLogin(r)

Next ==
    \/ \E r \in Request : SessionStep(r) \/ UserStep(r) \/ SetupStep(r) \/ Abandon(r)
    \/ ProvidersChange

Spec == Init /\ [][Next]_vars

-----------------------------------------------------------------------------
(* Properties.                                                              *)

\* The variables have the types their comments say, and tokens are issued in
\* order, each into a family that was opened before.
TypeOK ==
    /\ store \in {"postgres", "memory"}
    /\ users \in [User -> UserRow]
    /\ tokens \in [TokenID -> TokenRow]
    /\ issued \in 0..MaxTokens
    /\ delivered \subseteq TokenID
    /\ ready \in BOOLEAN
    /\ call \in [Request -> Call]
    /\ changes \in Nat /\ calls \in Nat
    /\ forked \subseteq TokenID
    /\ \A t \in TokenID : tokens[t].state # "none" =>
           t <= issued /\ tokens[t].family \in 1..t

Rows == {t \in TokenID : tokens[t].state # "none"}

\* A client holds one live token per family: rotation leaves two only when
\* two requests presented one token at a time, or the rotation broke off
\* between its two statements (issueSession creates before it revokes).
SingleHeir ==
    \A f \in TokenID : Cardinality(LiveIn(tokens, f)) > 1 =>
        \/ f \in forked
        \/ \E r \in Request : At(r, "rotate") /\ call[r].family = f

\* Revocation is final: nothing writes a revoked row again, not even its
\* heir, except that it goes with its user.
RevocationIsFinal ==
    [][\A t \in TokenID : tokens[t].state = "revoked" =>
           tokens'[t] \in {tokens[t], NoToken}]_vars

InRotation(f) == \E r \in Request : call[r].family = f /\ call[r].step \in {"owner", "issue", "rotate"}

\* No token of the family is live and no refresh of it is in flight.
Ended(f) == LiveIn(tokens, f) = {} /\ ~InRotation(f)
            /\ \E t \in Rows : tokens[t].family = f

\* A session that ended (by logout, reuse of a revoked token, a new password,
\* deactivation or deletion) while nobody was refreshing it has ended for
\* good: its family never has a live token again, nor a refresh that could
\* issue one.
EndedStaysEnded ==
    [][\A f \in TokenID : Ended(f) => LiveIn(tokens', f) = {} /\ ~InRotation(f)']_vars

\* The user is locked out: no active account, no live token and no request
\* that has already looked at the account.
LockedOut(u) ==
    /\ ~Active(users, u) /\ users[u].status # "none"
    /\ LiveOf(tokens, u) = {}
    /\ \A r \in Request : call[r].user = u => ~(call[r].step \in {"issue", "rotate"})

\* Who is locked out stays so until an administrator reactivates the account:
\* no refresh, login or bootstrap that arrives later gets a session.
LockedOutStaysOut ==
    [][\A u \in User : LockedOut(u) => LockedOut(u)' \/ Active(users', u)]_vars

\* auth.go:196: "revokes every active refresh token belonging to the user so
\* a stolen session cannot survive the rotation".  When no password change of
\* the user is in progress, every session that has been refreshed goes back
\* to the password in use.
StolenSessionEnds ==
    \A t \in Live(tokens) :
        \/ tokens[t].family = t
        \/ ~Exists(users, tokens[t].user)
        \/ tokens[t].password = users[tokens[t].user].password
        \/ \E r \in Request : At(r, "revoke_all") /\ call[r].user = tokens[t].user
=============================================================================
