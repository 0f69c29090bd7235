---------------------------- MODULE HttpGateway ----------------------------
(***************************************************************************)
(* Requests on their way through the middleware of                          *)
(* internal/adapters/inbound/http: rate limiter, authentication by cookie   *)
(* or bearer token, CSRF check, role guard, handler and audit entry, with   *)
(* the accounts, API keys and access tokens they read and change.           *)
(*                                                                         *)
(* What a client sends is chosen where the code first looks at it.  The     *)
(* requests modelled come from one address.                                 *)
(***************************************************************************)
EXTENDS HttpRoutes, Integers, FiniteSets

CONSTANTS
    User, ApiKey,  \* ids of accounts and of API keys, never given twice
    Nobody,        \* stands for neither
    Slot,          \* requests in flight at a time
    Settings,      \* the deployments considered, each observed for a bounded time
    Burst,         \* tokens a bucket holds
    PerTick,       \* tokens it gains in a unit of time
    EvictAfter,    \* the age at which a bucket may be evicted
    MaxDelay,      \* the longest wait for the limiter's lock
    AccessTTL,     \* life of an access token
    Faults,        \* {"store"}: statements fail; "panic"; "crash"
    MaxClock, MaxRequests, MaxTokens   \* bounds of the model

ASSUME HttpGatewayAssumption ==
    /\ User \cap ApiKey = {} /\ Nobody \notin User \cup ApiKey
    /\ Settings \subseteq [cookie : BOOLEAN, static : BOOLEAN, postgres : BOOLEAN,
                           timeout : BOOLEAN, limit : BOOLEAN,
                           exempt : SUBSET {r.name : r \in Routes},
                           until : 0..MaxClock]
    /\ {Burst, PerTick, EvictAfter, MaxDelay, AccessTTL} \subseteq Nat
    /\ {MaxClock, MaxRequests, MaxTokens} \subseteq Nat
    /\ Faults \subseteq {"store", "panic", "crash"}

VARIABLES
    setting,       \* what is configured
    clock,
    users, keys,   \* the tables users and api_keys
    tokens,        \* access tokens signed so far
    bucket,        \* the limiter's bucket of the address
    call,          \* what each request is doing, see Call
    arrivals,      \* requests so far
    pending,       \* audit entries on their way to the table
    admitted,      \* history: requests the bucket let through, by their reading of
                   \* the clock
    earlier,       \* history: those of the buckets evicted before it
    held,          \* history: the roles active accounts had, and when
    owed           \* history: the changes of authenticated requests whose entry is
                   \* not in audit_log yet, those apart that a fault cut off

accounts == <<users, keys, tokens, held>>
limiter  == <<bucket, admitted, earlier>>
audit    == <<pending, owed>>
vars     == <<setting, clock, accounts, limiter, audit, call, arrivals>>

-----------------------------------------------------------------------------
Role == {"viewer", "operator", "admin"}

Scope == {"analysis:read", "analysis:write", "chat:write", "admin:read", "admin:write"}

EffectiveRole(scopes) ==
    IF scopes \cap {"admin:read", "admin:write"} # {} THEN "admin"
    ELSE IF scopes \cap {"analysis:write", "chat:write"} # {} THEN "operator"
    ELSE "viewer"

UserRow == [state : {"absent", "active", "inactive", "deleted"}, role : Role]

\* Never is an expiry that does not come.
Never == MaxClock + 1

KeyRow == [state : {"absent", "live", "revoked"}, role : Role, expires : 0..Never]

NoKey == [state |-> "absent", role |-> "viewer", expires |-> Never]

\* asked: when the role was read; issued: when the token was signed.
Token == [user : User \cup {Nobody}, role : Role, asked : 0..MaxClock,
          issued : 0..MaxClock]

NoToken == [user |-> Nobody, role |-> "viewer", asked |-> 0, issued |-> 0]

Source == {"none", "open", "static", "key", "user"}

Principal == [source : Source, id : User \cup ApiKey \cup {Nobody}, role : Role]

As(source, id, role) == [source |-> source, id |-> id, role |-> role]

Unknown == As("none", Nobody, "viewer")

Step == {"idle", "arrived", "admitted", "presented", "bearing", "known",
         "running", "updating", "signing", "done"}

\* out: the ids that were locked out when it arrived and have been since;
\* skips: its path is one that needs no authentication;
\* claim: the token it presents, or the one it is being given; subject: the
\* account it is updating.
Call == [step : Step, id : 0..MaxRequests, at : 0..MaxClock,
         out : SUBSET (User \cup ApiKey), skips : BOOLEAN, effect : Effect,
         annotates : BOOLEAN, claim : Token,
         who : Principal, subject : User \cup {Nobody},
         status : {"ok", "refused", "failed"}, annotated : BOOLEAN]

Idle == [step |-> "idle", id |-> 0, at |-> 0, out |-> {}, skips |-> FALSE,
         effect |-> "answer", annotates |-> FALSE, claim |-> NoToken, who |-> Unknown, subject |-> Nobody,
         status |-> "ok", annotated |-> FALSE]

\* The kind of principal and its id stand for the name and id recorded.
Change == [id : 0..MaxRequests, source : Source, actor : User \cup ApiKey \cup {Nobody}]

Entry == [id : 0..MaxRequests, source : Source, actor : User \cup ApiKey \cup {Nobody},
          annotated : BOOLEAN]

Bucket == [tokens : Int, seen : 0..MaxClock, exists : BOOLEAN]

NoBucket == [tokens |-> 0, seen |-> 0, exists |-> FALSE]

Active(u) == users[u].state = "active"

\* Resolve: neither revoked nor expired.
Usable(k) == keys[k].state = "live" /\ clock < keys[k].expires

LockedOut == {u \in User : users[u].state \in {"inactive", "deleted"}}
             \cup {k \in ApiKey : keys[k].state = "revoked"
                                  \/ (keys[k].state = "live" /\ keys[k].expires <= clock)}

\* No credential of any kind is configured.
Open == ~setting.cookie /\ ~setting.static /\ ~setting.postgres

Configured(needs) ==
    CASE needs = "nothing"  -> TRUE
      [] needs = "sessions" -> setting.cookie
      [] needs = "postgres" -> setting.postgres

StoreFails == "store" \in Faults /\ setting.postgres

TypeOK ==
    /\ setting \in Settings
    /\ clock \in 0..MaxClock
    /\ users \in [User -> UserRow]
    /\ keys \in [ApiKey -> KeyRow]
    /\ tokens \subseteq Token
    /\ bucket \in Bucket
    /\ call \in [Slot -> Call]
    /\ arrivals \in 0..MaxRequests
    /\ pending \subseteq Entry
    /\ admitted \subseteq (0..MaxRequests) \X (0..MaxClock)
    /\ earlier \subseteq (0..MaxRequests) \X (0..MaxClock)
    /\ held \subseteq User \X Role \X (0..MaxClock)
    /\ owed \subseteq Change

Init ==
    /\ setting \in Settings
    /\ clock = 0
    /\ users \in [User -> {[state |-> "absent", role |-> "viewer"]}
                          \cup [state : {"active"}, role : Role]]
    /\ keys = [k \in ApiKey |-> NoKey]
    /\ tokens = {}
    /\ bucket = NoBucket
    /\ call = [s \in Slot |-> Idle]
    /\ arrivals = 0
    /\ pending = {} /\ owed = {}
    /\ admitted = {} /\ earlier = {}
    /\ held = {h \in User \X Role \X {0} : Active(h[1]) /\ users[h[1]].role = h[2]}

-----------------------------------------------------------------------------
(* Steps of a request.                                                      *)

Become(s, c) == call' = [call EXCEPT ![s] = c]

At(s, step) == call[s].step = step

Answered(s, status, annotated) ==
    Become(s, [Idle EXCEPT !.step = "done", !.id = call[s].id, !.who = call[s].who,
                           !.status = status, !.annotated = annotated])

\* An answer given outside the audit middleware.
TurnedAway(s) == Become(s, Idle)

\* rateLimiter.Allow reads the clock before it takes the lock.
Arrive(s) ==
    /\ At(s, "idle") /\ arrivals < MaxRequests
    /\ arrivals' = arrivals + 1
    /\ Become(s, [Idle EXCEPT !.step = "arrived", !.id = arrivals + 1, !.at = clock,
                              !.out = LockedOut])
    /\ UNCHANGED <<setting, clock, accounts, limiter, audit>>

\* The cap left out.
Uncapped(n) == n

Capped(n) == IF n > Burst THEN Burst ELSE n

\* The bucket with what it gained since it was last seen: less than nothing
\* when another request with a later reading was quicker.
Refilled(b, now) ==
    [tokens |-> IF b.exists THEN Capped(b.tokens + (now - b.seen) * PerTick) ELSE Burst,
     seen |-> now, exists |-> TRUE]

\* The bucket may have been evicted, when there are many of other addresses
\* and one of them is looked at.
Kept(b) == {b} \cup IF b.exists /\ clock - b.seen > EvictAfter THEN {NoBucket} ELSE {}

\* A new bucket starts a new count.
Since(kept) == IF kept.exists THEN admitted ELSE {}

\* Without a limiter, or an address to tell the client by, all pass.
Limit(s) ==
    /\ At(s, "arrived")
    /\ \/ Become(s, [call[s] EXCEPT !.step = "admitted"]) /\ UNCHANGED limiter
       \/ /\ setting.limit
          /\ \E kept \in Kept(bucket) :
               LET b == Refilled(kept, call[s].at)
               IN  /\ earlier' = IF kept.exists THEN earlier ELSE earlier \cup admitted
                   /\ IF b.tokens >= 1
                      THEN /\ bucket' = [b EXCEPT !.tokens = @ - 1]
                           /\ admitted' = Since(kept) \cup {<<call[s].id, call[s].at>>}
                           /\ Become(s, [call[s] EXCEPT !.step = "admitted"])
                      ELSE bucket' = b /\ TurnedAway(s) /\ admitted' = Since(kept)
    /\ UNCHANGED <<setting, clock, accounts, audit, arrivals>>

\* The expiry is not looked at.
ValidForever(t) == TRUE

\* Parse: signed here, and not expired.
Valid(t) == clock < t.issued + AccessTTL

\* authMiddleware up to the lookup of the account.
Present(s) ==
    /\ At(s, "admitted")
    /\ \/ Open /\ Become(s, [call[s] EXCEPT !.step = "known",
                                           !.who = As("open", Nobody, "operator")])
       \/ ~Open /\ Become(s, [call[s] EXCEPT !.step = "known", !.skips = TRUE])
       \/ /\ ~Open /\ setting.cookie
          /\ \E t \in tokens :
               Valid(t) /\ Become(s, [call[s] EXCEPT !.step = "presented", !.claim = t])
       \/ ~Open /\ Become(s, [call[s] EXCEPT !.step = "bearing"])
    /\ UNCHANGED <<setting, clock, accounts, limiter, audit, arrivals>>

\* The flag of the account is not looked at.
WelcomeInactive(u) == users[u].state \in {"active", "inactive"}

Welcome(u) == Active(u)

\* resolveCookie: an account that is gone, inactive or cannot be read leaves
\* the request to its bearer token.
FindUser(s) ==
    /\ At(s, "presented")
    /\ LET t == call[s].claim
       IN  \/ /\ Welcome(t.user)
              /\ Become(s, [call[s] EXCEPT !.step = "known",
                                           !.who = As("user", t.user, t.role)])
           \/ /\ ~Welcome(t.user) \/ StoreFails
              /\ Become(s, [call[s] EXCEPT !.step = "bearing", !.claim = NoToken])
    /\ UNCHANGED <<setting, clock, accounts, limiter, audit, arrivals>>

\* A static key, then a key of the table; what is none of them is refused.
Bear(s) ==
    /\ At(s, "bearing")
    /\ \/ \E role \in {"operator", "admin"} :
            /\ setting.static
            /\ Become(s, [call[s] EXCEPT !.step = "known",
                                         !.who = As("static", Nobody, role)])
       \/ \E k \in ApiKey :
            /\ setting.postgres /\ Usable(k)
            /\ Become(s, [call[s] EXCEPT !.step = "known",
                                         !.who = As("key", k, keys[k].role)])
       \/ TurnedAway(s)
    /\ UNCHANGED <<setting, clock, accounts, limiter, audit, arrivals>>

\* RequireRole, and the check of the handlers of a user's own account.
Allowed(guard, who) ==
    CASE guard \in {"skipped", "none"} -> TRUE
      [] guard = "reader" -> who.source # "none"
      [] guard = "own"    -> who.source = "user"
      [] guard = "writer" -> who.source # "none" /\ who.role \in {"operator", "admin"}
      [] guard = "admin"  -> who.source # "none" /\ who.role = "admin"

\* shouldSkipAuthentication, by the path: always, or for one that is configured.
Skippable(r) == r.guard = "skipped" \/ r.name \in setting.exempt

\* csrfMiddleware is outside the audit, requireConfigured and RequireRole are
\* inside.
Dispatch(s) ==
    /\ At(s, "known")
    /\ \E r \in Routes :
         LET who  == call[s].who
             goes == Configured(r.needs) /\ Allowed(r.guard, who)
         IN  /\ r.guard = "skipped" => Open \/ call[s].skips
             /\ call[s].skips => Skippable(r)
             /\ \/ r.unsafe /\ who.source = "user" /\ TurnedAway(s)
                \/ ~goes /\ Answered(s, "refused", FALSE)
                \/ goes /\ Become(s, [call[s] EXCEPT !.step = "running", !.effect = r.effect,
                                                     !.annotates = r.annotates])
    /\ UNCHANGED <<setting, clock, accounts, limiter, audit, arrivals>>

-----------------------------------------------------------------------------
(* Handlers.                                                                *)

Runs(s, effects) == At(s, "running") /\ call[s].effect \in effects

ChangeOf(s) == [id |-> call[s].id, source |-> call[s].who.source,
                actor |-> call[s].who.id]

Changed(s) == owed' = IF call[s].who.source = "none" \/ ~setting.postgres THEN owed
                      ELSE owed \cup {ChangeOf(s)}

\* A fault ends the requests or entries of these ids.
CutOff(ids) == {c \in owed : c.id \notin ids}

\* Body, parameters and the rules of the use case.  A login that is refused is
\* annotated.
Refuse(s) ==
    /\ At(s, "running") /\ ~Runs(s, {"answer", "logout"})
    /\ Answered(s, "refused", call[s].effect = "login" /\ call[s].annotates)
    /\ UNCHANGED <<setting, clock, accounts, limiter, audit, arrivals>>

\* A statement, a provider or the deadline of the request fails.
Fail(s) ==
    /\ \/ At(s, "running") /\ ~Runs(s, {"answer", "logout"})
       \/ At(s, "updating") \/ At(s, "signing")
    /\ Answered(s, IF call[s].effect = "stream" THEN "ok" ELSE "failed", FALSE)
    /\ UNCHANGED <<setting, clock, accounts, limiter, audit, arrivals>>

\* A logout without a refresh cookie changes nothing.
Answer(s) ==
    /\ \/ Runs(s, {"answer", "read", "logout"}) \/ At(s, "updating")
    /\ Answered(s, "ok", call[s].annotates)
    /\ UNCHANGED <<setting, clock, accounts, limiter, audit, arrivals>>

\* What else the handler calls may fail after something was changed.
Write(s) ==
    /\ Runs(s, {"write", "stream", "logout"})
    /\ Changed(s)
    /\ LET effect == call[s].effect
       IN  \E good \in BOOLEAN :
             Answered(s, IF good \/ effect # "write" THEN "ok" ELSE "failed",
                      call[s].annotates /\ (good \/ effect = "logout"))
    /\ UNCHANGED <<setting, clock, accounts, limiter, pending, arrivals>>

\* Login, Refresh and tryBootstrapAdminLogin read the account ...
LogIn(s) ==
    /\ Runs(s, {"login", "bootstrap"})
    /\ \E u \in User :
         /\ Active(u) /\ (Runs(s, {"bootstrap"}) => users[u].role = "admin")
         /\ Become(s, [call[s] EXCEPT !.step = "signing",
                        !.claim = [user |-> u, role |-> users[u].role,
                                   asked |-> clock, issued |-> clock]])
    /\ UNCHANGED <<setting, clock, accounts, limiter, audit, arrivals>>

\* ... and sign a token from what they read.
Sign(s) ==
    /\ At(s, "signing") /\ Cardinality(tokens) < MaxTokens
    /\ tokens' = tokens \cup {[call[s].claim EXCEPT !.issued = clock]}
    /\ Answered(s, "ok", call[s].annotates)
    /\ UNCHANGED <<setting, clock, users, keys, held, limiter, audit, arrivals>>

SetUser(u, row) ==
    /\ users' = [users EXCEPT ![u] = row]
    /\ held' = held \cup (IF row.state = "active" THEN {<<u, row.role, clock>>} ELSE {})

\* Setup may be incomplete whatever accounts there are.
BootstrapAdmin(s) ==
    /\ Runs(s, {"bootstrap"})
    /\ \E u \in User :
         /\ users[u].state = "absent"
         /\ SetUser(u, [state |-> "active", role |-> "admin"])
         /\ Become(s, [call[s] EXCEPT !.step = "signing",
                        !.claim = [user |-> u, role |-> "admin",
                                   asked |-> clock, issued |-> clock]])
    /\ Changed(s)
    /\ UNCHANGED <<setting, clock, keys, tokens, limiter, pending, arrivals>>

CreateUser(s) ==
    /\ Runs(s, {"user"})
    /\ \E u \in User, role \in Role :
         /\ users[u].state = "absent"
         /\ SetUser(u, [state |-> "active", role |-> role])
    /\ Changed(s)
    /\ Answered(s, "ok", TRUE)
    /\ UNCHANGED <<setting, clock, keys, tokens, limiter, pending, arrivals>>

Exists(u) == users[u].state \in {"active", "inactive"}

\* applyUserUpdate changes the role first ...
UpdateRole(s) ==
    /\ Runs(s, {"user"})
    /\ \E u \in User, role \in Role :
         /\ Exists(u)
         /\ SetUser(u, [users[u] EXCEPT !.role = role])
         /\ Become(s, [call[s] EXCEPT !.step = "updating", !.subject = u])
    /\ Changed(s)
    /\ UNCHANGED <<setting, clock, keys, tokens, limiter, pending, arrivals>>

\* ... and then the flag; what comes after it may fail.  Who is active again is
\* not locked out any more.
SetActive(s) ==
    /\ \/ Runs(s, {"user"}) \/ At(s, "updating")
    /\ \E u \in User, state \in {"active", "inactive"} :
         /\ Exists(u)
         /\ At(s, "updating") => u = call[s].subject
         /\ SetUser(u, [users[u] EXCEPT !.state = state])
         /\ \E good \in BOOLEAN :
              call' = [c \in Slot |->
                IF c = s THEN [Idle EXCEPT !.step = "done", !.id = call[s].id,
                                 !.who = call[s].who, !.annotated = good,
                                 !.status = IF good THEN "ok" ELSE "failed"]
                ELSE [call[c] EXCEPT !.out = IF state = "active" THEN @ \ {u} ELSE @]]
    /\ Changed(s)
    /\ UNCHANGED <<setting, clock, keys, tokens, limiter, pending, arrivals>>

DeleteUser(s) ==
    /\ Runs(s, {"user"})
    /\ \E u \in User : Exists(u) /\ SetUser(u, [users[u] EXCEPT !.state = "deleted"])
    /\ Changed(s)
    /\ Answered(s, "ok", TRUE)
    /\ UNCHANGED <<setting, clock, keys, tokens, limiter, pending, arrivals>>

\* Issue: some scope, and an expiry to come if any.
IssueKey(s) ==
    /\ Runs(s, {"key"})
    /\ \E k \in ApiKey, scopes \in (SUBSET Scope) \ {{}},
          expires \in {clock + 1, Never} :
         /\ keys[k].state = "absent"
         /\ keys' = [keys EXCEPT ![k] = [state |-> "live", role |-> EffectiveRole(scopes),
                                         expires |-> expires]]
    /\ Changed(s)
    /\ Answered(s, "ok", TRUE)
    /\ UNCHANGED <<setting, clock, users, tokens, held, limiter, pending, arrivals>>

\* A key that is revoked already, or unknown, is answered the same.
RevokeKey(s) ==
    /\ Runs(s, {"key"})
    /\ \/ \E k \in ApiKey :
            /\ keys[k].state = "live"
            /\ keys' = [keys EXCEPT ![k].state = "revoked"]
            /\ Changed(s)
       \/ UNCHANGED <<keys, owed>>
    /\ Answered(s, "ok", TRUE)
    /\ UNCHANGED <<setting, clock, users, tokens, held, limiter, pending, arrivals>>

-----------------------------------------------------------------------------
(* The audit entry, and what else happens.                                  *)

\* Only what went well is worth an entry.
AuditedOnSuccess(c) == c.who.source # "none" /\ setting.postgres /\ c.status = "ok"

\* auditMiddleware: the request had a principal, and there is a table.
Audited(c) == c.who.source # "none" /\ setting.postgres

\* With a timeout the handler annotates a copy of the request.
Audit(s) ==
    /\ At(s, "done")
    /\ pending' = IF Audited(call[s])
                  THEN pending \cup {[id |-> call[s].id, source |-> call[s].who.source,
                                      actor |-> call[s].who.id,
                                      annotated |-> call[s].annotated /\ ~setting.timeout]}
                  ELSE pending
    /\ TurnedAway(s)
    /\ UNCHANGED <<setting, clock, accounts, limiter, owed, arrivals>>

Append(e) ==
    /\ e \in pending
    /\ pending' = pending \ {e}
    /\ owed' = owed \ {[id |-> e.id, source |-> e.source, actor |-> e.actor]}
    /\ UNCHANGED <<setting, clock, accounts, limiter, call, arrivals>>

\* The failure is logged and the entry dropped.
AppendFails(e) ==
    /\ StoreFails /\ e \in pending
    /\ pending' = pending \ {e}
    /\ owed' = CutOff({e.id})
    /\ UNCHANGED <<setting, clock, accounts, limiter, call, arrivals>>

\* recoverMiddleware answers; it is outside the audit.
Panic(s) ==
    /\ "panic" \in Faults /\ call[s].step \in {"running", "updating", "signing"}
    /\ owed' = CutOff({call[s].id})
    /\ TurnedAway(s)
    /\ UNCHANGED <<setting, clock, accounts, limiter, pending, arrivals>>

\* The process ends and starts again over the same tables.
Crash ==
    /\ "crash" \in Faults /\ setting.postgres
    /\ owed' = CutOff({e.id : e \in pending} \cup {call[s].id : s \in Slot})
    /\ pending' = {}
    /\ call' = [s \in Slot |-> Idle]
    /\ bucket' = NoBucket /\ admitted' = {} /\ earlier' = {}
    /\ UNCHANGED <<setting, clock, accounts, arrivals>>

\* No request waits longer than MaxDelay for the limiter's lock.
Tick ==
    /\ clock < setting.until
    /\ \A s \in Slot : At(s, "arrived") => clock < call[s].at + MaxDelay
    /\ clock' = clock + 1
    /\ held' = held \cup {h \in User \X Role \X {clock + 1} :
                            Active(h[1]) /\ users[h[1]].role = h[2]}
    /\ UNCHANGED <<setting, users, keys, tokens, limiter, audit, call, arrivals>>

Middleware(s) == Arrive(s) \/ Limit(s) \/ Present(s) \/ FindUser(s) \/ Bear(s)
                 \/ Dispatch(s) \/ Audit(s)

Handle(s) == \/ Refuse(s) \/ Fail(s) \/ Answer(s) \/ Write(s)
             \/ LogIn(s) \/ Sign(s) \/ BootstrapAdmin(s)
             \/ CreateUser(s) \/ UpdateRole(s) \/ SetActive(s) \/ DeleteUser(s)
             \/ IssueKey(s) \/ RevokeKey(s) \/ Panic(s)

Next ==
    \/ \E s \in Slot : Middleware(s) \/ Handle(s)
    \/ \E e \in pending : Append(e) \/ AppendFails(e)
    \/ Crash
    \/ Tick

Spec == Init /\ [][Next]_vars

-----------------------------------------------------------------------------
(* Properties.                                                              *)

\* The requests a handler is running for.
Handled(s) == call[s].step \in {"running", "updating", "signing"}

\* A request that arrived after its account was deactivated or deleted, or its
\* API key revoked or expired, is handled for nobody, whatever was changed
\* while it passed through authMiddleware and however long its access token
\* has to live.
LockedOutIsRefused == \A s \in Slot : Handled(s) => call[s].who.id \notin call[s].out

\* A user's request is handled under a role the account had while it was
\* active, read for a token that had not expired when the request arrived:
\* role changes take effect with the next token, no later (resolveCookie takes
\* the role of the claims).
RoleIsRecent ==
    \A s \in Slot :
      Handled(s) /\ call[s].who.source = "user" =>
        /\ <<call[s].who.id, call[s].who.role, call[s].claim.asked>> \in held
        /\ call[s].claim.asked <= call[s].claim.issued
        /\ call[s].at < call[s].claim.issued + AccessTTL

\* In any stretch of time a bucket lets no more requests through than it holds
\* and gains in it, although requests read the clock before they take the lock.
\* A new one, which starts full, comes only after the address was idle: whatever
\* the evicted buckets let through came before what it lets through by the idle
\* time, less twice the wait for the lock (rateLimiter.Allow, evictStale).
RateHolds ==
    /\ \A from, to \in 0..MaxClock :
         from <= to =>
           Cardinality({a \in admitted : a[2] \in from..to}) <= Burst + PerTick * (to - from)
    /\ \A a \in earlier, b \in admitted : b[2] - a[2] > EvictAfter - 2 * MaxDelay

\* Whatever an authenticated request changed will be in the audit log under
\* its principal, unless a panic, a crash or a failing insert cuts it off: as
\* long as it is not there, the request is still running or its entry is on its
\* way - also when the change was followed by an error (auditMiddleware).
ChangeIsLogged ==
    \A c \in owed :
      \/ \E s \in Slot : ~At(s, "idle") /\ ChangeOf(s) = c
      \/ \E e \in pending : e.id = c.id /\ e.source = c.source /\ e.actor = c.actor

\* An annotation left by the handler is part of the entry.
AnnotationsKept ==
    [][\A s \in Slot :
         At(s, "done") /\ call[s].annotated =>
           \A e \in pending' \ pending : e.id = call[s].id => e.annotated]_vars
=============================================================================
