------------------------- MODULE HttpGatewayProofs -------------------------
(***************************************************************************)
(* For any accounts, API keys, deployments and rates, whatever is sent and  *)
(* whatever fails: who is locked out is refused, a user's role is one it    *)
(* had, changes are logged and the rate limit holds.                        *)
(***************************************************************************)
EXTENDS HttpGateway, FiniteSetTheorems, TLAPS

-----------------------------------------------------------------------------
(* Routes *)

\* Handlers that sign no token, and those that do: the latter are served
\* without authentication.
SignsNothing(handlers) ==
    \A h \in handlers : h.annotates \in BOOLEAN /\ h.effect \in Effect \ {"login", "bootstrap"}

LEMMA RouteTypes ==
    \A r \in Routes : /\ r.effect \in Effect /\ r.annotates \in BOOLEAN
                      /\ r.effect \in {"login", "bootstrap"} => r.guard = "skipped"
<1>1. \A names, effect, annotates :
         \A h \in Handlers(names, effect, annotates) : h.effect = effect /\ h.annotates = annotates
  BY DEF Handlers
<1>2. ASSUME NEW handlers, NEW needs, NEW guard, NEW unsafe,
             NEW r \in Routed(handlers, needs, guard, unsafe)
      PROVE  /\ r.guard = guard
             /\ \E h \in handlers : r.effect = h.effect /\ r.annotates = h.annotates
  BY <1>2 DEF Routed
<1> DEFINE Fine(r) == /\ r.effect \in Effect /\ r.annotates \in BOOLEAN
                      /\ r.effect \in {"login", "bootstrap"} => r.guard = "skipped"
<1>3. ASSUME NEW handlers, SignsNothing(handlers), NEW needs, NEW guard, NEW unsafe,
             NEW r \in Routed(handlers, needs, guard, unsafe)
      PROVE  Fine(r)
  BY <1>2, <1>3 DEF SignsNothing
<1>4. ASSUME NEW handlers, NEW needs, NEW unsafe,
             \A h \in handlers : h.annotates \in BOOLEAN /\ h.effect \in Effect,
             NEW r \in Routed(handlers, needs, "skipped", unsafe)
      PROVE  Fine(r)
  BY <1>2, <1>4
<1>5. \A hs, gs : SignsNothing(hs) /\ SignsNothing(gs) => SignsNothing(hs \cup gs)
  BY DEF SignsNothing
<1>6. ASSUME NEW names, NEW effect \in Effect, NEW annotates \in BOOLEAN,
             NEW h \in Handlers(names, effect, annotates)
      PROVE  h.annotates \in BOOLEAN /\ h.effect \in Effect
  BY <1>1
<1>7. ASSUME NEW names, NEW effect \in Effect \ {"login", "bootstrap"}, NEW annotates \in BOOLEAN
      PROVE  SignsNothing(Handlers(names, effect, annotates))
  BY <1>1 DEF SignsNothing
<1>8. /\ SignsNothing(Probes) /\ SignsNothing(Unrouted)
      /\ SignsNothing(JobReads) /\ SignsNothing(AnalysisReads) /\ SignsNothing(History)
      /\ SignsNothing(Telemetry) /\ SignsNothing(Submission) /\ SignsNothing(Cancellation)
      /\ SignsNothing(Feedback) /\ SignsNothing(Regeneration) /\ SignsNothing(Logout)
      /\ SignsNothing(OwnSessions) /\ SignsNothing(OwnKeys) /\ SignsNothing(AuditReads)
      /\ SignsNothing(Deletion) /\ SignsNothing(ProviderTypes)
  BY <1>5, <1>7 DEF Effect, Probes, Unrouted, JobReads, AnalysisReads, History, Telemetry,
     Submission, Cancellation, Feedback, Regeneration, Logout, OwnSessions, OwnKeys, AuditReads,
     Deletion, ProviderTypes
<1>9. /\ SignsNothing(Questions) /\ SignsNothing(OwnProfile) /\ SignsNothing(OwnPreferences)
      /\ SignsNothing(UserAdministration) /\ SignsNothing(KeyAdministration)
      /\ SignsNothing(WebhookAdministration) /\ SignsNothing(Retention)
      /\ SignsNothing(DeliveryAdministration) /\ SignsNothing(ProviderAdministration)
      /\ SignsNothing(LLMAdministration)
  BY <1>5, <1>7 DEF Effect, Questions, OwnProfile, OwnPreferences, UserAdministration,
     KeyAdministration, WebhookAdministration, Retention, DeliveryAdministration,
     ProviderAdministration, LLMAdministration
<1>10. \A hs : SignsNothing(hs) => SignsNothing(Reading(hs)) /\ SignsNothing(Other(hs))
  BY DEF SignsNothing, Reading, Other
<1> HIDE DEF Fine
<1>11. \A r \in OperationalRoutes : Fine(r)
  BY <1>3, <1>8 DEF OperationalRoutes
<1>12. \A r \in AnalysisRoutes : Fine(r)
  <2>1. /\ SignsNothing(JobReads \cup AnalysisReads \cup History)
        /\ SignsNothing(Submission \cup Cancellation \cup Questions \cup Feedback \cup Regeneration)
    BY <1>8, <1>5, <1>9
  <2> QED
    BY <1>3, <1>8, <2>1 DEF AnalysisRoutes
<1>13. \A r \in SessionRoutes : Fine(r)
  <2>1. \A h \in Setup \cup Logins \cup Refreshes : h.annotates \in BOOLEAN /\ h.effect \in Effect
    BY <1>6 DEF Setup, Logins, Refreshes, Effect
  <2>2. \A h \in Reading(Setup) \cup (Other(Setup) \cup Logins \cup Refreshes) :
           h.annotates \in BOOLEAN /\ h.effect \in Effect
    BY <2>1 DEF Reading, Other
  <2>3. /\ SignsNothing(Reading(OwnProfile \cup OwnPreferences \cup OwnSessions))
        /\ SignsNothing(Other(OwnProfile \cup OwnPreferences))
    BY <1>8, <1>5, <1>9, <1>10
  <2>4. \A r \in Routed(Reading(Setup), "sessions", "skipped", FALSE) : Fine(r)
    BY <1>4, <2>2
  <2>5. \A r \in Routed(Other(Setup) \cup Logins \cup Refreshes, "sessions", "skipped", TRUE) : Fine(r)
    BY <1>4, <2>2
  <2> QED
    BY <1>3, <1>8, <2>3, <2>4, <2>5 DEF SessionRoutes
<1>14. \A r \in AdminRoutes : Fine(r)
  <2> DEFINE stored == KeyAdministration \cup WebhookAdministration \cup AuditReads
                       \cup Retention \cup DeliveryAdministration
                       \cup ProviderAdministration \cup LLMAdministration
  <2>1. SignsNothing(stored)
    BY <1>8, <1>5, <1>9
  <2> HIDE DEF stored
  <2>2. /\ SignsNothing(Reading(stored)) /\ SignsNothing(Other(stored))
        /\ SignsNothing(Reading(UserAdministration)) /\ SignsNothing(Other(UserAdministration))
    BY <1>9, <1>10, <2>1
  <2>3. AdminRoutes = Routed(Reading(stored), "postgres", "admin", FALSE)
                      \cup Routed(Other(stored), "postgres", "admin", TRUE)
                      \cup Routed(Deletion, "postgres", "writer", TRUE)
                      \cup Routed(Reading(UserAdministration), "sessions", "admin", FALSE)
                      \cup Routed(Other(UserAdministration), "sessions", "admin", TRUE)
                      \cup Routed(ProviderTypes, "nothing", "admin", FALSE)
    BY DEF AdminRoutes, stored
  <2> QED
    BY <1>3, <1>8, <2>2, <2>3
<1> QED
  BY <1>11, <1>12, <1>13, <1>14 DEF Routes, Fine

-----------------------------------------------------------------------------
(* How a request goes on *)

Arrived(id, at, out) == [Idle EXCEPT !.step = "arrived", !.id = id, !.at = at, !.out = out]

Stepped(c, step) == [c EXCEPT !.step = step]

Named(c, who) == [c EXCEPT !.step = "known", !.who = who]

Skipping(c) == [c EXCEPT !.step = "known", !.skips = TRUE]

Claiming(c, step, t) == [c EXCEPT !.step = step, !.claim = t]

Running(c, r) ==
    [c EXCEPT !.step = "running", !.effect = r.effect, !.annotates = r.annotates]

Updating(c, u) == [c EXCEPT !.step = "updating", !.subject = u]

Done(c, status, annotated) ==
    [Idle EXCEPT !.step = "done", !.id = c.id, !.who = c.who, !.status = status,
                 !.annotated = annotated]

\* What stays as it was when it arrived.
SameArrival(d, c) == d.id = c.id /\ d.at = c.at /\ d.out = c.out

LEMMA IdleType == Idle \in Call /\ Unknown \in Principal /\ NoToken \in Token
<1>1. 0 \in 0..MaxRequests /\ 0 \in 0..MaxClock
  BY HttpGatewayAssumption
<1>2. Unknown \in Principal /\ NoToken \in Token
  BY <1>1 DEF Unknown, As, Principal, Source, Role, NoToken, Token
<1> QED
  BY <1>1, <1>2 DEF Idle, Call, Step, Effect

LEMMA ArrivedForm ==
    ASSUME NEW id \in 0..MaxRequests, NEW at \in 0..MaxClock, NEW out \in SUBSET (User \cup ApiKey)
    PROVE  /\ Arrived(id, at, out) \in Call
           /\ Arrived(id, at, out).step = "arrived" /\ Arrived(id, at, out).id = id
           /\ Arrived(id, at, out).at = at /\ Arrived(id, at, out).out = out
           /\ Arrived(id, at, out).who = Unknown /\ ~Arrived(id, at, out).skips
  BY IdleType DEF Arrived, Idle, Call, Step, Effect

LEMMA SteppedForm ==
    ASSUME NEW c \in Call, NEW step \in Step
    PROVE  /\ Stepped(c, step) \in Call
           /\ Stepped(c, step).step = step /\ SameArrival(Stepped(c, step), c)
           /\ Stepped(c, step).who = c.who /\ Stepped(c, step).claim = c.claim
           /\ Stepped(c, step).skips = c.skips
  BY DEF Stepped, Call, SameArrival

LEMMA NamedForm ==
    ASSUME NEW c \in Call, NEW who \in Principal
    PROVE  /\ Named(c, who) \in Call
           /\ Named(c, who).step = "known" /\ SameArrival(Named(c, who), c)
           /\ Named(c, who).who = who /\ Named(c, who).claim = c.claim
           /\ Named(c, who).skips = c.skips
  BY DEF Named, Call, SameArrival, Step

LEMMA SkippingForm ==
    ASSUME NEW c \in Call
    PROVE  /\ Skipping(c) \in Call
           /\ Skipping(c).step = "known" /\ SameArrival(Skipping(c), c)
           /\ Skipping(c).who = c.who /\ Skipping(c).skips
  BY DEF Skipping, Call, SameArrival, Step

LEMMA ClaimingForm ==
    ASSUME NEW c \in Call, NEW step \in Step, NEW t \in Token
    PROVE  /\ Claiming(c, step, t) \in Call
           /\ Claiming(c, step, t).step = step /\ SameArrival(Claiming(c, step, t), c)
           /\ Claiming(c, step, t).who = c.who /\ Claiming(c, step, t).claim = t
           /\ Claiming(c, step, t).skips = c.skips
  BY DEF Claiming, Call, SameArrival

LEMMA RunningForm ==
    ASSUME NEW c \in Call, NEW r \in Routes
    PROVE  /\ Running(c, r) \in Call
           /\ Running(c, r).step = "running" /\ SameArrival(Running(c, r), c)
           /\ Running(c, r).who = c.who /\ Running(c, r).claim = c.claim
           /\ Running(c, r).skips = c.skips /\ Running(c, r).effect = r.effect
<1>1. r.effect \in Effect /\ r.annotates \in BOOLEAN
  BY RouteTypes
<1> QED
  BY <1>1 DEF Running, Call, SameArrival, Step

LEMMA UpdatingForm ==
    ASSUME NEW c \in Call, NEW u \in User
    PROVE  /\ Updating(c, u) \in Call
           /\ Updating(c, u).step = "updating" /\ SameArrival(Updating(c, u), c)
           /\ Updating(c, u).who = c.who /\ Updating(c, u).claim = c.claim
           /\ Updating(c, u).skips = c.skips
  BY DEF Updating, Call, SameArrival, Step

LEMMA DoneForm ==
    ASSUME NEW c \in Call, NEW status \in {"ok", "refused", "failed"}, NEW annotated \in BOOLEAN
    PROVE  /\ Done(c, status, annotated) \in Call
           /\ Done(c, status, annotated).step = "done" /\ Done(c, status, annotated).id = c.id
           /\ Done(c, status, annotated).who = c.who
           /\ Done(c, status, annotated).at = 0 /\ Done(c, status, annotated).out = {}
<1>1. c.id \in 0..MaxRequests /\ c.who \in Principal
  BY DEF Call
<1>2. Done(c, status, annotated) \in Call
  BY <1>1, IdleType DEF Done, Call, Step
<1>3. /\ Done(c, status, annotated).step = "done" /\ Done(c, status, annotated).id = c.id
      /\ Done(c, status, annotated).who = c.who
      /\ Done(c, status, annotated).at = 0 /\ Done(c, status, annotated).out = {}
  BY DEF Done, Idle
<1> QED
  BY <1>2, <1>3

LEMMA Becomes ==
    ASSUME TypeOK, NEW s \in Slot, NEW c, Become(s, c)
    PROVE  /\ call'[s] = c /\ \A q \in Slot : q # s => call'[q] = call[q]
           /\ c \in Call => call' \in [Slot -> Call]
  BY DEF TypeOK, Become

\* What a token, a principal and a row are made of.
LEMMA Parts ==
    ASSUME TypeOK
    PROVE  /\ setting.until \in 0..MaxClock /\ setting.timeout \in BOOLEAN
           /\ clock \in Nat /\ clock <= MaxClock /\ MaxClock \in Nat /\ MaxRequests \in Nat
           /\ \A u \in User : users[u] \in UserRow /\ users[u].role \in Role
           /\ \A k \in ApiKey : keys[k] \in KeyRow /\ keys[k].role \in Role
           /\ \A s \in Slot :
                 /\ call[s] \in Call /\ call[s].id \in 0..MaxRequests /\ call[s].at \in 0..MaxClock
                 /\ call[s].who \in Principal /\ call[s].claim \in Token
                 /\ call[s].annotates \in BOOLEAN /\ call[s].annotated \in BOOLEAN
           /\ LockedOut \subseteq User \cup ApiKey
           /\ \A t \in tokens : t \in Token
<1>1. setting.until \in 0..MaxClock /\ setting.timeout \in BOOLEAN
  BY HttpGatewayAssumption DEF TypeOK
<1>2. clock \in Nat /\ clock <= MaxClock /\ MaxClock \in Nat /\ MaxRequests \in Nat
  BY HttpGatewayAssumption DEF TypeOK
<1>3. /\ \A u \in User : users[u] \in UserRow
      /\ \A k \in ApiKey : keys[k] \in KeyRow
      /\ \A s \in Slot : call[s] \in Call
  BY DEF TypeOK
<1>4. \A s \in Slot :
         /\ call[s].id \in 0..MaxRequests /\ call[s].at \in 0..MaxClock
         /\ call[s].who \in Principal /\ call[s].claim \in Token
         /\ call[s].annotates \in BOOLEAN /\ call[s].annotated \in BOOLEAN
  BY <1>3 DEF Call
<1>5. /\ \A u \in User : users[u].role \in Role
      /\ \A k \in ApiKey : keys[k].role \in Role
  BY <1>3 DEF UserRow, KeyRow
<1>6. LockedOut \subseteq User \cup ApiKey
  BY DEF LockedOut
<1> QED
  BY <1>1, <1>2, <1>3, <1>4, <1>5, <1>6 DEF TypeOK

-----------------------------------------------------------------------------
(* Types *)

\* A request goes on and nothing else happens.
LEMMA OnlyCall ==
    ASSUME TypeOK, NEW s \in Slot, NEW c \in Call, Become(s, c),
           UNCHANGED <<setting, clock, accounts, limiter, audit, arrivals>>
    PROVE  TypeOK'
  BY Becomes DEF TypeOK, accounts, limiter, audit

LEMMA ChangedType ==
    ASSUME TypeOK, NEW s \in Slot, Changed(s)
    PROVE  owed' \subseteq Change
<1>1. ChangeOf(s) \in Change
  BY Parts DEF ChangeOf, Change, Principal
<1> QED
  BY <1>1 DEF Changed, TypeOK

LEMMA SetUserType ==
    ASSUME TypeOK, NEW u \in User, NEW row \in UserRow, SetUser(u, row)
    PROVE  users' \in [User -> UserRow] /\ held' \subseteq User \X Role \X (0..MaxClock)
<1>1. row.role \in Role /\ clock \in 0..MaxClock
  BY DEF UserRow, TypeOK
<1> QED
  BY <1>1 DEF SetUser, TypeOK

\* An answer and what was changed before it.
LEMMA AnswersType ==
    ASSUME TypeOK, NEW s \in Slot, NEW status \in {"ok", "refused", "failed"},
           NEW annotated \in BOOLEAN, Answered(s, status, annotated)
    PROVE  call' \in [Slot -> Call]
  BY Becomes, DoneForm, Parts DEF Answered, Done

LEMMA InitType == Init => TypeOK
<1>1. \A role \in Role : [state |-> "active", role |-> role] \in UserRow
  BY DEF UserRow
<1>2. [state : {"active"}, role : Role] \subseteq UserRow
  BY DEF UserRow
<1>3. [state |-> "absent", role |-> "viewer"] \in UserRow
  BY DEF UserRow, Role
<1>4. NoKey \in KeyRow /\ NoBucket \in Bucket /\ 0 \in 0..MaxClock /\ 0 \in 0..MaxRequests
  BY HttpGatewayAssumption DEF NoKey, KeyRow, NoBucket, Bucket, Never, Role
<1> QED
  BY <1>2, <1>3, <1>4, IdleType DEF Init, TypeOK

LEMMA NextType == TypeOK /\ [Next]_vars => TypeOK'
<1> SUFFICES ASSUME TypeOK, [Next]_vars PROVE TypeOK'
  OBVIOUS
<1> USE Parts, IdleType
<1> DEFINE status == {"ok", "refused", "failed"}
<1>1. ASSUME NEW s \in Slot, Arrive(s) PROVE TypeOK'
  <2>1. arrivals + 1 \in 0..MaxRequests
    BY <1>1 DEF Arrive, TypeOK
  <2>2. Arrived(arrivals + 1, clock, LockedOut) \in Call
    BY <2>1, ArrivedForm DEF TypeOK
  <2> QED
    BY <1>1, <2>1, <2>2, Becomes DEF Arrive, Arrived, TypeOK, accounts, limiter, audit
<1>2. ASSUME NEW s \in Slot, Limit(s) PROVE TypeOK'
  <2>1. Stepped(call[s], "admitted") \in Call
    BY SteppedForm DEF Step
  <2>2. CASE Become(s, Stepped(call[s], "admitted")) /\ UNCHANGED limiter
    BY <1>2, <2>1, <2>2, OnlyCall DEF Limit, limiter
  <2>3. CASE ~(Become(s, Stepped(call[s], "admitted")) /\ UNCHANGED limiter)
    <3>1. PICK kept \in Kept(bucket) :
             LET b == Refilled(kept, call[s].at)
             IN  /\ earlier' = IF kept.exists THEN earlier ELSE earlier \cup admitted
                 /\ \/ /\ bucket' = [b EXCEPT !.tokens = @ - 1]
                       /\ admitted' = Since(kept) \cup {<<call[s].id, call[s].at>>}
                       /\ Become(s, Stepped(call[s], "admitted"))
                    \/ bucket' = b /\ Become(s, Idle) /\ admitted' = Since(kept)
      BY <1>2, <2>3 DEF Limit, Stepped, TurnedAway
    <3>2. kept \in Bucket
      <4>1. NoBucket \in Bucket
        BY HttpGatewayAssumption DEF NoBucket, Bucket
      <4> QED
        BY <3>1, <4>1 DEF Kept, TypeOK
    <3>3. Refilled(kept, call[s].at) \in Bucket
      <4>1. \A n \in Int : Capped(n) \in Int
        BY HttpGatewayAssumption DEF Capped
      <4>2. /\ kept.tokens \in Int /\ kept.seen \in Int /\ call[s].at \in Int
            /\ PerTick \in Int /\ Burst \in Int
        BY <3>2, HttpGatewayAssumption DEF Bucket
      <4>3. kept.tokens + (call[s].at - kept.seen) * PerTick \in Int
        BY <4>2
      <4> QED
        BY <4>1, <4>2, <4>3 DEF Refilled, Bucket
    <3>4. /\ bucket' \in Bucket
          /\ admitted' \subseteq (0..MaxRequests) \X (0..MaxClock)
          /\ earlier' \subseteq (0..MaxRequests) \X (0..MaxClock)
      <4>1. /\ Since(kept) \subseteq (0..MaxRequests) \X (0..MaxClock)
            /\ call[s].id \in 0..MaxRequests /\ call[s].at \in 0..MaxClock
        BY DEF Since, TypeOK, Call
      <4> QED
        BY <3>1, <3>3, <4>1 DEF Bucket, TypeOK
    <3>5. call' \in [Slot -> Call]
      BY <2>1, <3>1, Becomes
    <3> QED
      BY <1>2, <3>4, <3>5 DEF Limit, TypeOK, accounts, audit
  <2> QED
    BY <2>2, <2>3
<1>3. ASSUME NEW s \in Slot, Present(s) PROVE TypeOK'
  <2>1. /\ Named(call[s], As("open", Nobody, "operator")) \in Call
        /\ Skipping(call[s]) \in Call
        /\ \A t \in tokens : Claiming(call[s], "presented", t) \in Call
        /\ Stepped(call[s], "bearing") \in Call
    <3>1. As("open", Nobody, "operator") \in Principal
      BY DEF As, Principal, Source, Role
    <3> QED
      BY <3>1, NamedForm, SkippingForm, ClaimingForm, SteppedForm DEF Step
  <2> QED
    BY <1>3, <2>1, OnlyCall DEF Present, Named, Skipping, Claiming, Stepped
<1>4. ASSUME NEW s \in Slot, FindUser(s) PROVE TypeOK'
  <2> DEFINE t == call[s].claim
  <2>1. Claiming(call[s], "bearing", NoToken) \in Call
    BY ClaimingForm DEF Step
  <2>2. ASSUME Become(s, Named(call[s], As("user", t.user, t.role))) PROVE TypeOK'
    <3>1. As("user", t.user, t.role) \in Principal
      BY DEF As, Principal, Source, Token
    <3>2. Named(call[s], As("user", t.user, t.role)) \in Call
      BY <3>1, NamedForm
    <3> QED
      BY <1>4, <2>2, <3>2, OnlyCall DEF FindUser
  <2>3. ASSUME Become(s, Claiming(call[s], "bearing", NoToken)) PROVE TypeOK'
    BY <1>4, <2>1, <2>3, OnlyCall DEF FindUser
  <2> QED
    BY <1>4, <2>2, <2>3 DEF FindUser, Named, Claiming
<1>5. ASSUME NEW s \in Slot, Bear(s) PROVE TypeOK'
  <2>1. /\ \A role \in {"operator", "admin"} : Named(call[s], As("static", Nobody, role)) \in Call
        /\ \A k \in ApiKey : Named(call[s], As("key", k, keys[k].role)) \in Call
    <3>1. /\ \A role \in {"operator", "admin"} : As("static", Nobody, role) \in Principal
          /\ \A k \in ApiKey : As("key", k, keys[k].role) \in Principal
      BY DEF As, Principal, Source, Role
    <3> QED
      BY <3>1, NamedForm
  <2> QED
    BY <1>5, <2>1, OnlyCall DEF Bear, Named, TurnedAway
<1>6. ASSUME NEW s \in Slot, Dispatch(s) PROVE TypeOK'
  <2>1. Done(call[s], "refused", FALSE) \in Call /\ \A r \in Routes : Running(call[s], r) \in Call
    BY DoneForm, RunningForm
  <2>2. \/ Become(s, Idle) \/ Become(s, Done(call[s], "refused", FALSE))
        \/ \E r \in Routes : Become(s, Running(call[s], r))
    BY <1>6 DEF Dispatch, TurnedAway, Answered, Done, Running
  <2> QED
    BY <1>6, <2>1, <2>2, OnlyCall DEF Dispatch
<1>7. ASSUME NEW s \in Slot, Refuse(s) \/ Fail(s) \/ Answer(s) PROVE TypeOK'
  <2>1. \E st \in status, annotated \in BOOLEAN : Answered(s, st, annotated)
    BY <1>7 DEF Refuse, Fail, Answer
  <2>2. call' \in [Slot -> Call]
    BY <2>1, AnswersType
  <2> QED
    BY <1>7, <2>2 DEF Refuse, Fail, Answer, TypeOK, accounts, limiter, audit
<1>8. ASSUME NEW s \in Slot, Write(s) PROVE TypeOK'
  <2>1. \E st \in status, annotated \in BOOLEAN : Answered(s, st, annotated)
    BY <1>8 DEF Write
  <2>2. call' \in [Slot -> Call] /\ owed' \subseteq Change
    BY <1>8, <2>1, AnswersType, ChangedType DEF Write
  <2> QED
    BY <1>8, <2>2 DEF Write, TypeOK, accounts, limiter
<1>9. ASSUME NEW u \in User, NEW role \in Role
      PROVE  [user |-> u, role |-> role, asked |-> clock, issued |-> clock] \in Token
  BY DEF Token, TypeOK
<1>10. ASSUME NEW s \in Slot, LogIn(s) PROVE TypeOK'
  <2>1. PICK u \in User :
           Become(s, Claiming(call[s], "signing", [user |-> u, role |-> users[u].role,
                                                   asked |-> clock, issued |-> clock]))
    BY <1>10 DEF LogIn, Claiming
  <2>2. Claiming(call[s], "signing", [user |-> u, role |-> users[u].role,
                                      asked |-> clock, issued |-> clock]) \in Call
    <3> DEFINE t == [user |-> u, role |-> users[u].role, asked |-> clock, issued |-> clock]
    <3>1. t \in Token /\ "signing" \in Step /\ call[s] \in Call
      BY <1>9 DEF Step
    <3> HIDE DEF t
    <3>2. Claiming(call[s], "signing", t) \in Call
      BY <3>1, ClaimingForm
    <3> QED
      BY <3>2 DEF t
  <2> QED
    BY <1>10, <2>1, <2>2, OnlyCall DEF LogIn
<1>11. ASSUME NEW s \in Slot, Sign(s) PROVE TypeOK'
  <2>1. [call[s].claim EXCEPT !.issued = clock] \in Token
    BY DEF Token, TypeOK
  <2>2. call' \in [Slot -> Call]
    BY <1>11, AnswersType DEF Sign
  <2> QED
    BY <1>11, <2>1, <2>2 DEF Sign, TypeOK, limiter, audit
<1>12. ASSUME NEW s \in Slot, BootstrapAdmin(s) PROVE TypeOK'
  <2>1. PICK u \in User :
           /\ SetUser(u, [state |-> "active", role |-> "admin"])
           /\ Become(s, Claiming(call[s], "signing", [user |-> u, role |-> "admin",
                                                      asked |-> clock, issued |-> clock]))
    BY <1>12 DEF BootstrapAdmin, Claiming
  <2>2. Claiming(call[s], "signing", [user |-> u, role |-> "admin",
                                      asked |-> clock, issued |-> clock]) \in Call
    <3> DEFINE t == [user |-> u, role |-> "admin", asked |-> clock, issued |-> clock]
    <3>1. t \in Token /\ "signing" \in Step /\ call[s] \in Call
      BY <1>9 DEF Step, Role
    <3> HIDE DEF t
    <3>2. Claiming(call[s], "signing", t) \in Call
      BY <3>1, ClaimingForm
    <3> QED
      BY <3>2 DEF t
  <2>3. [state |-> "active", role |-> "admin"] \in UserRow
    BY DEF UserRow, Role
  <2>4. /\ call' \in [Slot -> Call] /\ users' \in [User -> UserRow] /\ owed' \subseteq Change
        /\ held' \subseteq User \X Role \X (0..MaxClock)
    BY <1>12, <2>1, <2>2, <2>3, Becomes, SetUserType, ChangedType DEF BootstrapAdmin
  <2> QED
    BY <1>12, <2>4 DEF BootstrapAdmin, TypeOK, limiter
<1>13. ASSUME NEW s \in Slot, NEW u \in User, NEW row \in UserRow, SetUser(u, row),
              call' \in [Slot -> Call], Changed(s),
              UNCHANGED <<setting, clock, keys, tokens, limiter, pending, arrivals>>
       PROVE  TypeOK'
  <2>1. /\ users' \in [User -> UserRow] /\ owed' \subseteq Change
        /\ held' \subseteq User \X Role \X (0..MaxClock)
    BY <1>13, SetUserType, ChangedType
  <2> QED
    BY <1>13, <2>1 DEF TypeOK, limiter
<1>14. ASSUME NEW s \in Slot, CreateUser(s) \/ DeleteUser(s) PROVE TypeOK'
  <2>1. call' \in [Slot -> Call]
    BY <1>14, AnswersType DEF CreateUser, DeleteUser
  <2>2. \E u \in User, row \in UserRow : SetUser(u, row)
    <3>1. \A u \in User, role \in Role : /\ [state |-> "active", role |-> role] \in UserRow
                                         /\ [users[u] EXCEPT !.state = "deleted"] \in UserRow
      BY DEF UserRow
    <3> QED
      BY <1>14, <3>1 DEF CreateUser, DeleteUser
  <2> QED
    BY <1>13, <1>14, <2>1, <2>2 DEF CreateUser, DeleteUser
<1>15. ASSUME NEW s \in Slot, UpdateRole(s) PROVE TypeOK'
  <2>1. PICK u \in User, role \in Role : SetUser(u, [users[u] EXCEPT !.role = role])
                                         /\ Become(s, Updating(call[s], u))
    BY <1>15 DEF UpdateRole, Updating
  <2>2. [users[u] EXCEPT !.role = role] \in UserRow
    BY DEF UserRow
  <2>3. call' \in [Slot -> Call]
    BY <2>1, UpdatingForm, Becomes
  <2> QED
    BY <1>13, <1>15, <2>1, <2>2, <2>3 DEF UpdateRole
<1>16. ASSUME NEW s \in Slot, SetActive(s) PROVE TypeOK'
  <2>1. PICK u \in User, state \in {"active", "inactive"}, good \in BOOLEAN :
           /\ SetUser(u, [users[u] EXCEPT !.state = state])
           /\ call' = [c \in Slot |->
                IF c = s THEN Done(call[s], IF good THEN "ok" ELSE "failed", good)
                ELSE [call[c] EXCEPT !.out = IF state = "active" THEN @ \ {u} ELSE @]]
    <3>1. ASSUME NEW good \in BOOLEAN
          PROVE  [Idle EXCEPT !.step = "done", !.id = call[s].id, !.who = call[s].who,
                              !.annotated = good, !.status = IF good THEN "ok" ELSE "failed"]
                 = Done(call[s], IF good THEN "ok" ELSE "failed", good)
      BY DEF Done, Idle
    <3>2. PICK u \in User, state \in {"active", "inactive"} :
             /\ SetUser(u, [users[u] EXCEPT !.state = state])
             /\ \E good \in BOOLEAN :
                  call' = [c \in Slot |->
                    IF c = s THEN [Idle EXCEPT !.step = "done", !.id = call[s].id,
                                     !.who = call[s].who, !.annotated = good,
                                     !.status = IF good THEN "ok" ELSE "failed"]
                    ELSE [call[c] EXCEPT !.out = IF state = "active" THEN @ \ {u} ELSE @]]
      BY <1>16 DEF SetActive
    <3>3. PICK good \in BOOLEAN :
             call' = [c \in Slot |->
               IF c = s THEN [Idle EXCEPT !.step = "done", !.id = call[s].id,
                                !.who = call[s].who, !.annotated = good,
                                !.status = IF good THEN "ok" ELSE "failed"]
               ELSE [call[c] EXCEPT !.out = IF state = "active" THEN @ \ {u} ELSE @]]
      BY <3>2
    <3>4. call' = [c \in Slot |->
               IF c = s THEN Done(call[s], IF good THEN "ok" ELSE "failed", good)
               ELSE [call[c] EXCEPT !.out = IF state = "active" THEN @ \ {u} ELSE @]]
      BY <3>1, <3>3
    <3> QED
      BY <3>2, <3>4
  <2>2. [users[u] EXCEPT !.state = state] \in UserRow
    BY DEF UserRow
  <2>3. Done(call[s], IF good THEN "ok" ELSE "failed", good) \in Call
    BY DoneForm
  <2>4. \A c \in Slot : [call[c] EXCEPT !.out = IF state = "active" THEN @ \ {u} ELSE @] \in Call
    BY DEF Call
  <2> QED
    BY <1>13, <1>16, <2>1, <2>2, <2>3, <2>4 DEF SetActive
<1>17. ASSUME NEW s \in Slot, IssueKey(s) \/ RevokeKey(s) PROVE TypeOK'
  <2>1. call' \in [Slot -> Call] /\ owed' \subseteq Change
    BY <1>17, AnswersType, ChangedType DEF IssueKey, RevokeKey, TypeOK
  <2>2. keys' \in [ApiKey -> KeyRow]
    <3>1. \A scopes : \A expires \in {clock + 1, Never} :
             [state |-> "live", role |-> EffectiveRole(scopes), expires |-> expires] \in KeyRow
      BY DEF KeyRow, EffectiveRole, Role, Never
    <3>2. \A k \in ApiKey : [keys[k] EXCEPT !.state = "revoked"] \in KeyRow
      BY DEF KeyRow
    <3>3. CASE IssueKey(s)
      <4>1. PICK k \in ApiKey, scopes \in (SUBSET Scope) \ {{}}, expires \in {clock + 1, Never} :
               keys' = [keys EXCEPT ![k] = [state |-> "live", role |-> EffectiveRole(scopes),
                                            expires |-> expires]]
        BY <3>3 DEF IssueKey
      <4>2. [state |-> "live", role |-> EffectiveRole(scopes), expires |-> expires] \in KeyRow
        BY <3>1
      <4> QED
        BY <4>1, <4>2 DEF TypeOK
    <3>4. CASE RevokeKey(s)
      <4>1. keys' = keys \/ \E k \in ApiKey : keys' = [keys EXCEPT ![k].state = "revoked"]
        BY <3>4 DEF RevokeKey
      <4> QED
        BY <3>2, <4>1 DEF TypeOK
    <3> QED
      BY <1>17, <3>3, <3>4
  <2> QED
    BY <1>17, <2>1, <2>2 DEF IssueKey, RevokeKey, TypeOK, limiter
<1>18. ASSUME NEW s \in Slot, Audit(s) PROVE TypeOK'
  <2>1. [id |-> call[s].id, source |-> call[s].who.source, actor |-> call[s].who.id,
         annotated |-> call[s].annotated /\ ~setting.timeout] \in Entry
    BY DEF Entry, Principal
  <2>2. pending' \subseteq Entry
    BY <1>18, <2>1 DEF Audit, TypeOK
  <2> QED
    BY <1>18, <2>2, Becomes DEF Audit, TurnedAway, TypeOK, accounts, limiter
<1>19. ASSUME NEW e \in pending, Append(e) \/ AppendFails(e) PROVE TypeOK'
  BY <1>19 DEF Append, AppendFails, CutOff, TypeOK, accounts, limiter
<1>20. ASSUME NEW s \in Slot, Panic(s) PROVE TypeOK'
  BY <1>20, Becomes DEF Panic, TurnedAway, CutOff, TypeOK, accounts, limiter
<1>21. ASSUME Crash PROVE TypeOK'
  <2>1. NoBucket \in Bucket
    BY DEF NoBucket, Bucket
  <2> QED
    BY <1>21, <2>1 DEF Crash, CutOff, TypeOK, accounts
<1>22. ASSUME Tick PROVE TypeOK'
  <2>1. clock + 1 \in 0..MaxClock
    BY <1>22 DEF Tick
  <2>2. {h \in User \X Role \X {clock + 1} : Active(h[1]) /\ users[h[1]].role = h[2]}
           \subseteq User \X Role \X (0..MaxClock)
    BY <2>1
  <2> QED
    BY <1>22, <2>1, <2>2 DEF Tick, TypeOK, limiter, audit
<1>23. CASE UNCHANGED vars
  BY <1>23 DEF vars, accounts, limiter, audit, TypeOK
<1> QED
  BY <1>1, <1>2, <1>3, <1>4, <1>5, <1>6, <1>7, <1>8, <1>10, <1>11, <1>12, <1>14, <1>15, <1>16,
     <1>17, <1>18, <1>19, <1>20, <1>21, <1>22, <1>23
  DEF Next, Middleware, Handle

\* The variables have the types their comments say.
THEOREM TypeCorrect == Spec => []TypeOK
  BY InitType, NextType, PTL DEF Spec

-----------------------------------------------------------------------------
(* What the actions do to a request *)

\* The handlers that answer at once.
Answers(s) == \/ Refuse(s) \/ Fail(s) \/ Answer(s) \/ Write(s) \/ Sign(s) \/ CreateUser(s)
              \/ DeleteUser(s) \/ IssueKey(s) \/ RevokeKey(s)

LEMMA Answering ==
    ASSUME TypeOK, NEW s \in Slot, Answers(s)
    PROVE  /\ call[s].step \in {"running", "updating", "signing"}
           /\ \E c \in Call : Become(s, c) /\ c.step = "done" /\ c.id = call[s].id
                              /\ c.who = call[s].who /\ c.at = 0 /\ c.out = {}
<1> DEFINE status == {"ok", "refused", "failed"}
<1>1. /\ call[s].step \in {"running", "updating", "signing"}
      /\ \E st \in status, annotated \in BOOLEAN : Answered(s, st, annotated)
  BY Parts DEF Answers, Refuse, Fail, Answer, Write, Sign, CreateUser, DeleteUser, IssueKey,
     RevokeKey, Runs, At
<1>2. PICK st \in status, annotated \in BOOLEAN : Become(s, Done(call[s], st, annotated))
  BY <1>1 DEF Answered, Done
<1> QED
  BY <1>1, <1>2, DoneForm, Parts

\* A login is on its way to its token.
LEMMA Signing ==
    ASSUME TypeOK, NEW s \in Slot, LogIn(s) \/ BootstrapAdmin(s)
    PROVE  /\ Runs(s, {"login", "bootstrap"})
           /\ \E u \in User, role \in Role :
                LET t == [user |-> u, role |-> role, asked |-> clock, issued |-> clock]
                IN  /\ t \in Token /\ Claiming(call[s], "signing", t) \in Call
                    /\ Become(s, Claiming(call[s], "signing", t))
                    /\ \/ LogIn(s) /\ Active(u) /\ role = users[u].role
                       \/ BootstrapAdmin(s) /\ users[u].state = "absent" /\ role = "admin"
                          /\ SetUser(u, [state |-> "active", role |-> "admin"])
<1>1. Runs(s, {"login", "bootstrap"})
  BY DEF LogIn, BootstrapAdmin, Runs
<1>2. \A u \in User, role \in Role :
         LET t == [user |-> u, role |-> role, asked |-> clock, issued |-> clock]
         IN  t \in Token /\ Claiming(call[s], "signing", t) \in Call
  <2> SUFFICES ASSUME NEW u \in User, NEW role \in Role
               PROVE  LET t == [user |-> u, role |-> role, asked |-> clock, issued |-> clock]
                      IN  t \in Token /\ Claiming(call[s], "signing", t) \in Call
    OBVIOUS
  <2>1. [user |-> u, role |-> role, asked |-> clock, issued |-> clock] \in Token
    BY DEF Token, TypeOK
  <2> QED
    BY <2>1, ClaimingForm, Parts DEF Step
<1>3. CASE LogIn(s)
  <2>1. PICK u \in User :
           /\ Active(u)
           /\ Become(s, Claiming(call[s], "signing", [user |-> u, role |-> users[u].role,
                                                      asked |-> clock, issued |-> clock]))
    BY <1>3 DEF LogIn, Claiming
  <2> QED
    BY <1>1, <1>2, <1>3, <2>1, Parts
<1>4. CASE BootstrapAdmin(s)
  <2>1. PICK u \in User :
           /\ users[u].state = "absent"
           /\ SetUser(u, [state |-> "active", role |-> "admin"])
           /\ Become(s, Claiming(call[s], "signing", [user |-> u, role |-> "admin",
                                                      asked |-> clock, issued |-> clock]))
    BY <1>4 DEF BootstrapAdmin, Claiming
  <2> QED
    BY <1>1, <1>2, <1>4, <2>1 DEF Role
<1> QED
  BY <1>3, <1>4

\* Dispatch turns away, refuses or starts the handler of a route it allows.
LEMMA Dispatching ==
    ASSUME TypeOK, NEW s \in Slot, Dispatch(s)
    PROVE  \/ Become(s, Idle)
           \/ Done(call[s], "refused", FALSE) \in Call /\ Become(s, Done(call[s], "refused", FALSE))
           \/ \E r \in Routes : /\ r.guard = "skipped" => Open \/ call[s].skips
                               /\ Running(call[s], r) \in Call /\ Become(s, Running(call[s], r))
<1>1. Done(call[s], "refused", FALSE) \in Call /\ \A r \in Routes : Running(call[s], r) \in Call
  BY DoneForm, RunningForm, Parts
<1> QED
  BY <1>1 DEF Dispatch, TurnedAway, Answered, Done, Running

\* The same request but for who was locked out.
SameButOut(d, c) ==
    /\ d.step = c.step /\ d.id = c.id /\ d.at = c.at /\ d.skips = c.skips
    /\ d.effect = c.effect /\ d.claim = c.claim /\ d.who = c.who

\* The request that changed the flag is answered; the account is nobody's to
\* be locked out of when it is active again.
LEMMA Activating ==
    ASSUME TypeOK, NEW s \in Slot, SetActive(s)
    PROVE  /\ call[s].step \in {"running", "updating"}
           /\ \E u \in User, state \in {"active", "inactive"}, c \in Call :
                /\ Exists(u) /\ SetUser(u, [users[u] EXCEPT !.state = state])
                /\ call'[s] = c /\ c.step = "done" /\ c.id = call[s].id /\ c.who = call[s].who
                /\ c.at = 0 /\ c.out = {}
                /\ \A q \in Slot : q # s =>
                     /\ call'[q].out = IF state = "active" THEN call[q].out \ {u} ELSE call[q].out
                     /\ SameButOut(call'[q], call[q])
<1>1. PICK u \in User, state \in {"active", "inactive"} :
         /\ Exists(u) /\ SetUser(u, [users[u] EXCEPT !.state = state])
         /\ \E good \in BOOLEAN :
              call' = [c \in Slot |->
                IF c = s THEN [Idle EXCEPT !.step = "done", !.id = call[s].id,
                                 !.who = call[s].who, !.annotated = good,
                                 !.status = IF good THEN "ok" ELSE "failed"]
                ELSE [call[c] EXCEPT !.out = IF state = "active" THEN @ \ {u} ELSE @]]
  BY DEF SetActive
<1>2. PICK good \in BOOLEAN :
         call' = [c \in Slot |->
           IF c = s THEN [Idle EXCEPT !.step = "done", !.id = call[s].id,
                            !.who = call[s].who, !.annotated = good,
                            !.status = IF good THEN "ok" ELSE "failed"]
           ELSE [call[c] EXCEPT !.out = IF state = "active" THEN @ \ {u} ELSE @]]
  BY <1>1
<1>3. [Idle EXCEPT !.step = "done", !.id = call[s].id, !.who = call[s].who,
                   !.annotated = good, !.status = IF good THEN "ok" ELSE "failed"]
      = Done(call[s], IF good THEN "ok" ELSE "failed", good)
  BY DEF Done, Idle
<1> DEFINE c == Done(call[s], IF good THEN "ok" ELSE "failed", good)
<1>4. /\ c \in Call /\ c.step = "done" /\ c.id = call[s].id /\ c.who = call[s].who
      /\ c.at = 0 /\ c.out = {}
  BY DoneForm, Parts
<1> HIDE DEF c
<1>5. call'[s] = c
  BY <1>2, <1>3 DEF c
<1>6. ASSUME NEW q \in Slot, q # s
      PROVE  /\ call'[q].out = IF state = "active" THEN call[q].out \ {u} ELSE call[q].out
             /\ SameButOut(call'[q], call[q])
  <2>1. call'[q] = [call[q] EXCEPT !.out = IF state = "active" THEN @ \ {u} ELSE @]
    BY <1>2, <1>6
  <2>2. call[q] \in Call
    BY DEF TypeOK
  <2> QED
    BY <2>1, <2>2 DEF Call, SameButOut
<1>7. call[s].step \in {"running", "updating"}
  BY DEF SetActive, Runs, At
<1> QED
  BY <1>1, <1>4, <1>5, <1>6, <1>7

-----------------------------------------------------------------------------
(* Who is locked out. *)

\* The steps of a request whose principal is known.
Identified(s) == call[s].step \in {"known", "running", "updating", "signing"}

\* The steps before there is a principal.
Unnamed == {"arrived", "admitted", "presented", "bearing"}

\* Who was locked out when a request arrived and was not let in again still is,
\* and is not the request's principal.
OutInv ==
    \A s \in Slot :
       /\ call[s].step \in Unnamed => call[s].who = Unknown
       /\ call[s].out \subseteq LockedOut
       /\ Identified(s) => call[s].who.id \notin call[s].out

LEMMA OutInit == Init => OutInv
  BY DEF Init, OutInv, Idle, Identified, Unnamed

\* A request goes on while nobody is let in again.
LEMMA OutStep ==
    ASSUME TypeOK, OutInv, LockedOut \subseteq LockedOut',
           NEW s \in Slot, NEW c \in Call, Become(s, c), c.out \subseteq LockedOut,
           c.step \in Unnamed => c.who = Unknown,
           c.step \in {"known", "running", "updating", "signing"} => c.who.id \notin c.out
    PROVE  OutInv'
<1>1. /\ call'[s].out \subseteq LockedOut'
      /\ call'[s].step \in Unnamed => call'[s].who = Unknown
      /\ Identified(s)' => call'[s].who.id \notin call'[s].out
  BY Becomes DEF Identified
<1>2. ASSUME NEW q \in Slot, q # s
      PROVE  /\ call'[q].out \subseteq LockedOut'
             /\ call'[q].step \in Unnamed => call'[q].who = Unknown
             /\ Identified(q)' => call'[q].who.id \notin call'[q].out
  BY <1>2, Becomes DEF OutInv, Identified
<1> QED
  BY <1>1, <1>2 DEF OutInv

LEMMA SameLockedOut == UNCHANGED <<clock, users, keys>> => LockedOut \subseteq LockedOut'
  BY DEF LockedOut

\* Nobody is let in by a new account, nor by a change that leaves the flag.
LEMMA LockedOutGrows ==
    ASSUME TypeOK, NEW u \in User, NEW row, SetUser(u, row), UNCHANGED <<clock, keys>>,
           users[u].state \in {"inactive", "deleted"} => row.state \in {"inactive", "deleted"}
    PROVE  LockedOut \subseteq LockedOut'
<1>1. \A v \in User : users'[v] = IF v = u THEN row ELSE users[v]
  BY DEF SetUser, TypeOK
<1> QED
  BY <1>1 DEF LockedOut

LEMMA OutMiddleware ==
    ASSUME TypeOK, OutInv, NEW s \in Slot, Middleware(s)
    PROVE  OutInv'
<1> USE Parts
<1>0. UNCHANGED <<clock, users, keys>>
  BY DEF Middleware, Arrive, Limit, Present, FindUser, Bear, Dispatch, Audit, accounts
<1>1. LockedOut \subseteq LockedOut'
  BY <1>0, SameLockedOut
<1>2. /\ call[s].out \subseteq LockedOut /\ Nobody \notin call[s].out
      /\ call[s].out \subseteq User \cup ApiKey
      /\ call[s].step \in Unnamed => call[s].who = Unknown
      /\ Identified(s) => call[s].who.id \notin call[s].out
  BY HttpGatewayAssumption DEF OutInv
<1>3. ASSUME Become(s, Idle) PROVE OutInv'
  <2>1. Idle.step = "idle" /\ Idle.out = {}
    BY DEF Idle
  <2> QED
    BY <1>1, <1>3, <2>1, IdleType, OutStep DEF Unnamed
<1>4. ASSUME NEW step \in Unnamed, call[s].step \in Unnamed, Become(s, Stepped(call[s], step))
      PROVE  OutInv'
  <2>1. step \in Step /\ step \notin {"known", "running", "updating", "signing"}
    BY DEF Unnamed, Step
  <2> QED
    BY <1>1, <1>2, <1>4, <2>1, SteppedForm, OutStep DEF SameArrival
<1>5. ASSUME NEW step \in Unnamed, call[s].step \in Unnamed, NEW t \in Token,
             Become(s, Claiming(call[s], step, t))
      PROVE  OutInv'
  <2>1. step \in Step /\ step \notin {"known", "running", "updating", "signing"}
    BY DEF Unnamed, Step
  <2> QED
    BY <1>1, <1>2, <1>5, <2>1, ClaimingForm, OutStep DEF SameArrival
<1>6. ASSUME NEW who \in Principal, who.id \notin call[s].out, Become(s, Named(call[s], who))
      PROVE  OutInv'
  BY <1>1, <1>2, <1>6, NamedForm, OutStep DEF SameArrival, Unnamed
<1>7. ASSUME Arrive(s) PROVE OutInv'
  <2>1. arrivals + 1 \in 0..MaxRequests /\ clock \in 0..MaxClock
    BY <1>7 DEF Arrive, TypeOK
  <2>2. Become(s, Arrived(arrivals + 1, clock, LockedOut))
    BY <1>7 DEF Arrive, Arrived
  <2> QED
    BY <1>1, <2>1, <2>2, ArrivedForm, OutStep
<1>8. ASSUME Limit(s) PROVE OutInv'
  <2>1. Become(s, Stepped(call[s], "admitted")) \/ Become(s, Idle)
    BY <1>8 DEF Limit, Stepped, TurnedAway
  <2> QED
    BY <1>3, <1>4, <1>8, <2>1 DEF Limit, At, Unnamed
<1>9. ASSUME Present(s) PROVE OutInv'
  <2>1. call[s].step \in Unnamed
    BY <1>9 DEF Present, At, Unnamed
  <2>2. \/ Become(s, Named(call[s], As("open", Nobody, "operator")))
        \/ Become(s, Skipping(call[s]))
        \/ \E t \in tokens : Become(s, Claiming(call[s], "presented", t))
        \/ Become(s, Stepped(call[s], "bearing"))
    BY <1>9 DEF Present, Named, Skipping, Claiming, Stepped
  <2>3. CASE Become(s, Named(call[s], As("open", Nobody, "operator")))
    <3>1. As("open", Nobody, "operator") \in Principal /\ As("open", Nobody, "operator").id = Nobody
      BY DEF As, Principal, Source, Role
    <3> QED
      BY <1>2, <1>6, <2>3, <3>1
  <2>4. CASE Become(s, Skipping(call[s]))
    <3>1. call[s].who.id = Nobody
      BY <1>2, <2>1 DEF Unknown, As
    <3> QED
      BY <1>1, <1>2, <2>4, <3>1, SkippingForm, OutStep DEF SameArrival, Unnamed
  <2> QED
    BY <1>4, <1>5, <2>1, <2>2, <2>3, <2>4 DEF Unnamed
<1>10. ASSUME FindUser(s) PROVE OutInv'
  <2> DEFINE t == call[s].claim
  <2>1. call[s].step \in Unnamed
    BY <1>10 DEF FindUser, At, Unnamed
  <2>2. \/ Welcome(t.user) /\ Become(s, Named(call[s], As("user", t.user, t.role)))
        \/ Become(s, Claiming(call[s], "bearing", NoToken))
    BY <1>10 DEF FindUser, Named, Claiming
  <2>3. CASE Welcome(t.user) /\ Become(s, Named(call[s], As("user", t.user, t.role)))
    <3>1. As("user", t.user, t.role) \in Principal /\ As("user", t.user, t.role).id = t.user
      BY DEF As, Principal, Source, Token
    <3>2. t.user \in User \cup {Nobody}
      BY DEF Token
    <3>3. t.user \notin call[s].out
      BY <1>2, <2>3, <3>2, HttpGatewayAssumption DEF Welcome, Active, LockedOut
    <3> QED
      BY <1>6, <2>3, <3>1, <3>3
  <2> QED
    BY <1>5, <2>1, <2>2, <2>3, IdleType DEF Unnamed
<1>11. ASSUME Bear(s) PROVE OutInv'
  <2>1. ASSUME NEW role \in {"operator", "admin"},
               Become(s, Named(call[s], As("static", Nobody, role)))
        PROVE  OutInv'
    <3>1. As("static", Nobody, role) \in Principal /\ As("static", Nobody, role).id = Nobody
      BY DEF As, Principal, Source, Role
    <3> QED
      BY <1>2, <1>6, <2>1, <3>1
  <2>2. ASSUME NEW k \in ApiKey, Usable(k),
               Become(s, Named(call[s], As("key", k, keys[k].role)))
        PROVE  OutInv'
    <3>1. As("key", k, keys[k].role) \in Principal /\ As("key", k, keys[k].role).id = k
      BY DEF As, Principal, Source
    <3>2. keys[k].expires \in Int /\ clock \in Int
      BY HttpGatewayAssumption DEF KeyRow, Never
    <3>3. k \notin LockedOut
      BY <2>2, <3>2, HttpGatewayAssumption DEF Usable, LockedOut
    <3> QED
      BY <1>2, <1>6, <2>2, <3>1, <3>3
  <2> QED
    BY <1>3, <1>11, <2>1, <2>2 DEF Bear, Named, TurnedAway
<1>12. ASSUME Dispatch(s) PROVE OutInv'
  <2>1. call[s].who.id \notin call[s].out
    BY <1>2, <1>12 DEF Dispatch, At, Identified
  <2>2. ASSUME NEW c \in Call, c = Done(call[s], "refused", FALSE), Become(s, c) PROVE OutInv'
    BY <1>1, <2>2, DoneForm, OutStep DEF Unnamed
  <2>3. ASSUME NEW r \in Routes, Become(s, Running(call[s], r)) PROVE OutInv'
    BY <1>1, <1>2, <2>1, <2>3, RunningForm, OutStep DEF SameArrival, Unnamed
  <2> QED
    BY <1>3, <1>12, <2>2, <2>3, Dispatching
<1>13. ASSUME Audit(s) PROVE OutInv'
  BY <1>3, <1>13 DEF Audit, TurnedAway
<1> QED
  BY <1>7, <1>8, <1>9, <1>10, <1>11, <1>12, <1>13 DEF Middleware

\* What an answer, a fault or an end does to a request keeps OutInv.
LEMMA OutHandle ==
    ASSUME TypeOK, OutInv, NEW s \in Slot, Handle(s)
    PROVE  OutInv'
<1> USE Parts
<1>1. \A q \in Slot :
         /\ call[q].out \subseteq LockedOut
         /\ call[q].step \in Unnamed => call[q].who = Unknown
         /\ Identified(q) => call[q].who.id \notin call[q].out
  BY DEF OutInv
<1>2. ASSUME Answers(s) PROVE OutInv'
  <2>1. LockedOut \subseteq LockedOut'
    <3>1. CASE UNCHANGED <<clock, users, keys>>
      BY <3>1, SameLockedOut
    <3>2. CASE CreateUser(s) \/ DeleteUser(s)
      <4>0. PICK u \in User :
               \E row : /\ SetUser(u, row)
                        /\ \/ users[u].state = "absent"
                           \/ row = [users[u] EXCEPT !.state = "deleted"]
        BY <3>2 DEF CreateUser, DeleteUser
      <4>1. PICK row : /\ SetUser(u, row)
                       /\ \/ users[u].state = "absent"
                          \/ row = [users[u] EXCEPT !.state = "deleted"]
        BY <4>0
      <4>2. users[u].state \in {"inactive", "deleted"} => row.state \in {"inactive", "deleted"}
        BY <4>1 DEF UserRow
      <4> QED
        BY <3>2, <4>1, <4>2, LockedOutGrows DEF CreateUser, DeleteUser
    <3>3. CASE IssueKey(s)
      <4>1. PICK k \in ApiKey :
               /\ keys[k].state = "absent"
               /\ \E row \in [state : {"live"}, role : Role, expires : Nat] :
                     keys' = [keys EXCEPT ![k] = row]
        <5>1. PICK k \in ApiKey, scopes \in (SUBSET Scope) \ {{}}, expires \in {clock + 1, Never} :
                 /\ keys[k].state = "absent"
                 /\ keys' = [keys EXCEPT ![k] = [state |-> "live", role |-> EffectiveRole(scopes),
                                                 expires |-> expires]]
          BY <3>3 DEF IssueKey
        <5>2. [state |-> "live", role |-> EffectiveRole(scopes), expires |-> expires]
                 \in [state : {"live"}, role : Role, expires : Nat]
          BY DEF EffectiveRole, Role, Never
        <5> QED
          BY <5>1, <5>2
      <4>2. \A x \in ApiKey : x # k => keys'[x] = keys[x]
        BY <4>1 DEF TypeOK
      <4> QED
        BY <3>3, <4>1, <4>2, HttpGatewayAssumption DEF IssueKey, LockedOut
    <3>4. CASE RevokeKey(s)
      <4>1. \/ keys' = keys
            \/ \E k \in ApiKey : keys' = [keys EXCEPT ![k].state = "revoked"]
        BY <3>4 DEF RevokeKey
      <4>2. \A x \in ApiKey : keys'[x] = keys[x] \/ keys'[x].state = "revoked"
        BY <4>1 DEF TypeOK, KeyRow
      <4>3. UNCHANGED <<clock, users>>
        BY <3>4 DEF RevokeKey
      <4> QED
        BY <4>2, <4>3 DEF LockedOut
    <3> QED
      BY <1>2, <3>1, <3>2, <3>3, <3>4
      DEF Answers, Refuse, Fail, Answer, Write, Sign, accounts
  <2>2. PICK c \in Call : Become(s, c) /\ c.step = "done" /\ c.out = {}
    BY <1>2, Answering
  <2> QED
    BY <2>1, <2>2, OutStep DEF Unnamed
<1>3. ASSUME LogIn(s) \/ BootstrapAdmin(s) PROVE OutInv'
  <2>1. PICK u \in User, t \in Token :
           /\ Claiming(call[s], "signing", t) \in Call
           /\ Become(s, Claiming(call[s], "signing", t))
           /\ \/ LogIn(s)
              \/ BootstrapAdmin(s) /\ users[u].state = "absent"
                 /\ SetUser(u, [state |-> "active", role |-> "admin"])
    <3>1. PICK u \in User, role \in Role :
             LET t == [user |-> u, role |-> role, asked |-> clock, issued |-> clock]
             IN  /\ t \in Token /\ Claiming(call[s], "signing", t) \in Call
                 /\ Become(s, Claiming(call[s], "signing", t))
                 /\ \/ LogIn(s)
                    \/ BootstrapAdmin(s) /\ users[u].state = "absent"
                       /\ SetUser(u, [state |-> "active", role |-> "admin"])
      BY <1>3, Signing
    <3> DEFINE t == [user |-> u, role |-> role, asked |-> clock, issued |-> clock]
    <3>2. /\ t \in Token /\ Claiming(call[s], "signing", t) \in Call
          /\ Become(s, Claiming(call[s], "signing", t))
          /\ \/ LogIn(s)
             \/ BootstrapAdmin(s) /\ users[u].state = "absent"
                /\ SetUser(u, [state |-> "active", role |-> "admin"])
      BY <3>1
    <3> HIDE DEF t
    <3> QED
      BY <3>2
  <2>2. LockedOut \subseteq LockedOut'
    BY <1>3, <2>1, LockedOutGrows, SameLockedOut DEF LogIn, BootstrapAdmin, accounts
  <2>3. call[s].who.id \notin call[s].out
    BY <1>1, <1>3, Signing DEF Runs, At, Identified
  <2> DEFINE c == Claiming(call[s], "signing", t)
  <2>4. c \in Call /\ c.step = "signing" /\ c.who = call[s].who /\ c.out = call[s].out
    <3>1. "signing" \in Step /\ call[s] \in Call
      BY DEF Step
    <3> QED
      BY <3>1, ClaimingForm DEF SameArrival
  <2>5. Become(s, c)
    BY <2>1
  <2> HIDE DEF c
  <2> QED
    BY <1>1, <2>2, <2>3, <2>4, <2>5, OutStep DEF Unnamed
<1>4. ASSUME UpdateRole(s) PROVE OutInv'
  <2>1. PICK u \in User, role \in Role : SetUser(u, [users[u] EXCEPT !.role = role])
                                         /\ Become(s, Updating(call[s], u))
    BY <1>4 DEF UpdateRole, Updating
  <2>2. [users[u] EXCEPT !.role = role].state = users[u].state
    BY DEF UserRow
  <2>3. LockedOut \subseteq LockedOut'
    BY <1>4, <2>1, <2>2, LockedOutGrows DEF UpdateRole
  <2>4. call[s].who.id \notin call[s].out
    BY <1>1, <1>4 DEF UpdateRole, Runs, At, Identified
  <2> QED
    BY <1>1, <2>1, <2>3, <2>4, UpdatingForm, OutStep DEF SameArrival, Unnamed
<1>5. ASSUME SetActive(s) PROVE OutInv'
  <2>1. PICK u \in User, state \in {"active", "inactive"}, c \in Call :
           /\ Exists(u) /\ SetUser(u, [users[u] EXCEPT !.state = state])
           /\ call'[s] = c /\ c.step = "done" /\ c.id = call[s].id /\ c.who = call[s].who
           /\ c.at = 0 /\ c.out = {}
           /\ \A q \in Slot : q # s =>
                /\ call'[q].out = IF state = "active" THEN call[q].out \ {u} ELSE call[q].out
                /\ SameButOut(call'[q], call[q])
    BY <1>5, Activating
  <2>2. \A v \in User : v # u => users'[v] = users[v]
    BY <2>1 DEF SetUser, TypeOK
  <2>3. users'[u].state = state
    BY <2>1 DEF SetUser, TypeOK, UserRow
  <2>4. \/ state = "inactive" /\ LockedOut \subseteq LockedOut'
        \/ state = "active" /\ LockedOut \ {u} \subseteq LockedOut'
    BY <1>5, <2>2, <2>3 DEF SetActive, LockedOut
  <2>5. /\ call'[s].out \subseteq LockedOut'
        /\ call'[s].step \in Unnamed => call'[s].who = Unknown
        /\ Identified(s)' => call'[s].who.id \notin call'[s].out
    BY <2>1 DEF Identified, Unnamed
  <2>6. ASSUME NEW q \in Slot, q # s
        PROVE  /\ call'[q].out \subseteq LockedOut'
               /\ call'[q].step \in Unnamed => call'[q].who = Unknown
               /\ Identified(q)' => call'[q].who.id \notin call'[q].out
    BY <1>1, <2>1, <2>4, <2>6 DEF Identified, SameButOut
  <2> QED
    BY <2>5, <2>6 DEF OutInv
<1>6. ASSUME Panic(s) PROVE OutInv'
  <2>1. Become(s, Idle) /\ Idle.out = {} /\ Idle.step = "idle"
    BY <1>6 DEF Panic, TurnedAway, Idle
  <2> QED
    BY <1>6, <2>1, IdleType, SameLockedOut, OutStep DEF Panic, accounts, Unnamed
<1> QED
  BY <1>2, <1>3, <1>4, <1>5, <1>6 DEF Handle, Answers

LEMMA OutNext == TypeOK /\ OutInv /\ [Next]_vars => OutInv'
<1> SUFFICES ASSUME TypeOK, OutInv, [Next]_vars PROVE OutInv'
  OBVIOUS
<1>1. ASSUME UNCHANGED call, LockedOut \subseteq LockedOut' PROVE OutInv'
  BY <1>1 DEF OutInv, Identified
<1>2. ASSUME NEW e \in pending, Append(e) \/ AppendFails(e) PROVE OutInv'
  BY <1>1, <1>2, SameLockedOut DEF Append, AppendFails, accounts
<1>3. ASSUME Crash PROVE OutInv'
  BY <1>3 DEF Crash, OutInv, Idle, Identified, Unnamed
<1>4. ASSUME Tick PROVE OutInv'
  <2>1. \A k \in ApiKey : keys[k].expires \in Int
    BY Parts, HttpGatewayAssumption DEF KeyRow, Never
  <2>2. clock \in Int /\ clock' = clock + 1 /\ UNCHANGED <<users, keys, call>>
    BY <1>4, Parts DEF Tick
  <2>3. LockedOut \subseteq LockedOut'
    BY <2>1, <2>2 DEF LockedOut
  <2> QED
    BY <1>1, <2>2, <2>3
<1>5. CASE UNCHANGED vars
  BY <1>1, <1>5, SameLockedOut DEF vars, accounts
<1> QED
  BY <1>2, <1>3, <1>4, <1>5, OutMiddleware, OutHandle DEF Next

\* A request that arrived after its account or key was locked out is handled for
\* nobody: every lookup of authMiddleware sees the tables as they are then, and
\* nobody but SetActive lets anybody in again.
THEOREM LockedOutRefused == Spec => []LockedOutIsRefused
<1>1. OutInv => LockedOutIsRefused
  BY DEF OutInv, LockedOutIsRefused, Handled, Identified
<1> QED
  BY <1>1, OutInit, OutNext, InitType, NextType, PTL DEF Spec

-----------------------------------------------------------------------------
(* Roles. *)

\* A role read for a token, given the roles accounts had.
Earned(t, roles) == <<t.user, t.role, t.asked>> \in roles /\ t.asked <= t.issued

\* A user's request has the role of a claim that was good when it arrived, and
\* no token is signed for it.
Fit(c, roles, now, open) ==
    /\ c.at <= now
    /\ c.step \in Unnamed => ~c.skips
    /\ c.step \in {"presented", "signing"} => Earned(c.claim, roles)
    /\ c.step = "presented" => ~open /\ c.at < c.claim.issued + AccessTTL
    /\ c.step = "signing" => c.who.source # "user" /\ c.claim.asked <= now
    /\ c.step = "running" /\ c.effect \in {"login", "bootstrap"} => c.who.source # "user"
    /\ c.step \in {"known", "running", "updating"} /\ c.who.source = "user" =>
          /\ ~open /\ ~c.skips
          /\ Earned(c.claim, roles) /\ c.who.id = c.claim.user
          /\ c.who.role = c.claim.role
          /\ c.at < c.claim.issued + AccessTTL

RolesKept == \A u \in User : Active(u) => <<u, users[u].role, clock>> \in held

RoleInv ==
    /\ RolesKept
    /\ \A t \in tokens : Earned(t, held)
    /\ \A s \in Slot : Fit(call[s], held, clock, Open)

LEMMA FitStays ==
    ASSUME NEW c \in Call, NEW h, NEW k, h \subseteq k,
           NEW now \in Int, NEW later \in Int, now <= later, NEW open, Fit(c, h, now, open)
    PROVE  Fit(c, k, later, open)
<1>1. c.at \in Int /\ c.claim.asked \in Int
  BY HttpGatewayAssumption DEF Call, Token
<1> QED
  BY <1>1 DEF Fit, Earned

LEMMA IdleFits == ASSUME NEW h, NEW now \in Nat, NEW open PROVE Fit(Idle, h, now, open)
  BY DEF Fit, Idle, Unnamed

LEMMA RoleInit == Init => RoleInv
<1> SUFFICES ASSUME Init PROVE RoleInv
  OBVIOUS
<1>1. RolesKept
  <2> SUFFICES ASSUME NEW u \in User, Active(u) PROVE <<u, users[u].role, clock>> \in held
    BY DEF RolesKept
  <2>1. users[u].role \in Role /\ clock = 0
    BY InitType, Parts DEF Init
  <2> QED
    BY <2>1 DEF Init
<1>2. \A s \in Slot : call[s] = Idle
  BY DEF Init
<1>3. tokens = {} /\ clock \in Nat
  BY InitType, Parts DEF Init
<1> QED
  BY <1>1, <1>2, <1>3, IdleFits DEF RoleInv

\* A request goes on while roles and tokens are as they should be.
LEMMA RoleStep ==
    ASSUME TypeOK, RoleInv, held \subseteq held', clock' \in Int, clock <= clock', setting' = setting,
           RolesKept', \A t \in tokens' : Earned(t, held'),
           NEW s \in Slot, NEW c \in Call, Become(s, c), Fit(c, held', clock', Open)
    PROVE  RoleInv'
<1>1. Open' = Open
  BY DEF Open
<1>2. \A q \in Slot : q # s => call'[q] = call[q] /\ call[q] \in Call
  BY Becomes, Parts
<1>3. call'[s] = c
  BY Becomes
<1>4. \A q \in Slot : q # s => Fit(call'[q], held', clock', Open)
  BY <1>2, FitStays, Parts DEF RoleInv
<1> QED
  BY <1>1, <1>3, <1>4 DEF RoleInv

LEMMA RoleMiddleware ==
    ASSUME TypeOK, OutInv, RoleInv, NEW s \in Slot, Middleware(s)
    PROVE  RoleInv'
<1> USE Parts
<1>0. UNCHANGED <<setting, clock, users, tokens, held>>
  BY DEF Middleware, Arrive, Limit, Present, FindUser, Bear, Dispatch, Audit, accounts
<1>1. ASSUME NEW c \in Call, Become(s, c), Fit(c, held, clock, Open) PROVE RoleInv'
  BY <1>0, <1>1, RoleStep DEF RoleInv, RolesKept, Active
<1>2. /\ Fit(call[s], held, clock, Open)
      /\ call[s].step \in Unnamed => call[s].who = Unknown
  BY DEF OutInv, RoleInv
<1>3. ASSUME Become(s, Idle) PROVE RoleInv'
  BY <1>1, <1>3, IdleFits, IdleType
<1>4. ASSUME NEW step \in {"admitted", "bearing"}, call[s].step \in Unnamed,
             Become(s, Stepped(call[s], step))
      PROVE  RoleInv'
  <2>1. step \in Step
    BY DEF Step
  <2> DEFINE c == Stepped(call[s], step)
  <2>2. c \in Call /\ c.step = step /\ c.at = call[s].at /\ c.skips = call[s].skips
    BY <2>1, SteppedForm DEF SameArrival
  <2>3. Become(s, c)
    BY <1>4
  <2> HIDE DEF c
  <2>4. Fit(c, held, clock, Open)
    BY <1>2, <1>4, <2>2 DEF Fit
  <2> QED
    BY <1>1, <2>2, <2>3, <2>4
<1>5. ASSUME NEW who \in Principal, who.source # "user", Become(s, Named(call[s], who))
      PROVE  RoleInv'
  <2> DEFINE c == Named(call[s], who)
  <2>1. c \in Call /\ c.step = "known" /\ c.at = call[s].at /\ c.who = who
    BY NamedForm DEF SameArrival
  <2>2. Become(s, c)
    BY <1>5
  <2> HIDE DEF c
  <2>3. Fit(c, held, clock, Open)
    BY <1>2, <1>5, <2>1 DEF Fit, Unnamed
  <2> QED
    BY <1>1, <2>1, <2>2, <2>3
<1>6. ASSUME Arrive(s) PROVE RoleInv'
  <2>1. arrivals + 1 \in 0..MaxRequests /\ clock \in 0..MaxClock
    BY <1>6 DEF Arrive, TypeOK
  <2> DEFINE c == Arrived(arrivals + 1, clock, LockedOut)
  <2>2. c \in Call /\ c.step = "arrived" /\ c.at = clock /\ ~c.skips
    BY <2>1, ArrivedForm
  <2>3. Become(s, c)
    BY <1>6 DEF Arrive, Arrived
  <2> HIDE DEF c
  <2>4. Fit(c, held, clock, Open)
    BY <2>2 DEF Fit
  <2> QED
    BY <1>1, <2>2, <2>3, <2>4
<1>7. ASSUME Limit(s) PROVE RoleInv'
  <2>1. Become(s, Stepped(call[s], "admitted")) \/ Become(s, Idle)
    BY <1>7 DEF Limit, Stepped, TurnedAway
  <2> QED
    BY <1>3, <1>4, <1>7, <2>1 DEF Limit, At, Unnamed
<1>8. ASSUME Present(s) PROVE RoleInv'
  <2>1. call[s].step \in Unnamed
    BY <1>8 DEF Present, At, Unnamed
  <2>2. \/ Become(s, Named(call[s], As("open", Nobody, "operator")))
        \/ Become(s, Skipping(call[s]))
        \/ \E t \in tokens : ~Open /\ Valid(t) /\ Become(s, Claiming(call[s], "presented", t))
        \/ Become(s, Stepped(call[s], "bearing"))
    BY <1>8 DEF Present, Named, Skipping, Claiming, Stepped
  <2>3. CASE Become(s, Named(call[s], As("open", Nobody, "operator")))
    <3>1. /\ As("open", Nobody, "operator") \in Principal
          /\ As("open", Nobody, "operator").source # "user"
      BY DEF As, Principal, Source, Role
    <3> QED
      BY <1>5, <2>3, <3>1
  <2>4. CASE Become(s, Skipping(call[s]))
    <3>1. call[s].who.source # "user"
      BY <1>2, <2>1 DEF Unknown, As
    <3> DEFINE c == Skipping(call[s])
    <3>2. c \in Call /\ c.step = "known" /\ c.at = call[s].at /\ c.who = call[s].who
      BY SkippingForm DEF SameArrival
    <3>3. Become(s, c)
      BY <2>4
    <3> HIDE DEF c
    <3>4. Fit(c, held, clock, Open)
      BY <1>2, <3>1, <3>2 DEF Fit, Unnamed
    <3> QED
      BY <1>1, <3>2, <3>3, <3>4
  <2>5. ASSUME NEW t \in tokens, ~Open, Valid(t), Become(s, Claiming(call[s], "presented", t))
        PROVE  RoleInv'
    <3> DEFINE c == Claiming(call[s], "presented", t)
    <3>1. /\ c \in Call /\ c.step = "presented" /\ c.at = call[s].at /\ c.claim = t
          /\ c.skips = call[s].skips
      <4>1. "presented" \in Step /\ call[s] \in Call /\ t \in Token
        BY DEF Step
      <4> QED
        BY <4>1, ClaimingForm DEF SameArrival
    <3>2. Become(s, c)
      BY <2>5
    <3> HIDE DEF c
    <3>3. t.issued \in Int /\ AccessTTL \in Int /\ call[s].at \in Int
      BY HttpGatewayAssumption DEF Token
    <3>4. c.at < c.claim.issued + AccessTTL
      BY <1>2, <2>5, <3>1, <3>3 DEF Fit, Valid
    <3>5. Fit(c, held, clock, Open)
      BY <1>2, <2>1, <2>5, <3>1, <3>4 DEF Fit, RoleInv
    <3> QED
      BY <1>1, <3>1, <3>2, <3>5
  <2> QED
    BY <1>4, <2>1, <2>2, <2>3, <2>4, <2>5
<1>9. ASSUME FindUser(s) PROVE RoleInv'
  <2> DEFINE t == call[s].claim
  <2>1. call[s].step = "presented"
    BY <1>9 DEF FindUser, At
  <2>2. \/ Become(s, Named(call[s], As("user", t.user, t.role)))
        \/ Become(s, Claiming(call[s], "bearing", NoToken))
    BY <1>9 DEF FindUser, Named, Claiming
  <2>3. CASE Become(s, Named(call[s], As("user", t.user, t.role)))
    <3> DEFINE who == As("user", t.user, t.role)
               c == Named(call[s], who)
    <3>1. who \in Principal /\ who.id = t.user /\ who.role = t.role
      BY DEF As, Principal, Source, Token
    <3>2. /\ c \in Call /\ c.step = "known" /\ c.at = call[s].at /\ c.who = who
          /\ c.claim = t /\ c.skips = call[s].skips
      BY <3>1, NamedForm DEF SameArrival
    <3>3. Become(s, c)
      BY <2>3
    <3> HIDE DEF c, who
    <3>4. Fit(c, held, clock, Open)
      BY <1>2, <2>1, <3>1, <3>2 DEF Fit, Unnamed
    <3> QED
      BY <1>1, <3>2, <3>3, <3>4
  <2>4. CASE Become(s, Claiming(call[s], "bearing", NoToken))
    <3> DEFINE c == Claiming(call[s], "bearing", NoToken)
    <3>1. c \in Call /\ c.step = "bearing" /\ c.at = call[s].at /\ c.skips = call[s].skips
      <4>1. "bearing" \in Step /\ call[s] \in Call /\ NoToken \in Token
        BY IdleType DEF Step
      <4> QED
        BY <4>1, ClaimingForm DEF SameArrival
    <3>2. Become(s, c)
      BY <2>4
    <3> HIDE DEF c
    <3>3. Fit(c, held, clock, Open)
      BY <1>2, <2>1, <3>1 DEF Fit, Unnamed
    <3> QED
      BY <1>1, <3>1, <3>2, <3>3
  <2> QED
    BY <2>2, <2>3, <2>4
<1>10. ASSUME Bear(s) PROVE RoleInv'
  <2>1. /\ \A role \in {"operator", "admin"} :
              As("static", Nobody, role) \in Principal /\ As("static", Nobody, role).source # "user"
        /\ \A k \in ApiKey :
              As("key", k, keys[k].role) \in Principal /\ As("key", k, keys[k].role).source # "user"
    BY DEF As, Principal, Source, Role
  <2> QED
    BY <1>3, <1>5, <1>10, <2>1 DEF Bear, Named, TurnedAway
<1>11. ASSUME Dispatch(s) PROVE RoleInv'
  <2>1. call[s].step = "known"
    BY <1>11 DEF Dispatch, At
  <2>2. ASSUME NEW c \in Call, c = Done(call[s], "refused", FALSE), Become(s, c) PROVE RoleInv'
    <3>1. c.step = "done" /\ c.at = 0
      BY <2>2, DoneForm
    <3>2. Fit(c, held, clock, Open)
      BY <3>1 DEF Fit, Unnamed
    <3> QED
      BY <1>1, <2>2, <3>2
  <2>3. ASSUME NEW r \in Routes, r.guard = "skipped" => Open \/ call[s].skips,
               Become(s, Running(call[s], r))
        PROVE  RoleInv'
    <3> DEFINE c == Running(call[s], r)
    <3>1. /\ c \in Call /\ c.step = "running" /\ c.at = call[s].at /\ c.who = call[s].who
          /\ c.claim = call[s].claim /\ c.skips = call[s].skips /\ c.effect = r.effect
      BY RunningForm DEF SameArrival
    <3>2. Become(s, c)
      BY <2>3
    <3> HIDE DEF c
    <3>3. r.effect \in {"login", "bootstrap"} => Open \/ call[s].skips
      BY <2>3, RouteTypes
    <3>4. Fit(c, held, clock, Open)
      BY <1>2, <2>1, <3>1, <3>3 DEF Fit, Unnamed
    <3> QED
      BY <1>1, <3>1, <3>2, <3>4
  <2> QED
    BY <1>3, <1>11, <2>2, <2>3, Dispatching
<1>12. ASSUME Audit(s) PROVE RoleInv'
  BY <1>3, <1>12 DEF Audit, TurnedAway
<1> QED
  BY <1>6, <1>7, <1>8, <1>9, <1>10, <1>11, <1>12 DEF Middleware

\* Every role an account has while it is active is among those it had.
LEMMA SetUserRoles ==
    ASSUME TypeOK, RoleInv, NEW u \in User, NEW row \in UserRow, SetUser(u, row), clock' = clock
    PROVE  RolesKept' /\ held \subseteq held'
<1>1. \A v \in User : users'[v] = IF v = u THEN row ELSE users[v]
  BY DEF SetUser, TypeOK
<1>2. held \subseteq held' /\ (row.state = "active" => <<u, row.role, clock>> \in held')
  BY DEF SetUser
<1> QED
  BY <1>1, <1>2 DEF RoleInv, RolesKept, Active

LEMMA RoleHandle ==
    ASSUME TypeOK, RoleInv, NEW s \in Slot, Handle(s)
    PROVE  RoleInv'
<1> USE Parts
<1>0. UNCHANGED <<setting, clock>> /\ clock \in Nat
  BY DEF Handle, Refuse, Fail, Answer, Write, LogIn, Sign, BootstrapAdmin, CreateUser, UpdateRole,
     SetActive, DeleteUser, IssueKey, RevokeKey, Panic
<1>1. \A h : Fit(Idle, h, clock, Open)
  BY IdleFits
<1>2. UNCHANGED <<users, held>> => RolesKept' /\ held \subseteq held'
  BY <1>0 DEF RoleInv, RolesKept, Active
<1>3. \A h : held \subseteq h => \A t \in tokens : Earned(t, h)
  BY DEF RoleInv, Earned
<1>4. Fit(call[s], held, clock, Open)
  BY DEF RoleInv
<1>5. ASSUME NEW c \in Call, Become(s, c), c.at <= clock,
             c.step \in {"done", "idle"} \/ Fit(c, held', clock, Open),
             RolesKept', held \subseteq held', tokens' = tokens
      PROVE  RoleInv'
  <2>1. Fit(c, held', clock', Open)
    BY <1>0, <1>5 DEF Fit, Unnamed
  <2> QED
    BY <1>0, <1>3, <1>5, <2>1, RoleStep
<1>6. ASSUME Answers(s) PROVE RoleInv'
  <2>1. RolesKept' /\ held \subseteq held'
    <3>1. CASE CreateUser(s) \/ DeleteUser(s)
      <4>1. PICK u \in User, row \in UserRow : SetUser(u, row)
        <5>1. \A u \in User, role \in Role : /\ [state |-> "active", role |-> role] \in UserRow
                                             /\ [users[u] EXCEPT !.state = "deleted"] \in UserRow
          BY DEF UserRow
        <5> QED
          BY <3>1, <5>1 DEF CreateUser, DeleteUser
      <4> QED
        BY <1>0, <4>1, SetUserRoles
    <3> QED
      BY <1>2, <1>6, <3>1
      DEF Answers, Refuse, Fail, Answer, Write, Sign, IssueKey, RevokeKey, accounts
  <2>2. PICK c \in Call : Become(s, c) /\ c.step = "done" /\ c.at = 0
    BY <1>6, Answering
  <2>3. CASE Sign(s)
    <3> DEFINE t == [call[s].claim EXCEPT !.issued = clock]
    <3>1. tokens' = tokens \cup {t}
      BY <2>3 DEF Sign
    <3>2. /\ t.user = call[s].claim.user /\ t.role = call[s].claim.role
          /\ t.asked = call[s].claim.asked /\ t.issued = clock
      BY DEF Token
    <3> HIDE DEF t
    <3>3. Earned(call[s].claim, held) /\ call[s].claim.asked <= clock
      BY <1>4, <2>3 DEF Sign, At, Fit
    <3>4. Earned(t, held')
      BY <2>1, <3>2, <3>3 DEF Earned
    <3>5. Fit(c, held', clock', Open)
      BY <1>0, <2>2 DEF Fit, Unnamed
    <3> QED
      BY <1>0, <1>3, <2>1, <2>2, <3>1, <3>4, <3>5, RoleStep
  <2>4. CASE ~Sign(s)
    <3>1. tokens' = tokens
      BY <1>6, <2>4 DEF Answers, Refuse, Fail, Answer, Write, CreateUser, DeleteUser, IssueKey,
         RevokeKey, accounts
    <3> QED
      BY <1>0, <1>5, <2>1, <2>2, <3>1
  <2> QED
    BY <2>3, <2>4
<1>7. ASSUME LogIn(s) \/ BootstrapAdmin(s) PROVE RoleInv'
  <2>1. call[s].who.source # "user" /\ call[s].at <= clock
    BY <1>4, <1>7, Signing DEF Runs, At, Fit
  <2>2. PICK u \in User, role \in Role :
           LET t == [user |-> u, role |-> role, asked |-> clock, issued |-> clock]
           IN  /\ t \in Token /\ Claiming(call[s], "signing", t) \in Call
               /\ Become(s, Claiming(call[s], "signing", t))
               /\ \/ LogIn(s) /\ Active(u) /\ role = users[u].role
                  \/ BootstrapAdmin(s) /\ users[u].state = "absent" /\ role = "admin"
                     /\ SetUser(u, [state |-> "active", role |-> "admin"])
    BY <1>7, Signing
  <2> DEFINE t == [user |-> u, role |-> role, asked |-> clock, issued |-> clock]
             c == Claiming(call[s], "signing", t)
  <2>3. t \in Token /\ c \in Call /\ Become(s, c)
    BY <2>2
  <2>4. t.user = u /\ t.role = role /\ t.asked = clock /\ t.issued = clock
    OBVIOUS
  <2>5. RolesKept' /\ held \subseteq held' /\ <<u, role, clock>> \in held'
    <3>1. CASE LogIn(s)
      <4>1. Active(u) /\ role = users[u].role
        BY <2>2, <3>1 DEF LogIn, BootstrapAdmin, accounts, SetUser, Active, TypeOK
      <4> QED
        BY <1>2, <3>1, <4>1 DEF LogIn, accounts, RoleInv, RolesKept
    <3>2. CASE BootstrapAdmin(s) /\ ~LogIn(s)
      <4>1. SetUser(u, [state |-> "active", role |-> "admin"]) /\ role = "admin"
        BY <2>2, <3>2
      <4>2. [state |-> "active", role |-> "admin"] \in UserRow
        BY DEF UserRow, Role
      <4>3. <<u, "admin", clock>> \in held'
        BY <4>1 DEF SetUser
      <4> QED
        BY <1>0, <4>1, <4>2, <4>3, SetUserRoles
    <3> QED
      BY <1>7, <3>1, <3>2
  <2>6. /\ c.step = "signing" /\ c.at = call[s].at /\ c.who = call[s].who /\ c.claim = t
    <3>1. "signing" \in Step /\ call[s] \in Call
      BY DEF Step
    <3> QED
      BY <2>3, <3>1, ClaimingForm DEF SameArrival
  <2> HIDE DEF c, t
  <2>7. Fit(c, held', clock, Open)
    BY <1>0, <2>1, <2>4, <2>5, <2>6 DEF Fit, Earned, Unnamed
  <2>8. tokens' = tokens
    BY <1>7 DEF LogIn, BootstrapAdmin, accounts
  <2> QED
    BY <1>5, <2>1, <2>3, <2>5, <2>6, <2>7, <2>8
<1>8. ASSUME UpdateRole(s) PROVE RoleInv'
  <2>1. PICK u \in User, role \in Role : SetUser(u, [users[u] EXCEPT !.role = role])
                                         /\ Become(s, Updating(call[s], u))
    BY <1>8 DEF UpdateRole, Updating
  <2>2. [users[u] EXCEPT !.role = role] \in UserRow
    BY DEF UserRow
  <2>3. RolesKept' /\ held \subseteq held'
    BY <1>0, <2>1, <2>2, SetUserRoles
  <2> DEFINE c == Updating(call[s], u)
  <2>4. /\ c \in Call /\ c.step = "updating" /\ c.at = call[s].at /\ c.who = call[s].who
        /\ c.claim = call[s].claim /\ c.skips = call[s].skips
    BY UpdatingForm DEF SameArrival
  <2>5. Become(s, c)
    BY <2>1
  <2> HIDE DEF c
  <2>6. Fit(c, held', clock, Open)
    BY <1>4, <1>8, <2>3, <2>4 DEF UpdateRole, Runs, At, Fit, Unnamed, Earned
  <2>7. tokens' = tokens /\ c.at <= clock
    BY <1>4, <1>8, <2>4 DEF UpdateRole, Fit
  <2> QED
    BY <1>5, <2>3, <2>4, <2>5, <2>6, <2>7
<1>9. ASSUME SetActive(s) PROVE RoleInv'
  <2>1. PICK u \in User, state \in {"active", "inactive"}, c \in Call :
           /\ Exists(u) /\ SetUser(u, [users[u] EXCEPT !.state = state])
           /\ call'[s] = c /\ c.step = "done" /\ c.id = call[s].id /\ c.who = call[s].who
           /\ c.at = 0 /\ c.out = {}
           /\ \A q \in Slot : q # s =>
                /\ call'[q].out = IF state = "active" THEN call[q].out \ {u} ELSE call[q].out
                /\ SameButOut(call'[q], call[q])
    BY <1>9, Activating
  <2>2. [users[u] EXCEPT !.state = state] \in UserRow
    BY DEF UserRow
  <2>3. RolesKept' /\ held \subseteq held'
    BY <1>0, <2>1, <2>2, SetUserRoles
  <2>4. Open' = Open
    BY <1>0 DEF Open
  <2>5. Fit(call'[s], held', clock', Open)
    BY <1>0, <2>1 DEF Fit, Unnamed
  <2>6. ASSUME NEW q \in Slot, q # s PROVE Fit(call'[q], held', clock', Open)
    <3>1. Fit(call[q], held, clock, Open) /\ SameButOut(call'[q], call[q])
      BY <2>1, <2>6 DEF RoleInv
    <3>2. Fit(call[q], held', clock, Open)
      BY <1>0, <2>3, <3>1, FitStays
    <3> QED
      BY <1>0, <3>1, <3>2 DEF Fit, SameButOut
  <2>7. tokens' = tokens
    BY <1>9 DEF SetActive
  <2> QED
    BY <1>3, <2>3, <2>4, <2>5, <2>6, <2>7 DEF RoleInv
<1>10. ASSUME Panic(s) PROVE RoleInv'
  <2>1. Become(s, Idle) /\ Idle.at = 0 /\ Idle.step = "idle" /\ UNCHANGED <<users, held, tokens>>
    BY <1>10 DEF Panic, TurnedAway, Idle, accounts
  <2> QED
    BY <1>0, <1>2, <1>5, <2>1, IdleType
<1> QED
  BY <1>6, <1>7, <1>8, <1>9, <1>10 DEF Handle, Answers

LEMMA RoleNext == TypeOK /\ OutInv /\ RoleInv /\ [Next]_vars => RoleInv'
<1> SUFFICES ASSUME TypeOK, OutInv, RoleInv, [Next]_vars PROVE RoleInv'
  OBVIOUS
<1> USE Parts
<1>1. ASSUME UNCHANGED <<setting, clock, users, tokens, held, call>> PROVE RoleInv'
  BY <1>1 DEF RoleInv, RolesKept, Active, Open
<1>2. ASSUME NEW e \in pending, Append(e) \/ AppendFails(e) PROVE RoleInv'
  BY <1>1, <1>2 DEF Append, AppendFails, accounts
<1>3. ASSUME Crash PROVE RoleInv'
  <2>1. UNCHANGED <<setting, clock, users, tokens, held>> /\ call' = [s \in Slot |-> Idle]
    BY <1>3 DEF Crash, accounts
  <2> QED
    BY <2>1, IdleFits DEF RoleInv, RolesKept, Active, Open
<1>4. ASSUME Tick PROVE RoleInv'
  <2>1. /\ UNCHANGED <<setting, users, tokens, call>> /\ clock' = clock + 1
        /\ held' = held \cup {h \in User \X Role \X {clock + 1} :
                                 Active(h[1]) /\ users[h[1]].role = h[2]}
    BY <1>4 DEF Tick
  <2>2. RolesKept'
    <3> SUFFICES ASSUME NEW u \in User, Active(u) PROVE <<u, users[u].role, clock + 1>> \in held'
      BY <2>1 DEF RolesKept, Active
    <3> QED
      BY <2>1
  <2>3. \A s \in Slot : Fit(call[s], held', clock', Open)
    BY <2>1, FitStays DEF RoleInv
  <2> QED
    BY <2>1, <2>2, <2>3 DEF RoleInv, Earned, Open
<1>5. CASE UNCHANGED vars
  BY <1>1, <1>5 DEF vars, accounts
<1> QED
  BY <1>2, <1>3, <1>4, <1>5, RoleMiddleware, RoleHandle DEF Next

\* A user's request is handled under a role the account had while it was active,
\* read for a token that was good when the request arrived (resolveCookie takes
\* the role of the claims).
THEOREM RolesAreRecent == Spec => []RoleIsRecent
<1>1. RoleInv => RoleIsRecent
  <2> SUFFICES ASSUME RoleInv, NEW s \in Slot, Handled(s), call[s].who.source = "user"
               PROVE  /\ <<call[s].who.id, call[s].who.role, call[s].claim.asked>> \in held
                      /\ call[s].claim.asked <= call[s].claim.issued
                      /\ call[s].at < call[s].claim.issued + AccessTTL
    BY DEF RoleIsRecent
  <2>1. Fit(call[s], held, clock, Open)
    BY DEF RoleInv
  <2> QED
    BY <2>1 DEF Fit, Handled, Earned
<1> QED
  BY <1>1, OutInit, OutNext, RoleInit, RoleNext, InitType, NextType, PTL DEF Spec

-----------------------------------------------------------------------------
(* The audit log. *)

\* The steps at which a request may have changed something.
Serving == {"running", "updating", "signing", "done"}

\* Whoever will bring it into the log.
Due(c) == \/ \E s \in Slot : call[s].step \in Serving /\ ChangeOf(s) = c
          \/ \E e \in pending : e.id = c.id /\ e.source = c.source /\ e.actor = c.actor

\* A change is due to a request that has not been answered, or its entry is on
\* its way.
LoggedInv == \A c \in owed : c.source # "none" /\ setting.postgres /\ Due(c)

\* Requests go on without forgetting what they did.
Carries(s) == \/ call[s].step \in Serving /\ call'[s].step \in Serving
                 /\ call'[s].id = call[s].id /\ call'[s].who = call[s].who
              \/ call[s].step \notin Serving

LEMMA LoggedStep ==
    ASSUME TypeOK, LoggedInv, setting' = setting, pending \subseteq pending',
           \A s \in Slot : Carries(s), NEW s \in Slot, call[s].step \in Serving,
           Changed(s) \/ owed' = owed
    PROVE  LoggedInv'
<1>1. \A q \in Slot : call[q].step \in Serving => call'[q].step \in Serving /\ ChangeOf(q)' = ChangeOf(q)
  BY DEF Carries, ChangeOf
<1>2. \A c \in owed : Due(c)'
  BY <1>1 DEF LoggedInv, Due
<1>3. \A c : c = ChangeOf(s) => Due(c)'
  BY <1>1 DEF Due
<1>4. \/ owed' = owed
      \/ /\ owed' = owed \cup {ChangeOf(s)}
         /\ call[s].who.source # "none" /\ setting.postgres
  BY DEF Changed
<1>5. ChangeOf(s).source = call[s].who.source
  BY DEF ChangeOf
<1>6. ASSUME NEW c \in owed'
      PROVE  c.source # "none" /\ setting'.postgres /\ Due(c)'
  <2>1. CASE c \in owed
    BY <1>2, <2>1 DEF LoggedInv
  <2>2. CASE c \notin owed
    BY <1>3, <1>4, <1>5, <1>6, <2>2
  <2> QED
    BY <2>1, <2>2
<1> QED
  BY <1>6 DEF LoggedInv

\* What a request does before it is served owes nothing to the log.
LEMMA LoggedBefore ==
    ASSUME TypeOK, LoggedInv, setting' = setting, UNCHANGED audit,
           NEW s \in Slot, NEW c, Become(s, c), call[s].step \notin Serving
    PROVE  LoggedInv'
<1>1. \A q \in Slot : q # s => call'[q] = call[q]
  BY Becomes
<1>2. \A q \in Slot : call[q].step \in Serving =>
                        call'[q].step \in Serving /\ ChangeOf(q)' = ChangeOf(q)
  BY <1>1 DEF ChangeOf
<1>3. \A d \in owed : Due(d)'
  BY <1>2 DEF LoggedInv, Due, audit
<1> QED
  BY <1>3 DEF LoggedInv, audit

LEMMA LoggedNext == TypeOK /\ LoggedInv /\ [Next]_vars => LoggedInv'
<1> SUFFICES ASSUME TypeOK, LoggedInv, [Next]_vars PROVE LoggedInv'
  OBVIOUS
<1> USE Parts
<1>1. ASSUME NEW s \in Slot, Arrive(s) \/ Limit(s) \/ Present(s) \/ FindUser(s) \/ Bear(s) \/ Dispatch(s)
      PROVE  LoggedInv'
  <2>1. call[s].step \notin Serving /\ setting' = setting /\ UNCHANGED audit
    BY <1>1 DEF Arrive, Limit, Present, FindUser, Bear, Dispatch, At, Serving
  <2>2. \E c : Become(s, c)
    BY <1>1 DEF Arrive, Limit, Present, FindUser, Bear, Dispatch, TurnedAway, Answered
  <2> QED
    BY <2>1, <2>2, LoggedBefore
<1>2. ASSUME NEW s \in Slot, NEW c \in Call, Become(s, c), c.step \in Serving, c.id = call[s].id,
             c.who = call[s].who, call[s].step \in Serving, setting' = setting,
             pending' = pending, Changed(s) \/ owed' = owed
      PROVE  LoggedInv'
  <2>1. \A q \in Slot : Carries(q)
    BY <1>2, Becomes DEF Carries
  <2> QED
    BY <1>2, <2>1, LoggedStep
<1>3. ASSUME NEW s \in Slot, Answers(s) PROVE LoggedInv'
  <2>1. call[s].step \in Serving
    BY <1>3, Answering DEF Serving
  <2>2. PICK c \in Call : Become(s, c) /\ c.step = "done" /\ c.id = call[s].id /\ c.who = call[s].who
    BY <1>3, Answering
  <2>3. setting' = setting /\ pending' = pending /\ (Changed(s) \/ owed' = owed)
    BY <1>3 DEF Answers, Refuse, Fail, Answer, Write, Sign, CreateUser, DeleteUser, IssueKey,
       RevokeKey, audit
  <2> QED
    BY <1>2, <2>1, <2>2, <2>3 DEF Serving
<1>4. ASSUME NEW s \in Slot, LogIn(s) \/ BootstrapAdmin(s) PROVE LoggedInv'
  <2>1. PICK t \in Token : Become(s, Claiming(call[s], "signing", t))
    <3>1. PICK u \in User, role \in Role :
             LET t == [user |-> u, role |-> role, asked |-> clock, issued |-> clock]
             IN  t \in Token /\ Become(s, Claiming(call[s], "signing", t))
      BY <1>4, Signing
    <3> DEFINE t == [user |-> u, role |-> role, asked |-> clock, issued |-> clock]
    <3>2. t \in Token /\ Become(s, Claiming(call[s], "signing", t))
      BY <3>1
    <3> HIDE DEF t
    <3> QED
      BY <3>2
  <2> DEFINE c == Claiming(call[s], "signing", t)
  <2>2. c \in Call /\ c.step = "signing" /\ c.id = call[s].id /\ c.who = call[s].who
    <3>1. "signing" \in Step /\ call[s] \in Call
      BY DEF Step
    <3> QED
      BY <3>1, ClaimingForm DEF SameArrival
  <2>3. Become(s, c)
    BY <2>1
  <2> HIDE DEF c
  <2>4. call[s].step \in Serving
    BY <1>4, Signing DEF Runs, At, Serving
  <2>5. setting' = setting /\ pending' = pending /\ (Changed(s) \/ owed' = owed)
    BY <1>4 DEF LogIn, BootstrapAdmin, audit
  <2> QED
    BY <1>2, <2>2, <2>3, <2>4, <2>5 DEF Serving
<1>5. ASSUME NEW s \in Slot, UpdateRole(s) PROVE LoggedInv'
  <2>1. PICK u \in User : Become(s, Updating(call[s], u))
    BY <1>5 DEF UpdateRole, Updating
  <2> DEFINE c == Updating(call[s], u)
  <2>2. c \in Call /\ c.step = "updating" /\ c.id = call[s].id /\ c.who = call[s].who
    BY UpdatingForm DEF SameArrival
  <2>3. Become(s, c)
    BY <2>1
  <2> HIDE DEF c
  <2>4. call[s].step \in Serving /\ setting' = setting /\ pending' = pending /\ Changed(s)
    BY <1>5 DEF UpdateRole, Runs, At, Serving
  <2> QED
    BY <1>2, <2>2, <2>3, <2>4 DEF Serving
<1>6. ASSUME NEW s \in Slot, SetActive(s) PROVE LoggedInv'
  <2>1. /\ call[s].step \in Serving
        /\ call'[s].step = "done" /\ call'[s].id = call[s].id /\ call'[s].who = call[s].who
        /\ \A q \in Slot : q # s => SameButOut(call'[q], call[q])
    BY <1>6, Activating DEF Serving
  <2>2. \A q \in Slot : Carries(q)
    BY <2>1 DEF Carries, SameButOut, Serving
  <2>3. setting' = setting /\ pending' = pending /\ Changed(s)
    BY <1>6 DEF SetActive
  <2> QED
    BY <2>1, <2>2, <2>3, LoggedStep
<1>7. ASSUME NEW s \in Slot, Audit(s) PROVE LoggedInv'
  <2>1. \A q \in Slot : q # s => call'[q] = call[q]
    BY <1>7, Becomes DEF Audit, TurnedAway
  <2>2. pending \subseteq pending' /\ owed' = owed /\ setting' = setting
    BY <1>7 DEF Audit
  <2>3. ASSUME NEW c \in owed, c = ChangeOf(s) PROVE Due(c)'
    <3>1. /\ c.id = call[s].id /\ c.source = call[s].who.source /\ c.actor = call[s].who.id
          /\ c.source # "none" /\ setting.postgres
      BY <2>3 DEF ChangeOf, LoggedInv
    <3>2. [id |-> call[s].id, source |-> call[s].who.source, actor |-> call[s].who.id,
           annotated |-> call[s].annotated /\ ~setting.timeout] \in pending'
      BY <1>7, <3>1 DEF Audit, Audited
    <3> QED
      BY <3>1, <3>2 DEF Due
  <2>4. ASSUME NEW c \in owed, c # ChangeOf(s) PROVE Due(c)'
    <3>1. Due(c)
      BY DEF LoggedInv
    <3> QED
      BY <2>1, <2>2, <2>4, <3>1 DEF Due, ChangeOf
  <2> QED
    BY <2>2, <2>3, <2>4 DEF LoggedInv
<1>8. ASSUME NEW e \in pending, Append(e) \/ AppendFails(e) PROVE LoggedInv'
  <2>1. UNCHANGED <<setting, call>> /\ pending' = pending \ {e} /\ owed' \subseteq owed
    BY <1>8 DEF Append, AppendFails, CutOff
  <2>2. ASSUME NEW c \in owed', c.id = e.id, c.source = e.source, c.actor = e.actor PROVE FALSE
    <3>1. c = [id |-> e.id, source |-> e.source, actor |-> e.actor]
      BY <2>1, <2>2 DEF TypeOK, Change
    <3> QED
      BY <1>8, <2>2, <3>1 DEF Append, AppendFails, CutOff
  <2>3. ASSUME NEW c \in owed' PROVE Due(c)'
    <3>1. Due(c)
      BY <2>1 DEF LoggedInv
    <3> QED
      BY <2>1, <2>2, <3>1 DEF Due, ChangeOf
  <2> QED
    BY <2>1, <2>3 DEF LoggedInv
<1>9. ASSUME NEW s \in Slot, Panic(s) PROVE LoggedInv'
  <2>1. \A q \in Slot : q # s => call'[q] = call[q]
    BY <1>9, Becomes DEF Panic, TurnedAway
  <2>2. UNCHANGED <<setting, pending>> /\ owed' \subseteq owed /\ ChangeOf(s) \notin owed'
    BY <1>9 DEF Panic, CutOff, ChangeOf
  <2>3. ASSUME NEW c \in owed' PROVE Due(c)'
    <3>1. Due(c) /\ c # ChangeOf(s)
      BY <2>2 DEF LoggedInv
    <3> QED
      BY <2>1, <2>2, <3>1 DEF Due, ChangeOf
  <2> QED
    BY <2>2, <2>3 DEF LoggedInv
<1>10. ASSUME Crash PROVE LoggedInv'
  <2>1. ASSUME NEW c \in owed' PROVE FALSE
    <3>1. c \in owed /\ (\A e \in pending : e.id # c.id) /\ (\A s \in Slot : call[s].id # c.id)
      BY <1>10, <2>1 DEF Crash, CutOff
    <3>2. Due(c)
      BY <3>1 DEF LoggedInv
    <3> QED
      BY <3>1, <3>2 DEF Due, ChangeOf
  <2> QED
    BY <2>1 DEF LoggedInv
<1>11. CASE UNCHANGED vars \/ Tick
  BY <1>11 DEF vars, audit, Tick, LoggedInv, Due, ChangeOf
<1> QED
  BY <1>1, <1>3, <1>4, <1>5, <1>6, <1>7, <1>8, <1>9, <1>10, <1>11 DEF Next, Middleware, Handle, Answers

\* Whatever an authenticated request changed will be in the log under its
\* principal unless a fault cuts it off, also when the change was followed by an
\* error: the middleware looks at the principal and not at the answer.
THEOREM ChangesAreLogged == Spec => []ChangeIsLogged
<1>1. Init => LoggedInv
  BY DEF Init, LoggedInv
<1>2. LoggedInv => ChangeIsLogged
  BY DEF LoggedInv, Due, ChangeIsLogged, At, Serving
<1> QED
  BY <1>1, <1>2, LoggedNext, InitType, NextType, PTL DEF Spec

-----------------------------------------------------------------------------
(* The rate limit. *)

Among(A, from, to) == {a \in A : a[2] \in from..to}

\* What is gained in a time.
Gain(time) == PerTick * time

\* What the bucket is worth apart from the passing of time.
Worth(b) == b.tokens - Gain(b.seen)

\* The requests let through and what is left make no more than the bucket held
\* when the first of them came.
Covers(b, A) ==
    \A from, to \in 0..MaxClock :
       Among(A, from, to) # {} =>
          Cardinality(Among(A, from, to)) + Worth(b) <= Burst - Gain(from)

\* The clock goes on while a request waits for the lock, no longer than MaxDelay.
ReadingsAreFresh ==
    \A s \in Slot : At(s, "arrived") => call[s].at <= clock /\ clock <= call[s].at + MaxDelay

\* What an existing bucket let through was read at most MaxDelay after it was
\* last seen; what an evicted one did, long ago.
ReadingsArePast ==
    /\ \A a \in admitted : a[2] <= clock /\ a[2] <= bucket.seen + MaxDelay
    /\ \A a \in earlier : clock - a[2] > EvictAfter - MaxDelay

LimiterInv ==
    /\ IsFiniteSet(admitted)
    /\ ReadingsAreFresh
    /\ ReadingsArePast
    /\ ~bucket.exists => admitted = {}
    /\ bucket.exists => bucket.tokens <= Burst /\ Covers(bucket, admitted)
    /\ RateHolds

LEMMA GainType == ASSUME NEW x \in Int PROVE Gain(x) \in Int
  BY HttpGatewayAssumption DEF Gain

LEMMA GainPlus ==
    ASSUME NEW x \in Int, NEW y \in Int
    PROVE  Gain(x + y) = Gain(x) + Gain(y)
  BY HttpGatewayAssumption DEF Gain

LEMMA GainMinus ==
    ASSUME NEW x \in Int, NEW y \in Int
    PROVE  Gain(x - y) = Gain(x) - Gain(y) /\ (x - y) * PerTick = Gain(x) - Gain(y)
  BY HttpGatewayAssumption DEF Gain

LEMMA GainGrows ==
    ASSUME NEW x \in Int, NEW y \in Int, x <= y
    PROVE  Gain(x) <= Gain(y)
<1>1. y - x \in Nat
  OBVIOUS
<1>2. Gain(y - x) \in Nat
  BY <1>1, HttpGatewayAssumption DEF Gain
<1>3. Gain(y - x) = Gain(y) - Gain(x) /\ Gain(x) \in Int /\ Gain(y) \in Int
  BY GainMinus, GainType
<1> QED
  BY <1>2, <1>3

LEMMA RefilledForm ==
    ASSUME NEW kept \in Bucket, NEW now \in 0..MaxClock
    PROVE  LET b == Refilled(kept, now)
           IN  /\ b \in Bucket /\ b.exists /\ b.seen = now /\ b.tokens <= Burst
               /\ ~kept.exists => b.tokens = Burst
               /\ kept.exists => Worth(b) <= Worth(kept)
               /\ b.tokens = Burst \/ Worth(b) = Worth(kept)
<1> DEFINE b == Refilled(kept, now)
           due == kept.tokens + (now - kept.seen) * PerTick
<1>1. /\ kept.tokens \in Int /\ kept.seen \in Int /\ now \in Int /\ PerTick \in Int
      /\ Burst \in Int /\ kept.exists \in BOOLEAN
  BY HttpGatewayAssumption DEF Bucket
<1>2. due \in Int /\ due = kept.tokens + Gain(now) - Gain(kept.seen)
  <2>1. (now - kept.seen) * PerTick = Gain(now) - Gain(kept.seen)
    BY <1>1, GainMinus
  <2>2. Gain(now) \in Int /\ Gain(kept.seen) \in Int
    BY <1>1, GainType
  <2> QED
    BY <1>1, <2>1, <2>2
<1>3. b.tokens = (IF kept.exists THEN Capped(due) ELSE Burst) /\ b.seen = now /\ b.exists
  BY DEF Refilled
<1>4. Gain(now) \in Int /\ Gain(kept.seen) \in Int
  BY <1>1, GainType
<1> HIDE DEF due
<1>5. b.tokens \in Int /\ b.tokens <= Burst
  BY <1>1, <1>2, <1>3 DEF Capped
<1>6. b \in Bucket
  BY <1>3, <1>5 DEF Refilled, Bucket
<1>7. /\ ~kept.exists => b.tokens = Burst
      /\ kept.exists => Worth(b) <= Worth(kept)
      /\ b.tokens = Burst \/ Worth(b) = Worth(kept)
  BY <1>1, <1>2, <1>3, <1>4, <1>5 DEF Capped, Worth
<1> QED
  BY <1>3, <1>5, <1>6, <1>7

\* The requests let through in a time are finitely many, and one more at most
\* when another one is let through.
LEMMA AmongType ==
    ASSUME NEW A, IsFiniteSet(A), NEW from, NEW to
    PROVE  IsFiniteSet(Among(A, from, to)) /\ Cardinality(Among(A, from, to)) \in Nat
<1>1. Among(A, from, to) \subseteq A
  BY DEF Among
<1>2. IsFiniteSet(Among(A, from, to))
  BY <1>1, FS_Subset
<1> QED
  BY <1>2, FS_CardinalityType

LEMMA AmongCounts ==
    ASSUME NEW A, IsFiniteSet(A), NEW x, NEW from, NEW to
    PROVE  LET more == Among(A \cup {x}, from, to)
           IN  /\ Cardinality(more) \in Nat
               /\ x[2] \notin from..to => more = Among(A, from, to)
               /\ Cardinality(more) <= Cardinality(Among(A, from, to)) + 1
               /\ Among(A, from, to) = {} => Cardinality(more) <= 1
<1> DEFINE more == Among(A \cup {x}, from, to)
           some == Among(A, from, to)
<1>1. IsFiniteSet(some) /\ Cardinality(some) \in Nat
  BY AmongType
<1>2. more = some \/ more = some \cup {x}
  BY DEF Among
<1>3. x[2] \notin from..to => more = some
  BY DEF Among
<1> HIDE DEF some, more
<1>4. Cardinality(some \cup {x}) = IF x \in some THEN Cardinality(some) ELSE Cardinality(some) + 1
  BY <1>1, FS_AddElement
<1>5. Cardinality(some \cup {x}) \in Nat /\ Cardinality(some \cup {x}) <= Cardinality(some) + 1
  BY <1>1, <1>4
<1>6. some = {} => Cardinality(some) = 0
  BY FS_EmptySet
<1>7. Cardinality(more) \in Nat /\ Cardinality(more) <= Cardinality(some) + 1
  BY <1>1, <1>2, <1>5
<1> QED
  BY <1>3, <1>6, <1>7 DEF some, more

\* The bucket refilled, perhaps evicted before, covers what it let through.
LEMMA RefillCovers ==
    ASSUME TypeOK, LimiterInv, NEW now \in 0..MaxClock, NEW kept \in Kept(bucket)
    PROVE  LET b == Refilled(kept, now)
           IN  /\ kept = bucket \/ (~kept.exists /\ clock - bucket.seen > EvictAfter)
               /\ b \in Bucket /\ b.exists /\ b.seen = now /\ b.tokens <= Burst
               /\ IsFiniteSet(Since(kept)) /\ Since(kept) \subseteq admitted
               /\ Covers(b, Since(kept))
<1> USE Parts
<1> DEFINE b == Refilled(kept, now)
<1>1. NoBucket \in Bucket /\ ~NoBucket.exists
  BY HttpGatewayAssumption DEF NoBucket, Bucket
<1>2. /\ bucket \in Bucket
      /\ \/ kept = bucket
         \/ kept = NoBucket /\ bucket.exists /\ clock - bucket.seen > EvictAfter
  <2>1. bucket \in Bucket
    BY DEF TypeOK
  <2>2. CASE bucket.exists /\ clock - bucket.seen > EvictAfter
    <3>1. kept \in {bucket} \cup {NoBucket}
      BY <2>2 DEF Kept
    <3> QED
      BY <2>1, <2>2, <3>1
  <2>3. CASE ~(bucket.exists /\ clock - bucket.seen > EvictAfter)
    <3>1. kept \in {bucket} \cup {}
      BY <2>3, Zenon DEF Kept
    <3>2. kept = bucket
      BY <3>1
    <3> QED
      BY <2>1, <3>2
  <2> QED
    BY <2>2, <2>3
<1>3. /\ b \in Bucket /\ b.exists /\ b.seen = now /\ b.tokens <= Burst
      /\ kept.exists => Worth(b) <= Worth(kept)
  BY <1>1, <1>2, RefilledForm
<1> HIDE DEF b
<1>4. IsFiniteSet(Since(kept)) /\ Since(kept) \subseteq admitted
  <2>1. IsFiniteSet({}) /\ IsFiniteSet(admitted)
    BY FS_EmptySet DEF LimiterInv
  <2> QED
    BY <2>1 DEF Since
<1>5. ASSUME ~kept.exists PROVE Covers(b, Since(kept))
  <2>1. \A from, to : Among(Since(kept), from, to) = {}
    BY <1>5 DEF Since, Among
  <2> QED
    BY <2>1 DEF Covers
<1>6. ASSUME kept.exists PROVE Covers(b, Since(kept))
  <2>1. kept = bucket /\ Since(kept) = admitted
    BY <1>1, <1>2, <1>6 DEF Since
  <2>2. Worth(b) <= Worth(bucket) /\ Covers(bucket, admitted)
    BY <1>3, <1>6, <2>1 DEF LimiterInv
  <2>3. Worth(b) \in Int /\ Worth(bucket) \in Int
    <3>1. /\ b.tokens \in Int /\ b.seen \in Int
          /\ bucket.tokens \in Int /\ bucket.seen \in Int
      BY <1>2, <1>3 DEF Bucket
    <3>2. Gain(b.seen) \in Int /\ Gain(bucket.seen) \in Int
      BY <3>1, GainType
    <3> QED
      BY <3>1, <3>2 DEF Worth
  <2>4. ASSUME NEW from \in 0..MaxClock, NEW to \in 0..MaxClock, Among(admitted, from, to) # {}
        PROVE  Cardinality(Among(admitted, from, to)) + Worth(b) <= Burst - Gain(from)
    <3>1. Cardinality(Among(admitted, from, to)) + Worth(bucket) <= Burst - Gain(from)
      BY <2>2, <2>4 DEF Covers
    <3>2. Cardinality(Among(admitted, from, to)) \in Nat /\ Gain(from) \in Int
      BY AmongType, GainType DEF LimiterInv
    <3>3. Burst \in Int
      BY HttpGatewayAssumption
    <3> QED
      BY <2>2, <2>3, <3>1, <3>2, <3>3
  <2> QED
    BY <2>1, <2>4 DEF Covers
<1>7. kept = bucket \/ (~kept.exists /\ clock - bucket.seen > EvictAfter)
  BY <1>1, <1>2
<1> QED
  BY <1>3, <1>4, <1>5, <1>6, <1>7 DEF b

\* With what the bucket let through covered by what it is refilled to, one more
\* request takes a token that is there.
LEMMA OneMoreIsCovered ==
    ASSUME NEW b \in Bucket, NEW c \in Bucket, NEW A, IsFiniteSet(A), NEW x,
           x[2] = b.seen, c.seen = b.seen, c.tokens = b.tokens - 1,
           1 <= b.tokens, b.tokens <= Burst, Covers(b, A)
    PROVE  Covers(c, A \cup {x})
<1> DEFINE now == b.seen
           more(from, to) == Cardinality(Among(A \cup {x}, from, to))
           some(from, to) == Cardinality(Among(A, from, to))
<1>1. now \in 0..MaxClock /\ b.tokens \in Int /\ Burst \in Int /\ now \in Int
  BY HttpGatewayAssumption DEF Bucket
<1>2. Gain(now) \in Int /\ Worth(b) = b.tokens - Gain(now) /\ Worth(c) = b.tokens - 1 - Gain(now)
  BY <1>1, GainType DEF Worth
<1> SUFFICES ASSUME NEW from \in 0..MaxClock, NEW to \in 0..MaxClock,
                    Among(A \cup {x}, from, to) # {}
             PROVE  more(from, to) + Worth(c) <= Burst - Gain(from)
  BY DEF Covers
<1>3. /\ more(from, to) \in Nat /\ some(from, to) \in Nat
      /\ now \notin from..to => Among(A \cup {x}, from, to) = Among(A, from, to)
      /\ more(from, to) <= some(from, to) + 1
      /\ Among(A, from, to) = {} => more(from, to) <= 1
  <2>1. some(from, to) \in Nat
    BY AmongType, Zenon
  <2>2. LET all == Among(A \cup {x}, from, to)
        IN  /\ Cardinality(all) \in Nat
            /\ x[2] \notin from..to => all = Among(A, from, to)
            /\ Cardinality(all) <= Cardinality(Among(A, from, to)) + 1
            /\ Among(A, from, to) = {} => Cardinality(all) <= 1
    BY AmongCounts, Zenon
  <2> QED
    BY <2>1, <2>2, Zenon
<1>4. Gain(from) \in Int /\ (from <= now => Gain(from) <= Gain(now))
  <2>1. from \in Int
    OBVIOUS
  <2> HIDE DEF now
  <2> QED
    BY <1>1, <2>1, GainType, GainGrows
<1>5. CASE Among(A, from, to) = {}
  <2>1. now \in from..to /\ more(from, to) <= 1
    BY <1>3, <1>5
  <2>2. from <= now
    BY <2>1
  <2> HIDE DEF now, more
  <2> QED
    BY <1>1, <1>2, <1>3, <1>4, <2>1, <2>2
<1>6. CASE Among(A, from, to) # {}
  <2>1. some(from, to) + Worth(b) <= Burst - Gain(from)
    BY <1>6 DEF Covers
  <2> HIDE DEF now, more, some
  <2> QED
    BY <1>1, <1>2, <1>3, <1>4, <2>1
<1> QED
  BY <1>5, <1>6

\* The rate of one bucket.
Within(A) == \A from, to \in 0..MaxClock :
               from <= to => Cardinality(Among(A, from, to)) <= Burst + PerTick * (to - from)

LEMMA RateIsWithin ==
    RateHolds <=> /\ Within(admitted)
                  /\ \A a \in earlier, b \in admitted : b[2] - a[2] > EvictAfter - 2 * MaxDelay
BY DEF RateHolds, Within, Among

LEMMA NothingIsWithin == Within({})
<1> SUFFICES ASSUME NEW from \in 0..MaxClock, NEW to \in 0..MaxClock, from <= to
             PROVE  Cardinality(Among({}, from, to)) <= Burst + PerTick * (to - from)
  BY DEF Within
<1>1. Among({}, from, to) = {} /\ Cardinality({}) = 0
  BY FS_EmptySet DEF Among
<1>2. to - from \in Nat /\ Burst \in Nat /\ PerTick \in Nat
  BY HttpGatewayAssumption
<1>3. PerTick * (to - from) \in Nat
  BY <1>2
<1>4. 0 <= Burst + PerTick * (to - from)
  BY <1>2, <1>3
<1> QED
  BY <1>1, <1>4

\* A bucket that is left with no debt and covers what it let through was within
\* the rate, for any time the last request falls in.
LEMMA OneMoreIsWithin ==
    ASSUME NEW c \in Bucket, 0 <= c.tokens, NEW A, IsFiniteSet(A), NEW x, x[2] = c.seen,
           Covers(c, A \cup {x}), Within(A)
    PROVE  Within(A \cup {x})
<1> DEFINE now == c.seen
<1>1. now \in Int /\ c.tokens \in Int /\ Burst \in Int /\ Gain(now) \in Int
  BY HttpGatewayAssumption, GainType DEF Bucket
<1>2. Worth(c) = c.tokens - Gain(now)
  BY DEF Worth
<1> SUFFICES ASSUME NEW from \in 0..MaxClock, NEW to \in 0..MaxClock, from <= to
             PROVE  Cardinality(Among(A \cup {x}, from, to)) <= Burst + PerTick * (to - from)
  BY DEF Within
<1> DEFINE more == Among(A \cup {x}, from, to)
<1>3. CASE now \notin from..to
  <2>1. more = Among(A, from, to)
    BY <1>3, AmongCounts
  <2> QED
    BY <2>1 DEF Within
<1>4. CASE now \in from..to
  <2>1. more # {} /\ Cardinality(more) \in Nat
    <3>1. x \in more
      BY <1>4 DEF Among
    <3>2. Cardinality(more) \in Nat
      BY AmongCounts
    <3> QED
      BY <3>1, <3>2
  <2>2. Cardinality(more) + Worth(c) <= Burst - Gain(from)
    BY <2>1 DEF Covers
  <2>3. from \in Int /\ to \in Int /\ now <= to /\ Gain(to - from) = PerTick * (to - from)
    BY <1>4 DEF Gain
  <2> HIDE DEF now, more
  <2>4. /\ Gain(to - from) = Gain(to) - Gain(from) /\ Gain(from) \in Int /\ Gain(to) \in Int
        /\ Gain(now) <= Gain(to)
    BY <1>1, <2>3, GainType, GainMinus, GainGrows
  <2>5. Cardinality(more) <= Burst + Gain(to - from)
    BY <1>1, <1>2, <2>1, <2>2, <2>4
  <2> QED
    BY <2>3, <2>5 DEF more
<1> QED
  BY <1>3, <1>4

\* Whoever is turned away leaves the bucket as it is refilled; whoever is let
\* through takes a token that is there.
LEMMA LimiterLimit ==
    ASSUME TypeOK, LimiterInv, NEW s \in Slot, Limit(s), ReadingsAreFresh'
    PROVE  LimiterInv'
<1> USE Parts
<1> DEFINE now == call[s].at
           x == <<call[s].id, now>>
<1>1. now \in 0..MaxClock /\ now <= clock /\ clock <= now + MaxDelay /\ clock' = clock
  BY DEF Limit, LimiterInv, ReadingsAreFresh
<1>2. CASE UNCHANGED limiter
  BY <1>1, <1>2 DEF limiter, LimiterInv, ReadingsArePast, Covers, RateHolds, Worth
<1>3. CASE ~(UNCHANGED limiter)
  <2>1. PICK kept \in Kept(bucket) :
           LET b == Refilled(kept, now)
           IN  /\ earlier' = IF kept.exists THEN earlier ELSE earlier \cup admitted
               /\ \/ /\ b.tokens >= 1
                     /\ bucket' = [b EXCEPT !.tokens = @ - 1]
                     /\ admitted' = Since(kept) \cup {x}
                  \/ bucket' = b /\ admitted' = Since(kept)
    BY <1>3 DEF Limit
  <2> DEFINE b == Refilled(kept, now)
             A == Since(kept)
  <2>2. /\ kept = bucket \/ (~kept.exists /\ clock - bucket.seen > EvictAfter)
        /\ b \in Bucket /\ b.exists /\ b.seen = now /\ b.tokens <= Burst
        /\ IsFiniteSet(A) /\ A \subseteq admitted /\ Covers(b, A)
    BY <1>1, RefillCovers
  <2>3. Within(A)
    BY RateIsWithin, NothingIsWithin DEF LimiterInv, Since
  <2>4. A = {} \/ earlier' = earlier
    BY <2>1 DEF Since
  <2>5. \A a \in earlier' : clock - a[2] > EvictAfter - MaxDelay
    <3>1. ASSUME ~kept.exists, NEW a \in admitted PROVE clock - a[2] > EvictAfter - MaxDelay
      <4>1. bucket.exists /\ clock - bucket.seen > EvictAfter
        BY <2>2, <3>1 DEF LimiterInv
      <4>2. a[2] <= bucket.seen + MaxDelay
        BY <3>1 DEF LimiterInv, ReadingsArePast
      <4>3. /\ clock \in Int /\ a[2] \in Int /\ bucket.seen \in Int
            /\ EvictAfter \in Int /\ MaxDelay \in Int
        BY <3>1, HttpGatewayAssumption DEF TypeOK, Bucket
      <4> QED
        BY <4>1, <4>2, <4>3
    <3> QED
      BY <2>1, <3>1 DEF LimiterInv, ReadingsArePast
  <2>6. /\ IsFiniteSet(A \cup {x}) /\ x[2] = now
        /\ bucket' \in Bucket /\ bucket'.exists /\ bucket'.seen = now
        /\ \/ b.tokens >= 1 /\ bucket'.tokens = b.tokens - 1 /\ admitted' = A \cup {x}
           \/ bucket' = b /\ admitted' = A
    <3>1. IsFiniteSet(A \cup {x}) /\ x[2] = now
      BY <2>2, FS_AddElement
    <3>2. /\ [b EXCEPT !.tokens = @ - 1] \in Bucket
          /\ [b EXCEPT !.tokens = @ - 1].tokens = b.tokens - 1
          /\ [b EXCEPT !.tokens = @ - 1].seen = now /\ [b EXCEPT !.tokens = @ - 1].exists
      <4> HIDE DEF b, now
      <4> QED
        BY <2>2 DEF Bucket
    <3> HIDE DEF A, b, now, x
    <3> QED
      BY <2>1, <2>2, <3>1, <3>2 DEF A, b, x
  <2> HIDE DEF A, b, x
  <2>7. b.tokens \in Int /\ Burst \in Int
    BY <2>2, HttpGatewayAssumption DEF Bucket
  <2>8. /\ IsFiniteSet(admitted') /\ bucket'.tokens <= Burst
        /\ Covers(bucket', admitted') /\ Within(admitted')
    <3>1. CASE bucket' = b /\ admitted' = A
      BY <2>2, <2>3, <3>1
    <3>2. CASE b.tokens >= 1 /\ bucket'.tokens = b.tokens - 1 /\ admitted' = A \cup {x}
      <4>1. Covers(bucket', A \cup {x})
        BY <2>2, <2>6, <2>7, <3>2, OneMoreIsCovered
      <4>2. 0 <= bucket'.tokens /\ bucket'.tokens <= Burst
        BY <2>2, <2>7, <3>2
      <4>3. Within(A \cup {x})
        BY <2>2, <2>3, <2>6, <4>1, <4>2, OneMoreIsWithin
      <4> QED
        BY <2>6, <3>2, <4>1, <4>2, <4>3
    <3> QED
      BY <2>6, <3>1, <3>2
  <2>9. \A a \in admitted' : a \in A \/ a = x
    BY <2>6
  <2>10. \A a \in admitted' : a[2] <= clock /\ a[2] <= now + MaxDelay
    <3>1. ASSUME NEW a \in A PROVE a[2] <= clock /\ a[2] <= now + MaxDelay
      <4>1. a \in admitted /\ a[2] <= clock
        BY <2>2, <3>1 DEF LimiterInv, ReadingsArePast
      <4>2. a[2] \in Int /\ clock \in Int /\ now \in Int /\ MaxDelay \in Int
        BY <1>1, <4>1, HttpGatewayAssumption DEF TypeOK
      <4> HIDE DEF now
      <4> QED
        BY <1>1, <4>1, <4>2
    <3>2. now \in Int /\ MaxDelay \in Nat
      BY HttpGatewayAssumption
    <3> HIDE DEF now
    <3> QED
      BY <1>1, <2>6, <2>9, <3>1, <3>2
  <2>11. ASSUME NEW a \in earlier', NEW c \in admitted'
         PROVE  c[2] - a[2] > EvictAfter - 2 * MaxDelay
    <3>1. CASE c \in A
      <4>1. a \in earlier /\ c \in admitted
        BY <2>2, <2>4, <2>11, <3>1
      <4> QED
        BY <4>1, RateIsWithin DEF LimiterInv
    <3>2. CASE c = x
      <4>1. clock - a[2] > EvictAfter - MaxDelay
        BY <2>5
      <4>2. c[2] = now /\ clock <= now + MaxDelay
        BY <1>1, <2>6, <3>2
      <4>3. a[2] \in Int
        BY <2>1 DEF TypeOK
      <4>4. /\ clock \in Int /\ now \in Int
            /\ EvictAfter \in Int /\ MaxDelay \in Int
        BY <1>1, HttpGatewayAssumption
      <4> HIDE DEF now
      <4> QED
        BY <4>1, <4>2, <4>3, <4>4
    <3> QED
      BY <2>9, <3>1, <3>2
  <2>12. RateHolds'
    BY <2>8, <2>11, RateIsWithin DEF RateHolds, Within, Among
  <2>13. Covers(bucket, admitted)'
    BY <2>8 DEF Covers, Worth, Among
  <2>14. ReadingsArePast'
    BY <1>1, <2>5, <2>6, <2>10 DEF ReadingsArePast
  <2> QED
    BY <2>6, <2>8, <2>12, <2>13, <2>14 DEF LimiterInv
<1> QED
  BY <1>2, <1>3

\* A request looks at the clock when it arrives, and never again.
LEMMA GoesOn ==
    ASSUME TypeOK, NEW s \in Slot,
           \/ Limit(s) \/ Present(s) \/ FindUser(s) \/ Bear(s) \/ Dispatch(s) \/ Audit(s)
           \/ Answers(s) \/ LogIn(s) \/ BootstrapAdmin(s) \/ UpdateRole(s) \/ Panic(s)
    PROVE  \E c : Become(s, c) /\ c.step # "arrived"
<1> USE Parts
<1>1. Idle.step # "arrived" /\ (TurnedAway(s) => Become(s, Idle))
  BY DEF Idle, TurnedAway
<1>2. ASSUME NEW step \in {"admitted", "bearing"}, Become(s, [call[s] EXCEPT !.step = step])
      PROVE  \E c : Become(s, c) /\ c.step # "arrived"
  <2>1. [call[s] EXCEPT !.step = step].step # "arrived"
    BY DEF Call
  <2> QED
    BY <1>2, <2>1
<1>3. ASSUME NEW who, Become(s, Named(call[s], who)) PROVE \E c : Become(s, c) /\ c.step # "arrived"
  <2>1. Named(call[s], who).step # "arrived"
    BY DEF Named, Call
  <2> QED
    BY <1>3, <2>1
<1>4. ASSUME NEW step \in {"presented", "bearing", "signing"}, NEW t, Become(s, Claiming(call[s], step, t))
      PROVE  \E c : Become(s, c) /\ c.step # "arrived"
  <2>1. Claiming(call[s], step, t).step # "arrived"
    BY DEF Claiming, Call
  <2> QED
    BY <1>4, <2>1
<1>5. CASE Limit(s)
  BY <1>1, <1>2, <1>5 DEF Limit
<1>6. CASE Present(s)
  <2>1. Skipping(call[s]).step # "arrived"
    BY SkippingForm
  <2>2. \/ Become(s, Named(call[s], As("open", Nobody, "operator")))
        \/ Become(s, Skipping(call[s]))
        \/ \E t \in tokens : Become(s, Claiming(call[s], "presented", t))
        \/ Become(s, [call[s] EXCEPT !.step = "bearing"])
    BY <1>6 DEF Present, Named, Skipping, Claiming
  <2> QED
    BY <1>2, <1>3, <1>4, <2>1, <2>2
<1>7. CASE FindUser(s)
  BY <1>3, <1>4, <1>7 DEF FindUser, Named, Claiming
<1>8. CASE Bear(s)
  BY <1>1, <1>3, <1>8 DEF Bear, Named
<1>9. CASE Dispatch(s)
  <2>1. Done(call[s], "refused", FALSE).step # "arrived"
    BY DoneForm
  <2>2. \A r \in Routes : Running(call[s], r).step # "arrived"
    BY RunningForm
  <2> QED
    BY <1>1, <1>9, <2>1, <2>2, Dispatching
<1>10. CASE Audit(s) \/ Panic(s)
  BY <1>1, <1>10 DEF Audit, Panic
<1>11. CASE Answers(s)
  BY <1>11, Answering
<1>12. CASE LogIn(s) \/ BootstrapAdmin(s)
  <2>1. \E t : Become(s, Claiming(call[s], "signing", t))
    BY <1>12 DEF LogIn, BootstrapAdmin, Claiming
  <2> QED
    BY <1>4, <2>1
<1>13. CASE UpdateRole(s)
  <2>1. PICK u \in User : Become(s, Updating(call[s], u))
    BY <1>13 DEF UpdateRole, Updating
  <2>2. Updating(call[s], u).step # "arrived"
    BY UpdatingForm
  <2> QED
    BY <2>1, <2>2
<1> QED
  BY <1>5, <1>6, <1>7, <1>8, <1>9, <1>10, <1>11, <1>12, <1>13

LEMMA FreshNext == TypeOK /\ ReadingsAreFresh /\ [Next]_vars => ReadingsAreFresh'
<1> SUFFICES ASSUME TypeOK, ReadingsAreFresh, [Next]_vars PROVE ReadingsAreFresh'
  OBVIOUS
<1> USE Parts
<1>1. ASSUME NEW s \in Slot,
             \/ Limit(s) \/ Present(s) \/ FindUser(s) \/ Bear(s) \/ Dispatch(s) \/ Audit(s)
             \/ Answers(s) \/ LogIn(s) \/ BootstrapAdmin(s) \/ UpdateRole(s) \/ Panic(s)
      PROVE  ReadingsAreFresh'
  <2>1. PICK c : Become(s, c) /\ c.step # "arrived"
    BY <1>1, GoesOn
  <2>2. clock' = clock
    BY <1>1 DEF Limit, Present, FindUser, Bear, Dispatch, Audit, Answers, Refuse, Fail, Answer, Write,
       Sign, CreateUser, DeleteUser, IssueKey, RevokeKey, LogIn, BootstrapAdmin, UpdateRole, Panic
  <2>3. call'[s].step # "arrived" /\ \A q \in Slot : q # s => call'[q] = call[q]
    BY <2>1, Becomes
  <2> QED
    BY <2>2, <2>3 DEF ReadingsAreFresh, At
<1>2. ASSUME NEW s \in Slot, Arrive(s) PROVE ReadingsAreFresh'
  <2>1. arrivals + 1 \in 0..MaxRequests /\ clock \in 0..MaxClock
    BY <1>2 DEF Arrive, TypeOK
  <2>2. Become(s, Arrived(arrivals + 1, clock, LockedOut)) /\ clock' = clock
    BY <1>2 DEF Arrive, Arrived
  <2>3. call'[s].at = clock /\ \A q \in Slot : q # s => call'[q] = call[q]
    BY <2>1, <2>2, Becomes, ArrivedForm
  <2>4. clock <= clock + MaxDelay
    BY HttpGatewayAssumption
  <2> QED
    BY <2>2, <2>3, <2>4 DEF ReadingsAreFresh, At
<1>3. ASSUME NEW s \in Slot, SetActive(s) PROVE ReadingsAreFresh'
  <2>1. /\ call'[s].step = "done"
        /\ \A q \in Slot : q # s => SameButOut(call'[q], call[q])
    BY <1>3, Activating
  <2>2. clock' = clock
    BY <1>3 DEF SetActive
  <2> QED
    BY <2>1, <2>2 DEF ReadingsAreFresh, At, SameButOut
<1>4. ASSUME Tick PROVE ReadingsAreFresh'
  <2>1. ASSUME NEW s \in Slot, At(s, "arrived")
        PROVE  call[s].at <= clock + 1 /\ clock + 1 <= call[s].at + MaxDelay
    <3>1. clock \in Int /\ call[s].at \in Int /\ MaxDelay \in Int
      BY HttpGatewayAssumption
    <3>2. call[s].at <= clock /\ clock < call[s].at + MaxDelay
      BY <1>4, <2>1 DEF Tick, ReadingsAreFresh
    <3> QED
      BY <3>1, <3>2
  <2> QED
    BY <1>4, <2>1 DEF Tick, ReadingsAreFresh, At
<1>5. ASSUME Crash PROVE ReadingsAreFresh'
  BY <1>5 DEF Crash, ReadingsAreFresh, At, Idle
<1>6. ASSUME UNCHANGED <<clock, call>> PROVE ReadingsAreFresh'
  BY <1>6 DEF ReadingsAreFresh, At
<1>7. ASSUME NEW e \in pending, Append(e) \/ AppendFails(e) PROVE ReadingsAreFresh'
  BY <1>6, <1>7 DEF Append, AppendFails
<1> QED
  BY <1>1, <1>2, <1>3, <1>4, <1>5, <1>6, <1>7 DEF Next, Middleware, Handle, Answers, vars

LEMMA LimiterInit == Init => LimiterInv
<1> SUFFICES ASSUME Init PROVE LimiterInv
  OBVIOUS
<1>1. admitted = {} /\ earlier = {} /\ ~bucket.exists /\ \A s \in Slot : call[s].step = "idle"
  BY DEF Init, NoBucket, Idle
<1>2. IsFiniteSet({}) /\ RateHolds
  BY <1>1, FS_EmptySet, NothingIsWithin, RateIsWithin
<1> QED
  BY <1>1, <1>2 DEF LimiterInv, ReadingsAreFresh, ReadingsArePast, At

LEMMA LimiterNext == TypeOK /\ LimiterInv /\ [Next]_vars => LimiterInv'
<1> SUFFICES ASSUME TypeOK, LimiterInv, [Next]_vars PROVE LimiterInv'
  OBVIOUS
<1>1. ReadingsAreFresh'
  BY FreshNext DEF LimiterInv
<1>2. ASSUME UNCHANGED <<clock, limiter>> PROVE LimiterInv'
  BY <1>1, <1>2 DEF limiter, LimiterInv, ReadingsArePast, Covers, RateHolds, Worth
<1>3. ASSUME NEW s \in Slot, Limit(s) PROVE LimiterInv'
  BY <1>1, <1>3, LimiterLimit
<1>4. ASSUME Tick PROVE LimiterInv'
  <2>1. clock' = clock + 1 /\ UNCHANGED limiter
    BY <1>4 DEF Tick
  <2>2. ReadingsArePast'
    <3>1. /\ clock \in Int /\ MaxDelay \in Int /\ EvictAfter \in Int
          /\ \A a \in admitted \cup earlier : a[2] \in Int
      BY HttpGatewayAssumption DEF TypeOK
    <3> QED
      BY <2>1, <3>1 DEF limiter, LimiterInv, ReadingsArePast
  <2> QED
    BY <1>1, <2>1, <2>2 DEF limiter, LimiterInv, Covers, RateHolds, Worth
<1>5. ASSUME Crash PROVE LimiterInv'
  <2>1. bucket' = NoBucket /\ admitted' = {} /\ earlier' = {}
    BY <1>5 DEF Crash
  <2>2. IsFiniteSet({}) /\ Within({})
    BY FS_EmptySet, NothingIsWithin
  <2>3. RateHolds'
    BY <2>1, <2>2 DEF RateHolds, Within, Among
  <2> QED
    BY <1>1, <2>1, <2>2, <2>3 DEF LimiterInv, ReadingsArePast, NoBucket
<1>6. ASSUME NEW s \in Slot, Middleware(s) \/ Handle(s), ~Limit(s) PROVE LimiterInv'
  BY <1>2, <1>6 DEF Middleware, Handle, Arrive, Present, FindUser, Bear, Dispatch, Audit, Refuse, Fail,
     Answer, Write, Sign, CreateUser, DeleteUser, IssueKey, RevokeKey, LogIn, BootstrapAdmin,
     UpdateRole, SetActive, Panic
<1>7. ASSUME NEW e \in pending, Append(e) \/ AppendFails(e) PROVE LimiterInv'
  BY <1>2, <1>7 DEF Append, AppendFails
<1>8. CASE UNCHANGED vars
  BY <1>2, <1>8 DEF vars
<1> QED
  BY <1>3, <1>4, <1>5, <1>6, <1>7, <1>8 DEF Next

\* In any stretch of time a bucket lets no more requests through than it holds
\* and gains in it, although their readings of the clock come late to the lock;
\* a new bucket, which starts full whatever the rate is, comes only after the
\* address was idle.
THEOREM RateIsHeld == Spec => []RateHolds
<1>1. LimiterInv => RateHolds
  BY DEF LimiterInv
<1> QED
  BY <1>1, LimiterInit, LimiterNext, InitType, NextType, PTL DEF Spec
=============================================================================
