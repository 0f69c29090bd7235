---------------------------- MODULE ConfigReload ----------------------------
(***************************************************************************)
(* Provider and LLM configurations stored by administrators                 *)
(* (internal/core/usecase/provider_config.go, llm_config.go) and the live   *)
(* adapters an instance rebuilds from them after each change               *)
(* (cmd/observai-api/providers.go, adapters/outbound/dynamic), as requests  *)
(* that run concurrently over Postgres.                                     *)
(*                                                                         *)
(* A configuration is the number of the edit that wrote it and the kind of  *)
(* adapter it builds; names, addresses and credentials are data.            *)
(***************************************************************************)
EXTENDS Naturals, FiniteSets

CONSTANTS
    Provider,     \* ids of observability configurations, never given twice
    Llm,          \* ids of LLM configurations, never given twice
    Request,      \* requests in flight at a time
    Bootstrap,    \* the adapter of the configuration file
    Nothing,      \* the null adapter, which answers not configured
    Nobody,       \* stands for no request
    Faults,       \* {"store"}: statements fail and replies are lost; "crash"
    MaxEdits,     \* bound on the configurations written
    MaxCalls      \* bound on the requests

Settled == "settled"

ASSUME ConfigReloadAssumption ==
    /\ Provider \cap Llm = {}
    /\ Nobody \notin Provider \cup Llm \cup Request
    /\ Settled \notin Request /\ Nobody # Settled
    /\ Faults \subseteq {"store", "crash"}
    /\ MaxEdits \in Nat /\ MaxCalls \in Nat

VARIABLES
    rows,         \* the tables provider_configurations and llm_configurations
    live,         \* the adapters in use and the capabilities published
    call,         \* what each request is doing, see Call
    edits,        \* configurations written so far
    calls,        \* requests so far
    trust         \* history: the request that has run alone and met no fault
                  \* so far, Settled when it ended, Nobody when there is none

vars == <<rows, live, call, edits, calls, trust>>

-----------------------------------------------------------------------------
(* Rows and adapters.                                                       *)

Config == Provider \cup Llm

\* What the factory makes of a configuration: a collector (an LLM pair), a
\* collector and a trace provider, a collector and an error for the trace
\* provider, or an error.
Kind == {"plain", "traced", "bad_trace", "bad"}

Row == [state : {"none", "inactive", "active", "deleted"}, edit : Nat, kind : Kind]

NoRow == [state |-> "none", edit |-> 0, kind |-> "plain"]

Version == [id : Config, edit : Nat, kind : Kind]

VersionOf(i) == [id |-> i, edit |-> rows[i].edit, kind |-> rows[i].kind]

Exists(i) == rows[i].state \in {"inactive", "active"}

\* Those of a table that are active.
Active(table) == {i \in table : rows[i].state = "active"}

ActiveVersions(table) == {VersionOf(i) : i \in Active(table)}

Adapter == Version \cup {Bootstrap, Nothing}

\* A collector is the set of versions it was built from; {} is the
\* configuration file's.
Live == [collector : SUBSET Version, published : SUBSET Version,
         traces : Adapter, generator : Adapter, responder : Adapter,
         model : Adapter]

\* Neither stand-in is an adapter built from a configuration.
ASSUME AdapterAssumption ==
    /\ Bootstrap \notin Version /\ Nothing \notin Version
    /\ Bootstrap # Nothing

Initially == [collector |-> {}, published |-> {}, traces |-> Bootstrap,
              generator |-> Bootstrap, responder |-> Bootstrap, model |-> Bootstrap]

\* The error of one adapter is not looked at.
BuildsCollectorUnchecked(vs) == TRUE

\* BuildObservability: one adapter that cannot be built fails the set.
BuildsCollector(vs) == \A v \in vs : v.kind # "bad"

\* BuildTraceProvider takes the first configuration that has traces.
TraceCapable(vs) == {v \in vs : v.kind \in {"traced", "bad_trace"}}

TracesMayBe(vs) ==
    IF vs = {} THEN {Bootstrap}
    ELSE IF TraceCapable(vs) = {} THEN {Nothing}
    ELSE TraceCapable(vs)

BuildsTraces(a) == a \in {Bootstrap, Nothing} \/ a.kind = "traced"

BuildsLlm(v) == v.kind # "bad"

-----------------------------------------------------------------------------
Step == {"idle", "write", "begin", "deactivate", "activate", "commit", "find", "list",
         "collector", "publish_get", "publish_set", "traces", "llm",
         "generator", "responder", "model_get", "model_set"}

\* What a request has read, and was asked for.
Call == [step  : Step,
         id    : Config \cup {Nobody},
         kind  : Kind,                   \* of the configuration to write
         fresh : BOOLEAN,                \* it has created the configuration
         off   : SUBSET Llm,             \* rows the transaction deactivates
         seen  : SUBSET Version,         \* the active configurations it read
         found : Adapter,                \* the active LLM configuration it read
         copy  : [published : SUBSET Version, model : Adapter]]

NoCopy == [published |-> {}, model |-> Bootstrap]

Idle == [step |-> "idle", id |-> Nobody, kind |-> "plain", fresh |-> FALSE, off |-> {},
         seen |-> {}, found |-> Nothing, copy |-> NoCopy]

At(r, step) == call[r].step = step

MayFail == "store" \in Faults

Becomes(r, c) == call' = [call EXCEPT ![r] = c]

Continue(r, step) == Becomes(r, [call[r] EXCEPT !.step = step])

Ends(r) == Becomes(r, Idle)

\* Other requests are answered at the same time, or a fault was met.
Distrusted == trust' = Nobody

Trusted == UNCHANGED trust

\* The rows a transaction of another request has written.
Locked(r, i) ==
    \E q \in Request \ {r} :
        \/ call[q].step \in {"activate", "commit"} /\ i \in call[q].off
        \/ call[q].step = "commit" /\ i = call[q].id

Init ==
    /\ rows = [i \in Config |-> NoRow]
    /\ live = Initially
    /\ call = [r \in Request |-> Idle]
    /\ edits = 0
    /\ calls = 0
    /\ trust = Nobody

\* A request arrives.
Arrive(r) ==
    /\ At(r, "idle") /\ calls < MaxCalls
    /\ calls' = calls + 1

Alone(r) == \A q \in Request \ {r} : At(q, "idle")

\* The first statement of a request, which stores rs and goes on as c; when
\* it fails it may have stored rs all the same.
FirstStores(r, rs, c) ==
    \/ rows' = rs /\ Becomes(r, c) /\ trust' = (IF Alone(r) THEN r ELSE Nobody)
    \/ MayFail /\ rows' \in {rows, rs} /\ UNCHANGED call /\ Distrusted

\* The same of a later statement.
Stores(r, rs, step) ==
    \/ rows' = rs /\ Continue(r, step) /\ Trusted
    \/ MayFail /\ rows' \in {rows, rs} /\ Ends(r) /\ Distrusted

-----------------------------------------------------------------------------
(* Changes: the handlers' use cases up to the reload.                       *)

Insert(i, kind, state) ==
    [rows EXCEPT ![i] = [state |-> state, edit |-> edits + 1, kind |-> kind]]

\* ProviderConfig.Create
CreateProvider(r) ==
    /\ Arrive(r) /\ edits < MaxEdits
    /\ edits' = edits + 1
    /\ \E i \in Provider, kind \in Kind, state \in {"inactive", "active"} :
          /\ rows[i].state = "none"
          /\ FirstStores(r, Insert(i, kind, state), [Idle EXCEPT !.step = "list", !.id = i])
    /\ UNCHANGED live

\* LLMConfig.Create: the row is stored inactive and activated after it.
CreateLlm(r) ==
    /\ Arrive(r) /\ edits < MaxEdits
    /\ edits' = edits + 1
    /\ \E i \in Llm, kind \in {"plain", "bad"}, state \in {"inactive", "active"} :
          /\ rows[i].state = "none"
          /\ FirstStores(r, Insert(i, kind, "inactive"),
                 [Idle EXCEPT !.step = IF state = "active" THEN "begin" ELSE "list",
                              !.id = i, !.fresh = TRUE])
    /\ UNCHANGED live

\* Update, Find.
UpdateFind(r) ==
    /\ Arrive(r)
    /\ \E i \in Config, kind \in Kind :
          /\ Exists(i) /\ (i \in Llm => kind \in {"plain", "bad"})
          /\ Becomes(r, [Idle EXCEPT !.step = "write", !.id = i, !.kind = kind])
    /\ trust' = IF Alone(r) THEN r ELSE Nobody
    /\ UNCHANGED <<rows, live, edits>>

\* Update: a row that is gone by now is left alone, without an error; the
\* flag is_active keeps its value.
UpdateWrite(r) ==
    /\ At(r, "write") /\ edits < MaxEdits /\ ~Locked(r, call[r].id)
    /\ edits' = edits + 1
    /\ LET i == call[r].id
       IN Stores(r, IF Exists(i)
                    THEN [rows EXCEPT ![i].edit = edits + 1, ![i].kind = call[r].kind]
                    ELSE rows, "list")
    /\ UNCHANGED <<live, calls>>

\* Ids a client can name; one that is deleted is as good as never given.
Known(table) == {i \in table : rows[i].state # "none"}

\* ProviderConfig.setActive, of any id: an unknown one is found out by Find.
SetActive(r) ==
    /\ Arrive(r)
    /\ \E i \in Known(Provider), state \in {"inactive", "active"} :
          FirstStores(r, IF Exists(i) THEN [rows EXCEPT ![i].state = state] ELSE rows,
                      [Idle EXCEPT !.step = "find", !.id = i])
    /\ UNCHANGED <<live, edits>>

\* Delete, of any id.
Delete(r) ==
    /\ Arrive(r)
    /\ \E i \in Known(Config) :
          /\ ~Locked(r, i)
          /\ FirstStores(r, IF Exists(i) THEN [rows EXCEPT ![i].state = "deleted"] ELSE rows,
                         [Idle EXCEPT !.step = "list", !.id = i])
    /\ UNCHANGED <<live, edits>>

\* LLMConfig.Activate, of any id.
Activate(r) ==
    /\ Arrive(r)
    /\ \E i \in Known(Llm) : Becomes(r, [Idle EXCEPT !.step = "begin", !.id = i])
    /\ trust' = IF Alone(r) THEN r ELSE Nobody
    /\ UNCHANGED <<rows, live, edits>>

\* The transaction begins, and the statement that deactivates the rows it
\* sees active.
Begin(r) ==
    /\ At(r, "begin")
    /\ \/ /\ Becomes(r, [call[r] EXCEPT !.step = "deactivate", !.off = Active(Llm)])
          /\ Trusted
       \/ MayFail /\ Ends(r) /\ Distrusted
    /\ UNCHANGED <<rows, live, edits, calls>>

\* A row another transaction has written is waited for and looked at again;
\* one that has become active since is not seen.
DeactivateAll(r) ==
    /\ At(r, "deactivate")
    /\ \A i \in call[r].off : ~Locked(r, i)
    /\ \/ /\ Becomes(r, [call[r] EXCEPT !.step = "activate",
                                        !.off = @ \cap Active(Llm)])
          /\ Trusted
       \/ MayFail /\ Ends(r) /\ Distrusted
    /\ UNCHANGED <<rows, live, edits, calls>>

\* Without the unique index.
ConflictsUnchecked(r) == {}

\* The rows the unique index does not allow beside the one that is activated.
Conflicts(r) ==
    IF Exists(call[r].id) THEN Active(Llm) \ (call[r].off \cup {call[r].id}) ELSE {}

\* ActivateLLMConfig: waits for another transaction's rows; an active row
\* this one does not deactivate is an error and rolls it back.
ActivateOne(r) ==
    /\ At(r, "activate")
    /\ ~Locked(r, call[r].id)
    /\ \A q \in Request \ {r} : ~(At(q, "commit") /\ Exists(call[q].id))
    /\ \A i \in Conflicts(r) : ~Locked(r, i)
    /\ \/ Conflicts(r) = {} /\ Continue(r, "commit") /\ Trusted
       \/ Conflicts(r) # {} /\ Ends(r) /\ Distrusted
       \/ MayFail /\ Ends(r) /\ Distrusted
    /\ UNCHANGED <<rows, live, edits, calls>>

\* What the transaction leaves: the id may be unknown.
Swapped(i, off) ==
    [j \in Config |-> IF j = i /\ Exists(i) THEN [rows[j] EXCEPT !.state = "active"]
                      ELSE IF j \in off THEN [rows[j] EXCEPT !.state = "inactive"]
                      ELSE rows[j]]

Commit(r) ==
    /\ At(r, "commit")
    /\ Stores(r, Swapped(call[r].id, call[r].off), IF call[r].fresh THEN "list" ELSE "find")
    /\ UNCHANGED <<live, edits, calls>>

\* Find after setActive and Activate: no reload when the row is unknown.
FindAfter(r) ==
    /\ At(r, "find")
    /\ \/ Exists(call[r].id) /\ Continue(r, "list") /\ Trusted
       \/ (~Exists(call[r].id) \/ MayFail) /\ Ends(r) /\ Distrusted
    /\ UNCHANGED <<rows, live, edits, calls>>

-----------------------------------------------------------------------------
(* The reload: newAdapterReloader.  Every read may fail, also because the   *)
(* client that made the change is gone: the reload runs under its context.  *)

\* ListActive and BuildObservability, which fail without another effect.
ReloadList(r) ==
    /\ At(r, "list")
    /\ LET seen == ActiveVersions(Provider)
       IN \/ /\ BuildsCollector(seen)
             /\ Becomes(r, [call[r] EXCEPT !.step = "collector", !.seen = seen])
             /\ Trusted
          \/ ~BuildsCollector(seen) /\ Continue(r, "llm") /\ Trusted
          \/ MayFail /\ Continue(r, "llm") /\ Distrusted
    /\ UNCHANGED <<rows, live, edits, calls>>

SetCollector(r) ==
    /\ At(r, "collector")
    /\ live' = [live EXCEPT !.collector = call[r].seen]
    /\ Continue(r, "publish_get")
    /\ Trusted /\ UNCHANGED <<rows, edits, calls>>

\* The record the instance started with is taken for the one published.
TakeFirstCopy(r, step) ==
    Becomes(r, [call[r] EXCEPT !.step = step, !.copy = NoCopy])

\* capabilities.Get and Set copy the whole record under a lock each.
TakeCopy(r, step) ==
    Becomes(r, [call[r] EXCEPT !.step = step,
                    !.copy = [published |-> live.published, model |-> live.model]])

PublishGet(r) ==
    /\ At(r, "publish_get")
    /\ TakeCopy(r, "publish_set")
    /\ Trusted /\ UNCHANGED <<rows, live, edits, calls>>

PublishSet(r) ==
    /\ At(r, "publish_set")
    /\ live' = [live EXCEPT !.published = call[r].seen, !.model = call[r].copy.model]
    /\ Continue(r, "traces")
    /\ Trusted /\ UNCHANGED <<rows, edits, calls>>

SetTraces(r) ==
    /\ At(r, "traces")
    /\ \E a \in TracesMayBe(call[r].seen) :
          live' = IF BuildsTraces(a) THEN [live EXCEPT !.traces = a] ELSE live
    /\ Continue(r, "llm")
    /\ Trusted /\ UNCHANGED <<rows, edits, calls>>

\* The reload of r is done.
Reloaded(r) ==
    /\ Ends(r)
    /\ trust' = IF trust = r THEN Settled ELSE Nobody

\* FindActive and BuildLLM: without an active configuration, or with one
\* that cannot be built, the pair in use stays.
FindActiveLlm(r) ==
    /\ At(r, "llm")
    /\ \/ \E v \in ActiveVersions(Llm) :
             /\ BuildsLlm(v)
             /\ Becomes(r, [call[r] EXCEPT !.step = "generator", !.found = v])
             /\ Trusted
       \/ ~(\E v \in ActiveVersions(Llm) : BuildsLlm(v)) /\ Reloaded(r)
       \/ MayFail /\ Ends(r) /\ Distrusted
    /\ UNCHANGED <<rows, live, edits, calls>>

SetGenerator(r) ==
    /\ At(r, "generator")
    /\ live' = [live EXCEPT !.generator = call[r].found]
    /\ Continue(r, "responder")
    /\ Trusted /\ UNCHANGED <<rows, edits, calls>>

SetResponder(r) ==
    /\ At(r, "responder")
    /\ live' = [live EXCEPT !.responder = call[r].found]
    /\ Continue(r, "model_get")
    /\ Trusted /\ UNCHANGED <<rows, edits, calls>>

ModelGet(r) ==
    /\ At(r, "model_get")
    /\ TakeCopy(r, "model_set")
    /\ Trusted /\ UNCHANGED <<rows, live, edits, calls>>

ModelSet(r) ==
    /\ At(r, "model_set")
    /\ live' = [live EXCEPT !.published = call[r].copy.published, !.model = call[r].found]
    /\ Reloaded(r)
    /\ UNCHANGED <<rows, edits, calls>>

-----------------------------------------------------------------------------
(* The process dies and starts again: buildProviders, and a reload when it  *)
(* started from the configuration file.                                     *)

\* The adapters built from ps and ls at once, nothing if one of them fails.
BuiltFrom(ps, ls) ==
    IF ~BuildsCollector(ps) \/ \E v \in ls : ~BuildsLlm(v) THEN {}
    ELSE LET llm == IF ls = {} THEN Bootstrap ELSE CHOOSE v \in ls : TRUE
         IN {[collector |-> ps, published |-> ps, traces |-> a,
              generator |-> llm, responder |-> llm, model |-> llm] :
                 a \in {b \in TracesMayBe(ps) : BuildsTraces(b)}}

\* What a reload that nothing runs beside makes of adapters l.
AfterReload(l, ps, ls) ==
    LET withLlm(m) == IF \E v \in ls : BuildsLlm(v)
                      THEN LET v == CHOOSE v \in ls : BuildsLlm(v)
                           IN [m EXCEPT !.generator = v, !.responder = v, !.model = v]
                      ELSE m
    IN IF ~BuildsCollector(ps) THEN {withLlm(l)}
       ELSE {withLlm([l EXCEPT !.collector = ps, !.published = ps,
                               !.traces = IF BuildsTraces(a) THEN a ELSE @]) :
                 a \in TracesMayBe(ps)}

\* A table that cannot be read counts as empty at the start.
Readings(table) == {ActiveVersions(table)} \cup IF MayFail THEN {{}} ELSE {}

Restart ==
    /\ "crash" \in Faults
    /\ \E ps \in Readings(Provider), ls \in Readings(Llm) :
          \/ ps \cup ls # {} /\ live' \in BuiltFrom(ps, ls)
          \/ /\ ps \cup ls = {} \/ \E a \in TracesMayBe(ps) : ~BuildsTraces(a)
                \/ BuiltFrom(ps, ls) = {}
             /\ \E again \in Readings(Provider), llm \in Readings(Llm) :
                   live' \in AfterReload(Initially, again, llm)
    /\ call' = [r \in Request |-> Idle]
    /\ Distrusted
    /\ UNCHANGED <<rows, edits, calls>>

-----------------------------------------------------------------------------
ChangeStep(r) ==
    \/ CreateProvider(r) \/ CreateLlm(r) \/ UpdateFind(r) \/ UpdateWrite(r)
    \/ SetActive(r) \/ Delete(r) \/ FindAfter(r)
    \/ Activate(r) \/ Begin(r) \/ DeactivateAll(r) \/ ActivateOne(r) \/ Commit(r)

ReloadStep(r) ==
    \/ ReloadList(r) \/ SetCollector(r) \/ PublishGet(r) \/ PublishSet(r)
    \/ SetTraces(r) \/ FindActiveLlm(r) \/ SetGenerator(r) \/ SetResponder(r)
    \/ ModelGet(r) \/ ModelSet(r)

Next == (\E r \in Request : ChangeStep(r) \/ ReloadStep(r)) \/ Restart

Spec == Init /\ [][Next]_vars

-----------------------------------------------------------------------------
(* Properties.                                                              *)

\* The variables have the types their comments say.
TypeOK ==
    /\ rows \in [Config -> Row]
    /\ live \in Live
    /\ call \in [Request -> Call]
    /\ edits \in Nat /\ calls \in Nat
    /\ trust \in Request \cup {Nobody, Settled}

\* At most one LLM configuration is active, whatever creations and
\* activations run at the same time (the transaction of Activate and the
\* unique index).
OneActive == \A i, j \in Active(Llm) : i = j

\* What cannot be built never comes into use: neither a collector of a set
\* with such a configuration nor a part of it, whatever is stored meanwhile
\* and however the instance started (newAdapterReloader, buildProviders).
OnlyBuiltServes ==
    /\ \A v \in live.collector \cup live.published : v.kind # "bad"
    /\ live.traces \in {Bootstrap, Nothing} \/ live.traces.kind = "traced"
    /\ \A a \in {live.generator, live.responder, live.model} :
           a = Bootstrap \/ (a # Nothing /\ a.kind # "bad")

\* A change that ran alone and met no fault leaves the instance as stored,
\* whatever races, lost reloads and restarts there were before it: the
\* collector, the traces, both halves of the LLM pair and the capabilities
\* are those of the active configurations, as far as these can be built.
SettledIsCurrent ==
    trust = Settled =>
        LET ps == ActiveVersions(Provider)
        IN /\ BuildsCollector(ps) =>
                 /\ live.collector = ps /\ live.published = ps
                 /\ (\A a \in TracesMayBe(ps) : BuildsTraces(a)) => live.traces \in TracesMayBe(ps)
           /\ \A v \in ActiveVersions(Llm) : BuildsLlm(v) =>
                 live.generator = v /\ live.responder = v /\ live.model = v

\* providers.go:294: the reloader "atomically swaps the
\* collector/generator/responder/traces inside the supplied registries".
\* When no request is in progress both halves of the LLM pair come from one
\* configuration.
PairAgrees == (\A r \in Request : At(r, "idle")) => live.generator = live.responder
=============================================================================
