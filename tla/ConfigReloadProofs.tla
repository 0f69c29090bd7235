------------------------- MODULE ConfigReloadProofs -------------------------
(***************************************************************************)
(* For any configurations, requests and bounds, whatever races and fails:   *)
(* one LLM configuration is active, nothing unbuildable comes into use, and *)
(* a change that ran alone leaves the instance as stored.                   *)
(***************************************************************************)
EXTENDS ConfigReload, TLAPS

-----------------------------------------------------------------------------
(* Types *)

LEMMA RowTypes ==
    ASSUME TypeOK
    PROVE  /\ \A table \in {Provider, Llm} : ActiveVersions(table) \subseteq Version
           /\ \A table \in {Provider, Llm} : Active(table) \subseteq table
           /\ \A i \in Config, k \in Kind, s \in {"inactive", "active"} :
                 /\ Insert(i, k, s) \in [Config -> Row]
                 /\ [rows EXCEPT ![i].state = s] \in [Config -> Row]
                 /\ [rows EXCEPT ![i].state = "deleted"] \in [Config -> Row]
                 /\ [rows EXCEPT ![i].edit = edits + 1, ![i].kind = k] \in [Config -> Row]
           /\ \A i, off : Swapped(i, off) \in [Config -> Row]
<1> USE DEF TypeOK
<1>1. \A i \in Config : rows[i] \in Row
  OBVIOUS
<1>2. \A table \in {Provider, Llm} : Active(table) \subseteq table /\ table \subseteq Config
  BY DEF Active, Config
<1>3. \A i \in Config : VersionOf(i) \in Version
  BY <1>1 DEF VersionOf, Version, Row
<1>4. \A table \in {Provider, Llm} : ActiveVersions(table) \subseteq Version
  BY <1>2, <1>3 DEF ActiveVersions
<1>5. ASSUME NEW i \in Config, NEW k \in Kind, NEW s \in {"inactive", "active"}
      PROVE  /\ Insert(i, k, s) \in [Config -> Row]
             /\ [rows EXCEPT ![i].state = s] \in [Config -> Row]
             /\ [rows EXCEPT ![i].state = "deleted"] \in [Config -> Row]
             /\ [rows EXCEPT ![i].edit = edits + 1, ![i].kind = k] \in [Config -> Row]
  <2>1. [state |-> s, edit |-> edits + 1, kind |-> k] \in Row
    BY DEF Row
  <2> QED
    BY <1>1, <2>1 DEF Insert, Row
<1>6. ASSUME NEW i, NEW off PROVE Swapped(i, off) \in [Config -> Row]
  <2>1. \A j \in Config, s \in {"inactive", "active"} : [rows[j] EXCEPT !.state = s] \in Row
    BY <1>1 DEF Row
  <2> QED
    BY <1>1, <2>1 DEF Swapped
<1> QED
  BY <1>2, <1>4, <1>5, <1>6

LEMMA IdleType == Idle \in Call
  BY DEF Idle, NoCopy, Call, Adapter, Kind, Step

LlmStep == {"generator", "responder", "model_get", "model_set"}

\* A call that goes on to another step keeps the rest.
WithStep(c, step) == [c EXCEPT !.step = step]

WithCopy(c, step, published, model) ==
    [c EXCEPT !.step = step, !.copy = [published |-> published, model |-> model]]

WithSeen(c, seen) == [c EXCEPT !.step = "collector", !.seen = seen]

WithFound(c, found) == [c EXCEPT !.step = "generator", !.found = found]

LEMMA WithStepType ==
    ASSUME NEW c \in Call, NEW step \in Step
    PROVE  /\ WithStep(c, step) \in Call
           /\ WithStep(c, step).step = step /\ WithStep(c, step).id = c.id
           /\ WithStep(c, step).seen = c.seen /\ WithStep(c, step).found = c.found
           /\ WithStep(c, step).copy = c.copy
  BY DEF Call, WithStep

LEMMA WithCopyType ==
    ASSUME NEW c \in Call, NEW step \in Step, NEW p \in SUBSET Version, NEW m \in Adapter
    PROVE  /\ WithCopy(c, step, p, m) \in Call
           /\ WithCopy(c, step, p, m).step = step /\ WithCopy(c, step, p, m).id = c.id
           /\ WithCopy(c, step, p, m).seen = c.seen /\ WithCopy(c, step, p, m).found = c.found
           /\ WithCopy(c, step, p, m).copy.published = p
           /\ WithCopy(c, step, p, m).copy.model = m
  BY DEF Call, WithCopy

LEMMA WithSeenType ==
    ASSUME NEW c \in Call, NEW seen \in SUBSET Version
    PROVE  /\ WithSeen(c, seen) \in Call
           /\ WithSeen(c, seen).step = "collector" /\ WithSeen(c, seen).id = c.id
           /\ WithSeen(c, seen).seen = seen /\ WithSeen(c, seen).found = c.found
           /\ WithSeen(c, seen).copy = c.copy
  BY DEF Call, WithSeen, Step

LEMMA WithFoundType ==
    ASSUME NEW c \in Call, NEW found \in Adapter
    PROVE  /\ WithFound(c, found) \in Call
           /\ WithFound(c, found).step = "generator" /\ WithFound(c, found).id = c.id
           /\ WithFound(c, found).seen = c.seen /\ WithFound(c, found).found = found
           /\ WithFound(c, found).copy = c.copy
  BY DEF Call, WithFound, Step

\* What the request goes on with.
LEMMA GoesOn ==
    ASSUME TypeOK, NEW r \in Request, NEW step \in Step
    PROVE  /\ Continue(r, step) <=> Becomes(r, WithStep(call[r], step))
           /\ TakeCopy(r, step) <=>
                 Becomes(r, WithCopy(call[r], step, live.published, live.model))
           /\ call[r] \in Call /\ WithStep(call[r], step) \in Call
           /\ live.published \in SUBSET Version /\ live.model \in Adapter
           /\ WithCopy(call[r], step, live.published, live.model) \in Call
<1>1. call[r] \in Call /\ live \in Live
  BY DEF TypeOK
<1>2. live.published \in SUBSET Version /\ live.model \in Adapter
  BY <1>1 DEF Live
<1>3. WithStep(call[r], step) \in Call /\ WithCopy(call[r], step, live.published, live.model) \in Call
  BY <1>1, <1>2, WithStepType, WithCopyType
<1> QED
  BY <1>1, <1>2, <1>3 DEF Continue, TakeCopy, WithStep, WithCopy

LEMMA BecomesType ==
    ASSUME TypeOK, NEW r \in Request, NEW c, Becomes(r, c)
    PROVE  call'[r] = c /\ \A q \in Request : q # r => call'[q] = call[q]
  BY DEF TypeOK, Becomes

\* Writing a first statement of r leaves the variables it writes typed.
LEMMA FirstStoresType ==
    ASSUME TypeOK, NEW r \in Request, NEW rs \in [Config -> Row], NEW c \in Call,
           FirstStores(r, rs, c)
    PROVE  /\ rows' \in [Config -> Row] /\ call' \in [Request -> Call]
           /\ trust' \in Request \cup {Nobody, Settled}
  BY DEF TypeOK, FirstStores, Becomes, Distrusted

LEMMA StoresType ==
    ASSUME TypeOK, NEW r \in Request, NEW rs \in [Config -> Row], NEW step \in Step,
           Stores(r, rs, step)
    PROVE  /\ rows' \in [Config -> Row] /\ call' \in [Request -> Call]
           /\ trust' \in Request \cup {Nobody, Settled}
<1>1. [call[r] EXCEPT !.step = step] \in Call /\ Idle \in Call
  BY IdleType, GoesOn DEF WithStep
<1> QED
  BY <1>1 DEF TypeOK, Stores, Becomes, Distrusted, Continue, Ends, Trusted

\* A request that writes no row goes on as a call.
LEMMA GoesOnType ==
    ASSUME TypeOK, NEW r \in Request, NEW c \in Call, Becomes(r, c), Trusted \/ Distrusted,
           UNCHANGED <<rows, edits, calls>>, live' \in Live
    PROVE  TypeOK'
  BY DEF TypeOK, Becomes, Trusted, Distrusted

LEMMA AdaptersMade ==
    ASSUME NEW ps \in SUBSET Version, NEW ls \in SUBSET Version
    PROVE  /\ TracesMayBe(ps) \subseteq Adapter
           /\ BuiltFrom(ps, ls) \subseteq Live
           /\ \A l \in Live : AfterReload(l, ps, ls) \subseteq Live
<1>1. TracesMayBe(ps) \subseteq Adapter
  BY DEF TracesMayBe, TraceCapable, Adapter
<1>2. BuiltFrom(ps, ls) \subseteq Live
  <2>1. ls # {} => (CHOOSE v \in ls : TRUE) \in Version
    OBVIOUS
  <2> QED
    BY <1>1, <2>1 DEF BuiltFrom, Live, Adapter
<1>3. ASSUME NEW l \in Live PROVE AfterReload(l, ps, ls) \subseteq Live
  <2> DEFINE v == CHOOSE v \in ls : BuildsLlm(v)
             WithLlm(m) == IF \E w \in ls : BuildsLlm(w)
                           THEN [m EXCEPT !.generator = v, !.responder = v, !.model = v]
                           ELSE m
             WithTraces(a) == [l EXCEPT !.collector = ps, !.published = ps,
                                        !.traces = IF BuildsTraces(a) THEN a ELSE @]
  <2>1. \A m \in Live : WithLlm(m) \in Live
    <3>1. (\E w \in ls : BuildsLlm(w)) => v \in Version
      OBVIOUS
    <3> QED
      BY <3>1 DEF Live, Adapter
  <2>2. \A a \in TracesMayBe(ps) : WithTraces(a) \in Live
    BY <1>1 DEF Live
  <2>3. AfterReload(l, ps, ls) = IF ~BuildsCollector(ps) THEN {WithLlm(l)}
                                 ELSE {WithLlm(WithTraces(a)) : a \in TracesMayBe(ps)}
    BY DEF AfterReload
  <2> HIDE DEF WithLlm, WithTraces
  <2> QED
    BY <2>1, <2>2, <2>3
<1> QED
  BY <1>1, <1>2, <1>3

LEMMA InitType == Init => TypeOK
<1>1. NoRow \in Row /\ Initially \in Live
  BY DEF NoRow, Row, Kind, Initially, Live, Adapter
<1> QED
  BY <1>1, IdleType DEF Init, TypeOK

LEMMA NextType == TypeOK /\ [Next]_vars => TypeOK'
<1> SUFFICES ASSUME TypeOK, [Next]_vars PROVE TypeOK'
  OBVIOUS
<1>a. /\ edits \in Nat /\ calls \in Nat /\ live \in Live
      /\ \A r \in Request : call[r] \in Call
      /\ "plain" \in Kind
  BY DEF TypeOK, Kind
<1>b. ASSUME NEW r \in Request PROVE call[r].id \in Config \cup {Nobody} /\ call[r].kind \in Kind
  BY <1>a DEF Call
<1>c. ASSUME NEW r \in Request, Arrive(r) PROVE calls' \in Nat
  BY <1>a, <1>c DEF Arrive
<1>1. ASSUME NEW r \in Request, CreateProvider(r) PROVE TypeOK'
  <2>1. PICK i \in Provider, kind \in Kind, state \in {"inactive", "active"} :
           FirstStores(r, Insert(i, kind, state), [Idle EXCEPT !.step = "list", !.id = i])
    BY <1>1 DEF CreateProvider
  <2>2. i \in Config /\ [Idle EXCEPT !.step = "list", !.id = i] \in Call
    BY DEF Config, Idle, Call, Step, Kind, NoCopy, Adapter
  <2>3. Insert(i, kind, state) \in [Config -> Row]
    BY <2>2, RowTypes
  <2> QED
    BY <1>1, <1>a, <1>c, <2>1, <2>2, <2>3, FirstStoresType DEF CreateProvider, TypeOK
<1>2. ASSUME NEW r \in Request, CreateLlm(r) PROVE TypeOK'
  <2> DEFINE c(i, state) == [Idle EXCEPT !.step = IF state = "active" THEN "begin" ELSE "list",
                                         !.id = i, !.fresh = TRUE]
  <2>1. PICK i \in Llm, kind \in {"plain", "bad"}, state \in {"inactive", "active"} :
           FirstStores(r, Insert(i, kind, "inactive"), c(i, state))
    BY <1>2 DEF CreateLlm
  <2>2. i \in Config /\ c(i, state) \in Call
    BY DEF Config, Idle, Call, Step, Kind, NoCopy, Adapter
  <2>3. Insert(i, kind, "inactive") \in [Config -> Row]
    BY <2>2, RowTypes DEF Kind
  <2> QED
    BY <1>2, <1>a, <1>c, <2>1, <2>2, <2>3, FirstStoresType DEF CreateLlm, TypeOK
<1>3. ASSUME NEW r \in Request, UpdateFind(r) PROVE TypeOK'
  <2>1. PICK i \in Config, kind \in Kind :
           Becomes(r, [Idle EXCEPT !.step = "write", !.id = i, !.kind = kind])
    BY <1>3 DEF UpdateFind
  <2>2. [Idle EXCEPT !.step = "write", !.id = i, !.kind = kind] \in Call
    BY DEF Idle, Call, Step, Kind, NoCopy, Adapter
  <2> QED
    BY <1>3, <1>a, <1>c, <2>1, <2>2 DEF UpdateFind, Becomes, TypeOK
<1>4. ASSUME NEW r \in Request, UpdateWrite(r) PROVE TypeOK'
  <2>1. \A rs \in [Config -> Row] : Stores(r, rs, "list") =>
           /\ rows' \in [Config -> Row] /\ call' \in [Request -> Call]
           /\ trust' \in Request \cup {Nobody, Settled}
    BY StoresType DEF Step
  <2>3. [rows EXCEPT ![call[r].id].edit = edits + 1, ![call[r].id].kind = call[r].kind]
            \in [Config -> Row]
    <3>1. CASE call[r].id \in Config
      BY <3>1, <1>b, RowTypes
    <3>2. CASE call[r].id \notin Config
      BY <3>2 DEF TypeOK
    <3> QED
      BY <3>1, <3>2
  <2>4. rows' \in [Config -> Row] /\ call' \in [Request -> Call]
        /\ trust' \in Request \cup {Nobody, Settled}
    BY <1>4, <2>1, <2>3 DEF UpdateWrite, TypeOK
  <2>5. edits' \in Nat /\ calls' \in Nat /\ live' \in Live
    BY <1>4, <1>a DEF UpdateWrite
  <2> QED
    BY <2>4, <2>5 DEF TypeOK
<1>5. ASSUME NEW r \in Request, SetActive(r) PROVE TypeOK'
  <2>1. PICK i \in Provider, state \in {"inactive", "active"} :
           FirstStores(r, IF Exists(i) THEN [rows EXCEPT ![i].state = state] ELSE rows,
                       [Idle EXCEPT !.step = "find", !.id = i])
    BY <1>5 DEF SetActive, Known
  <2>2. i \in Config /\ [Idle EXCEPT !.step = "find", !.id = i] \in Call
    BY DEF Config, Idle, Call, Step, Kind, NoCopy, Adapter
  <2>3. (IF Exists(i) THEN [rows EXCEPT ![i].state = state] ELSE rows) \in [Config -> Row]
    BY <1>a, <2>2, RowTypes DEF TypeOK
  <2> QED
    BY <1>5, <1>a, <1>c, <2>1, <2>2, <2>3, FirstStoresType DEF SetActive, TypeOK
<1>6. ASSUME NEW r \in Request, Delete(r) PROVE TypeOK'
  <2>1. PICK i \in Config :
           FirstStores(r, IF Exists(i) THEN [rows EXCEPT ![i].state = "deleted"] ELSE rows,
                       [Idle EXCEPT !.step = "list", !.id = i])
    BY <1>6 DEF Delete, Known
  <2>2. [Idle EXCEPT !.step = "list", !.id = i] \in Call
    BY DEF Idle, Call, Step, Kind, NoCopy, Adapter
  <2>3. (IF Exists(i) THEN [rows EXCEPT ![i].state = "deleted"] ELSE rows) \in [Config -> Row]
    BY <1>a, RowTypes DEF TypeOK
  <2> QED
    BY <1>6, <1>a, <1>c, <2>1, <2>2, <2>3, FirstStoresType DEF Delete, TypeOK
<1>7. ASSUME NEW r \in Request, Activate(r) PROVE TypeOK'
  <2>1. PICK i \in Llm : Becomes(r, [Idle EXCEPT !.step = "begin", !.id = i])
    BY <1>7 DEF Activate, Known
  <2>2. [Idle EXCEPT !.step = "begin", !.id = i] \in Call
    BY DEF Config, Idle, Call, Step, Kind, NoCopy, Adapter
  <2> QED
    BY <1>7, <1>a, <1>c, <2>1, <2>2 DEF Activate, Becomes, TypeOK
<1>8. ASSUME NEW r \in Request, \/ Begin(r) \/ DeactivateAll(r) \/ ActivateOne(r)
                                \/ FindAfter(r) \/ ReloadList(r)
      PROVE  TypeOK'
  <2>1. /\ \A step \in Step : [call[r] EXCEPT !.step = step] \in Call
        /\ [call[r] EXCEPT !.step = "deactivate", !.off = Active(Llm)] \in Call
        /\ [call[r] EXCEPT !.step = "activate", !.off = @ \cap Active(Llm)] \in Call
        /\ [call[r] EXCEPT !.step = "collector", !.seen = ActiveVersions(Provider)] \in Call
    <3>1. Active(Llm) \in SUBSET Llm /\ ActiveVersions(Provider) \in SUBSET Version
      BY RowTypes
    <3>2. call[r].off \cap Active(Llm) \in SUBSET Llm
      BY <3>1
    <3> QED
      BY <1>a, <3>1, <3>2 DEF Call, Step
  <2> QED
    BY <1>8, <1>a, <2>1, IdleType, GoesOnType
    DEF Begin, DeactivateAll, ActivateOne, FindAfter, ReloadList, Continue, Ends, Step
<1>9. ASSUME NEW r \in Request, Commit(r) PROVE TypeOK'
  <2>1. \A rs \in [Config -> Row], step \in {"list", "find"} : Stores(r, rs, step) =>
           /\ rows' \in [Config -> Row] /\ call' \in [Request -> Call]
           /\ trust' \in Request \cup {Nobody, Settled}
    BY StoresType DEF Step
  <2> QED
    BY <1>9, <1>a, <2>1, RowTypes DEF Commit, TypeOK
<1>10. ASSUME NEW r \in Request,
              \/ SetCollector(r) \/ PublishGet(r) \/ PublishSet(r) \/ SetTraces(r)
              \/ SetGenerator(r) \/ SetResponder(r) \/ ModelGet(r)
       PROVE  TypeOK'
  <2>1. \A step \in Step :
          /\ [call[r] EXCEPT !.step = step] \in Call
          /\ [call[r] EXCEPT !.step = step,
                 !.copy = [published |-> live.published, model |-> live.model]] \in Call
    BY <1>a DEF Call, Live
  <2>2. /\ call[r].seen \in SUBSET Version /\ call[r].found \in Adapter
        /\ call[r].copy.model \in Adapter
    BY <1>a DEF Call
  <2>3. /\ [live EXCEPT !.collector = call[r].seen] \in Live
        /\ [live EXCEPT !.published = call[r].seen, !.model = call[r].copy.model] \in Live
        /\ \A a \in TracesMayBe(call[r].seen) : [live EXCEPT !.traces = a] \in Live
        /\ [live EXCEPT !.generator = call[r].found] \in Live
        /\ [live EXCEPT !.responder = call[r].found] \in Live
    BY <1>a, <2>2, AdaptersMade DEF Live
  <2> QED
    BY <1>10, <1>a, <2>1, <2>3, GoesOnType
    DEF SetCollector, PublishGet, PublishSet, SetTraces, SetGenerator, SetResponder, ModelGet,
        TakeCopy, Continue, Step
<1>11. ASSUME NEW r \in Request, FindActiveLlm(r) PROVE TypeOK'
  <2>1. \A v \in ActiveVersions(Llm) :
           [call[r] EXCEPT !.step = "generator", !.found = v] \in Call
    <3>1. ActiveVersions(Llm) \subseteq Adapter
      BY RowTypes DEF Adapter
    <3> QED
      BY <1>a, <3>1, WithFoundType DEF WithFound
  <2>2. CASE Reloaded(r)
    BY <1>11, <1>a, <2>2, IdleType DEF FindActiveLlm, Reloaded, Ends, Becomes, TypeOK
  <2> QED
    BY <1>11, <1>a, <2>1, <2>2, IdleType, GoesOnType DEF FindActiveLlm, Ends
<1>12. ASSUME NEW r \in Request, ModelSet(r) PROVE TypeOK'
  <2>1. [live EXCEPT !.published = call[r].copy.published, !.model = call[r].found] \in Live
    BY <1>a DEF Call, Live
  <2> QED
    BY <1>12, <1>a, <2>1, IdleType DEF ModelSet, Reloaded, Ends, Becomes, TypeOK
<1>13. ASSUME Restart PROVE TypeOK'
  <2>1. Initially \in Live
    BY DEF Initially, Live, Adapter
  <2>2. \A table \in {Provider, Llm} : Readings(table) \subseteq SUBSET Version
    BY RowTypes DEF Readings
  <2>3. live' \in Live
    BY <1>13, <2>1, <2>2, AdaptersMade DEF Restart
  <2> QED
    BY <1>13, <2>3, IdleType DEF Restart, TypeOK, Distrusted
<1>14. CASE UNCHANGED vars
  BY <1>14 DEF vars, TypeOK
<1> QED
  BY <1>1, <1>2, <1>3, <1>4, <1>5, <1>6, <1>7, <1>8, <1>9, <1>10, <1>11, <1>12, <1>13, <1>14
  DEF Next, ChangeStep, ReloadStep

\* The variables have the types their comments say.
THEOREM TypeCorrect == Spec => []TypeOK
  BY InitType, NextType, PTL DEF Spec

-----------------------------------------------------------------------------
(* The activation transactions. *)

\* The transaction of r has written row i.
Holds(r, i) ==
    \/ call[r].step \in {"activate", "commit"} /\ i \in call[r].off
    \/ call[r].step = "commit" /\ i = call[r].id

\* A request works on a configuration that was stored once.
Refers ==
    \A r \in Request :
       /\ ~At(r, "idle") => call[r].id \in Known(Config)
       /\ call[r].step \in {"begin", "deactivate", "activate", "commit"} => call[r].id \in Llm

\* The rows a transaction deactivates stay active until it commits, and no
\* two transactions write the same one.
LocksHeld ==
    /\ \A r \in Request :
          call[r].step \in {"activate", "commit"} => call[r].off \subseteq Active(Llm)
    /\ \A r, q \in Request, i \in Llm : Holds(r, i) /\ Holds(q, i) => r = q

\* A transaction about to commit deactivates everything but its own row, and
\* no other does so beside it unless its row is gone.
CommitsAreSwaps ==
    /\ \A r \in Request :
          At(r, "commit") /\ Exists(call[r].id) => Active(Llm) \subseteq call[r].off \cup {call[r].id}
    /\ \A r, q \in Request :
          /\ At(r, "commit") /\ Exists(call[r].id)
          /\ At(q, "commit") /\ Exists(call[q].id)
          => r = q

ActivationInv == Refers /\ LocksHeld /\ CommitsAreSwaps /\ OneActive

\* What every statement but a commit leaves of the rows: none is forgotten, an
\* LLM configuration is stored inactive, and a row that is deleted is nobody's.
RowsKept ==
    /\ \A i \in Known(Config) : rows'[i].state # "none"
    /\ \A i \in Llm :
          \/ rows'[i].state = rows[i].state
          \/ rows[i].state = "none" /\ rows'[i].state = "inactive"
          \/ rows'[i].state = "deleted" /\ \A q \in Request : ~Holds(q, i)

\* A step outside the transactions, or one that ends them.
LEMMA QuietStep ==
    ASSUME TypeOK, ActivationInv, RowsKept, NEW r \in Request, NEW c \in Call,
           call' = call \/ Becomes(r, c),
           c.step \notin {"activate", "commit"},
           c.step # "idle" => c.id \in Config /\ rows'[c.id].state # "none",
           c.step \in {"begin", "deactivate"} => c.id \in Llm
    PROVE  ActivationInv'
<1> USE DEF TypeOK, ActivationInv
<1>1. \A q \in Request : call'[q] = call[q] \/ (q = r /\ call'[q] = c)
  BY DEF Becomes
<1>2. \A q \in Request, i \in Llm : Holds(q, i)' => Holds(q, i)
  BY <1>1 DEF Holds
<1>3. Active(Llm)' \subseteq Active(Llm)
  BY DEF Active, RowsKept
<1>4. ASSUME NEW q \in Request, call'[q].step \in {"activate", "commit"}
      PROVE  call'[q] = call[q] /\ call[q].off \subseteq Active(Llm) /\ call[q].id \in Llm
             /\ rows[call[q].id].state # "none"
  BY <1>1, <1>4 DEF LocksHeld, Refers, At, Known
<1>5. Refers'
  <2>1. ASSUME NEW q \in Request, call'[q].step # "idle"
        PROVE  call'[q].id \in Config /\ rows'[call'[q].id].state # "none"
    BY <1>1, <2>1 DEF Refers, At, Known, RowsKept
  <2> QED
    BY <2>1, <1>1 DEF Refers, At, Known
<1>6. LocksHeld'
  <2>1. ASSUME NEW q \in Request, call'[q].step \in {"activate", "commit"}, NEW i \in call'[q].off
        PROVE  i \in Active(Llm)'
    <3>1. i \in Active(Llm) /\ i \in Llm /\ Holds(q, i)
      BY <1>4, <2>1 DEF Holds, Active
    <3>2. rows'[i].state = rows[i].state
      BY <3>1 DEF RowsKept, Active
    <3> QED
      BY <3>1, <3>2 DEF Active
  <2>2. \A q, s \in Request, i \in Llm : Holds(q, i)' /\ Holds(s, i)' => q = s
    BY <1>2 DEF LocksHeld
  <2> QED
    BY <2>1, <2>2 DEF LocksHeld
<1>7. CommitsAreSwaps'
  <2>1. ASSUME NEW q \in Request, At(q, "commit")', Exists(call[q].id)'
        PROVE  At(q, "commit") /\ Exists(call[q].id) /\ call'[q] = call[q]
    <3>1. call'[q] = call[q] /\ call[q].id \in Llm /\ rows[call[q].id].state # "none"
      BY <1>4, <2>1 DEF At
    <3> QED
      BY <2>1, <3>1 DEF At, Exists, RowsKept
  <2> QED
    BY <2>1, <1>3 DEF CommitsAreSwaps, At
<1>8. OneActive'
  BY <1>3 DEF OneActive
<1> QED
  BY <1>5, <1>6, <1>7, <1>8

\* Statements outside the transactions leave the rows so.
LEMMA StatementsKeep ==
    ASSUME TypeOK, NEW i \in Config
    PROVE  /\ rows' = rows => RowsKept
           /\ \A k \in Kind, s \in {"inactive", "active"} :
                 rows[i].state = "none" /\ (i \in Llm => s = "inactive") /\ rows' = Insert(i, k, s)
                     => RowsKept /\ rows'[i].state # "none"
           /\ \A s \in {"inactive", "active"} :
                 i \in Provider /\ rows' = [rows EXCEPT ![i].state = s] => RowsKept
           /\ \A e \in Nat, k \in Kind :
                 rows' = [rows EXCEPT ![i].edit = e, ![i].kind = k] => RowsKept
           /\ (\A q \in Request : ~Holds(q, i)) /\ rows' = [rows EXCEPT ![i].state = "deleted"]
                  => RowsKept
<1> USE ConfigReloadAssumption DEF TypeOK, RowsKept, Known
<1>1. \A j \in Config : rows[j] \in Row
  OBVIOUS
<1>2. Llm \subseteq Config /\ Provider \cap Llm = {}
  BY DEF Config
<1>3. rows' = rows => RowsKept
  BY <1>2
<1>4. ASSUME NEW k \in Kind, NEW s \in {"inactive", "active"}, rows[i].state = "none",
             i \in Llm => s = "inactive", rows' = Insert(i, k, s)
      PROVE  RowsKept /\ rows'[i].state # "none"
  BY <1>2, <1>4 DEF Insert
<1>5. ASSUME NEW s \in {"inactive", "active"}, i \in Provider, rows' = [rows EXCEPT ![i].state = s]
      PROVE  RowsKept
  BY <1>1, <1>2, <1>5 DEF Row
<1>6. ASSUME NEW e \in Nat, NEW k \in Kind, rows' = [rows EXCEPT ![i].edit = e, ![i].kind = k]
      PROVE  RowsKept
  BY <1>1, <1>2, <1>6 DEF Row
<1>7. ASSUME \A q \in Request : ~Holds(q, i), rows' = [rows EXCEPT ![i].state = "deleted"]
      PROVE  RowsKept
  BY <1>1, <1>2, <1>7 DEF Row
<1> QED
  BY <1>3, <1>4, <1>5, <1>6, <1>7

\* The rows the transaction of r leaves when it commits.
LEMMA SwapKeeps ==
    ASSUME TypeOK, ActivationInv, NEW r \in Request, At(r, "commit"),
           rows' \in {rows, Swapped(call[r].id, call[r].off)}, NEW c \in Call, Becomes(r, c),
           c.step \in {"idle", "list", "find"}, c.id \in {Nobody, call[r].id},
           c.step # "idle" => c.id # Nobody
    PROVE  ActivationInv'
<1> USE DEF TypeOK, ActivationInv
<1> DEFINE i == call[r].id
           off == call[r].off
<1>1. i \in Llm /\ rows[i].state # "none" /\ off \subseteq Active(Llm) /\ Llm \subseteq Config
  BY DEF Refers, LocksHeld, At, Known, Config
<1>2. CASE rows' = rows
  <2>1. RowsKept
    BY <1>1, <1>2, StatementsKeep
  <2> QED
    BY <1>1, <1>2, <2>1, QuietStep
<1>3. CASE rows' = Swapped(i, off)
  <2>1. \A j \in Config : rows[j] \in Row
    OBVIOUS
  <2>2. \A j \in Config :
           rows'[j].state = IF j = i /\ Exists(i) THEN "active"
                            ELSE IF j \in off THEN "inactive" ELSE rows[j].state
    BY <1>3, <2>1 DEF Swapped, Row
  <2>3. \A j \in Config : (rows[j].state # "none" => rows'[j].state # "none")
                          /\ (Exists(j)' => Exists(j))
    BY <1>1, <2>2 DEF Active, Exists
  <2>4. \A q \in Request : q # r => call'[q] = call[q]
    BY DEF Becomes
  <2>5. call'[r] = c
    BY DEF Becomes
  <2>6. Refers'
    <3>1. ASSUME NEW q \in Request, call'[q].step # "idle"
          PROVE  call'[q].id \in Config /\ rows'[call'[q].id].state # "none"
      BY <1>1, <2>3, <2>4, <2>5, <3>1 DEF Refers, At, Known
    <3> QED
      BY <3>1, <2>4, <2>5 DEF Refers, At, Known
  <2>7. LocksHeld'
    <3>1. ASSUME NEW q \in Request, call'[q].step \in {"activate", "commit"}, NEW j \in call'[q].off
          PROVE  j \in Active(Llm)'
      <4>1. q # r /\ call'[q] = call[q]
        BY <3>1, <2>4, <2>5
      <4>2. j \in Active(Llm) /\ Holds(q, j)
        BY <3>1, <4>1 DEF LocksHeld, Holds
      <4>3. j \notin off /\ j # i
        <5>1. Holds(r, i) /\ \A k \in off : Holds(r, k)
          BY DEF Holds, At
        <5> QED
          BY <4>1, <4>2, <5>1 DEF LocksHeld, Active
      <4> QED
        BY <2>2, <4>2, <4>3, <1>1 DEF Active
    <3>2. \A q \in Request, j \in Llm : Holds(q, j)' => Holds(q, j)
      BY <2>4, <2>5 DEF Holds
    <3> QED
      BY <3>1, <3>2 DEF LocksHeld
  <2>8. OneActive' /\ CommitsAreSwaps'
    <3>1. CASE Exists(i)
      <4>1. Active(Llm)' \subseteq {i}
        <5>1. Active(Llm) \subseteq off \cup {i}
          BY <3>1 DEF CommitsAreSwaps, At
        <5> QED
          BY <1>1, <2>2, <5>1 DEF Active
      <4>2. \A q \in Request : ~(At(q, "commit")' /\ Exists(call[q].id)')
        <5>1. SUFFICES ASSUME NEW q \in Request, At(q, "commit")', Exists(call[q].id)' PROVE FALSE
          OBVIOUS
        <5>2. q # r /\ call'[q] = call[q] /\ At(q, "commit") /\ call[q].id \in Config
          BY <5>1, <2>4, <2>5, <1>1 DEF At, Refers, Known
        <5>3. Exists(call[q].id)
          BY <5>1, <5>2, <2>3 DEF Exists
        <5> QED
          BY <5>2, <5>3, <3>1 DEF CommitsAreSwaps
      <4> QED
        BY <4>1, <4>2 DEF OneActive, CommitsAreSwaps
    <3>2. CASE ~Exists(i)
      <4>1. Active(Llm)' \subseteq Active(Llm)
        BY <1>1, <2>2, <3>2 DEF Active
      <4>2. ASSUME NEW q \in Request, At(q, "commit")', Exists(call[q].id)'
            PROVE  call'[q] = call[q] /\ At(q, "commit") /\ Exists(call[q].id)
        <5>1. call'[q] = call[q] /\ At(q, "commit") /\ call[q].id \in Config
          BY <4>2, <2>4, <2>5 DEF At, Refers, Known
        <5> QED
          BY <5>1, <4>2, <2>3 DEF Exists
      <4> QED
        BY <4>1, <4>2 DEF OneActive, CommitsAreSwaps, At
    <3> QED
      BY <3>1, <3>2
  <2> QED
    BY <2>6, <2>7, <2>8
<1> QED
  BY <1>2, <1>3

LEMMA ActivationInit == Init => ActivationInv
  BY DEF Init, ActivationInv, Refers, LocksHeld, CommitsAreSwaps, OneActive, Holds, At, Idle,
     Active, NoRow, Config

LEMMA ActivationNext == TypeOK /\ TypeOK' /\ ActivationInv /\ [Next]_vars => ActivationInv'
<1> SUFFICES ASSUME TypeOK, TypeOK', ActivationInv, [Next]_vars PROVE ActivationInv'
  OBVIOUS
<1>a. Idle \in Call /\ Idle.step = "idle" /\ Idle.id = Nobody
  BY IdleType DEF Idle
<1>b. ASSUME NEW r \in Request
      PROVE  /\ call[r] \in Call /\ call'[r] \in Call
             /\ ~At(r, "idle") => call[r].id \in Config /\ rows[call[r].id].state # "none"
             /\ call[r].step \in {"begin", "deactivate", "activate", "commit"} => call[r].id \in Llm
  BY IdleType DEF TypeOK, ActivationInv, Refers, Known
<1>c. Llm \subseteq Config /\ Provider \subseteq Config /\ Provider \cap Llm = {}
  BY ConfigReloadAssumption DEF Config
\* Steps that change no row and do not go on in a transaction.
<1>d. ASSUME NEW r \in Request, NEW c \in Call, rows' = rows, Becomes(r, c),
             c.step \notin {"activate", "commit"},
             c.step = "idle" \/ c.id \in Known(Config),
             c.step \in {"begin", "deactivate"} => c.id \in Llm
      PROVE  ActivationInv'
  <2>1. RowsKept
    BY <1>d DEF RowsKept, Known
  <2> QED
    BY <1>d, <2>1, QuietStep DEF Known
\* First statements outside the transactions.
<1>e. ASSUME NEW r \in Request, NEW rs, NEW c \in Call, FirstStores(r, rs, c),
             rows' = rs => RowsKept,
             c.step \notin {"activate", "commit", "idle"}, c.id \in Config,
             rows' = rs => rows'[c.id].state # "none",
             c.step \in {"begin", "deactivate"} => c.id \in Llm
      PROVE  ActivationInv'
  <2>1. CASE rows' = rs /\ Becomes(r, c)
    BY <1>e, <2>1, QuietStep
  <2>2. CASE rows' \in {rows, rs} /\ call' = call
    <3>1. RowsKept
      BY <1>e, <2>2 DEF RowsKept, Known
    <3> QED
      BY <1>a, <2>2, <3>1, QuietStep
  <2> QED
    BY <1>e, <2>1, <2>2 DEF FirstStores
<1>1. ASSUME NEW r \in Request, CreateProvider(r) PROVE ActivationInv'
  <2>1. PICK i \in Provider, kind \in Kind, state \in {"inactive", "active"} :
           /\ rows[i].state = "none"
           /\ FirstStores(r, Insert(i, kind, state), [Idle EXCEPT !.step = "list", !.id = i])
    BY <1>1 DEF CreateProvider
  <2> DEFINE c == [Idle EXCEPT !.step = "list", !.id = i]
  <2>2. i \in Config /\ c \in Call /\ c.step = "list" /\ c.id = i
    BY <1>a, <1>c DEF Call, Step, Idle
  <2>3. rows' = Insert(i, kind, state) => RowsKept /\ rows'[i].state # "none"
    BY <1>c, <2>1, <2>2, StatementsKeep
  <2> HIDE DEF c
  <2> QED
    BY <1>e, <2>1, <2>2, <2>3 DEF c
<1>2. ASSUME NEW r \in Request, CreateLlm(r) PROVE ActivationInv'
  <2>1. PICK i \in Llm, kind \in {"plain", "bad"}, state \in {"inactive", "active"} :
           /\ rows[i].state = "none"
           /\ FirstStores(r, Insert(i, kind, "inactive"),
                  [Idle EXCEPT !.step = IF state = "active" THEN "begin" ELSE "list",
                               !.id = i, !.fresh = TRUE])
    BY <1>2 DEF CreateLlm
  <2> DEFINE c == [Idle EXCEPT !.step = IF state = "active" THEN "begin" ELSE "list",
                               !.id = i, !.fresh = TRUE]
  <2>2. i \in Config /\ c \in Call /\ c.step \in {"begin", "list"} /\ c.id = i
    BY <1>a, <1>c DEF Call, Step, Idle
  <2>3. rows' = Insert(i, kind, "inactive") => RowsKept /\ rows'[i].state # "none"
    BY <2>1, <2>2, StatementsKeep DEF Kind
  <2>4. FirstStores(r, Insert(i, kind, "inactive"), c)
    BY <2>1
  <2> HIDE DEF c
  <2> QED
    BY <1>e, <2>2, <2>3, <2>4
<1>3. ASSUME NEW r \in Request, UpdateFind(r) PROVE ActivationInv'
  <2>1. PICK i \in Config, kind \in Kind :
           Exists(i) /\ Becomes(r, [Idle EXCEPT !.step = "write", !.id = i, !.kind = kind])
    BY <1>3 DEF UpdateFind
  <2> DEFINE c == [Idle EXCEPT !.step = "write", !.id = i, !.kind = kind]
  <2>2. c \in Call /\ c.step = "write" /\ c.id = i /\ i \in Known(Config)
    BY <1>a, <2>1 DEF Call, Step, Idle, Known, Exists
  <2>3. rows' = rows /\ Becomes(r, c)
    BY <1>3, <2>1 DEF UpdateFind
  <2> HIDE DEF c
  <2> QED
    BY <1>d, <2>2, <2>3
<1>4. ASSUME NEW r \in Request, UpdateWrite(r) PROVE ActivationInv'
  <2> DEFINE i == call[r].id
             rs == IF Exists(i) THEN [rows EXCEPT ![i].edit = edits + 1, ![i].kind = call[r].kind]
                   ELSE rows
  <2>1. At(r, "write") /\ Stores(r, rs, "list")
    BY <1>4 DEF UpdateWrite
  <2>2. i \in Config /\ rows[i].state # "none" /\ call[r].kind \in Kind /\ edits + 1 \in Nat
    <3>1. call[r] \in Call /\ edits \in Nat
      BY <1>b DEF TypeOK
    <3>2. call[r].kind \in Kind
      BY <3>1 DEF Call
    <3> QED
      BY <1>b, <2>1, <3>1, <3>2 DEF At
  <2>3. RowsKept
    <3>1. rows' = rows => RowsKept
      BY <2>2, StatementsKeep
    <3>2. rows' = [rows EXCEPT ![i].edit = edits + 1, ![i].kind = call[r].kind] => RowsKept
      BY <2>2, StatementsKeep
    <3> QED
      BY <2>1, <3>1, <3>2 DEF Stores
  <2>4. rows'[i].state # "none"
    BY <2>2, <2>3 DEF RowsKept, Known
  <2>5. Continue(r, "list") \/ Ends(r)
    BY <2>1 DEF Stores
  <2>6. CASE Continue(r, "list")
    <3> DEFINE c == WithStep(call[r], "list")
    <3>1. c \in Call /\ c.step = "list" /\ c.id = i
      BY <1>b, WithStepType DEF Step
    <3>2. Becomes(r, c)
      BY <2>6, GoesOn DEF Step
    <3> HIDE DEF c
    <3> QED
      BY <2>2, <2>3, <2>4, <3>1, <3>2, QuietStep
  <2>7. CASE Ends(r)
    BY <1>a, <2>3, <2>7, QuietStep DEF Ends
  <2> QED
    BY <2>5, <2>6, <2>7
<1>5. ASSUME NEW r \in Request, SetActive(r) PROVE ActivationInv'
  <2>1. PICK i \in Provider, state \in {"inactive", "active"} :
           /\ rows[i].state # "none"
           /\ FirstStores(r, IF Exists(i) THEN [rows EXCEPT ![i].state = state] ELSE rows,
                          [Idle EXCEPT !.step = "find", !.id = i])
    BY <1>5 DEF SetActive, Known
  <2> DEFINE c == [Idle EXCEPT !.step = "find", !.id = i]
             rs == IF Exists(i) THEN [rows EXCEPT ![i].state = state] ELSE rows
  <2>2. i \in Config /\ c \in Call /\ c.step = "find" /\ c.id = i
    BY <1>a, <1>c DEF Call, Step, Idle
  <2>3. rows' = rs => RowsKept
    BY <2>2, StatementsKeep
  <2>4. rows' = rs => rows'[i].state # "none"
    BY <2>1, <2>2, <2>3 DEF RowsKept, Known
  <2>5. FirstStores(r, rs, c)
    BY <2>1
  <2> HIDE DEF c, rs
  <2> QED
    BY <1>e, <2>2, <2>3, <2>4, <2>5
<1>6. ASSUME NEW r \in Request, Delete(r) PROVE ActivationInv'
  <2>1. PICK i \in Config :
           /\ rows[i].state # "none" /\ ~Locked(r, i)
           /\ FirstStores(r, IF Exists(i) THEN [rows EXCEPT ![i].state = "deleted"] ELSE rows,
                          [Idle EXCEPT !.step = "list", !.id = i])
    BY <1>6 DEF Delete, Known
  <2> DEFINE c == [Idle EXCEPT !.step = "list", !.id = i]
             rs == IF Exists(i) THEN [rows EXCEPT ![i].state = "deleted"] ELSE rows
  <2>2. c \in Call /\ c.step = "list" /\ c.id = i
    BY <1>a DEF Call, Step, Idle
  <2>3. \A q \in Request : ~Holds(q, i)
    BY <1>6, <2>1 DEF Delete, Arrive, At, Locked, Holds
  <2>4. rows' = rs => RowsKept
    BY <2>3, StatementsKeep
  <2>5. rows' = rs => rows'[i].state # "none"
    BY <2>1, <2>4 DEF RowsKept, Known
  <2>6. FirstStores(r, rs, c)
    BY <2>1
  <2> HIDE DEF c, rs
  <2> QED
    BY <1>e, <2>2, <2>4, <2>5, <2>6
<1>7. ASSUME NEW r \in Request, Activate(r) PROVE ActivationInv'
  <2>1. PICK i \in Llm : rows[i].state # "none" /\ Becomes(r, [Idle EXCEPT !.step = "begin", !.id = i])
    BY <1>7 DEF Activate, Known
  <2> DEFINE c == [Idle EXCEPT !.step = "begin", !.id = i]
  <2>2. c \in Call /\ c.step = "begin" /\ c.id = i /\ i \in Known(Config)
    BY <1>a, <1>c, <2>1 DEF Call, Step, Idle, Known
  <2>3. rows' = rows /\ Becomes(r, c)
    BY <1>7, <2>1 DEF Activate
  <2> HIDE DEF c
  <2> QED
    BY <1>d, <2>2, <2>3
\* A request ends, or goes on to a step of the reload or to deactivating.
<1>8. ASSUME NEW r \in Request, rows' = rows, ~At(r, "idle"),
             \/ Ends(r)
             \/ \E c \in Call : /\ Becomes(r, c) /\ c.id = call[r].id
                                /\ \/ c.step \notin {"begin", "deactivate", "activate", "commit"}
                                   \/ c.step = "deactivate" /\ At(r, "begin")
      PROVE  ActivationInv'
  <2>1. call[r].id \in Known(Config) /\ (At(r, "begin") => call[r].id \in Llm)
    BY <1>8, <1>b DEF Known, At
  <2>2. CASE Ends(r)
    BY <1>8, <1>a, <1>d, <2>2 DEF Ends
  <2>3. CASE \E c \in Call : /\ Becomes(r, c) /\ c.id = call[r].id
                             /\ \/ c.step \notin {"begin", "deactivate", "activate", "commit"}
                                \/ c.step = "deactivate" /\ At(r, "begin")
    <3>1. PICK c \in Call : /\ Becomes(r, c) /\ c.id = call[r].id
                            /\ \/ c.step \notin {"begin", "deactivate", "activate", "commit"}
                               \/ c.step = "deactivate" /\ At(r, "begin")
      BY <2>3
    <3> QED
      BY <1>8, <1>d, <2>1, <3>1
  <2> QED
    BY <1>8, <2>2, <2>3
<1>9. ASSUME NEW r \in Request, Begin(r) PROVE ActivationInv'
  <2> DEFINE c == [call[r] EXCEPT !.step = "deactivate", !.off = Active(Llm)]
  <2>1. c \in Call /\ c.step = "deactivate" /\ c.id = call[r].id
    <3>1. call[r] \in Call /\ Active(Llm) \in SUBSET Llm
      BY <1>b, RowTypes
    <3> QED
      BY <3>1 DEF Call, Step
  <2>2. rows' = rows /\ At(r, "begin") /\ (Becomes(r, c) \/ Ends(r))
    BY <1>9 DEF Begin
  <2> HIDE DEF c
  <2> QED
    BY <1>8, <2>1, <2>2 DEF At
<1>10. ASSUME NEW r \in Request, DeactivateAll(r) PROVE ActivationInv'
  <2>1. CASE Ends(r)
    BY <1>8, <1>10, <2>1 DEF DeactivateAll, At
  <2>2. CASE Becomes(r, [call[r] EXCEPT !.step = "activate", !.off = @ \cap Active(Llm)])
    <3> USE DEF ActivationInv
    <3>1. rows' = rows /\ At(r, "deactivate") /\ \A i \in call[r].off : ~Locked(r, i)
      BY <1>10 DEF DeactivateAll
    <3>2. \A q \in Request : q # r => call'[q] = call[q]
      BY <2>2 DEF Becomes, TypeOK
    <3>3. /\ call'[r].step = "activate" /\ call'[r].id = call[r].id
          /\ call'[r].off = call[r].off \cap Active(Llm)
      BY <1>b, <2>2 DEF Becomes, Call, TypeOK
    <3>4. Active(Llm)' = Active(Llm) /\ \A i \in Config : Exists(i)' = Exists(i)
      BY <3>1 DEF Active, Exists
    <3>5. Refers'
      BY <3>1, <3>2, <3>3, <1>b DEF Refers, At, Known
    <3>6. LocksHeld'
      <4>1. \A q \in Request, i \in Llm : Holds(q, i)' =>
               IF q = r THEN i \in call[r].off ELSE Holds(q, i)
        BY <3>2, <3>3 DEF Holds
      <4>2. \A q \in Request \ {r}, i \in call[r].off : ~Holds(q, i)
        BY <3>1 DEF Locked, Holds
      <4>3. \A q, s \in Request, i \in Llm : Holds(q, i)' /\ Holds(s, i)' => q = s
        BY <4>1, <4>2 DEF LocksHeld
      <4> QED
        BY <3>2, <3>3, <3>4, <4>3 DEF LocksHeld
    <3>7. CommitsAreSwaps' /\ OneActive'
      <4>1. \A q \in Request : At(q, "commit")' => q # r /\ At(q, "commit") /\ call'[q] = call[q]
        BY <3>2, <3>3 DEF At
      <4>2. \A q \in Request : At(q, "commit") => call[q].id \in Config
        BY <1>b DEF At
      <4> QED
        BY <3>4, <4>1, <4>2 DEF CommitsAreSwaps, OneActive
    <3> QED
      BY <3>5, <3>6, <3>7
  <2> QED
    BY <1>10, <2>1, <2>2 DEF DeactivateAll
<1>11. ASSUME NEW r \in Request, ActivateOne(r) PROVE ActivationInv'
  <2>1. CASE Ends(r)
    BY <1>8, <1>11, <2>1 DEF ActivateOne, At
  <2>2. CASE Conflicts(r) = {} /\ Continue(r, "commit")
    <3> USE DEF ActivationInv
    <3>1. /\ rows' = rows /\ At(r, "activate") /\ ~Locked(r, call[r].id)
          /\ \A q \in Request \ {r} : ~(At(q, "commit") /\ Exists(call[q].id))
      BY <1>11 DEF ActivateOne
    <3>2. \A q \in Request : q # r => call'[q] = call[q]
      BY <2>2 DEF Continue, Becomes, TypeOK
    <3>3. /\ call'[r].step = "commit" /\ call'[r].id = call[r].id /\ call'[r].off = call[r].off
      BY <1>b, <2>2 DEF Continue, Becomes, Call, TypeOK
    <3>4. Active(Llm)' = Active(Llm) /\ \A i \in Config : Exists(i)' = Exists(i)
      BY <3>1 DEF Active, Exists
    <3>5. Refers'
      BY <3>1, <3>2, <3>3, <1>b DEF Refers, At, Known
    <3>6. LocksHeld'
      <4>1. \A q \in Request, i \in Llm : Holds(q, i)' =>
               Holds(q, i) \/ (q = r /\ i = call[r].id)
        BY <3>1, <3>2, <3>3 DEF Holds, At
      <4>2. \A q \in Request \ {r} : ~Holds(q, call[r].id)
        BY <3>1 DEF Locked, Holds
      <4>3. \A q, s \in Request, i \in Llm : Holds(q, i)' /\ Holds(s, i)' => q = s
        BY <4>1, <4>2 DEF LocksHeld
      <4>4. \A q \in Request : call'[q].step \in {"activate", "commit"} =>
               call'[q].off \subseteq Active(Llm)
        BY <3>1, <3>2, <3>3 DEF LocksHeld, At
      <4> QED
        BY <3>4, <4>3, <4>4 DEF LocksHeld
    <3>7. CommitsAreSwaps' /\ OneActive'
      <4>1. \A q \in Request : At(q, "commit")' => q = r \/ (At(q, "commit") /\ call'[q] = call[q])
        BY <3>2, <3>3 DEF At
      <4>2. \A q \in Request : At(q, "commit")' => call'[q].id \in Config
        BY <1>b, <4>1, <3>1, <3>3 DEF At
      <4>3. Exists(call[r].id) => Active(Llm) \subseteq call[r].off \cup {call[r].id}
        BY <2>2 DEF Conflicts
      <4> QED
        BY <3>1, <3>3, <3>4, <4>1, <4>2, <4>3 DEF CommitsAreSwaps, OneActive
    <3> QED
      BY <3>5, <3>6, <3>7
  <2> QED
    BY <1>11, <2>1, <2>2 DEF ActivateOne
<1>12. ASSUME NEW r \in Request, Commit(r) PROVE ActivationInv'
  <2>1. /\ At(r, "commit") /\ rows' \in {rows, Swapped(call[r].id, call[r].off)}
        /\ Ends(r) \/ \E s \in {"list", "find"} : Continue(r, s)
    BY <1>12 DEF Commit, Stores
  <2>2. \A s \in {"list", "find"} :
           /\ Continue(r, s) => Becomes(r, WithStep(call[r], s))
           /\ WithStep(call[r], s) \in Call
           /\ WithStep(call[r], s).step = s /\ WithStep(call[r], s).id = call[r].id
    BY <1>b, WithStepType, GoesOn DEF Step
  <2>3. call[r].id # Nobody
    BY <1>b, <2>1, ConfigReloadAssumption DEF At, Config
  <2> QED
    BY <1>a, <2>1, <2>2, <2>3, SwapKeeps DEF Ends
<1>13. ASSUME NEW r \in Request,
              \/ FindAfter(r) \/ ReloadList(r) \/ SetCollector(r) \/ PublishGet(r) \/ PublishSet(r)
              \/ SetTraces(r) \/ FindActiveLlm(r) \/ SetGenerator(r) \/ SetResponder(r)
              \/ ModelGet(r) \/ ModelSet(r)
       PROVE  ActivationInv'
  <2>1. rows' = rows /\ ~At(r, "idle")
    BY <1>13 DEF FindAfter, ReloadList, SetCollector, PublishGet, PublishSet, SetTraces,
       FindActiveLlm, SetGenerator, SetResponder, ModelGet, ModelSet, At
  <2>2. \A q \in Request : q # r => call'[q] = call[q]
    BY <1>13 DEF FindAfter, ReloadList, SetCollector, PublishGet, PublishSet, SetTraces,
       FindActiveLlm, SetGenerator, SetResponder, ModelGet, ModelSet, Reloaded, Ends, Continue,
       TakeCopy, Becomes, TypeOK
  <2>3. \/ Ends(r)
        \/ /\ call'[r].id = call[r].id
           /\ call'[r].step \notin {"begin", "deactivate", "activate", "commit"}
    <3>1. ASSUME NEW s \in Step, Continue(r, s) \/ TakeCopy(r, s)
          PROVE  call'[r].id = call[r].id /\ call'[r].step = s
      <4> DEFINE c == WithStep(call[r], s)
                 d == WithCopy(call[r], s, live.published, live.model)
      <4>1. /\ c.id = call[r].id /\ c.step = s
            /\ d.id = call[r].id /\ d.step = s
        <5>1. /\ call[r] \in Call
              /\ live.published \in SUBSET Version /\ live.model \in Adapter
          BY GoesOn
        <5>2. c.id = call[r].id /\ c.step = s
          BY <5>1, WithStepType
        <5>3. d.id = call[r].id /\ d.step = s
          BY <5>1, WithCopyType
        <5> QED
          BY <5>2, <5>3
      <4>2. Becomes(r, c) \/ Becomes(r, d)
        BY <3>1, GoesOn
      <4> HIDE DEF c, d
      <4> QED
        BY <4>1, <4>2, BecomesType
    <3>2. /\ \A v \in SUBSET Version : Becomes(r, WithSeen(call[r], v)) =>
                 call'[r].id = call[r].id /\ call'[r].step = "collector"
          /\ \A v \in Adapter : Becomes(r, WithFound(call[r], v)) =>
                 call'[r].id = call[r].id /\ call'[r].step = "generator"
      BY <1>b, BecomesType, WithSeenType, WithFoundType
    <3>3. ASSUME ReloadList(r)
          PROVE  call'[r].id = call[r].id /\ call'[r].step \in {"collector", "llm"}
      <4>1. Continue(r, "llm") \/ Becomes(r, WithSeen(call[r], ActiveVersions(Provider)))
        BY <3>3 DEF ReloadList, WithSeen
      <4>2. ActiveVersions(Provider) \in SUBSET Version
        BY RowTypes
      <4> QED
        BY <3>1, <3>2, <4>1, <4>2 DEF Step
    <3>4. ASSUME FindActiveLlm(r)
          PROVE  Ends(r) \/ (call'[r].id = call[r].id /\ call'[r].step = "generator")
      <4>1. Ends(r) \/ \E v \in ActiveVersions(Llm) : Becomes(r, WithFound(call[r], v))
        BY <3>4 DEF FindActiveLlm, Reloaded, WithFound
      <4>2. ActiveVersions(Llm) \subseteq Adapter
        BY RowTypes DEF Adapter
      <4> QED
        BY <3>2, <4>1, <4>2
    <3> QED
      BY <1>13, <3>1, <3>3, <3>4 DEF FindAfter, SetCollector, PublishGet, PublishSet, SetTraces,
         SetGenerator, SetResponder, ModelGet, ModelSet, Reloaded, Step
  <2>4. Becomes(r, call'[r])
    BY <2>2 DEF Becomes, TypeOK
  <2> QED
    BY <1>8, <1>b, <2>1, <2>3, <2>4
<1>14. ASSUME Restart PROVE ActivationInv'
  <2>1. rows' = rows /\ \A r \in Request : call'[r] = Idle
    BY <1>14 DEF Restart
  <2> QED
    BY <1>a, <2>1 DEF ActivationInv, Refers, LocksHeld, CommitsAreSwaps, OneActive, Holds, At, Active
<1>15. CASE UNCHANGED vars
  BY <1>15 DEF vars, ActivationInv, Refers, LocksHeld, CommitsAreSwaps, OneActive, Holds, At,
     Active, Known, Exists
<1> QED
  BY <1>1, <1>2, <1>3, <1>4, <1>5, <1>6, <1>7, <1>9, <1>10, <1>11, <1>12, <1>13, <1>14, <1>15
  DEF Next, ChangeStep, ReloadStep

\* At most one LLM configuration is active, whatever creations and activations
\* run at the same time.
THEOREM OneIsActive == Spec => []OneActive
<1>1. Init => TypeOK /\ ActivationInv
  BY InitType, ActivationInit
<1>2. TypeOK /\ ActivationInv /\ [Next]_vars => (TypeOK /\ ActivationInv)'
  BY NextType, ActivationNext
<1>3. ActivationInv => OneActive
  BY DEF ActivationInv
<1> QED
  BY <1>1, <1>2, <1>3, PTL DEF Spec

-----------------------------------------------------------------------------
(* What requests have read. *)

\* An adapter that serves: of the configuration file or built from a row.
Serves(a) == a = Bootstrap \/ (a \in Version /\ BuildsLlm(a))

LiveBuilt(l) ==
    /\ BuildsCollector(l.collector) /\ BuildsCollector(l.published)
    /\ BuildsTraces(l.traces)
    /\ Serves(l.generator) /\ Serves(l.responder) /\ Serves(l.model)

\* What a request is about to put into use could be built.
CallBuilt(c) ==
    /\ BuildsCollector(c.seen) /\ BuildsCollector(c.copy.published)
    /\ Serves(c.copy.model)
    /\ c.step \in {"generator", "responder", "model_get", "model_set"} => Serves(c.found)

BuiltInv == LiveBuilt(live) /\ \A r \in Request : CallBuilt(call[r])

\* A request goes on as c.
LEMMA BuiltGoesOn ==
    ASSUME TypeOK, BuiltInv, NEW r \in Request, NEW c, CallBuilt(c),
           call' = call \/ Becomes(r, c), LiveBuilt(live')
    PROVE  BuiltInv'
  BY DEF TypeOK, BuiltInv, Becomes

\* Nothing has been read by a request that begins.
LEMMA FirstCallsBuilt ==
    /\ CallBuilt(Idle)
    /\ \A i, k : /\ CallBuilt([Idle EXCEPT !.step = "list", !.id = i])
                 /\ CallBuilt([Idle EXCEPT !.step = "find", !.id = i])
                 /\ CallBuilt([Idle EXCEPT !.step = "begin", !.id = i])
                 /\ CallBuilt([Idle EXCEPT !.step = "write", !.id = i, !.kind = k])
    /\ \A i, state : CallBuilt([Idle EXCEPT !.step = IF state = "active" THEN "begin" ELSE "list",
                                            !.id = i, !.fresh = TRUE])
  BY DEF CallBuilt, Idle, NoCopy, BuildsCollector, Serves

\* What a start or a reload makes could be built.
LEMMA MadeBuilt ==
    ASSUME NEW ps \in SUBSET Version, NEW ls \in SUBSET Version
    PROVE  /\ \A l \in BuiltFrom(ps, ls) : LiveBuilt(l)
           /\ \A l \in Live : LiveBuilt(l) => \A m \in AfterReload(l, ps, ls) : LiveBuilt(m)
<1>1. ASSUME NEW l \in BuiltFrom(ps, ls) PROVE LiveBuilt(l)
  <2>1. BuildsCollector(ps) /\ \A v \in ls : BuildsLlm(v)
    BY <1>1 DEF BuiltFrom
  <2>2. PICK a \in TracesMayBe(ps), llm \in {Bootstrap} \cup ls :
           /\ BuildsTraces(a)
           /\ l = [collector |-> ps, published |-> ps, traces |-> a,
                   generator |-> llm, responder |-> llm, model |-> llm]
    <3>1. ls # {} => (CHOOSE v \in ls : TRUE) \in ls
      OBVIOUS
    <3> QED
      BY <1>1, <2>1, <3>1 DEF BuiltFrom
  <2> QED
    BY <2>1, <2>2 DEF LiveBuilt, Serves
<1>2. ASSUME NEW l \in Live, NEW m \in AfterReload(l, ps, ls), LiveBuilt(l) PROVE LiveBuilt(m)
  <2> DEFINE v == CHOOSE v \in ls : BuildsLlm(v)
             WithLlm(k) == IF \E w \in ls : BuildsLlm(w)
                           THEN [k EXCEPT !.generator = v, !.responder = v, !.model = v]
                           ELSE k
             WithTraces(a) == [l EXCEPT !.collector = ps, !.published = ps,
                                        !.traces = IF BuildsTraces(a) THEN a ELSE @]
  <2>1. \A k \in Live : LiveBuilt(k) => LiveBuilt(WithLlm(k))
    <3>1. (\E w \in ls : BuildsLlm(w)) => v \in Version /\ BuildsLlm(v)
      OBVIOUS
    <3> QED
      BY <3>1 DEF Live, LiveBuilt, Serves
  <2>2. ASSUME NEW a \in TracesMayBe(ps), BuildsCollector(ps)
        PROVE  WithTraces(a) \in Live /\ LiveBuilt(WithTraces(a))
    <3>1. a \in Adapter
      BY AdaptersMade
    <3> QED
      BY <1>2, <2>2, <3>1 DEF Live, LiveBuilt
  <2>3. AfterReload(l, ps, ls) = IF ~BuildsCollector(ps) THEN {WithLlm(l)}
                                 ELSE {WithLlm(WithTraces(a)) : a \in TracesMayBe(ps)}
    BY DEF AfterReload
  <2> HIDE DEF WithLlm, WithTraces
  <2> QED
    BY <1>2, <2>1, <2>2, <2>3
<1> QED
  BY <1>1, <1>2

LEMMA BuiltInit == Init => BuiltInv
<1>1. LiveBuilt(Initially)
  BY DEF Initially, LiveBuilt, BuildsCollector, BuildsTraces, Serves
<1> QED
  BY <1>1, FirstCallsBuilt DEF Init, BuiltInv

LEMMA BuiltNext == TypeOK /\ TypeOK' /\ BuiltInv /\ [Next]_vars => BuiltInv'
<1> SUFFICES ASSUME TypeOK, TypeOK', BuiltInv, [Next]_vars PROVE BuiltInv'
  OBVIOUS
<1>a. LiveBuilt(live) /\ live \in Live
  BY DEF BuiltInv, TypeOK
<1>b. \A r \in Request : CallBuilt(call[r]) /\ call[r] \in Call
  BY DEF BuiltInv, TypeOK
\* Steps of a change set no adapter.
<1>1. ASSUME NEW r \in Request,
             \/ CreateProvider(r) \/ CreateLlm(r) \/ UpdateFind(r)
             \/ SetActive(r) \/ Delete(r) \/ Activate(r)
      PROVE  BuiltInv'
  <2>1. live' = live
    BY <1>1 DEF CreateProvider, CreateLlm, UpdateFind, SetActive, Delete, Activate
  <2>2. \E c : CallBuilt(c) /\ (call' = call \/ Becomes(r, c))
    BY <1>1, FirstCallsBuilt
    DEF CreateProvider, CreateLlm, UpdateFind, SetActive, Delete, Activate, FirstStores
  <2> QED
    BY <1>a, <2>1, <2>2, BuiltGoesOn
<1>2. ASSUME NEW r \in Request, NEW s \in Step \ LlmStep, Continue(r, s) \/ Ends(r),
             LiveBuilt(live')
      PROVE  BuiltInv'
  <2>1. CallBuilt(WithStep(call[r], s)) /\ CallBuilt(Idle)
    BY <1>b, WithStepType, FirstCallsBuilt DEF CallBuilt, LlmStep
  <2> QED
    BY <1>2, <2>1, GoesOn, BuiltGoesOn DEF Ends
<1>3. ASSUME NEW r \in Request,
             \/ UpdateWrite(r) \/ ActivateOne(r) \/ Commit(r) \/ FindAfter(r)
      PROVE  BuiltInv'
  <2>1. live' = live /\ (Ends(r) \/ \E s \in {"list", "find", "commit"} : Continue(r, s))
    BY <1>3 DEF UpdateWrite, ActivateOne, Commit, FindAfter, Stores
  <2> QED
    BY <1>2, <1>a, <2>1 DEF Step, LlmStep
<1>4. ASSUME NEW r \in Request, Begin(r) \/ DeactivateAll(r) PROVE BuiltInv'
  <2>1. /\ CallBuilt([call[r] EXCEPT !.step = "deactivate", !.off = Active(Llm)])
        /\ CallBuilt([call[r] EXCEPT !.step = "activate", !.off = @ \cap Active(Llm)])
        /\ CallBuilt(Idle)
    BY <1>b, FirstCallsBuilt DEF Call, CallBuilt
  <2> QED
    BY <1>4, <1>a, <2>1, BuiltGoesOn DEF Begin, DeactivateAll, Ends
<1>5. ASSUME NEW r \in Request, ReloadList(r) PROVE BuiltInv'
  <2> DEFINE seen == ActiveVersions(Provider)
  <2>1. live' = live /\ \/ BuildsCollector(seen) /\ Becomes(r, WithSeen(call[r], seen))
                        \/ Continue(r, "llm")
    BY <1>5 DEF ReloadList, WithSeen
  <2>2. seen \in SUBSET Version
    BY RowTypes
  <2> HIDE DEF seen
  <2>3. BuildsCollector(seen) => CallBuilt(WithSeen(call[r], seen))
    BY <1>b, <2>2, WithSeenType DEF CallBuilt
  <2> QED
    BY <1>2, <1>a, <2>1, <2>3, BuiltGoesOn DEF Step, LlmStep
<1>6. ASSUME NEW r \in Request, SetCollector(r) \/ PublishSet(r) \/ SetTraces(r)
      PROVE  BuiltInv'
  <2>1. \E s \in Step \ LlmStep : Continue(r, s)
    BY <1>6 DEF SetCollector, PublishSet, SetTraces, Step, LlmStep
  <2>2. LiveBuilt(live')
    BY <1>6, <1>a, <1>b DEF SetCollector, PublishSet, SetTraces, Live, LiveBuilt, CallBuilt
  <2> QED
    BY <1>2, <2>1, <2>2
<1>7. ASSUME NEW r \in Request, PublishGet(r) \/ ModelGet(r) PROVE BuiltInv'
  <2>1. PICK s \in Step : TakeCopy(r, s) /\ (s \in LlmStep => Serves(call[r].found)) /\ live' = live
    BY <1>7, <1>b DEF PublishGet, ModelGet, Step, LlmStep, CallBuilt, At
  <2> DEFINE c == WithCopy(call[r], s, live.published, live.model)
  <2>2. /\ c.step = s /\ c.seen = call[r].seen /\ c.found = call[r].found
        /\ c.copy.published = live.published /\ c.copy.model = live.model
    <3>1. call[r] \in Call /\ live.published \in SUBSET Version /\ live.model \in Adapter
      BY GoesOn
    <3> QED
      BY <3>1, WithCopyType
  <2>3. Becomes(r, c)
    BY <2>1, GoesOn
  <2> HIDE DEF c
  <2>4. CallBuilt(c)
    BY <1>a, <1>b, <2>1, <2>2 DEF CallBuilt, LiveBuilt, LlmStep
  <2> QED
    BY <1>a, <2>1, <2>3, <2>4, BuiltGoesOn
<1>8. ASSUME NEW r \in Request, FindActiveLlm(r) PROVE BuiltInv'
  <2>1. ASSUME NEW v \in ActiveVersions(Llm), BuildsLlm(v) PROVE CallBuilt(WithFound(call[r], v))
    <3>1. v \in Version /\ v \in Adapter
      BY RowTypes DEF Adapter
    <3> QED
      BY <1>b, <2>1, <3>1, WithFoundType DEF CallBuilt, Serves
  <2>2. /\ live' = live
        /\ \/ \E v \in ActiveVersions(Llm) : BuildsLlm(v) /\ Becomes(r, WithFound(call[r], v))
           \/ Ends(r)
    BY <1>8 DEF FindActiveLlm, Reloaded, WithFound
  <2> QED
    BY <1>a, <2>1, <2>2, FirstCallsBuilt, BuiltGoesOn DEF Ends
<1>9. ASSUME NEW r \in Request, SetGenerator(r) \/ SetResponder(r) PROVE BuiltInv'
  <2>1. PICK s \in {"responder", "model_get"} : Continue(r, s)
    BY <1>9 DEF SetGenerator, SetResponder
  <2>2. Serves(call[r].found)
    BY <1>9, <1>b DEF SetGenerator, SetResponder, CallBuilt, At
  <2>3. LiveBuilt(live')
    BY <1>9, <1>a, <2>2 DEF SetGenerator, SetResponder, Live, LiveBuilt
  <2>4. CallBuilt(WithStep(call[r], s)) /\ Becomes(r, WithStep(call[r], s))
    <3>1. s \in Step
      BY DEF Step
    <3> QED
      BY <1>b, <2>1, <2>2, <3>1, WithStepType, GoesOn DEF CallBuilt
  <2> QED
    BY <2>3, <2>4, BuiltGoesOn
<1>10. ASSUME NEW r \in Request, ModelSet(r) PROVE BuiltInv'
  <2>1. LiveBuilt(live')
    BY <1>10, <1>a, <1>b DEF ModelSet, At, Live, LiveBuilt, CallBuilt
  <2> QED
    BY <1>10, <2>1, FirstCallsBuilt, BuiltGoesOn DEF ModelSet, Reloaded, Ends
<1>11. ASSUME Restart PROVE BuiltInv'
  <2>1. \A table \in {Provider, Llm} : Readings(table) \subseteq SUBSET Version
    BY RowTypes DEF Readings
  <2>2. Initially \in Live /\ LiveBuilt(Initially)
    BY DEF Initially, Live, Adapter, LiveBuilt, BuildsCollector, BuildsTraces, Serves
  <2>3. LiveBuilt(live')
    BY <1>11, <2>1, <2>2, MadeBuilt DEF Restart
  <2> QED
    BY <1>11, <2>3, FirstCallsBuilt DEF Restart, BuiltInv
<1>12. CASE UNCHANGED vars
  BY <1>12 DEF vars, BuiltInv
<1> QED
  BY <1>1, <1>3, <1>4, <1>5, <1>6, <1>7, <1>8, <1>9, <1>10, <1>11, <1>12
  DEF Next, ChangeStep, ReloadStep

\* What cannot be built never comes into use, whatever is stored meanwhile and
\* however the instance started.
THEOREM OnlyBuilt == Spec => []OnlyBuiltServes
<1>1. Init => TypeOK /\ BuiltInv
  BY InitType, BuiltInit
<1>2. TypeOK /\ BuiltInv /\ [Next]_vars => (TypeOK /\ BuiltInv)'
  BY NextType, BuiltNext
<1>3. BuiltInv => OnlyBuiltServes
  BY AdapterAssumption
  DEF BuiltInv, OnlyBuiltServes, LiveBuilt, BuildsCollector, BuildsTraces, Serves, BuildsLlm
<1> QED
  BY <1>1, <1>2, <1>3, PTL DEF Spec

-----------------------------------------------------------------------------
(* The request that runs alone. *)

\* The parts of the instance that are as stored.
CollectorCurrent == live.collector = ActiveVersions(Provider)

PublishedCurrent == live.published = ActiveVersions(Provider)

TracesCurrent ==
    LET ps == ActiveVersions(Provider)
    IN (\A a \in TracesMayBe(ps) : BuildsTraces(a)) => live.traces \in TracesMayBe(ps)

ObservabilityCurrent ==
    BuildsCollector(ActiveVersions(Provider)) =>
        CollectorCurrent /\ PublishedCurrent /\ TracesCurrent

\* How far a request that runs alone has brought the instance.
Progress(r) ==
    /\ call[r].step \in {"collector", "publish_get", "publish_set", "traces"} =>
          call[r].seen = ActiveVersions(Provider)
    /\ call[r].step \in {"publish_get", "publish_set", "traces"} => CollectorCurrent
    /\ At(r, "traces") => PublishedCurrent
    /\ call[r].step \in {"llm"} \cup LlmStep => ObservabilityCurrent
    /\ call[r].step \in LlmStep => call[r].found \in ActiveVersions(Llm)
    /\ call[r].step \in LlmStep \ {"generator"} => live.generator = call[r].found
    /\ call[r].step \in {"model_get", "model_set"} => live.responder = call[r].found
    /\ At(r, "model_set") => call[r].copy.published = live.published

TrustInv ==
    /\ trust = Settled => \A r \in Request : At(r, "idle")
    /\ trust \in Request => Alone(trust) /\ ~At(trust, "idle") /\ Progress(trust)
    /\ SettledIsCurrent

\* A fault, or two requests at a time: nothing is known.
LEMMA NothingTrusted == trust' = Nobody => TrustInv'
  BY ConfigReloadAssumption DEF TrustInv, SettledIsCurrent

\* A request begins.
LEMMA TrustBegins ==
    ASSUME TypeOK, NEW r \in Request, NEW c, Becomes(r, c),
           c.step \in {"list", "begin", "find", "write"},
           trust' = IF Alone(r) THEN r ELSE Nobody
    PROVE  TrustInv'
<1>1. CASE ~Alone(r)
  BY <1>1, NothingTrusted
<1>2. CASE Alone(r)
  <2>1. call'[r] = c /\ \A q \in Request \ {r} : call'[q] = call[q]
    BY BecomesType
  <2> QED
    BY <1>2, <2>1, ConfigReloadAssumption
    DEF TrustInv, SettledIsCurrent, Alone, At, Progress, LlmStep
<1> QED
  BY <1>1, <1>2

\* A request goes on without a fault.
LEMMA TrustGoesOn ==
    ASSUME TypeOK, TrustInv, NEW r \in Request, NEW c, Becomes(r, c), Trusted,
           ~At(r, "idle"), c.step # "idle",
           Alone(r) /\ Progress(r) => Progress(r)'
    PROVE  TrustInv'
<1>1. call'[r] = c /\ \A q \in Request \ {r} : call'[q] = call[q]
  BY BecomesType
<1>2. trust' = trust /\ trust # Settled
  BY DEF Trusted, TrustInv
<1>3. CASE trust \in Request
  <2>1. trust = r /\ Alone(r) /\ Progress(r)
    BY <1>3 DEF TrustInv, Alone
  <2> QED
    BY <1>1, <1>2, <2>1 DEF TrustInv, SettledIsCurrent, Alone, At
<1>4. CASE trust \notin Request
  BY <1>2, <1>4 DEF TrustInv, SettledIsCurrent
<1> QED
  BY <1>3, <1>4

\* A reload is done.
LEMMA TrustSettles ==
    ASSUME TypeOK, TrustInv, NEW r \in Request, Reloaded(r),
           Alone(r) /\ Progress(r) =>
               /\ ObservabilityCurrent'
               /\ \A v \in ActiveVersions(Llm)' : BuildsLlm(v) =>
                     live'.generator = v /\ live'.responder = v /\ live'.model = v
    PROVE  TrustInv'
<1>1. CASE trust # r
  BY <1>1, NothingTrusted DEF Reloaded
<1>2. CASE trust = r
  <2>1. Alone(r) /\ Progress(r)
    BY <1>2 DEF TrustInv
  <2>2. \A q \in Request : call'[q] = IF q = r THEN Idle ELSE call[q]
    BY BecomesType DEF Reloaded, Ends
  <2>3. trust' = Settled /\ Settled \notin Request
    BY <1>2, ConfigReloadAssumption DEF Reloaded
  <2>4. \A q \in Request : At(q, "idle")'
    BY <2>1, <2>2 DEF Alone, At, Idle
  <2>5. SettledIsCurrent'
    BY <2>1
    DEF SettledIsCurrent, ObservabilityCurrent, CollectorCurrent, PublishedCurrent, TracesCurrent
  <2> QED
    BY <2>3, <2>4, <2>5 DEF TrustInv
<1> QED
  BY <1>1, <1>2

LEMMA TrustInit == Init => TrustInv
  BY ConfigReloadAssumption DEF Init, TrustInv, SettledIsCurrent

LEMMA TrustNext ==
    TypeOK /\ TypeOK' /\ OneActive /\ TrustInv /\ [Next]_vars => TrustInv'
<1> SUFFICES ASSUME TypeOK, TypeOK', OneActive, TrustInv, [Next]_vars PROVE TrustInv'
  OBVIOUS
<1>a. ASSUME rows' = rows
      PROVE  /\ ActiveVersions(Provider)' = ActiveVersions(Provider)
             /\ ActiveVersions(Llm)' = ActiveVersions(Llm)
  BY <1>a DEF ActiveVersions, Active, VersionOf
<1>b. \A r \in Request : call[r] \in Call
  BY DEF TypeOK
<1>1. ASSUME NEW r \in Request,
             \/ CreateProvider(r) \/ CreateLlm(r) \/ UpdateFind(r)
             \/ SetActive(r) \/ Delete(r) \/ Activate(r)
      PROVE  TrustInv'
  <2>1. \/ trust' = Nobody
        \/ /\ trust' = IF Alone(r) THEN r ELSE Nobody
           /\ \E c : Becomes(r, c) /\ c.step \in {"list", "begin", "find", "write"}
    <3> DEFINE C(i, s) == [Idle EXCEPT !.step = s, !.id = i]
               D(i, k) == [Idle EXCEPT !.step = "write", !.id = i, !.kind = k]
               E(i, a) == [Idle EXCEPT !.step = IF a = "active" THEN "begin" ELSE "list",
                                       !.id = i, !.fresh = TRUE]
    <3>1. /\ \A i, s : C(i, s).step = s
          /\ \A i, k : D(i, k).step = "write"
          /\ \A i, a : E(i, a).step \in {"begin", "list"}
      BY DEF Idle
    <3>2. ASSUME CreateProvider(r) \/ SetActive(r) \/ Delete(r) \/ Activate(r)
          PROVE  \/ trust' = Nobody
                 \/ /\ trust' = IF Alone(r) THEN r ELSE Nobody
                    /\ \E i : \E s \in {"list", "begin", "find"} : Becomes(r, C(i, s))
      BY <3>2 DEF CreateProvider, SetActive, Delete, Activate, FirstStores, Distrusted
    <3>3. ASSUME CreateLlm(r)
          PROVE  \/ trust' = Nobody
                 \/ /\ trust' = IF Alone(r) THEN r ELSE Nobody
                    /\ \E i, a : Becomes(r, E(i, a))
      BY <3>3 DEF CreateLlm, FirstStores, Distrusted
    <3>4. ASSUME UpdateFind(r)
          PROVE  /\ trust' = IF Alone(r) THEN r ELSE Nobody
                 /\ \E i, k : Becomes(r, D(i, k))
      BY <3>4 DEF UpdateFind
    <3> HIDE DEF C, D, E
    <3> QED
      BY <1>1, <3>1, <3>2, <3>3, <3>4
  <2> QED
    BY <2>1, NothingTrusted, TrustBegins
\* Going on to a step at which nothing is known yet.
<1>2. ASSUME NEW r \in Request, NEW c, Becomes(r, c), Trusted, ~At(r, "idle"),
             c.step \in {"list", "find", "deactivate", "activate", "commit"}
      PROVE  TrustInv'
  <2>1. Progress(r)'
    BY <1>2, BecomesType DEF Progress, At, LlmStep
  <2> QED
    BY <1>2, <2>1, TrustGoesOn
<1>3. ASSUME NEW r \in Request,
             \/ UpdateWrite(r) \/ ActivateOne(r) \/ Commit(r) \/ FindAfter(r)
      PROVE  TrustInv'
  <2>1. /\ ~At(r, "idle")
        /\ \/ trust' = Nobody
           \/ Trusted /\ \E s \in {"list", "find", "commit"} : Continue(r, s)
    BY <1>3 DEF UpdateWrite, ActivateOne, Commit, FindAfter, Stores, Distrusted, At
  <2>2. \A s \in {"list", "find", "commit"} :
           WithStep(call[r], s).step = s /\ (Continue(r, s) => Becomes(r, WithStep(call[r], s)))
    BY <1>b, WithStepType, GoesOn DEF Step
  <2> QED
    BY <1>2, <2>1, <2>2, NothingTrusted
<1>4. ASSUME NEW r \in Request, Begin(r) \/ DeactivateAll(r) PROVE TrustInv'
  <2>1. /\ [call[r] EXCEPT !.step = "deactivate", !.off = Active(Llm)].step = "deactivate"
        /\ [call[r] EXCEPT !.step = "activate", !.off = @ \cap Active(Llm)].step = "activate"
    BY <1>b DEF Call
  <2> QED
    BY <1>2, <1>4, <2>1, NothingTrusted DEF Begin, DeactivateAll, Distrusted, At
<1>5. ASSUME NEW r \in Request, ReloadList(r) PROVE TrustInv'
  <2> DEFINE seen == ActiveVersions(Provider)
             c == WithSeen(call[r], seen)
             d == WithStep(call[r], "llm")
  <2>1. seen \in SUBSET Version
    BY RowTypes
  <2>2. /\ rows' = rows /\ live' = live /\ At(r, "list")
        /\ \/ trust' = Nobody
           \/ Trusted /\ BuildsCollector(seen) /\ Becomes(r, c)
           \/ Trusted /\ ~BuildsCollector(seen) /\ Becomes(r, d)
    BY <1>5, GoesOn DEF ReloadList, WithSeen, Distrusted, Step
  <2>3. c.step = "collector" /\ c.seen = seen /\ d.step = "llm"
    BY <1>b, <2>1, WithSeenType, WithStepType DEF Step
  <2>4. seen' = seen
    BY <1>a, <2>2
  <2> HIDE DEF c, d
  <2>5. CASE Trusted /\ BuildsCollector(seen) /\ Becomes(r, c)
    <3>1. Progress(r)'
      BY <2>3, <2>4, <2>5, BecomesType DEF Progress, At, LlmStep
    <3> QED
      BY <2>2, <2>3, <2>5, <3>1, TrustGoesOn DEF At
  <2>6. CASE Trusted /\ ~BuildsCollector(seen) /\ Becomes(r, d)
    <3>1. ObservabilityCurrent'
      BY <2>4, <2>6 DEF ObservabilityCurrent
    <3>2. Progress(r)'
      BY <2>3, <2>6, <3>1, BecomesType DEF Progress, At, LlmStep
    <3> QED
      BY <2>2, <2>3, <2>6, <3>2, TrustGoesOn DEF At
  <2> QED
    BY <2>2, <2>5, <2>6, NothingTrusted
<1>6. ASSUME NEW r \in Request, SetCollector(r) \/ PublishSet(r) \/ SetTraces(r)
      PROVE  TrustInv'
  <2>1. PICK s \in {"publish_get", "traces", "llm"} :
           /\ Continue(r, s)
           /\ s = "publish_get" => SetCollector(r)
           /\ s = "traces" => PublishSet(r)
           /\ s = "llm" => SetTraces(r)
    BY <1>6 DEF SetCollector, PublishSet, SetTraces
  <2> DEFINE c == WithStep(call[r], s)
  <2>2. c.step = s /\ c.seen = call[r].seen /\ Becomes(r, c)
    BY <1>b, <2>1, WithStepType, GoesOn DEF Step
  <2>3. Trusted /\ rows' = rows /\ ~At(r, "idle") /\ live \in Live
    BY <1>6 DEF SetCollector, PublishSet, SetTraces, At, TypeOK
  <2> HIDE DEF c
  <2>4. ASSUME Progress(r) PROVE Progress(r)'
    <3>1. CASE s = "publish_get"
      <4>1. live'.collector = call[r].seen /\ At(r, "collector")
        BY <2>1, <2>3, <3>1 DEF SetCollector, Live
      <4> QED
        BY <1>a, <2>2, <2>3, <2>4, <3>1, <4>1, BecomesType
        DEF Progress, At, LlmStep, CollectorCurrent
    <3>2. CASE s = "traces"
      <4>1. live'.collector = live.collector /\ live'.published = call[r].seen /\ At(r, "publish_set")
        BY <2>1, <2>3, <3>2 DEF PublishSet, Live
      <4> QED
        BY <1>a, <2>2, <2>3, <2>4, <3>2, <4>1, BecomesType
        DEF Progress, At, LlmStep, CollectorCurrent, PublishedCurrent
    <3>3. CASE s = "llm"
      <4>1. /\ live'.collector = live.collector /\ live'.published = live.published
            /\ At(r, "traces")
        BY <2>1, <2>3, <3>3 DEF SetTraces, Live
      <4>2. call[r].seen = ActiveVersions(Provider)
        BY <2>4, <4>1 DEF Progress, At
      <4>3. TracesCurrent'
        <5>1. PICK a \in TracesMayBe(call[r].seen) :
                 live' = IF BuildsTraces(a) THEN [live EXCEPT !.traces = a] ELSE live
          BY <2>1, <3>3 DEF SetTraces
        <5>2. BuildsTraces(a) => live'.traces = a
          BY <2>3, <5>1 DEF Live
        <5> QED
          BY <1>a, <2>3, <4>2, <5>1, <5>2 DEF TracesCurrent
      <4>4. CollectorCurrent' /\ PublishedCurrent'
        BY <1>a, <2>3, <2>4, <4>1 DEF Progress, At, CollectorCurrent, PublishedCurrent
      <4> QED
        BY <2>2, <3>3, <4>3, <4>4, BecomesType DEF Progress, At, LlmStep, ObservabilityCurrent
    <3> QED
      BY <3>1, <3>2, <3>3
  <2> QED
    BY <2>1, <2>2, <2>3, <2>4, TrustGoesOn
<1>7. ASSUME NEW r \in Request, PublishGet(r) \/ ModelGet(r) PROVE TrustInv'
  <2>1. PICK s \in {"publish_set", "model_set"} :
           /\ TakeCopy(r, s)
           /\ s = "publish_set" => At(r, "publish_get")
           /\ s = "model_set" => At(r, "model_get")
    BY <1>7 DEF PublishGet, ModelGet
  <2> DEFINE c == WithCopy(call[r], s, live.published, live.model)
  <2>2. s \in Step /\ Becomes(r, c)
    BY <2>1, GoesOn DEF Step
  <2>3. /\ c.step = s /\ c.seen = call[r].seen /\ c.found = call[r].found
        /\ c.copy.published = live.published
    <3>1. call[r] \in Call /\ live.published \in SUBSET Version /\ live.model \in Adapter
      BY <2>2, GoesOn
    <3> QED
      BY <2>2, <3>1, WithCopyType
  <2>4. Trusted /\ rows' = rows /\ live' = live /\ ~At(r, "idle")
    BY <1>7 DEF PublishGet, ModelGet, At
  <2> HIDE DEF c
  <2>5. ASSUME Progress(r) PROVE Progress(r)'
    <3>1. /\ CollectorCurrent' = CollectorCurrent
          /\ ObservabilityCurrent' = ObservabilityCurrent
      BY <1>a, <2>4
      DEF CollectorCurrent, ObservabilityCurrent, PublishedCurrent, TracesCurrent
    <3>2. call'[r] = c
      BY <2>2, BecomesType
    <3> QED
      BY <1>a, <2>1, <2>3, <2>4, <2>5, <3>1, <3>2 DEF Progress, At, LlmStep
  <2> QED
    BY <2>1, <2>2, <2>3, <2>4, <2>5, TrustGoesOn
<1>8. ASSUME NEW r \in Request, FindActiveLlm(r) PROVE TrustInv'
  <2>1. /\ At(r, "llm") /\ rows' = rows /\ live' = live
        /\ \/ \E v \in ActiveVersions(Llm) :
                 BuildsLlm(v) /\ Becomes(r, WithFound(call[r], v)) /\ Trusted
           \/ ~(\E v \in ActiveVersions(Llm) : BuildsLlm(v)) /\ Reloaded(r)
           \/ trust' = Nobody
    BY <1>8 DEF FindActiveLlm, WithFound, Distrusted
  <2>2. ObservabilityCurrent' = ObservabilityCurrent
    BY <1>a, <2>1 DEF CollectorCurrent, ObservabilityCurrent, PublishedCurrent, TracesCurrent
  <2>3. Progress(r) => ObservabilityCurrent
    BY <2>1 DEF Progress, At
  <2>4. ASSUME NEW v \in ActiveVersions(Llm), Becomes(r, WithFound(call[r], v)), Trusted
        PROVE  TrustInv'
    <3> DEFINE c == WithFound(call[r], v)
    <3>1. c.step = "generator" /\ c.found = v
      <4>1. v \in Adapter
        BY RowTypes DEF Adapter
      <4> QED
        BY <1>b, <4>1, WithFoundType
    <3>2. call'[r] = c
      BY <2>4, BecomesType
    <3> HIDE DEF c
    <3>3. Progress(r) => Progress(r)'
      BY <1>a, <2>1, <2>2, <2>3, <3>1, <3>2 DEF Progress, At, LlmStep
    <3> QED
      BY <2>1, <2>4, <3>1, <3>3, TrustGoesOn DEF At, c
  <2>5. CASE ~(\E v \in ActiveVersions(Llm) : BuildsLlm(v)) /\ Reloaded(r)
    BY <1>a, <2>1, <2>2, <2>3, <2>5, TrustSettles
  <2> QED
    BY <2>1, <2>4, <2>5, NothingTrusted
<1>9. ASSUME NEW r \in Request, SetGenerator(r) \/ SetResponder(r) PROVE TrustInv'
  <2>1. PICK s \in {"responder", "model_get"} :
           /\ Continue(r, s)
           /\ s = "responder" => SetGenerator(r)
           /\ s = "model_get" => SetResponder(r)
    BY <1>9 DEF SetGenerator, SetResponder
  <2> DEFINE c == WithStep(call[r], s)
  <2>2. c.step = s /\ c.found = call[r].found /\ Becomes(r, c)
    BY <1>b, <2>1, WithStepType, GoesOn DEF Step
  <2>3. Trusted /\ rows' = rows /\ ~At(r, "idle") /\ live \in Live
    BY <1>9 DEF SetGenerator, SetResponder, At, TypeOK
  <2>4. /\ live'.collector = live.collector /\ live'.published = live.published
        /\ live'.traces = live.traces
        /\ s = "responder" => live'.generator = call[r].found /\ At(r, "generator")
        /\ s = "model_get" => /\ live'.responder = call[r].found /\ live'.generator = live.generator
                              /\ At(r, "responder")
    BY <1>9, <2>1, <2>3 DEF SetGenerator, SetResponder, Live
  <2> HIDE DEF c
  <2>5. ASSUME Progress(r) PROVE Progress(r)'
    <3>1. ObservabilityCurrent' = ObservabilityCurrent
      BY <1>a, <2>3, <2>4 DEF CollectorCurrent, ObservabilityCurrent, PublishedCurrent, TracesCurrent
    <3>2. call'[r] = c
      BY <2>2, BecomesType
    <3> QED
      BY <1>a, <2>1, <2>2, <2>3, <2>4, <2>5, <3>1, <3>2 DEF Progress, At, LlmStep
  <2> QED
    BY <2>1, <2>2, <2>3, <2>5, TrustGoesOn
<1>10. ASSUME NEW r \in Request, ModelSet(r) PROVE TrustInv'
  <2>1. At(r, "model_set") /\ rows' = rows /\ live \in Live /\ Reloaded(r)
    BY <1>10 DEF ModelSet, TypeOK
  <2>2. /\ live'.collector = live.collector /\ live'.published = call[r].copy.published
        /\ live'.traces = live.traces /\ live'.generator = live.generator
        /\ live'.responder = live.responder /\ live'.model = call[r].found
    BY <1>10, <2>1 DEF ModelSet, Live
  <2>3. ASSUME Progress(r)
        PROVE  /\ ObservabilityCurrent'
               /\ \A v \in ActiveVersions(Llm)' :
                     live'.generator = v /\ live'.responder = v /\ live'.model = v
    <3>1. /\ ObservabilityCurrent /\ call[r].found \in ActiveVersions(Llm)
          /\ live.generator = call[r].found /\ live.responder = call[r].found
          /\ call[r].copy.published = live.published
      BY <2>1, <2>3 DEF Progress, At, LlmStep
    <3>2. ObservabilityCurrent'
      BY <1>a, <2>1, <2>2, <3>1
      DEF CollectorCurrent, ObservabilityCurrent, PublishedCurrent, TracesCurrent
    <3>3. \A v, w \in ActiveVersions(Llm) : v = w
      BY DEF OneActive, ActiveVersions
    <3> QED
      BY <1>a, <2>1, <2>2, <3>1, <3>2, <3>3
  <2> QED
    BY <2>1, <2>3, TrustSettles
<1>11. CASE Restart
  BY <1>11, NothingTrusted DEF Restart, Distrusted
<1>12. CASE UNCHANGED vars
  BY <1>12, <1>a
  DEF vars, TrustInv, SettledIsCurrent, Progress, At, Alone, CollectorCurrent,
      ObservabilityCurrent, PublishedCurrent, TracesCurrent
<1> QED
  BY <1>1, <1>3, <1>4, <1>5, <1>6, <1>7, <1>8, <1>9, <1>10, <1>11, <1>12
  DEF Next, ChangeStep, ReloadStep

\* A change that ran alone and met no fault leaves the instance as stored,
\* whatever races, lost reloads and restarts there were before it.
THEOREM SettlesCurrent == Spec => []SettledIsCurrent
<1>1. Init => TypeOK /\ ActivationInv /\ TrustInv
  BY InitType, ActivationInit, TrustInit
<1>2. ActivationInv => OneActive
  BY DEF ActivationInv
<1>3. TypeOK /\ ActivationInv /\ TrustInv /\ [Next]_vars => (TypeOK /\ ActivationInv /\ TrustInv)'
  BY <1>2, NextType, ActivationNext, TrustNext
<1>4. TrustInv => SettledIsCurrent
  BY DEF TrustInv
<1> QED
  BY <1>1, <1>3, <1>4, PTL DEF Spec

=============================================================================
