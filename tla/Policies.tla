------------------------------ MODULE Policies ------------------------------
(***************************************************************************)
(* The deterministic rules around the LLM (internal/core/policy and         *)
(* llmguard): how evidence and analyses are classified, which evidence the  *)
(* LLM gets to see, which of its citations count, and what is recommended   *)
(* besides.                                                                 *)
(***************************************************************************)
EXTENDS Integers, Sequences, FiniteSets, SequencesExt

CONSTANTS
    Service,          \* names of services, as they come
    Trimmed,          \* each without the blanks around it: "" if it is all blank
    Folded,           \* what is compared of each where its case does not matter
    ManyErrors,       \* errors that make an analysis critical
    Volume,           \* evidence that makes it medium
    MaxLLMEvidenceItems, FallbackItems

ASSUME PoliciesAssumption ==
    /\ "" \notin Service /\ DOMAIN Folded = Service
    /\ Trimmed \in [Service -> Service \cup {""}]
    /\ {ManyErrors, Volume, MaxLLMEvidenceItems, FallbackItems} \subseteq Nat \ {0}

Severity == {"info", "low", "medium", "high", "critical"}

SeverityRank == [info |-> 0, low |-> 1, medium |-> 2, high |-> 3, critical |-> 4]

Signal == {"logs", "metrics", "traces", "apm"}

Request == [services : Seq(Service), signals : Seq(Signal), start : Nat, end : Nat]

Validate(request) == request.start = 0 \/ request.end = 0 \/ request.start <= request.end

-----------------------------------------------------------------------------
(* Selections and stable sorts, of places in a sequence.                    *)

Before(key, i, j) == key[i] < key[j] \/ (key[i] = key[j] /\ i < j)

\* The least key first, equals in their own order.
StableSort(S, key) ==
    [n \in 1..Cardinality(S) |->
        CHOOSE i \in S : Cardinality({j \in S : Before(key, j, i)}) = n - 1]

InOrder(S) == StableSort(S, [i \in S |-> 0])

\* The items at some places.
Items(items, places) == [n \in DOMAIN places |-> items[places[n]]]

-----------------------------------------------------------------------------
(* Severity.                                                                *)

NormalizeSeverity(s) == IF s \in Severity THEN s ELSE "info"

Rank(s) == SeverityRank[NormalizeSeverity(s)]

Highest(candidates) == CHOOSE s \in candidates : \A t \in candidates : Rank(s) >= Rank(t)

MentionsError(e) == (e.unit = "errors" /\ e.score > 0) \/ e.error

Errors(evidence) == {i \in DOMAIN evidence : MentionsError(evidence[i])}

\* The thresholds are met exactly, not reached.
ErrorSignalExactly(evidence) ==
    LET n == Cardinality(Errors(evidence))
    IN  CASE n = ManyErrors -> "critical" [] n = 1 -> "high" [] OTHER -> "info"

ErrorSignal(evidence) ==
    LET n == Cardinality(Errors(evidence))
    IN  CASE n >= ManyErrors -> "critical"
          [] n \in 1..(ManyErrors - 1) -> "high"
          [] n = 0 -> "info"

HighScore(evidence, unit, severity) ==
    IF \E e \in Range(evidence) : e.unit = unit /\ e.score >= 1 THEN severity ELSE "info"

DistinctServices(request, evidence) ==
    LET named == Range(request.services) \cup {e.service : e \in Range(evidence)}
    IN  {Trimmed[s] : s \in named} \ {""}

MultiService(request, evidence) ==
    IF Cardinality(DistinctServices(request, evidence)) >= 2 THEN "medium" ELSE "info"

EvidenceVolume(evidence) == IF Len(evidence) >= Volume THEN "medium" ELSE "info"

\* SeverityPolicy.
Classify(request, evidence) ==
    Highest({"info", ErrorSignal(evidence), HighScore(evidence, "errors", "high"),
             HighScore(evidence, "ratio", "medium"), MultiService(request, evidence),
             EvidenceVolume(evidence)})

Reconcile(suggested, request, evidence) ==
    LET derived == Classify(request, evidence)
    IN  IF Rank(suggested) > Rank(derived) THEN NormalizeSeverity(suggested) ELSE derived

\* EvidenceSeverityPolicy: of one piece of evidence.
EvidenceSeverity(e) ==
    Highest({"info", NormalizeSeverity(e.severity),
             IF MentionsError(e) THEN "high" ELSE "info",
             IF e.score >= 1 THEN "medium" ELSE "info"})

-----------------------------------------------------------------------------
(* What the LLM is shown, and what of its answer counts.                    *)

WithinTimeWindow(request, e) ==
    e.observed = 0 \/ (/\ request.start = 0 \/ e.observed >= request.start
                       /\ request.end = 0 \/ e.observed <= request.end)

\* EqualFold.
SameService(s, t) == Trimmed[s] # "" /\ Folded[Trimmed[s]] = Folded[Trimmed[t]]

\* Evidence of no service is about any.
ForAffectedServices(request, e) ==
    \/ request.services = <<>>
    \/ Trimmed[e.service] = ""
    \/ \E s \in Range(request.services) : SameService(s, e.service)

RelevantEvidence(request, e) == WithinTimeWindow(request, e) /\ ForAffectedServices(request, e)

Matching(evidence, request) ==
    {i \in DOMAIN evidence : RelevantEvidence(request, evidence[i])}

\* Cut before the ranking.
FilterUnranked(evidence, request) ==
    LET matching == InOrder(Matching(evidence, request))
    IN  IF Len(matching) <= MaxLLMEvidenceItems THEN Items(evidence, matching)
        ELSE Items(evidence, SubSeq(matching, 1, MaxLLMEvidenceItems))

\* The highest scores, in the order of the evidence among equals.
FilterEvidence(evidence, request) ==
    LET matching == Matching(evidence, request)
        ranked == StableSort(matching, [i \in matching |-> -evidence[i].score])
    IN  IF Cardinality(matching) <= MaxLLMEvidenceItems
        THEN Items(evidence, InOrder(matching))
        ELSE [n \in 1..MaxLLMEvidenceItems |-> evidence[ranked[n]]]

\* What the LLM says is taken as it is.
FilterNothing(values, known) == values

FilterKnown(values, known) == values \cap known

\* What the LLM may say, the blanks around it left out.
Payload == [severity : STRING, services : SUBSET STRING, causes : SUBSET SUBSET STRING,
            actions : Seq([action : [kind : STRING, about : STRING], priority : Int,
                           ids : SUBSET Nat])]

\* decodeAnalysisPayload: a cause without evidence is dropped.
Decode(payload, request, shown) ==
    LET ids == {e.id : e \in Range(shown)}
        names == {e.name : e \in Range(shown)}
    IN  [severity |-> payload.severity,
         services |-> FilterKnown(payload.services, DistinctServices(request, shown)),
         causes   |-> {FilterKnown(c, names) : c \in payload.causes} \ {{}},
         actions  |-> [i \in DOMAIN payload.actions |->
                         [payload.actions[i] EXCEPT !.ids = FilterKnown(@, ids)]]]

-----------------------------------------------------------------------------
(* Recommendations.  An action is a kind and the signal it is about, if any. *)

NoAction == [kind |-> "", about |-> ""]

Advice(kind, signal, priority, ids) ==
    [action |-> [kind |-> kind, about |-> signal], priority |-> priority, ids |-> ids]

FallbackEvidenceIDs(ids, evidence) ==
    IF ids # {} THEN ids
    ELSE {evidence[i].id : i \in {i \in DOMAIN evidence : i <= FallbackItems}}

NoEvidence(evidence) == IF evidence = <<>> THEN <<Advice("connect", "", 1, {})>> ELSE <<>>

ErrorEvidence(evidence) ==
    IF Errors(evidence) = {} THEN <<>>
    ELSE <<Advice("inspect", "", 2, {evidence[i].id : i \in Errors(evidence)})>>

MultiServiceAdvice(request, evidence) ==
    IF Cardinality(DistinctServices(request, evidence)) < 2 THEN <<>>
    ELSE <<Advice("map", "", 3, FallbackEvidenceIDs({}, evidence))>>

Missing(request, evidence) ==
    {i \in DOMAIN request.signals : \A e \in Range(evidence) : e.signal # request.signals[i]}

\* Only the first gap is reported.
FirstMissingSignal(request, evidence) ==
    LET missing == Items(request.signals, InOrder(Missing(request, evidence)))
    IN  IF evidence = <<>> \/ missing = <<>> THEN <<>>
        ELSE <<Advice("collect", Head(missing), 4, {})>>

MissingSignal(request, evidence) ==
    LET missing == Items(request.signals, InOrder(Missing(request, evidence)))
    IN  IF evidence = <<>> THEN <<>>
        ELSE [i \in DOMAIN missing |-> Advice("collect", missing[i], 4, {})]

\* Those of the LLM come first.
Suggestions(request, evidence, suggested) ==
    suggested \o NoEvidence(evidence) \o ErrorEvidence(evidence)
      \o MultiServiceAdvice(request, evidence) \o MissingSignal(request, evidence)

\* Of each action the first one counts.
Merged(all) == {i \in DOMAIN all : /\ all[i].action # NoAction
                                   /\ \A j \in 1..(i - 1) : all[j].action # all[i].action}

\* Equals in priority stay in their order; one that cites nothing cites the
\* first evidence.
Recommendations(request, evidence, suggested) ==
    LET all == Suggestions(request, evidence, suggested)
        order == StableSort(Merged(all), [i \in Merged(all) |-> all[i].priority])
    IN  [n \in DOMAIN order |->
           [all[order[n]] EXCEPT !.ids = FallbackEvidenceIDs(@, evidence)]]
=============================================================================
