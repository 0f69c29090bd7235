--------------------------- MODULE DiagnosisProofs ---------------------------
(***************************************************************************)
(* What a stored analysis holds, proved for any collectors, requests,       *)
(* answers and bounds: types; the severity, the evidence the LLM is shown,  *)
(* what is cited and which gaps are named follow from the policies          *)
(* (OutcomeInv and lemmas about the policies' operators); the evidence of a *)
(* provider is whole or not there (WholeInv); and nothing that was cut      *)
(* short is stored (CutInv).                                                *)
(***************************************************************************)
EXTENDS Diagnosis, TLAPS, FiniteSetTheorems, SequenceTheorems

\* How many come before it.
Place(S, key, i) == Cardinality({j \in S : Before(key, j, i)})

\* What comes before something is not alone before what comes after it.
LEMMA PlaceGrows ==
    ASSUME NEW S, S \subseteq Int, IsFiniteSet(S), NEW key, key \in [S -> Int],
           NEW i \in S, NEW k \in S, Before(key, i, k)
    PROVE  Place(S, key, i) < Place(S, key, k)
<1> DEFINE I == {j \in S : Before(key, j, i)}
           K == {j \in S : Before(key, j, k)}
<1>0. /\ i \in Int /\ k \in Int
      /\ key[i] \in Int /\ key[k] \in Int
      /\ \A j \in S : key[j] \in Int /\ j \in Int
    OBVIOUS
<1>1. I \subseteq K
    <2>1. ASSUME NEW j \in S, Before(key, j, i) PROVE Before(key, j, k)
        <3>1. /\ j \in Int /\ i \in Int /\ k \in Int
              /\ key[j] \in Int /\ key[i] \in Int /\ key[k] \in Int
            BY <1>0
        <3>2. \A a, b, c, x, y, z \in Int :
                 /\ x < y \/ (x = y /\ a < b)
                 /\ y < z \/ (y = z /\ b < c)
                 => x < z \/ (x = z /\ a < c)
            OBVIOUS
        <3>3. QED
            BY <2>1, <3>1, <3>2 DEF Before
    <2>2. QED
        BY <2>1
<1>2. i \in K /\ i \notin I
    BY <1>0 DEF Before
<1>3. IsFiniteSet(K)
    BY FS_Subset
<1>4. /\ IsFiniteSet(I) /\ Cardinality(I) <= Cardinality(K)
      /\ Cardinality(K) = Cardinality(I) => K = I
    BY <1>1, <1>3, FS_Subset
<1>5. Cardinality(I) \in Nat /\ Cardinality(K) \in Nat
    BY <1>3, <1>4, FS_CardinalityType
<1>6. Cardinality(I) # Cardinality(K)
    BY <1>2, <1>4
<1>7. Cardinality(I) < Cardinality(K)
    BY <1>4, <1>5, <1>6
<1>8. QED
    BY <1>7 DEF Place

\* Of two places one comes first.
LEMMA OneIsFirst ==
    ASSUME NEW S, S \subseteq Int, NEW key, key \in [S -> Int], NEW i \in S, NEW k \in S, i # k
    PROVE  Before(key, i, k) \/ Before(key, k, i)
<1>1. i \in Int /\ k \in Int /\ key[i] \in Int /\ key[k] \in Int
    OBVIOUS
<1>2. QED
    BY <1>1 DEF Before

\* The places are the numbers below the size of the set, each taken once.
LEMMA PlacesAreDense ==
    ASSUME NEW S, S \subseteq Int, IsFiniteSet(S), NEW key, key \in [S -> Int]
    PROVE  /\ Cardinality(S) \in Nat
           /\ \A i \in S : Place(S, key, i) \in 0..(Cardinality(S) - 1)
           /\ \A n \in 0..(Cardinality(S) - 1) : \E i \in S : Place(S, key, i) = n
<1> DEFINE N == Cardinality(S)
           f == [i \in S |-> Place(S, key, i)]
<1>1. N \in Nat
    BY FS_CardinalityType
<1>2. \A i \in S : Place(S, key, i) \in 0..(N - 1)
    <2> SUFFICES ASSUME NEW i \in S PROVE Place(S, key, i) \in 0..(N - 1)
        OBVIOUS
    <2> DEFINE I == {j \in S : Before(key, j, i)}
    <2>1. I \subseteq S \ {i}
        <3>1. i \in Int /\ key[i] \in Int
            OBVIOUS
        <3>2. ~Before(key, i, i)
            BY <3>1 DEF Before
        <3>3. QED
            BY <3>2
    <2>2. IsFiniteSet(S \ {i}) /\ Cardinality(S \ {i}) = N - 1
        BY FS_RemoveElement
    <2>3. IsFiniteSet(I) /\ Cardinality(I) <= Cardinality(S \ {i})
        BY <2>1, <2>2, FS_Subset
    <2>4. Cardinality(I) \in Nat
        BY <2>3, FS_CardinalityType
    <2>5. Cardinality(I) \in 0..(N - 1)
        BY <1>1, <2>2, <2>3, <2>4
    <2>6. QED
        BY <2>5 DEF Place
<1>3. f \in [S -> 0..(N - 1)]
    BY <1>2
<1>4. \A i, k \in S : i # k => f[i] # f[k]
    <2> SUFFICES ASSUME NEW i \in S, NEW k \in S, i # k PROVE f[i] # f[k]
        OBVIOUS
    <2>1. Place(S, key, i) \in Int /\ Place(S, key, k) \in Int
        BY <1>2
    <2>2. ASSUME Before(key, i, k) PROVE Place(S, key, i) < Place(S, key, k)
        BY <2>2, PlaceGrows
    <2>3. ASSUME Before(key, k, i) PROVE Place(S, key, k) < Place(S, key, i)
        BY <2>3, PlaceGrows
    <2>4. Before(key, i, k) \/ Before(key, k, i)
        BY OneIsFirst
    <2>5. Place(S, key, i) # Place(S, key, k)
        BY <2>1, <2>2, <2>3, <2>4
    <2>6. QED
        BY <2>5
<1>5. f \in Injection(S, 0..(N - 1))
    BY <1>3, <1>4 DEF Injection, IsInjective
<1>6. IsFiniteSet(0..(N - 1)) /\ Cardinality(0..(N - 1)) = N
    <2>1. /\ IsFiniteSet(0..(N - 1))
          /\ Cardinality(0..(N - 1)) = IF 0 > N - 1 THEN 0 ELSE (N - 1) - 0 + 1
        BY <1>1, FS_Interval
    <2>2. QED
        BY <1>1, <2>1
<1>7. f \in Surjection(S, 0..(N - 1))
    BY <1>5, <1>6, FS_Injection
<1>8. \A n \in 0..(N - 1) : \E i \in S : f[i] = n
    BY <1>7 DEF Surjection
<1>9. QED
    BY <1>1, <1>2, <1>8

\* A stable sort has every place once, and in order.
LEMMA StableSortSorts ==
    ASSUME NEW S, S \subseteq Int, IsFiniteSet(S), NEW key, key \in [S -> Int]
    PROVE  /\ Cardinality(S) \in Nat
           /\ DOMAIN StableSort(S, key) = 1..Cardinality(S)
           /\ \A n \in 1..Cardinality(S) :
                /\ StableSort(S, key)[n] \in S
                /\ Place(S, key, StableSort(S, key)[n]) = n - 1
           /\ \A i \in S : /\ Place(S, key, i) + 1 \in 1..Cardinality(S)
                           /\ StableSort(S, key)[Place(S, key, i) + 1] = i
           /\ \A m, n \in 1..Cardinality(S) :
                m < n => Before(key, StableSort(S, key)[m], StableSort(S, key)[n])
<1> DEFINE N == Cardinality(S)
           s == StableSort(S, key)
<1>1. /\ N \in Nat
      /\ \A i \in S : Place(S, key, i) \in 0..(N - 1)
      /\ \A n \in 0..(N - 1) : \E i \in S : Place(S, key, i) = n
    BY PlacesAreDense
<1>2. s = [n \in 1..N |-> CHOOSE i \in S : Place(S, key, i) = n - 1]
    BY DEF StableSort, Place
<1>3. \A n \in 1..N : s[n] \in S /\ Place(S, key, s[n]) = n - 1
    <2> SUFFICES ASSUME NEW n \in 1..N PROVE s[n] \in S /\ Place(S, key, s[n]) = n - 1
        OBVIOUS
    <2>1. n - 1 \in 0..(N - 1)
        BY <1>1
    <2>2. \E i \in S : Place(S, key, i) = n - 1
        BY <1>1, <2>1
    <2>3. s[n] = CHOOSE i \in S : Place(S, key, i) = n - 1
        BY <1>2
    <2>4. QED
        BY <2>2, <2>3
<1>4. \A m, n \in 1..N : m < n => Before(key, s[m], s[n])
    <2> SUFFICES ASSUME NEW m \in 1..N, NEW n \in 1..N, m < n PROVE Before(key, s[m], s[n])
        OBVIOUS
    <2>1. /\ s[m] \in S /\ s[n] \in S
          /\ Place(S, key, s[m]) = m - 1 /\ Place(S, key, s[n]) = n - 1
        BY <1>3
    <2> HIDE DEF s
    <2>2. s[m] # s[n]
        BY <1>1, <2>1
    <2>3. ASSUME Before(key, s[n], s[m]) PROVE FALSE
        <3>1. Place(S, key, s[n]) < Place(S, key, s[m])
            BY <2>1, <2>3, PlaceGrows
        <3>2. QED
            BY <1>1, <2>1, <3>1
    <2>4. QED
        BY <2>1, <2>2, <2>3, OneIsFirst
<1>5. \A i \in S : Place(S, key, i) + 1 \in 1..N /\ s[Place(S, key, i) + 1] = i
    <2> SUFFICES ASSUME NEW i \in S
                 PROVE  Place(S, key, i) + 1 \in 1..N /\ s[Place(S, key, i) + 1] = i
        OBVIOUS
    <2> DEFINE n == Place(S, key, i) + 1
    <2>1. n \in 1..N /\ n - 1 = Place(S, key, i)
        BY <1>1
    <2>2. s[n] \in S /\ Place(S, key, s[n]) = Place(S, key, i)
        BY <1>3, <2>1
    <2>3. ASSUME s[n] # i PROVE FALSE
        <3> HIDE DEF s, n
        <3>1. Before(key, i, s[n]) \/ Before(key, s[n], i)
            BY <2>2, <2>3, OneIsFirst
        <3>2. /\ Before(key, i, s[n]) => Place(S, key, i) < Place(S, key, s[n])
              /\ Before(key, s[n], i) => Place(S, key, s[n]) < Place(S, key, i)
            BY <2>2, PlaceGrows
        <3>3. QED
            BY <1>1, <2>2, <3>1, <3>2
    <2>4. QED
        BY <2>1, <2>3
<1>6. DOMAIN s = 1..N
    BY <1>2
<1>7. QED
    BY <1>1, <1>3, <1>4, <1>5, <1>6

\* What follows in the order of the numbers keeps it.
LEMMA InOrderSorts ==
    ASSUME NEW S, S \subseteq Int, IsFiniteSet(S)
    PROVE  /\ Cardinality(S) \in Nat
           /\ DOMAIN InOrder(S) = 1..Cardinality(S)
           /\ \A n \in 1..Cardinality(S) : InOrder(S)[n] \in S
           /\ \A i \in S : \E n \in 1..Cardinality(S) : InOrder(S)[n] = i
<1> DEFINE key == [i \in S |-> 0]
<1>1. key \in [S -> Int] /\ InOrder(S) = StableSort(S, key)
    BY DEF InOrder
<1> HIDE DEF key
<1>2. /\ Cardinality(S) \in Nat
      /\ DOMAIN StableSort(S, key) = 1..Cardinality(S)
      /\ \A n \in 1..Cardinality(S) : StableSort(S, key)[n] \in S
    BY <1>1, StableSortSorts
<1>3. \A i \in S : \E n \in 1..Cardinality(S) : StableSort(S, key)[n] = i
    <2>1. \A i \in S : /\ Place(S, key, i) + 1 \in 1..Cardinality(S)
                       /\ StableSort(S, key)[Place(S, key, i) + 1] = i
        BY <1>1, StableSortSorts
    <2>2. QED
        BY <2>1
<1>4. QED
    BY <1>1, <1>2, <1>3

\* In an interval as many numbers come before one as lie below it.
LEMMA PlaceInInterval ==
    ASSUME NEW a \in Nat, NEW b \in Nat, a <= b, NEW c \in (a + 1)..b
    PROVE  Place((a + 1)..b, [i \in (a + 1)..b |-> 0], c) = c - 1 - a
<1>1. c \in Int /\ c - 1 \in Int /\ a + 1 \in Int
    OBVIOUS
<1>2. {j \in (a + 1)..b : Before([i \in (a + 1)..b |-> 0], j, c)} = (a + 1)..(c - 1)
    <2> DEFINE S == (a + 1)..b
               key == [i \in S |-> 0]
    <2>1. \A j \in S : Before(key, j, c) <=> j < c
        BY DEF Before
    <2>2. {j \in S : j < c} = (a + 1)..(c - 1)
        BY <1>1
    <2>3. QED
        BY <2>1, <2>2
<1>3. Cardinality((a + 1)..(c - 1)) = IF a + 1 > c - 1 THEN 0 ELSE c - 1 - (a + 1) + 1
    BY <1>1, FS_Interval
<1>4. Cardinality((a + 1)..(c - 1)) = c - 1 - a
    <2>1. CASE a + 1 > c - 1
        <3>1. c - 1 - a = 0
            BY <1>1, <2>1
        <3>2. QED
            BY <1>3, <2>1, <3>1
    <2>2. CASE ~(a + 1 > c - 1)
        <3>1. c - 1 - (a + 1) + 1 = c - 1 - a
            BY <1>1
        <3>2. QED
            BY <1>3, <2>2, <3>1
    <2>3. QED
        BY <2>1, <2>2
<1>5. QED
    BY <1>2, <1>4 DEF Place

\* In an interval the nth number is the nth.
LEMMA IntervalInOrder ==
    ASSUME NEW a \in Nat, NEW b \in Nat, a <= b
    PROVE  /\ DOMAIN InOrder((a + 1)..b) = 1..(b - a)
           /\ \A n \in 1..(b - a) : InOrder((a + 1)..b)[n] = a + n
<1> DEFINE S == (a + 1)..b
           key == [i \in S |-> 0]
           s == InOrder(S)
<1>1. /\ S \subseteq Int
      /\ IsFiniteSet(S)
      /\ Cardinality(S) = b - a
    <2>1. IsFiniteSet(S) /\ Cardinality(S) = IF a + 1 > b THEN 0 ELSE b - (a + 1) + 1
        BY FS_Interval
    <2>2. QED
        BY <2>1
<1>2. key \in [S -> Int] /\ s = StableSort(S, key)
    BY DEF InOrder
<1>3. \A c \in S : Place(S, key, c) = c - 1 - a
    BY PlaceInInterval
<1>4. S \subseteq Int
    OBVIOUS
<1> HIDE DEF S, key, s
<1>5. /\ DOMAIN s = 1..(b - a)
      /\ \A n \in 1..(b - a) : s[n] \in S /\ Place(S, key, s[n]) = n - 1
    <2>1. /\ DOMAIN StableSort(S, key) = 1..Cardinality(S)
          /\ \A n \in 1..Cardinality(S) :
               /\ StableSort(S, key)[n] \in S
               /\ Place(S, key, StableSort(S, key)[n]) = n - 1
        BY <1>1, <1>2, StableSortSorts
    <2>2. QED
        BY <1>1, <1>2, <2>1
<1>6. ASSUME NEW n \in 1..(b - a) PROVE s[n] = a + n
    <2>1. s[n] \in S /\ s[n] - 1 - a = n - 1
        BY <1>3, <1>5
    <2>2. s[n] \in Int
        BY <2>1, <1>4
    <2>3. QED
        BY <2>1, <2>2
<1>7. QED
    BY <1>5, <1>6 DEF s, S

\* The places of a sequence are finitely many numbers.
LEMMA PlacesAreFinite ==
    ASSUME NEW T, NEW items \in Seq(T), NEW S, S \subseteq DOMAIN items
    PROVE  S \subseteq Int /\ IsFiniteSet(S)
<1>1. Len(items) \in Nat /\ DOMAIN items = 1..Len(items)
    BY LenProperties
<1>2. IsFiniteSet(1..Len(items))
    BY <1>1, FS_Interval
<1>3. QED
    BY <1>1, <1>2, FS_Subset

\* A selection holds the items selected and nothing else.
LEMMA ItemsInOrder ==
    ASSUME NEW T, NEW items \in Seq(T), NEW S, S \subseteq DOMAIN items
    PROVE  /\ Items(items, InOrder(S)) \in Seq(T)
           /\ Len(Items(items, InOrder(S))) = Cardinality(S)
           /\ Range(Items(items, InOrder(S))) = {items[i] : i \in S}
<1> DEFINE order == InOrder(S)
           kept == Items(items, order)
           N == Cardinality(S)
<1>1. DOMAIN items = 1..Len(items) /\ \A i \in DOMAIN items : items[i] \in T
    BY LenProperties
<1>2. S \subseteq Int /\ IsFiniteSet(S)
    BY PlacesAreFinite
<1>3. /\ N \in Nat /\ DOMAIN order = 1..N
      /\ \A n \in 1..N : order[n] \in S
    BY <1>2, InOrderSorts
<1>4. \A i \in S : \E n \in 1..N : order[n] = i
    BY <1>2, InOrderSorts
<1>5. kept = [n \in 1..N |-> items[order[n]]]
    BY <1>3 DEF Items
<1> HIDE DEF order, kept, N
<1>6. kept \in Seq(T) /\ Len(kept) = N /\ DOMAIN kept = 1..N
    BY <1>1, <1>3, <1>5
<1>7. Range(kept) = {items[i] : i \in S}
    <2>1. Range(kept) = {kept[n] : n \in 1..N}
        BY <1>6 DEF Range
    <2>2. \A n \in 1..N : kept[n] = items[order[n]] /\ order[n] \in S
        BY <1>3, <1>5
    <2>3. QED
        BY <2>1, <2>2, <1>4
<1>8. QED
    BY <1>6, <1>7 DEF kept, order, N

-----------------------------------------------------------------------------
(* What the collectors make of their answers.                               *)

\* A template says what its values are of.
WellFormed(template) ==
    template.unit \in {"errors", "ratio", "other"} /\ template.error \in BOOLEAN

\* A collector has its signal and one template or two.
WellMade(collector) ==
    /\ collector.signal \in Signal
    /\ Len(collector.templates) = 1 \/ Len(collector.templates) = 2
    /\ collector.templates \in Seq(Range(collector.templates))
    /\ \A i \in 1..Len(collector.templates) : WellFormed(collector.templates[i])

\* A collector with one template, and one with two, is well made.
LEMMA OneTemplate ==
    ASSUME NEW signal \in Signal, NEW a, WellFormed(a)
    PROVE  WellMade([signal |-> signal, templates |-> <<a>>])
<1>1. Range(<<a>>) = {a}
    BY DEF Range
<1>2. QED
    BY <1>1 DEF WellMade

LEMMA TwoTemplates ==
    ASSUME NEW signal \in Signal, NEW a, NEW b, WellFormed(a), WellFormed(b)
    PROVE  WellMade([signal |-> signal, templates |-> <<a, b>>])
<1>1. Range(<<a, b>>) = {a, b}
    BY DEF Range
<1>2. QED
    BY <1>1 DEF WellMade

\* All the collectors there are.
LEMMA CollectorsAreWellMade ==
    ASSUME NEW provider \in DOMAIN Collector PROVE WellMade(Collector[provider])
<1>1. {"logs", "metrics", "traces"} \subseteq Signal
    BY DEF Signal
<1>2. WellMade(Prometheus)
    <2>1. WellFormed(Template("service_up", "ratio", FALSE))
        BY DEF WellFormed, Template
    <2>2. QED
        BY <1>1, <2>1, OneTemplate DEF Prometheus
<1>3. WellMade(Loki)
    <2>1. WellFormed(Template("error_log_volume", "other", TRUE))
        BY DEF WellFormed, Template
    <2>2. QED
        BY <1>1, <2>1, OneTemplate DEF Loki
<1>4. WellMade(Elasticsearch)
    <2>1. WellFormed(Template("error_log_count", "other", TRUE))
        BY DEF WellFormed, Template
    <2>2. QED
        BY <1>1, <2>1, OneTemplate DEF Elasticsearch
<1>5. WellMade(Datadog)
    <2>1. WellFormed(Template("service_request_latency_avg", "other", FALSE))
        BY DEF WellFormed, Template
    <2>2. WellFormed(Template("service_error_rate", "other", TRUE))
        BY DEF WellFormed, Template
    <2>3. QED
        BY <1>1, <2>1, <2>2, TwoTemplates DEF Datadog
<1>6. WellMade(Dynatrace)
    <2>1. WellFormed(Template("service_response_time_avg", "other", FALSE))
        BY DEF WellFormed, Template
    <2>2. WellFormed(Template("service_error_rate", "other", TRUE))
        BY DEF WellFormed, Template
    <2>3. QED
        BY <1>1, <2>1, <2>2, TwoTemplates DEF Dynatrace
<1>7. WellMade(NewRelic)
    <2>1. WellFormed(Template("transaction_duration_p95", "other", FALSE))
        BY DEF WellFormed, Template
    <2>2. WellFormed(Template("error_rate", "errors", TRUE))
        BY DEF WellFormed, Template
    <2>3. QED
        BY <1>1, <2>1, <2>2, TwoTemplates DEF NewRelic
<1>8. WellMade(Jaeger)
    <2>1. WellFormed(Template("jaeger_trace_sample", "other", FALSE))
        BY DEF WellFormed, Template
    <2>2. QED
        BY <1>1, <2>1, OneTemplate DEF Jaeger
<1>9. /\ Collector["prometheus"] = Prometheus /\ Collector["loki"] = Loki
      /\ Collector["elasticsearch"] = Elasticsearch /\ Collector["datadog"] = Datadog
      /\ Collector["dynatrace"] = Dynatrace /\ Collector["newrelic"] = NewRelic
      /\ Collector["jaeger"] = Jaeger
    BY DEF Collector
<1>10. provider \in {"prometheus", "loki", "elasticsearch", "datadog", "dynatrace", "newrelic",
                     "jaeger"}
    BY DEF Collector
<1>11. QED
    BY <1>2, <1>3, <1>4, <1>5, <1>6, <1>7, <1>8, <1>9, <1>10

\* Every template is one of some collector.
LEMMA TemplatesAreWellFormed ==
    /\ \A p \in DOMAIN Collector : \A i \in 1..Len(Collector[p].templates) :
         Collector[p].templates[i] \in Templates
    /\ \A t \in Templates : WellFormed(t)
<1>1. ASSUME NEW p \in DOMAIN Collector
      PROVE  /\ \A i \in 1..Len(Collector[p].templates) :
                  /\ Collector[p].templates[i] \in Range(Collector[p].templates)
                  /\ WellFormed(Collector[p].templates[i])
             /\ \A t \in Range(Collector[p].templates) :
                  \E i \in 1..Len(Collector[p].templates) : t = Collector[p].templates[i]
    <2> DEFINE templates == Collector[p].templates
    <2>1. templates \in Seq(Range(templates)) /\ \A i \in 1..Len(templates) : WellFormed(templates[i])
        BY CollectorsAreWellMade DEF WellMade
    <2> HIDE DEF templates
    <2>2. DOMAIN templates = 1..Len(templates)
        BY <2>1, LenProperties
    <2>3. QED
        BY <2>1, <2>2 DEF Range, templates
<1>2. QED
    BY <1>1 DEF Templates

\* A piece of evidence names its provider.
LEMMA ItemIsEvidence ==
    ASSUME NEW provider \in DOMAIN Collector, NEW query \in Query, NEW service \in Service,
           NEW severity \in {"none", "high", "low"}, NEW score \in Nat,
           NEW error \in BOOLEAN, NEW observed \in Nat
    PROVE  /\ Item(provider, query, service, severity, score, error, observed) \in Evidence
           /\ Item(provider, query, service, severity, score, error, observed).provider
                = provider
<1>1. Collector[provider].signal \in Signal
    BY CollectorsAreWellMade DEF WellMade
<1>2. query.template \in Templates /\ WellFormed(query.template)
    BY TemplatesAreWellFormed DEF Query
<1>3. (query.template.error \/ error) \in BOOLEAN
    OBVIOUS
<1>4. severity \in Severity \cup {"none"}
    BY DEF Severity
<1>5. QED
    BY <1>1, <1>2, <1>3, <1>4 DEF Item, Evidence, WellFormed

\* One without a severity or an error of its own.
LEMMA PlainItemIsEvidence ==
    ASSUME NEW provider \in DOMAIN Collector, NEW query \in Query, NEW service \in Service,
           NEW score \in Nat, NEW observed \in Nat
    PROVE  /\ Item(provider, query, service, "none", score, FALSE, observed) \in Evidence
           /\ Item(provider, query, service, "none", score, FALSE, observed).provider = provider
<1>1. Collector[provider].signal \in Signal
    BY CollectorsAreWellMade DEF WellMade
<1>2. query.template \in Templates /\ WellFormed(query.template)
    BY TemplatesAreWellFormed DEF Query
<1>3. (query.template.error \/ FALSE) \in BOOLEAN
    OBVIOUS
<1>4. "none" \in Severity \cup {"none"}
    OBVIOUS
<1>5. QED
    BY <1>1, <1>2, <1>3, <1>4 DEF Item, Evidence, WellFormed

\* A request is for services that exist, in a time that does.
LEMMA RequestTypes ==
    ASSUME NEW r \in Requests
    PROVE  /\ r.services \in Seq(Service) /\ r.signals \in Seq(Signal)
           /\ r.start \in Nat /\ r.end \in Nat
BY DiagnosisAssumption DEF Request

\* The end of the window, now when it is open.
LEMMA EndIsTime == ASSUME NEW r \in Requests PROVE End(r) \in Nat
BY RequestTypes, ProvidersAssumption DEF End

\* Each service once.
LEMMA UniqueServicesType ==
    ASSUME NEW services \in Seq(Service) PROVE UniqueServices(services) \in Seq(Service)
<1> DEFINE S == {i \in DOMAIN services : \A j \in 1..(i - 1) : services[j] # services[i]}
<1>1. S \subseteq DOMAIN services
    OBVIOUS
<1>2. Items(services, InOrder(S)) \in Seq(Service)
    BY <1>1, ItemsInOrder
<1>3. QED
    BY <1>2 DEF UniqueServices

\* What is left of the services when the blank ones are dropped.
LEMMA NonEmptyType ==
    ASSUME NEW services \in Seq(Service) PROVE NonEmpty(services) \in Seq(Service)
<1> DEFINE trimmed == [i \in DOMAIN services |-> Trimmed[services[i]]]
           S == {i \in DOMAIN services : trimmed[i] # ""}
           kept == Items(trimmed, InOrder(S))
<1>1. /\ DOMAIN services = 1..Len(services) /\ Len(services) \in Nat
      /\ \A i \in DOMAIN services : services[i] \in Service
    BY LenProperties
<1>2. /\ DOMAIN trimmed = 1..Len(services)
      /\ \A i \in 1..Len(services) : trimmed[i] \in Service \cup {""}
    BY <1>1, PoliciesAssumption
<1>3. trimmed \in Seq(Service \cup {""})
    <2>1. trimmed = [i \in 1..Len(services) |-> Trimmed[services[i]]]
        BY <1>1
    <2>2. \A i \in 1..Len(services) : Trimmed[services[i]] \in Service \cup {""}
        BY <1>1, PoliciesAssumption
    <2> HIDE DEF trimmed
    <2>3. trimmed \in [1..Len(services) -> Service \cup {""}]
        BY <2>1, <2>2
    <2> DEFINE n == Len(services)
               T == Service \cup {""}
    <2>4. n \in Nat /\ trimmed \in [1..n -> T]
        BY <1>1, <2>3
    <2> HIDE DEF n, T
    <2> SUFFICES trimmed \in Seq(T)
        BY DEF T
    <2>5. QED
        BY <2>4
<1>4. S \subseteq DOMAIN trimmed /\ \A i \in S : trimmed[i] \in Service
    BY <1>1, <1>2
<1>5. NonEmpty(services) = kept
    BY DEF NonEmpty
<1> HIDE DEF trimmed, S
<1>6. kept \in Seq(Service \cup {""}) /\ Range(kept) = {trimmed[i] : i \in S}
    BY <1>3, <1>4, ItemsInOrder
<1> HIDE DEF kept
<1>7. /\ Len(kept) \in Nat /\ DOMAIN kept = 1..Len(kept)
      /\ kept \in [1..Len(kept) -> Service \cup {""}]
    BY <1>6, LenProperties
<1>8. \A i \in 1..Len(kept) : kept[i] \in Service
    BY <1>4, <1>6, <1>7 DEF Range
<1>9. kept \in Seq(Service)
    <2> DEFINE n == Len(kept)
    <2>1. n \in Nat /\ kept \in [1..n -> Service]
        BY <1>7, <1>8
    <2> HIDE DEF n
    <2>2. QED
        BY <2>1
<1>10. QED
    BY <1>5, <1>9

\* Each template is asked for each service.
LEMMA QueriesType ==
    ASSUME NEW provider \in DOMAIN Collector, NEW r \in Requests
    PROVE  Queries(provider, r) \in Seq(Query)
<1> DEFINE asked == NonEmpty(r.services)
           services == IF provider = "jaeger" THEN UniqueServices(asked) ELSE asked
           templates == Collector[provider].templates
           n == Len(templates)
           m == Len(services)
           Asked == [i \in 1..(n * m) |->
                       [service |-> services[((i - 1) \div n) + 1],
                        template |-> templates[((i - 1) % n) + 1]]]
<1>1. services \in Seq(Service)
    BY RequestTypes, NonEmptyType, UniqueServicesType
<1>2. m \in Nat /\ \A i \in 1..m : services[i] \in Service
    BY <1>1, LenProperties
<1>3. /\ n = 1 \/ n = 2
      /\ \A i \in 1..n : templates[i] \in Templates
    BY CollectorsAreWellMade, TemplatesAreWellFormed DEF WellMade
<1>4. Queries(provider, r) = <<>> \/ Queries(provider, r) = Asked
    BY DEF Queries
<1> HIDE DEF asked, services, templates, n, m
<1>5. \A i \in 1..(n * m) : ((i - 1) \div n) + 1 \in 1..m /\ ((i - 1) % n) + 1 \in 1..n
    <2>1. CASE n = 1
        <3>1. n * m = m
            BY <1>2, <2>1
        <3>2. \A i \in 1..m : ((i - 1) \div 1) + 1 \in 1..m /\ ((i - 1) % 1) + 1 \in 1..1
            BY <1>2
        <3>3. QED
            BY <2>1, <3>1, <3>2
    <2>2. CASE n = 2
        <3>1. n * m = 2 * m
            BY <1>2, <2>2
        <3>2. \A i \in 1..(2 * m) : ((i - 1) \div 2) + 1 \in 1..m /\ ((i - 1) % 2) + 1 \in 1..2
            BY <1>2
        <3>3. QED
            BY <2>2, <3>1, <3>2
    <2>3. QED
        BY <1>3, <2>1, <2>2
<1>6. n * m \in Nat
    BY <1>2, <1>3
<1>7. \A i \in 1..(n * m) : Asked[i] \in Query
    BY <1>2, <1>3, <1>5 DEF Query
<1>8. Asked \in Seq(Query)
    BY <1>6, <1>7
<1>9. <<>> \in Seq(Query)
    OBVIOUS
<1> HIDE DEF Asked
<1>10. QED
    BY <1>4, <1>8, <1>9

\* Prometheus, Loki, Datadog and Dynatrace: one item for a sample.
LEMMA SamplesToEvidence ==
    ASSUME NEW provider \in DOMAIN Collector, NEW query \in Query, NEW r \in Requests,
           NEW answer \in Seq(Sample)
    PROVE  LET items == [i \in DOMAIN answer |-> SampleToEvidence(provider, query, answer[i], r)]
           IN  items \in Seq({e \in Evidence : e.provider = provider})
<1>1. \A i \in DOMAIN answer : answer[i] \in Sample
    BY LenProperties
<1>2. ASSUME NEW sample \in Sample
      PROVE  /\ SampleToEvidence(provider, query, sample, r) \in Evidence
             /\ SampleToEvidence(provider, query, sample, r).provider = provider
    <2> DEFINE observed == IF sample.time = 0 THEN End(r) ELSE sample.time
    <2>1. sample.value \in Nat /\ observed \in Nat /\ query.service \in Service
        BY EndIsTime DEF Sample, Query
    <2> HIDE DEF observed
    <2>3. /\ Item(provider, query, query.service, "none", sample.value, FALSE, observed)
               \in Evidence
          /\ Item(provider, query, query.service, "none", sample.value, FALSE, observed).provider
               = provider
        BY <2>1, PlainItemIsEvidence
    <2>4. QED
        BY <2>3 DEF SampleToEvidence, observed
<1>3. DOMAIN answer = 1..Len(answer) /\ Len(answer) \in Nat
    BY LenProperties
<1>4. QED
    BY <1>1, <1>2, <1>3

\* New Relic: one item for a row.
LEMMA RowsToEvidence ==
    ASSUME NEW query \in Query, NEW r \in Requests, NEW answer \in Seq(Sample)
    PROVE  LET items == [i \in DOMAIN answer |-> RowToEvidence(query, answer[i], r)]
           IN  items \in Seq({e \in Evidence : e.provider = "newrelic"})
<1>1. \A i \in DOMAIN answer : answer[i] \in Sample
    BY LenProperties
<1>2. ASSUME NEW row \in Sample
      PROVE  /\ RowToEvidence(query, row, r) \in Evidence
             /\ RowToEvidence(query, row, r).provider = "newrelic"
    <2> DEFINE observed == IF row.time = 0 THEN End(r) ELSE row.time
               service == IF row.service \in Service THEN row.service ELSE query.service
    <2>1. row.value \in Nat /\ observed \in Nat /\ service \in Service
        BY EndIsTime DEF Sample, Query
    <2>3. "newrelic" \in DOMAIN Collector
        BY DEF Collector
    <2> HIDE DEF observed, service
    <2>4. /\ Item("newrelic", query, service, "none", row.value, FALSE, observed) \in Evidence
          /\ Item("newrelic", query, service, "none", row.value, FALSE, observed).provider
               = "newrelic"
        BY <2>1, <2>3, PlainItemIsEvidence
    <2>5. QED
        BY <2>4 DEF RowToEvidence, observed, service
<1>3. DOMAIN answer = 1..Len(answer) /\ Len(answer) \in Nat
    BY LenProperties
<1>4. QED
    BY <1>1, <1>2, <1>3

\* Elasticsearch: one item for a count that is not zero.
LEMMA CountsToEvidence ==
    ASSUME NEW query \in Query, NEW r \in Requests, NEW answer \in Nat
    PROVE  CountToEvidence(query, answer, r)
             \in Seq({e \in Evidence : e.provider = "elasticsearch"})
<1> DEFINE e == Item("elasticsearch", query, query.service, "none", answer, FALSE, End(r))
<1>2. "elasticsearch" \in DOMAIN Collector
    BY DEF Collector
<1>3. End(r) \in Nat /\ query.service \in Service
    BY EndIsTime DEF Query
<1>4. e \in Evidence /\ e.provider = "elasticsearch"
    BY <1>2, <1>3, PlainItemIsEvidence
<1> HIDE DEF e
<1> DEFINE T == {i \in Evidence : i.provider = "elasticsearch"}
<1>5. e \in T
    BY <1>4
<1> HIDE DEF T
<1>6. <<>> \in Seq(T) /\ <<e>> \in Seq(T)
    BY <1>5
<1>7. CountToEvidence(query, answer, r) = <<>> \/ CountToEvidence(query, answer, r) = <<e>>
    BY DEF CountToEvidence, e
<1>8. CountToEvidence(query, answer, r) \in Seq(T)
    BY <1>6, <1>7
<1>9. QED
    BY <1>8 DEF T

\* Among traces there is a longest, the first of them if they are several.
LEMMA LongestTrace ==
    ASSUME NEW traces \in Seq(Trace), traces # <<>>
    PROVE  \E i \in DOMAIN traces :
             \A j \in DOMAIN traces :
               \/ traces[i].duration > traces[j].duration
               \/ traces[i].duration = traces[j].duration /\ i <= j
<1> DEFINE S == DOMAIN traces
           key == [i \in S |-> -traces[i].duration]
           first == StableSort(S, key)
<1>1. S = 1..Len(traces) /\ Len(traces) \in Nat \ {0}
    BY LenProperties, EmptySeq
<1>2. \A i \in S : traces[i].duration \in Nat
    <2>1. \A i \in S : traces[i] \in Trace
        BY LenProperties
    <2>2. QED
        BY <2>1 DEF Trace
<1>3. S \subseteq Int /\ IsFiniteSet(S) /\ Cardinality(S) = Len(traces)
    <2>1. IsFiniteSet(S) /\ Cardinality(S) = IF 1 > Len(traces) THEN 0 ELSE Len(traces) - 1 + 1
        BY <1>1, FS_Interval
    <2>2. QED
        BY <1>1, <2>1
<1>4. key \in [S -> Int]
    BY <1>2
<1>5. \A i \in S : key[i] = -traces[i].duration
    OBVIOUS
<1> HIDE DEF key, first
<1>6. /\ \A n \in 1..Cardinality(S) : first[n] \in S
      /\ \A m, n \in 1..Cardinality(S) : m < n => Before(key, first[m], first[n])
    BY <1>3, <1>4, StableSortSorts DEF first
<1>7. \A i \in S : /\ Place(S, key, i) + 1 \in 1..Cardinality(S)
                   /\ first[Place(S, key, i) + 1] = i
    BY <1>3, <1>4, StableSortSorts DEF first
<1>8. 1 \in 1..Cardinality(S)
    BY <1>1, <1>3
<1>9. first[1] \in S
    BY <1>6, <1>8
<1>10. ASSUME NEW j \in S
       PROVE  \/ traces[first[1]].duration > traces[j].duration
              \/ traces[first[1]].duration = traces[j].duration /\ first[1] <= j
    <2>1. PICK n \in 1..Cardinality(S) : first[n] = j
        BY <1>7
    <2>2. n = 1 \/ 1 < n
        BY <1>1, <1>3
    <2>3. first[1] = j \/ Before(key, first[1], j)
        BY <1>6, <1>8, <2>1, <2>2
    <2>4. /\ traces[first[1]].duration \in Nat /\ traces[j].duration \in Nat
          /\ first[1] \in Int /\ j \in Int
          /\ key[first[1]] = -traces[first[1]].duration /\ key[j] = -traces[j].duration
        BY <1>1, <1>2, <1>5, <1>9
    <2>5. \A a, b \in Nat : -a < -b => a > b
        OBVIOUS
    <2>6. \A a, b \in Nat : -a = -b => a = b
        OBVIOUS
    <2>7. CASE first[1] = j
        BY <2>4, <2>7
    <2>8. CASE Before(key, first[1], j)
        BY <2>4, <2>5, <2>6, <2>8 DEF Before
    <2>9. QED
        BY <2>3, <2>7, <2>8
<1>11. QED
    BY <1>9, <1>10

\* Jaeger: one item for the longest trace.
LEMMA TracesToEvidence ==
    ASSUME NEW query \in Query, NEW answer \in Seq(Trace)
    PROVE  TraceEvidence(query, answer) \in Seq({e \in Evidence : e.provider = "jaeger"})
<1> DEFINE T == {e \in Evidence : e.provider = "jaeger"}
           longest == CHOOSE i \in DOMAIN answer :
                        \A j \in DOMAIN answer :
                          \/ answer[i].duration > answer[j].duration
                          \/ answer[i].duration = answer[j].duration /\ i <= j
           severity == IF answer[longest].errors THEN "high" ELSE "low"
           e == Item("jaeger", query, query.service, severity, 1, answer[longest].errors,
                     answer[longest].start)
<1>1. CASE answer = <<>>
    <2>1. TraceEvidence(query, answer) = <<>>
        BY <1>1 DEF TraceEvidence
    <2>2. QED
        BY <2>1, EmptySeq
<1>2. CASE answer # <<>>
    <2>1. longest \in DOMAIN answer
        BY <1>2, LongestTrace
    <2> HIDE DEF longest
    <2>2. answer[longest] \in Trace
        BY <2>1, LenProperties
    <2>3. answer[longest].errors \in BOOLEAN /\ answer[longest].start \in Nat
        BY <2>2 DEF Trace
    <2>4. severity \in {"none", "high", "low"} /\ query.service \in Service /\ 1 \in Nat
        BY DEF Query
    <2>5. "jaeger" \in DOMAIN Collector
        BY DEF Collector
    <2> HIDE DEF severity
    <2>6. e \in Evidence /\ e.provider = "jaeger"
        BY <2>3, <2>4, <2>5, ItemIsEvidence
    <2>7. TraceEvidence(query, answer) = <<e>>
        BY <1>2 DEF TraceEvidence, severity, longest
    <2> HIDE DEF e
    <2>8. e \in T
        BY <2>6
    <2> HIDE DEF T
    <2>9. TraceEvidence(query, answer) \in Seq(T)
        BY <2>7, <2>8
    <2>10. QED
        BY <2>9 DEF T
<1>3. QED
    BY <1>1, <1>2

\* What a collector makes of an answer is evidence of its own.
LEMMA AnswersBecomeEvidence ==
    ASSUME NEW provider \in DOMAIN Collector, NEW query \in Query, NEW r \in Requests,
           NEW answer \in Answer(provider)
    PROVE  ToEvidence(provider, query, answer, r)
             \in Seq({e \in Evidence : e.provider = provider})
<1>1. CASE provider = "jaeger"
    <2>1. answer \in Seq(Trace) /\ ToEvidence(provider, query, answer, r) = TraceEvidence(query, answer)
        BY <1>1 DEF Answer, ToEvidence
    <2>2. QED
        BY <1>1, <2>1, TracesToEvidence
<1>2. CASE provider = "elasticsearch"
    <2>1. /\ answer \in Nat
          /\ ToEvidence(provider, query, answer, r) = CountToEvidence(query, answer, r)
        BY <1>2 DEF Answer, ToEvidence
    <2>2. QED
        BY <1>2, <2>1, CountsToEvidence
<1>3. CASE provider = "newrelic"
    <2>1. /\ answer \in Seq(Sample)
          /\ ToEvidence(provider, query, answer, r) =
               [i \in DOMAIN answer |-> RowToEvidence(query, answer[i], r)]
        BY <1>3 DEF Answer, ToEvidence
    <2>2. QED
        BY <1>3, <2>1, RowsToEvidence
<1>4. CASE provider \notin {"jaeger", "elasticsearch", "newrelic"}
    <2>1. /\ answer \in Seq(Sample)
          /\ ToEvidence(provider, query, answer, r) =
               [i \in DOMAIN answer |-> SampleToEvidence(provider, query, answer[i], r)]
        BY <1>4 DEF Answer, ToEvidence
    <2>2. QED
        BY <2>1, SamplesToEvidence
<1>5. QED
    BY <1>1, <1>2, <1>3, <1>4

-----------------------------------------------------------------------------
(* The evidence the LLM is shown.                                           *)

\* What may be shown is in the evidence.
LEMMA MatchingIsPlaces ==
    ASSUME NEW items \in Seq(Evidence), NEW r
    PROVE  /\ Matching(items, r) \subseteq DOMAIN items
           /\ Matching(items, r) \subseteq Int /\ IsFiniteSet(Matching(items, r))
           /\ Cardinality(Matching(items, r)) \in Nat
<1>1. Matching(items, r) \subseteq DOMAIN items
    BY DEF Matching
<1>2. Matching(items, r) \subseteq Int /\ IsFiniteSet(Matching(items, r))
    BY <1>1, PlacesAreFinite
<1>3. QED
    BY <1>1, <1>2, FS_CardinalityType

\* When all that matches finds room, all of it is shown.
LEMMA AllIsShown ==
    ASSUME NEW items \in Seq(Evidence), NEW r,
           Cardinality(Matching(items, r)) <= MaxLLMEvidenceItems
    PROVE  /\ FilterEvidence(items, r) \in Seq(Evidence)
           /\ Range(FilterEvidence(items, r)) = {items[k] : k \in Matching(items, r)}
<1>1. FilterEvidence(items, r) = Items(items, InOrder(Matching(items, r)))
    BY DEF FilterEvidence
<1>2. QED
    BY <1>1, MatchingIsPlaces, ItemsInOrder

\* When it does not, there is no free place, and what is left out scores no
\* higher than what is shown.
LEMMA BestIsShown ==
    ASSUME NEW items \in Seq(Evidence), NEW r,
           ~(Cardinality(Matching(items, r)) <= MaxLLMEvidenceItems)
    PROVE  /\ FilterEvidence(items, r) \in Seq(Evidence)
           /\ Len(FilterEvidence(items, r)) = MaxLLMEvidenceItems
           /\ Range(FilterEvidence(items, r)) \subseteq {items[k] : k \in Matching(items, r)}
           /\ \A k \in Matching(items, r), e \in Range(FilterEvidence(items, r)) :
                items[k] \notin Range(FilterEvidence(items, r)) => e.score >= items[k].score
<1> DEFINE S == Matching(items, r)
           N == Cardinality(S)
           M == MaxLLMEvidenceItems
           key == [i \in S |-> -items[i].score]
           ranked == StableSort(S, key)
           shows == FilterEvidence(items, r)
<1>1. /\ S \subseteq DOMAIN items
      /\ S \subseteq Int /\ IsFiniteSet(S) /\ N \in Nat
    BY MatchingIsPlaces
<1>2. M \in Nat \ {0} /\ M < N
    <2>1. M \in Nat \ {0}
        BY PoliciesAssumption
    <2>2. QED
        BY <1>1, <2>1
<1>3. \A i \in S : items[i] \in Evidence
    BY <1>1, LenProperties
<1>4. \A i \in S : items[i].score \in Nat
    BY <1>3 DEF Evidence
<1>5. key \in [S -> Int] /\ \A i \in S : key[i] = -items[i].score
    BY <1>4
<1>6. shows = [n \in 1..M |-> items[ranked[n]]]
    BY DEF FilterEvidence
<1> HIDE DEF S, N, M, key, ranked, shows
<1>7. /\ \A n \in 1..N : ranked[n] \in S
      /\ \A m, n \in 1..N : m < n => Before(key, ranked[m], ranked[n])
    BY <1>1, <1>5, StableSortSorts DEF ranked, N
<1>8. \A i \in S : /\ Place(S, key, i) + 1 \in 1..N
                   /\ ranked[Place(S, key, i) + 1] = i
    BY <1>1, <1>5, StableSortSorts DEF ranked, N
<1>9. \A n \in 1..M : n \in 1..N
    BY <1>1, <1>2
<1>10. \A n \in 1..M : ranked[n] \in S /\ shows[n] = items[ranked[n]] /\ shows[n] \in Evidence
    BY <1>3, <1>6, <1>7, <1>9
<1>11. shows \in Seq(Evidence) /\ Len(shows) = M /\ DOMAIN shows = 1..M
    BY <1>2, <1>6, <1>10
<1>12. Range(shows) = {shows[n] : n \in 1..M}
    BY <1>11 DEF Range
<1>13. Range(shows) \subseteq {items[k] : k \in S}
    BY <1>10, <1>12
<1>14. ASSUME NEW k \in S, NEW e \in Range(shows), items[k] \notin Range(shows)
       PROVE  e.score >= items[k].score
    <2>1. PICK m \in 1..M : e = items[ranked[m]]
        BY <1>10, <1>12
    <2>2. PICK n \in 1..N : ranked[n] = k
        BY <1>8
    <2>3. n \notin 1..M
        BY <1>10, <1>12, <1>14, <2>2
    <2>4. m < n /\ m \in 1..N
        BY <1>2, <1>9, <2>3
    <2>5. Before(key, ranked[m], k)
        BY <1>7, <2>2, <2>4
    <2>6. /\ ranked[m] \in S
          /\ key[ranked[m]] = -e.score /\ key[k] = -items[k].score
          /\ e.score \in Nat /\ items[k].score \in Nat
        BY <1>4, <1>5, <1>10, <2>1
    <2>7. key[ranked[m]] <= key[k]
        BY <2>5, <2>6 DEF Before
    <2>8. \A a, b \in Nat : -a <= -b => a >= b
        OBVIOUS
    <2>9. QED
        BY <2>6, <2>7, <2>8
<1>15. QED
    BY <1>11, <1>13, <1>14 DEF S, M, shows

\* Either way what is shown is some of the evidence.
LEMMA FilterSelects ==
    ASSUME NEW items \in Seq(Evidence), NEW r
    PROVE  /\ FilterEvidence(items, r) \in Seq(Evidence)
           /\ Range(FilterEvidence(items, r)) \subseteq Range(items)
<1>1. /\ FilterEvidence(items, r) \in Seq(Evidence)
      /\ Range(FilterEvidence(items, r)) \subseteq {items[k] : k \in Matching(items, r)}
    BY AllIsShown, BestIsShown
<1>2. {items[k] : k \in Matching(items, r)} \subseteq Range(items)
    BY MatchingIsPlaces DEF Range
<1>3. QED
    BY <1>1, <1>2

-----------------------------------------------------------------------------
(* Severities.                                                              *)

\* The five severities are ranked from 0 to 4.
LEMMA RankTypes ==
    /\ \A s : NormalizeSeverity(s) \in Severity /\ Rank(s) \in 0..4
    /\ Rank("info") = 0 /\ Rank("low") = 1 /\ Rank("medium") = 2
    /\ Rank("high") = 3 /\ Rank("critical") = 4
    /\ \A s : Rank(NormalizeSeverity(s)) = Rank(s)
BY DEF Rank, NormalizeSeverity, Severity, SeverityRank

\* The highest of some severities is one of them, and none ranks higher.
LEMMA HighestIsHighest ==
    ASSUME NEW candidates, candidates \subseteq Severity, candidates # {}
    PROVE  /\ Highest(candidates) \in candidates
           /\ \A s \in candidates : Rank(Highest(candidates)) >= Rank(s)
<1>1. \E s \in candidates : \A t \in candidates : Rank(s) >= Rank(t)
    <2>1. CASE "critical" \in candidates
        BY <2>1, RankTypes DEF Severity
    <2>2. CASE "critical" \notin candidates /\ "high" \in candidates
        BY <2>2, RankTypes DEF Severity
    <2>3. CASE candidates \subseteq {"info", "low", "medium"} /\ "medium" \in candidates
        BY <2>3, RankTypes DEF Severity
    <2>4. CASE candidates \subseteq {"info", "low"} /\ "low" \in candidates
        BY <2>4, RankTypes DEF Severity
    <2>5. CASE candidates \subseteq {"info"}
        <3>1. candidates = {"info"}
            BY <2>5
        <3>2. QED
            BY <3>1, RankTypes
    <2>6. "critical" \notin candidates /\ "high" \notin candidates
            => candidates \subseteq {"info", "low", "medium"}
        BY DEF Severity
    <2>7. candidates \subseteq {"info", "low", "medium"} /\ "medium" \notin candidates
            => candidates \subseteq {"info", "low"}
        OBVIOUS
    <2>8. candidates \subseteq {"info", "low"} /\ "low" \notin candidates
            => candidates \subseteq {"info"}
        OBVIOUS
    <2>9. QED
        BY <2>1, <2>2, <2>3, <2>4, <2>5, <2>6, <2>7, <2>8
<1>2. QED
    BY <1>1 DEF Highest

\* Evidence stays evidence when it gets its id and its severity.
LEMMA NormalizedType ==
    ASSUME NEW items \in Seq(Evidence)
    PROVE  /\ Normalized(items) \in Seq(Evidence)
           /\ Len(Normalized(items)) = Len(items) /\ DOMAIN Normalized(items) = DOMAIN items
           /\ \A i \in DOMAIN items :
                Normalized(items)[i] = [items[i] EXCEPT !.id = i,
                                          !.severity = EvidenceSeverity(items[i])]
<1>1. DOMAIN items = 1..Len(items) /\ Len(items) \in Nat
    BY LenProperties
<1>2. ASSUME NEW e \in Evidence PROVE EvidenceSeverity(e) \in Severity
    <2> DEFINE C == {"info", NormalizeSeverity(e.severity),
                     IF MentionsError(e) THEN "high" ELSE "info",
                     IF e.score >= 1 THEN "medium" ELSE "info"}
    <2>1. {"info", "high", "medium"} \subseteq Severity
        BY DEF Severity
    <2>2. C \subseteq Severity /\ C # {}
        BY <2>1, RankTypes
    <2>3. Highest(C) \in C
        BY <2>2, HighestIsHighest
    <2>4. EvidenceSeverity(e) = Highest(C)
        BY DEF EvidenceSeverity
    <2> HIDE DEF C
    <2>5. QED
        BY <2>2, <2>3, <2>4
<1>3. ASSUME NEW e \in Evidence, NEW i \in Nat
      PROVE  [e EXCEPT !.id = i, !.severity = EvidenceSeverity(e)] \in Evidence
    <2> DEFINE s == EvidenceSeverity(e)
    <2>1. s \in Severity \cup {"none"}
        BY <1>2
    <2> HIDE DEF s
    <2>2. [e EXCEPT !.id = i, !.severity = s] \in Evidence
        BY <2>1 DEF Evidence
    <2>3. QED
        BY <2>2 DEF s
<1>4. \A i \in DOMAIN items : items[i] \in Evidence /\ i \in Nat
    BY <1>1, LenProperties
<1>5. \A i \in DOMAIN items : Normalized(items)[i] \in Evidence
    BY <1>3, <1>4 DEF Normalized
<1>6. DOMAIN Normalized(items) = 1..Len(items)
    BY <1>1 DEF Normalized
<1>7. Normalized(items) = [i \in 1..Len(items) |-> Normalized(items)[i]]
    BY <1>1 DEF Normalized
<1>8. Normalized(items) \in [1..Len(items) -> Evidence]
    BY <1>1, <1>5, <1>6, <1>7
<1>9. Normalized(items) \in Seq(Evidence) /\ Len(Normalized(items)) = Len(items)
    BY <1>1, <1>8
<1>10. QED
    BY <1>1, <1>6, <1>9 DEF Normalized

-----------------------------------------------------------------------------
(* Types.                                                                   *)

\* A query has a collector, the first attempt is the first one, and what is
\* tried again has an attempt left.
TypeInv ==
    /\ TypeOK
    /\ step = "query" => at # 0
    /\ call = "none" => attempt = 0
    /\ call = "backoff" => attempt < MaxAttempts
    /\ step = "query" /\ call # "none" => queue # <<>>
    /\ step = "collect" => call = "none"
    /\ step = "idle" => call = "none"

\* Nothing is under way before the run starts.
LEMMA InitTypeInv == Init => TypeInv
<1> SUFFICES ASSUME Init PROVE TypeInv
    OBVIOUS
<1>1. MaxAttempts \in Nat \ {0} /\ Len(Collectors) \in Nat
    BY DiagnosisAssumption, LenProperties
<1>2. given \in [DOMAIN Collectors -> Seq(Evidence)]
    BY DEF Init
<1>3. /\ queue \in Seq(Query) /\ own \in Seq(Evidence)
      /\ evidence \in Seq(Evidence) /\ shown \in Seq(Evidence)
    BY EmptySeq DEF Init
<1>4. /\ request \in Requests /\ step \in Step /\ call \in {"none", "sent", "backoff"}
      /\ attempt \in 0..MaxAttempts /\ at \in 0..Len(Collectors)
      /\ missed \subseteq DOMAIN Collectors
    BY <1>1 DEF Init, Step
<1>5. TypeOK
    <2>1. canceled \in BOOLEAN /\ cut \in BOOLEAN
        BY DEF Init
    <2>2. QED
        BY <1>2, <1>3, <1>4, <2>1 DEF TypeOK
<1>6. QED
    BY <1>5 DEF Init, TypeInv

\* The collector whose turn it is is one of those configured.
LEMMA CollectorAtHand ==
    ASSUME TypeInv, step = "query"
    PROVE  at \in DOMAIN Collectors /\ Collectors[at] \in DOMAIN Collector
<1>1. /\ DOMAIN Collectors = 1..Len(Collectors) /\ Len(Collectors) \in Nat
      /\ \A i \in DOMAIN Collectors : Collectors[i] \in DOMAIN Collector
    BY DiagnosisAssumption, LenProperties
<1>2. QED
    BY <1>1 DEF TypeInv, TypeOK

\* An answer adds evidence of the collector that asked for it.
LEMMA AnsweredAdds ==
    ASSUME TypeInv, NEW answer, answer \in Answers[Collectors[at]], Answered(answer)
    PROVE  \E items \in Seq({e \in Evidence : e.provider = Collectors[at]}) :
             /\ items \in Seq(Evidence)
             /\ own' = own \o items
             /\ given' = [given EXCEPT ![at] = @ \o items]
<1> DEFINE items == ToEvidence(Collectors[at], Head(queue), answer, request)
           T == {e \in Evidence : e.provider = Collectors[at]}
<1>1. step = "query" /\ own' = own \o items /\ given' = [given EXCEPT ![at] = @ \o items]
    BY DEF Answered
<1>2. at \in DOMAIN Collectors /\ Collectors[at] \in DOMAIN Collector
    BY <1>1, CollectorAtHand
<1>3. answer \in Answer(Collectors[at])
    BY <1>2, DiagnosisAssumption
<1>4. queue \in Seq(Query) /\ queue # <<>> /\ request \in Requests
    BY DEF Answered, TypeInv, TypeOK
<1>5. Head(queue) \in Query
    BY <1>4, HeadTailProperties
<1>6. items \in Seq(T)
    BY <1>2, <1>3, <1>4, <1>5, AnswersBecomeEvidence
<1>7. T \subseteq Evidence
    OBVIOUS
<1> HIDE DEF items
<1>8. items \in Seq(Evidence)
    BY <1>6, <1>7, SeqMonotonic
<1>9. QED
    BY <1>1, <1>6, <1>8

\* A collector that fails, and a run that fails, leave everything of its type.
LEMMA FailingKeepsTypes ==
    /\ TypeInv /\ RunFails => TypeInv'
    /\ TypeInv /\ step = "query" /\ CollectorFails => TypeInv'
    /\ TypeInv /\ CallFails => TypeInv'
<1>1. ASSUME TypeInv, RunFails PROVE TypeInv'
    <2>1. MaxAttempts \in Nat \ {0}
        BY DiagnosisAssumption
    <2>2. TypeOK'
        BY <1>1, <2>1 DEF RunFails, TypeInv, TypeOK, Step, history
    <2>3. QED
        BY <1>1, <2>2 DEF RunFails, TypeInv
<1>2. ASSUME TypeInv, step = "query", CollectorFails PROVE TypeInv'
    <2>1. MaxAttempts \in Nat \ {0} /\ at \in DOMAIN Collectors
        BY <1>2, DiagnosisAssumption, CollectorAtHand
    <2>2. own' \in Seq(Evidence) /\ evidence' \in Seq(Evidence) /\ queue' \in Seq(Query)
        BY <1>2, EmptySeq DEF CollectorFails, DropsWhatItHad, TypeInv, TypeOK
    <2>3. cut' \in BOOLEAN
        BY <1>2 DEF CollectorFails, TypeInv, TypeOK
    <2>4. /\ request' \in Requests /\ step' \in Step /\ call' \in {"none", "sent", "backoff"}
          /\ attempt' \in 0..MaxAttempts /\ at' \in 0..Len(Collectors)
          /\ missed' \subseteq DOMAIN Collectors /\ shown' \in Seq(Evidence)
          /\ given' \in [DOMAIN Collectors -> Seq(Evidence)]
        BY <1>2, <2>1 DEF CollectorFails, TypeInv, TypeOK, Step
    <2>5. canceled' \in BOOLEAN
        BY <1>2 DEF CollectorFails, TypeInv, TypeOK
    <2>6. TypeOK'
        BY <2>2, <2>3, <2>4, <2>5 DEF TypeOK
    <2>7. QED
        BY <1>2, <2>6 DEF CollectorFails, TypeInv
<1>3. ASSUME TypeInv, CallFails PROVE TypeInv'
    BY <1>1, <1>2, <1>3 DEF CallFails
<1>4. QED
    BY <1>1, <1>2, <1>3

\* Every step keeps the types.
LEMMA NextTypeInv == TypeInv /\ [Next]_vars => TypeInv'
<1> SUFFICES ASSUME TypeInv, [Next]_vars PROVE TypeInv'
    OBVIOUS
<1>0. /\ MaxAttempts \in Nat \ {0}
      /\ DOMAIN Collectors = 1..Len(Collectors) /\ Len(Collectors) \in Nat
      /\ \A i \in DOMAIN Collectors : Collectors[i] \in DOMAIN Collector
    BY DiagnosisAssumption, LenProperties
<1>1. CASE Start
    <2>1. TypeOK'
        BY <1>1 DEF Start, TypeInv, TypeOK, Step, history
    <2>2. QED
        BY <1>1, <2>1 DEF Start, TypeInv
<1>2. CASE Cancel
    <2>1. TypeOK'
        BY <1>2 DEF Cancel, TypeInv, TypeOK, progress, history
    <2>2. QED
        BY <1>2, <2>1 DEF Cancel, TypeInv, progress
<1>3. CASE NextCollector
    <2>1. at' \in DOMAIN Collectors /\ at' \in 0..Len(Collectors) /\ at' # 0
        BY <1>0, <1>3 DEF NextCollector, TypeInv, TypeOK
    <2>2. queue' \in Seq(Query)
        BY <1>0, <1>3, <2>1, QueriesType DEF NextCollector, TypeInv, TypeOK
    <2>3. call = "none"
        BY <1>3 DEF NextCollector, TypeInv
    <2>4. TypeOK'
        BY <1>3, <2>1, <2>2 DEF NextCollector, TypeInv, TypeOK, Step, history
    <2>5. QED
        BY <1>3, <2>1, <2>3, <2>4 DEF NextCollector, TypeInv
<1>4. CASE CollectingStops
    BY <1>4, FailingKeepsTypes DEF CollectingStops
<1>5. CASE EndOfCollector
    <2>1. own' \in Seq(Evidence) /\ evidence' \in Seq(Evidence)
        BY <1>5, EmptySeq, ConcatProperties DEF EndOfCollector, TypeInv, TypeOK
    <2>2. TypeOK'
        BY <1>5, <2>1 DEF EndOfCollector, TypeInv, TypeOK, Step, history
    <2>3. QED
        BY <1>5, <2>2 DEF EndOfCollector, TypeInv
<1>6. ASSUME NEW answer \in (IF step = "query" THEN Answers[Collectors[at]] ELSE {}),
             Answered(answer)
      PROVE  TypeInv'
    <2>1. step = "query" /\ answer \in Answers[Collectors[at]]
        BY <1>6 DEF Answered
    <2>2. PICK items \in Seq({e \in Evidence : e.provider = Collectors[at]}) :
            /\ items \in Seq(Evidence)
            /\ own' = own \o items
            /\ given' = [given EXCEPT ![at] = @ \o items]
        BY <1>6, <2>1, AnsweredAdds
    <2>3. at \in DOMAIN Collectors
        BY <2>1, CollectorAtHand
    <2>4. /\ own \in Seq(Evidence) /\ given[at] \in Seq(Evidence)
          /\ queue \in Seq(Query) /\ queue # <<>>
        BY <1>6, <2>3 DEF Answered, TypeInv, TypeOK
    <2>5. /\ own' \in Seq(Evidence) /\ given[at] \o items \in Seq(Evidence)
          /\ queue' \in Seq(Query)
        <3>1. own \o items \in Seq(Evidence) /\ given[at] \o items \in Seq(Evidence)
            BY <2>2, <2>4, ConcatProperties
        <3>2. Tail(queue) \in Seq(Query)
            BY <2>4, HeadTailProperties
        <3>3. queue' = Tail(queue)
            BY <1>6 DEF Answered
        <3>4. QED
            BY <2>2, <3>1, <3>2, <3>3
    <2>6. given' \in [DOMAIN Collectors -> Seq(Evidence)]
        BY <2>2, <2>3, <2>5 DEF TypeInv, TypeOK
    <2>7. TypeOK'
        BY <1>0, <1>6, <2>5, <2>6 DEF Answered, TypeInv, TypeOK
    <2>8. QED
        BY <1>6, <2>7 DEF Answered, TypeInv
<1>7. CASE Send
    <2>1. attempt < MaxAttempts
        BY <1>0, <1>7 DEF Send, Calling, TypeInv
    <2>2. attempt' \in 0..MaxAttempts
        BY <1>0, <1>7, <2>1 DEF Send, TypeInv, TypeOK
    <2>3. TypeOK'
        BY <1>7, <2>2 DEF Send, TypeInv, TypeOK, history
    <2>4. QED
        BY <1>7, <2>3 DEF Send, Calling, TypeInv
<1>8. CASE Abandon
    BY <1>8, FailingKeepsTypes DEF Abandon
<1>9. ASSUME NEW failure \in Failure, Backoff(failure) PROVE TypeInv'
    <2>1. TypeOK'
        BY <1>9 DEF Backoff, TypeInv, TypeOK, history
    <2>2. QED
        BY <1>9, <2>1 DEF Backoff, Retryable, TypeInv
<1>10. ASSUME NEW failure \in Failure, GiveUp(failure) PROVE TypeInv'
    BY <1>10, FailingKeepsTypes DEF GiveUp
<1>11. CASE Normalize
    <2>1. evidence' \in Seq(Evidence)
        BY <1>11, NormalizedType DEF Normalize, TypeInv, TypeOK
    <2>2. shown' \in Seq(Evidence)
        BY <1>11, <2>1, FilterSelects DEF Normalize
    <2>3. TypeOK'
        BY <1>11, <2>1, <2>2 DEF Normalize, TypeInv, TypeOK, Step, history
    <2>4. QED
        BY <1>11, <2>3 DEF Normalize, TypeInv
<1>12. ASSUME NEW payload \in Payloads, Generated(payload) PROVE TypeInv'
    <2>1. TypeOK'
        BY <1>0, <1>12 DEF Generated, TypeInv, TypeOK, Step, history
    <2>2. QED
        BY <1>12, <2>1 DEF Generated, TypeInv
<1>13. CASE Save
    <2>1. TypeOK'
        BY <1>13 DEF Save, TypeInv, TypeOK, Step, history
    <2>2. QED
        BY <1>13, <2>1 DEF Save, TypeInv
<1>14. CASE SaveFails
    BY <1>14, FailingKeepsTypes DEF SaveFails
<1>15. CASE UNCHANGED vars
    <2>1. TypeOK'
        BY <1>15 DEF vars, progress, history, TypeInv, TypeOK
    <2>2. QED
        BY <1>15, <2>1 DEF vars, progress, TypeInv
<1>16. QED
    BY <1>1, <1>2, <1>3, <1>4, <1>5, <1>6, <1>7, <1>8, <1>9, <1>10, <1>11, <1>12, <1>13, <1>14,
       <1>15 DEF Next

-----------------------------------------------------------------------------
(* More evidence never lowers a severity.                                   *)

\* What a sequence holds is finite.
LEMMA RangeIsFinite ==
    ASSUME NEW T, NEW items \in Seq(T)
    PROVE  IsFiniteSet(Range(items))
<1>1. DOMAIN items = 1..Len(items) /\ Len(items) \in Nat /\ items \in [1..Len(items) -> T]
    BY LenProperties
<1>2. IsFiniteSet(1..Len(items))
    BY <1>1, FS_Interval
<1>3. items \in Surjection(1..Len(items), Range(items))
    BY <1>1 DEF Surjection, Range
<1>4. QED
    BY <1>2, <1>3, FS_Surjection

\* The services that are asked for or observed can be counted.
LEMMA ServicesAreFinite ==
    ASSUME NEW items \in Seq(Evidence), NEW r \in Requests
    PROVE  IsFiniteSet(DistinctServices(r, items))
<1> DEFINE f == [i \in 1..Len(items) |-> items[i].service]
<1>1. DOMAIN items = 1..Len(items) /\ Len(items) \in Nat
      /\ \A i \in 1..Len(items) : items[i] \in Evidence
    BY LenProperties
<1>2. f \in Seq(Service)
    <2>1. \A i \in 1..Len(items) : items[i].service \in Service
        BY <1>1 DEF Evidence
    <2>2. QED
        BY <1>1, <2>1
<1>3. IsFiniteSet(Range(f))
    BY <1>2, RangeIsFinite
<1>4. Range(f) = {e.service : e \in Range(items)}
    BY <1>1 DEF Range
<1>5. IsFiniteSet(Range(r.services))
    BY RequestTypes, RangeIsFinite
<1> HIDE DEF f
<1> DEFINE named == Range(r.services) \cup {e.service : e \in Range(items)}
<1>6. IsFiniteSet(named)
    BY <1>3, <1>4, <1>5, FS_Union
<1>7. DistinctServices(r, items) \subseteq {Trimmed[s] : s \in named}
    BY DEF DistinctServices
<1> HIDE DEF named
<1> DEFINE trim == [s \in named |-> Trimmed[s]]
           kept == {Trimmed[s] : s \in named}
<1>8. IsFiniteSet(kept)
    <2>1. trim \in Surjection(named, kept)
        BY DEF Surjection
    <2> HIDE DEF trim, kept
    <2>2. QED
        BY <1>6, <2>1, FS_Surjection
<1>9. QED
    BY <1>7, <1>8, FS_Subset DEF kept

\* A stretch of the evidence has no more errors, scores, services or items than
\* the whole.
LEMMA StretchHasLess ==
    ASSUME NEW items \in Seq(Evidence), NEW i \in DOMAIN items, NEW j \in DOMAIN items,
           NEW r \in Requests
    PROVE  /\ Cardinality(Errors(SubSeq(items, i, j))) \in Nat
           /\ Cardinality(Errors(items)) \in Nat
           /\ Cardinality(Errors(SubSeq(items, i, j))) <= Cardinality(Errors(items))
           /\ Range(SubSeq(items, i, j)) \subseteq Range(items)
           /\ Cardinality(DistinctServices(r, SubSeq(items, i, j))) \in Nat
           /\ Cardinality(DistinctServices(r, items)) \in Nat
           /\ Cardinality(DistinctServices(r, SubSeq(items, i, j)))
                <= Cardinality(DistinctServices(r, items))
           /\ Len(SubSeq(items, i, j)) \in Nat /\ Len(items) \in Nat
           /\ Len(SubSeq(items, i, j)) <= Len(items)
<1> DEFINE part == SubSeq(items, i, j)
           f == [k \in Errors(part) |-> i + k - 1]
<1>1. /\ DOMAIN items = 1..Len(items) /\ Len(items) \in Nat
      /\ \A k \in 1..Len(items) : items[k] \in Evidence
      /\ i \in 1..Len(items) /\ j \in 1..Len(items)
    BY LenProperties
<1>2. \A k \in i..j : items[k] \in Evidence
    BY <1>1
<1>3. /\ part \in Seq(Evidence)
      /\ Len(part) = IF i <= j THEN j - i + 1 ELSE 0
      /\ \A k \in 1..(j - i + 1) : part[k] = items[i + k - 1]
    BY <1>1, <1>2, SubSeqProperties
<1> HIDE DEF part, f
<1>4. /\ Len(part) \in Nat /\ Len(part) <= Len(items) /\ DOMAIN part = 1..Len(part)
      /\ \A k \in 1..Len(part) : i + k - 1 \in 1..Len(items) /\ part[k] = items[i + k - 1]
    <2>1. Len(part) \in Nat /\ DOMAIN part = 1..Len(part)
        BY <1>3, LenProperties
    <2>2. CASE i <= j
        BY <1>1, <1>3, <2>1, <2>2
    <2>3. CASE ~(i <= j)
        BY <1>1, <1>3, <2>1, <2>3
    <2>4. QED
        BY <2>1, <2>2, <2>3
<1>5. Range(part) \subseteq Range(items)
    BY <1>1, <1>4 DEF Range
<1>6. /\ Errors(part) \subseteq 1..Len(part) /\ Errors(items) \subseteq 1..Len(items)
      /\ IsFiniteSet(Errors(part)) /\ IsFiniteSet(Errors(items))
    <2>1. Errors(part) \subseteq 1..Len(part) /\ Errors(items) \subseteq 1..Len(items)
        BY <1>1, <1>4 DEF Errors
    <2>2. IsFiniteSet(1..Len(part)) /\ IsFiniteSet(1..Len(items))
        <3>1. 1 \in Int /\ Len(part) \in Int /\ Len(items) \in Int
            BY <1>1, <1>4
        <3>2. QED
            BY <3>1, FS_Interval
    <2>3. QED
        BY <2>1, <2>2, FS_Subset
<1>7. \A k \in Errors(part) : i + k - 1 \in Errors(items)
    BY <1>1, <1>4 DEF Errors
<1>8. f \in Injection(Errors(part), Errors(items))
    <2>1. f \in [Errors(part) -> Errors(items)]
        BY <1>7 DEF f
    <2>2. \A k, l \in Errors(part) : f[k] = f[l] => k = l
        BY <1>1, <1>6 DEF f
    <2>3. QED
        BY <2>1, <2>2 DEF Injection, IsInjective
<1>9. /\ Cardinality(Errors(part)) \in Nat /\ Cardinality(Errors(items)) \in Nat
      /\ Cardinality(Errors(part)) <= Cardinality(Errors(items))
    BY <1>6, <1>8, FS_Injection, FS_CardinalityType
<1>10. DistinctServices(r, part) \subseteq DistinctServices(r, items)
    BY <1>5 DEF DistinctServices
<1>11. IsFiniteSet(DistinctServices(r, items)) /\ IsFiniteSet(DistinctServices(r, part))
    BY <1>3, ServicesAreFinite
<1>12. /\ Cardinality(DistinctServices(r, part)) \in Nat
       /\ Cardinality(DistinctServices(r, items)) \in Nat
       /\ Cardinality(DistinctServices(r, part)) <= Cardinality(DistinctServices(r, items))
    BY <1>10, <1>11, FS_Subset, FS_CardinalityType
<1>13. QED
    BY <1>1, <1>4, <1>5, <1>9, <1>12 DEF part

\* The severity of a number of errors grows with it.
LEMMA MoreErrorsAreWorse ==
    ASSUME NEW part, NEW items,
           Cardinality(Errors(part)) \in Nat, Cardinality(Errors(items)) \in Nat,
           Cardinality(Errors(part)) <= Cardinality(Errors(items))
    PROVE  /\ ErrorSignal(part) \in Severity /\ ErrorSignal(items) \in Severity
           /\ Rank(ErrorSignal(part)) <= Rank(ErrorSignal(items))
<1> DEFINE m == Cardinality(Errors(part))
           n == Cardinality(Errors(items))
<1>1. ManyErrors \in Nat \ {0}
    BY PoliciesAssumption
<1>2. {"info", "high", "critical"} \subseteq Severity
    BY DEF Severity
<1>3. /\ n >= ManyErrors => ErrorSignal(items) = "critical"
      /\ 0 < n /\ n < ManyErrors => ErrorSignal(items) = "high"
      /\ n = 0 => ErrorSignal(items) = "info"
    BY <1>1 DEF ErrorSignal
<1>4. /\ m >= ManyErrors => ErrorSignal(part) = "critical"
      /\ 0 < m /\ m < ManyErrors => ErrorSignal(part) = "high"
      /\ m = 0 => ErrorSignal(part) = "info"
    BY <1>1 DEF ErrorSignal
<1> HIDE DEF m, n
<1>5. m \in Nat /\ n \in Nat /\ m <= n
    BY DEF m, n
<1>6. CASE n >= ManyErrors
    BY <1>1, <1>2, <1>3, <1>4, <1>5, <1>6, RankTypes
<1>7. CASE 0 < n /\ n < ManyErrors
    BY <1>1, <1>2, <1>3, <1>4, <1>5, <1>7, RankTypes
<1>8. CASE n = 0
    BY <1>1, <1>2, <1>3, <1>4, <1>5, <1>8, RankTypes
<1>9. QED
    BY <1>1, <1>5, <1>6, <1>7, <1>8

\* What Classify takes the highest of.
Candidates(r, items) ==
    {"info", ErrorSignal(items), HighScore(items, "errors", "high"),
     HighScore(items, "ratio", "medium"), MultiService(r, items), EvidenceVolume(items)}

\* More evidence never lowers the severity of an analysis.
LEMMA ClassifyGrows ==
    ASSUME NEW items \in Seq(Evidence), NEW i \in DOMAIN items, NEW j \in DOMAIN items,
           NEW r \in Requests
    PROVE  /\ Classify(r, items) \in Severity
           /\ Rank(Classify(r, items)) >= Rank(Classify(r, SubSeq(items, i, j)))
<1> DEFINE part == SubSeq(items, i, j)
<1>1. /\ Cardinality(Errors(part)) \in Nat /\ Cardinality(Errors(items)) \in Nat
      /\ Cardinality(Errors(part)) <= Cardinality(Errors(items))
      /\ Range(part) \subseteq Range(items)
      /\ Cardinality(DistinctServices(r, part)) \in Nat
      /\ Cardinality(DistinctServices(r, items)) \in Nat
      /\ Cardinality(DistinctServices(r, part)) <= Cardinality(DistinctServices(r, items))
      /\ Len(part) \in Nat /\ Len(items) \in Nat /\ Len(part) <= Len(items)
    BY StretchHasLess
<1> HIDE DEF part
<1>2. {"info", "medium", "high"} \subseteq Severity
    BY DEF Severity
<1>3. /\ ErrorSignal(part) \in Severity /\ ErrorSignal(items) \in Severity
      /\ Rank(ErrorSignal(part)) <= Rank(ErrorSignal(items))
    BY <1>1, MoreErrorsAreWorse
<1>4. /\ HighScore(part, "errors", "high") \in Severity
      /\ HighScore(items, "errors", "high") \in Severity
      /\ Rank(HighScore(part, "errors", "high")) <= Rank(HighScore(items, "errors", "high"))
    BY <1>1, <1>2, RankTypes DEF HighScore
<1>5. /\ HighScore(part, "ratio", "medium") \in Severity
      /\ HighScore(items, "ratio", "medium") \in Severity
      /\ Rank(HighScore(part, "ratio", "medium")) <= Rank(HighScore(items, "ratio", "medium"))
    BY <1>1, <1>2, RankTypes DEF HighScore
<1>6. /\ MultiService(r, part) \in Severity /\ MultiService(r, items) \in Severity
      /\ Rank(MultiService(r, part)) <= Rank(MultiService(r, items))
    BY <1>1, <1>2, RankTypes DEF MultiService
<1>7. /\ EvidenceVolume(part) \in Severity /\ EvidenceVolume(items) \in Severity
      /\ Rank(EvidenceVolume(part)) <= Rank(EvidenceVolume(items))
    <2>1. Volume \in Nat
        BY PoliciesAssumption
    <2>2. QED
        BY <1>1, <1>2, <2>1, RankTypes DEF EvidenceVolume
<1>8. /\ Candidates(r, part) \subseteq Severity /\ Candidates(r, part) # {}
      /\ Candidates(r, items) \subseteq Severity /\ Candidates(r, items) # {}
    BY <1>2, <1>3, <1>4, <1>5, <1>6, <1>7 DEF Candidates
<1>9. /\ Classify(r, part) \in Candidates(r, part)
      /\ Classify(r, items) \in Candidates(r, items)
      /\ \A s \in Candidates(r, items) : Rank(Classify(r, items)) >= Rank(s)
    BY <1>8, HighestIsHighest DEF Classify, Candidates
<1>10. \A s \in Candidates(r, part) : \E t \in Candidates(r, items) : Rank(s) <= Rank(t)
    <2>1. Rank("info") <= Rank("info")
        BY RankTypes
    <2>2. QED
        BY <2>1, <1>3, <1>4, <1>5, <1>6, <1>7 DEF Candidates
<1>11. PICK t \in Candidates(r, items) : Rank(Classify(r, part)) <= Rank(t)
    BY <1>9, <1>10
<1>12. /\ Rank(Classify(r, part)) \in Int /\ Rank(t) \in Int /\ Rank(Classify(r, items)) \in Int
    BY RankTypes
<1>13. Rank(Classify(r, items)) >= Rank(Classify(r, part))
    BY <1>9, <1>11, <1>12
<1>14. QED
    BY <1>8, <1>9, <1>13 DEF part

\* A result ranks at least as high as what the LLM says and what the evidence
\* calls for.
LEMMA ReconcileTakesTheHigher ==
    ASSUME NEW suggested, NEW r, NEW items
    PROVE  /\ Rank(Reconcile(suggested, r, items)) >= Rank(suggested)
           /\ Rank(Reconcile(suggested, r, items)) >= Rank(Classify(r, items))
<1>1. /\ Rank(suggested) \in Int /\ Rank(Classify(r, items)) \in Int
      /\ Rank(NormalizeSeverity(suggested)) = Rank(suggested)
    BY RankTypes
<1>2. QED
    BY <1>1 DEF Reconcile

-----------------------------------------------------------------------------
(* From the evidence to the result.                                         *)

\* What the LLM is shown is the best of the evidence, and the result follows
\* from what it answers.
OutcomeInv ==
    /\ step \in {"generate", "save", "done"} => shown = FilterEvidence(evidence, request)
    /\ step \in {"save", "done"} => \E payload \in Payloads : result = Outcome(payload)

\* There is no result before the run starts.
LEMMA InitOutcomeInv == Init => OutcomeInv
BY DEF Init, OutcomeInv

\* Every step keeps it: the evidence is not touched once it is shown.
LEMMA NextOutcomeInv == OutcomeInv /\ [Next]_vars => OutcomeInv'
<1> SUFFICES ASSUME OutcomeInv, [Next]_vars PROVE OutcomeInv'
    OBVIOUS
<1>1. ASSUME request' = request, evidence' = evidence, shown' = shown, result' = result,
             step' = step \/ (step' = "done" /\ step = "save")
      PROVE  OutcomeInv'
    <2>1. \A payload : Outcome(payload)' = Outcome(payload)
        BY <1>1 DEF Outcome
    <2>2. step' \in {"generate", "save", "done"} => step \in {"generate", "save", "done"}
        BY <1>1
    <2>3. step' \in {"save", "done"} => step \in {"save", "done"}
        BY <1>1
    <2>4. step' \in {"generate", "save", "done"} => shown' = FilterEvidence(evidence', request')
        BY <1>1, <2>2 DEF OutcomeInv
    <2>5. step' \in {"save", "done"} => \E payload \in Payloads : result' = Outcome(payload)'
        BY <1>1, <2>1, <2>3 DEF OutcomeInv
    <2>6. QED
        BY <2>4, <2>5 DEF OutcomeInv
<1>2. ASSUME step' \notin {"generate", "save", "done"} PROVE OutcomeInv'
    BY <1>2 DEF OutcomeInv
<1>3. CASE Start
    BY <1>2, <1>3 DEF Start
<1>4. CASE Cancel
    BY <1>1, <1>4 DEF Cancel, progress
<1>5. CASE NextCollector
    BY <1>2, <1>5 DEF NextCollector
<1>6. ASSUME RunFails PROVE OutcomeInv'
    BY <1>2, <1>6 DEF RunFails
<1>7. ASSUME CallFails PROVE OutcomeInv'
    BY <1>2, <1>6, <1>7 DEF CallFails, CollectorFails
<1>8. CASE EndOfCollector
    BY <1>2, <1>8 DEF EndOfCollector
<1>9. ASSUME NEW answer, Answered(answer) PROVE OutcomeInv'
    BY <1>2, <1>9 DEF Answered
<1>10. CASE Send
    BY <1>1, <1>10 DEF Send
<1>11. ASSUME NEW failure, Backoff(failure) PROVE OutcomeInv'
    BY <1>1, <1>11 DEF Backoff
<1>12. CASE Normalize
    BY <1>12 DEF Normalize, OutcomeInv
<1>13. ASSUME NEW payload \in Payloads, Generated(payload) PROVE OutcomeInv'
    <2>1. result' = Outcome(payload)'
        BY <1>13 DEF Generated, Outcome
    <2>2. shown' = FilterEvidence(evidence', request')
        BY <1>13 DEF Generated, OutcomeInv
    <2>3. QED
        BY <2>1, <2>2 DEF OutcomeInv
<1>14. CASE Save
    BY <1>1, <1>14 DEF Save
<1>15. CASE UNCHANGED vars
    BY <1>1, <1>15 DEF vars, progress
<1>16. CASE CollectingStops
    BY <1>6, <1>16 DEF CollectingStops
<1>17. CASE Abandon
    BY <1>7, <1>17 DEF Abandon
<1>18. ASSUME NEW failure, GiveUp(failure) PROVE OutcomeInv'
    BY <1>7, <1>18 DEF GiveUp
<1>19. CASE SaveFails
    BY <1>6, <1>19 DEF SaveFails
<1>20. QED
    BY <1>3, <1>4, <1>5, <1>8, <1>9, <1>10, <1>11, <1>12, <1>13, <1>14, <1>15, <1>16, <1>17,
       <1>18, <1>19 DEF Next

-----------------------------------------------------------------------------
(* What is recommended.                                                     *)

\* The actions the LLM may name, and those of the rules.
Actions ==
    [kind : STRING, about : STRING]
      \cup {[kind |-> kind, about |-> ""] : kind \in {"connect", "inspect", "map"}}
      \cup {[kind |-> "collect", about |-> signal] : signal \in Signal}

\* A suggestion, of the LLM or of a rule.
AdviceType == [action : Actions, priority : Int, ids : SUBSET Nat]

\* What may be cited.
Ids(items) == {e.id : e \in Range(items)}

\* Ids are numbers, and evidence that is there can be cited.
LEMMA IdsOfItems ==
    ASSUME NEW items \in Seq(Evidence)
    PROVE  /\ Ids(items) \subseteq Nat
           /\ \A i \in DOMAIN items : items[i].id \in Ids(items)
           /\ items # <<>> => 1 \in DOMAIN items
<1>1. DOMAIN items = 1..Len(items) /\ Len(items) \in Nat
      /\ \A i \in DOMAIN items : items[i] \in Evidence
    BY LenProperties
<1>2. items # <<>> => Len(items) \in Nat \ {0}
    BY EmptySeq
<1>3. \A i \in DOMAIN items : items[i].id \in Nat
    BY <1>1 DEF Evidence
<1>4. Ids(items) = {items[i].id : i \in DOMAIN items}
    BY DEF Ids, Range
<1>5. QED
    BY <1>1, <1>2, <1>3, <1>4

\* Advice that cites nothing cites the first evidence, if there is any.
LEMMA FallbackCites ==
    ASSUME NEW items \in Seq(Evidence), NEW ids, ids \subseteq Ids(items)
    PROVE  /\ FallbackEvidenceIDs(ids, items) \subseteq Ids(items)
           /\ items # <<>> => FallbackEvidenceIDs(ids, items) # {}
<1>1. FallbackItems \in Nat \ {0}
    BY PoliciesAssumption
<1>2. CASE ids # {}
    BY <1>2 DEF FallbackEvidenceIDs
<1>3. CASE ids = {}
    <2> DEFINE first == {i \in DOMAIN items : i <= FallbackItems}
    <2>1. FallbackEvidenceIDs(ids, items) = {items[i].id : i \in first}
        BY <1>3 DEF FallbackEvidenceIDs
    <2>2. items # <<>> => 1 \in first
        BY <1>1, IdsOfItems
    <2>3. \A i \in first : items[i].id \in Ids(items)
        BY IdsOfItems
    <2> HIDE DEF first
    <2>4. QED
        BY <2>1, <2>2, <2>3
<1>4. QED
    BY <1>2, <1>3

\* The fields of a suggestion.
LEMMA AdviceIsAdvice ==
    ASSUME NEW kind, NEW about, [kind |-> kind, about |-> about] \in Actions,
           NEW priority \in Int, NEW ids \in SUBSET Nat
    PROVE  /\ Advice(kind, about, priority, ids) \in AdviceType
           /\ Advice(kind, about, priority, ids).ids = ids
           /\ Advice(kind, about, priority, ids).action = [kind |-> kind, about |-> about]
BY DEF Advice, AdviceType

\* The rules cite evidence they were given.
Cites(advice, items) == advice.ids \subseteq Ids(items)

\* Three of the four rules: about no evidence, errors and several services.
LEMMA RulesAdvise ==
    ASSUME NEW items \in Seq(Evidence), NEW r \in Requests
    PROVE  /\ NoEvidence(items) \in Seq(AdviceType)
           /\ ErrorEvidence(items) \in Seq(AdviceType)
           /\ MultiServiceAdvice(r, items) \in Seq(AdviceType)
           /\ \A a \in Range(NoEvidence(items)) \cup Range(ErrorEvidence(items))
                         \cup Range(MultiServiceAdvice(r, items)) : Cites(a, items)
<1>2. ASSUME NEW a PROVE Range(<<a>>) = {a}
    BY DEF Range
<1>3. Range(<<>>) = {}
    BY DEF Range
<1>4. NoEvidence(items) \in Seq(AdviceType) /\ \A a \in Range(NoEvidence(items)) : Cites(a, items)
    <2> DEFINE a == Advice("connect", "", 1, {})
    <2>2. a \in AdviceType /\ a.ids = {}
        BY DEF Advice, AdviceType, Actions
    <2>3. NoEvidence(items) = <<>> \/ NoEvidence(items) = <<a>>
        BY DEF NoEvidence
    <2> HIDE DEF a
    <2>4. <<a>> \in Seq(AdviceType) /\ <<>> \in Seq(AdviceType) /\ Cites(a, items)
        BY <2>2 DEF Cites
    <2>5. QED
        BY <1>2, <1>3, <2>3, <2>4
<1>5. ErrorEvidence(items) \in Seq(AdviceType)
      /\ \A a \in Range(ErrorEvidence(items)) : Cites(a, items)
    <2> DEFINE ids == {items[i].id : i \in Errors(items)}
               a == Advice("inspect", "", 2, ids)
    <2>1. ids \subseteq Ids(items) /\ ids \in SUBSET Nat
        BY IdsOfItems DEF Errors
    <2>2. ErrorEvidence(items) = <<>> \/ ErrorEvidence(items) = <<a>>
        BY DEF ErrorEvidence
    <2> HIDE DEF ids
    <2>4. a \in AdviceType /\ a.ids = ids
        BY <2>1 DEF Advice, AdviceType, Actions
    <2> HIDE DEF a
    <2>5. <<a>> \in Seq(AdviceType) /\ <<>> \in Seq(AdviceType) /\ Cites(a, items)
        BY <2>1, <2>4 DEF Cites
    <2>6. QED
        BY <1>2, <1>3, <2>2, <2>5
<1>6. MultiServiceAdvice(r, items) \in Seq(AdviceType)
      /\ \A a \in Range(MultiServiceAdvice(r, items)) : Cites(a, items)
    <2> DEFINE ids == FallbackEvidenceIDs({}, items)
               a == Advice("map", "", 3, ids)
    <2>1. ids \subseteq Ids(items) /\ ids \in SUBSET Nat
        BY IdsOfItems, FallbackCites
    <2>2. MultiServiceAdvice(r, items) = <<>> \/ MultiServiceAdvice(r, items) = <<a>>
        BY DEF MultiServiceAdvice
    <2> HIDE DEF ids
    <2>4. a \in AdviceType /\ a.ids = ids
        BY <2>1 DEF Advice, AdviceType, Actions
    <2> HIDE DEF a
    <2>5. <<a>> \in Seq(AdviceType) /\ <<>> \in Seq(AdviceType) /\ Cites(a, items)
        BY <2>1, <2>4 DEF Cites
    <2>6. QED
        BY <1>2, <1>3, <2>2, <2>5
<1>7. QED
    BY <1>4, <1>5, <1>6

\* Each signal that is missing from some evidence has its advice.
LEMMA MissingAreNamed ==
    ASSUME NEW items \in Seq(Evidence), NEW r \in Requests
    PROVE  /\ MissingSignal(r, items) \in Seq(AdviceType)
           /\ \A a \in Range(MissingSignal(r, items)) : Cites(a, items)
           /\ \A signal \in Range(r.signals) :
                (items # <<>> /\ \A e \in Range(items) : e.signal # signal) =>
                  \E a \in Range(MissingSignal(r, items)) :
                    a.action = [kind |-> "collect", about |-> signal]
<1> DEFINE S == Missing(r, items)
           missing == Items(r.signals, InOrder(S))
           advice == [i \in DOMAIN missing |-> Advice("collect", missing[i], 4, {})]
<1>1. r.signals \in Seq(Signal) /\ S \subseteq DOMAIN r.signals
    BY RequestTypes DEF Missing
<1>2. missing \in Seq(Signal) /\ Range(missing) = {r.signals[i] : i \in S}
    BY <1>1, ItemsInOrder
<1>3. MissingSignal(r, items) = IF items = <<>> THEN <<>> ELSE advice
    BY DEF MissingSignal
<1> HIDE DEF missing, S
<1>4. DOMAIN missing = 1..Len(missing) /\ Len(missing) \in Nat
      /\ \A i \in DOMAIN missing : missing[i] \in Signal
    BY <1>2, LenProperties
<1>5. ASSUME NEW signal \in Signal
      PROVE  /\ Advice("collect", signal, 4, {}) \in AdviceType
             /\ Advice("collect", signal, 4, {}).ids = {}
             /\ Advice("collect", signal, 4, {}).action = [kind |-> "collect", about |-> signal]
    <2>1. [kind |-> "collect", about |-> signal] \in Actions
        BY DEF Actions
    <2>2. 4 \in Int /\ {} \in SUBSET Nat
        OBVIOUS
    <2>3. QED
        BY <2>1, <2>2, AdviceIsAdvice
<1>6. \A i \in DOMAIN missing :
        /\ advice[i] \in AdviceType /\ advice[i].ids = {}
        /\ advice[i].action = [kind |-> "collect", about |-> missing[i]]
    BY <1>4, <1>5
<1>7. DOMAIN advice = 1..Len(missing)
    BY <1>4
<1>8. advice \in [1..Len(missing) -> AdviceType]
    BY <1>4, <1>6
<1> HIDE DEF advice
<1>9. advice \in Seq(AdviceType)
    BY <1>4, <1>8
<1>10. \A a \in Range(advice) : Cites(a, items)
    BY <1>4, <1>6, <1>7 DEF Cites, Range
<1>11. <<>> \in Seq(AdviceType) /\ Range(<<>>) = {}
    BY DEF Range
<1>12. /\ MissingSignal(r, items) \in Seq(AdviceType)
       /\ \A a \in Range(MissingSignal(r, items)) : Cites(a, items)
    BY <1>3, <1>9, <1>10, <1>11
<1>13. ASSUME NEW signal \in Range(r.signals), items # <<>>,
              \A e \in Range(items) : e.signal # signal
       PROVE  \E a \in Range(MissingSignal(r, items)) :
                a.action = [kind |-> "collect", about |-> signal]
    <2>1. PICK i \in DOMAIN r.signals : r.signals[i] = signal
        BY DEF Range
    <2>2. i \in S
        BY <1>13, <2>1 DEF S, Missing
    <2>3. signal \in Range(missing)
        BY <1>2, <2>1, <2>2
    <2>4. PICK n \in DOMAIN missing : missing[n] = signal
        BY <2>3 DEF Range
    <2>5. advice[n] \in Range(advice) /\ advice[n].action = [kind |-> "collect", about |-> signal]
        BY <1>4, <1>6, <1>7, <2>4 DEF Range
    <2>6. QED
        BY <1>3, <1>13, <2>5
<1>14. QED
    BY <1>12, <1>13

\* Some place comes first.
LEMMA LeastPlace ==
    ASSUME NEW S, S \subseteq Int, IsFiniteSet(S), S # {}
    PROVE  \E i \in S : \A j \in S : i <= j
<1> DEFINE key == [i \in S |-> 0]
           N == Cardinality(S)
           s == StableSort(S, key)
<1>1. key \in [S -> Int] /\ \A i \in S : key[i] = 0
    OBVIOUS
<1>2. N \in Nat /\ N # 0
    BY FS_CardinalityType, FS_EmptySet
<1> HIDE DEF key
<1>3. /\ \A n \in 1..N : s[n] \in S
      /\ \A i \in S : Place(S, key, i) + 1 \in 1..N /\ s[Place(S, key, i) + 1] = i
      /\ \A m, n \in 1..N : m < n => Before(key, s[m], s[n])
    BY <1>1, StableSortSorts
<1> HIDE DEF s, N
<1>4. \A i \in S : \E n \in 1..N : s[n] = i
    BY <1>3
<1>5. 1 \in 1..N
    BY <1>2
<1>6. \A n \in 1..N : n # 1 => s[1] < s[n]
    <2>1. ASSUME NEW n \in 1..N, n # 1 PROVE s[1] < s[n]
        <3>1. 1 < n
            BY <1>2, <2>1
        <3>2. Before(key, s[1], s[n])
            BY <1>3, <1>5, <3>1
        <3>3. key[s[1]] = 0 /\ key[s[n]] = 0
            BY <1>1, <1>3, <1>5
        <3>4. QED
            BY <3>2, <3>3 DEF Before
    <2>2. QED
        BY <2>1
<1>7. s[1] \in S /\ \A n \in 1..N : s[1] <= s[n]
    <2>1. s[1] \in Int /\ \A n \in 1..N : s[n] \in Int
        BY <1>3, <1>5
    <2>2. \A x, y \in Int : x < y => x <= y
        OBVIOUS
    <2>3. QED
        BY <1>3, <1>5, <1>6, <2>1, <2>2
<1>8. QED
    BY <1>4, <1>7

\* The suggestions of the LLM and of the rules, together.
LEMMA SuggestionsAdvise ==
    ASSUME NEW items \in Seq(Evidence), NEW r \in Requests,
           NEW suggested \in Seq(AdviceType), \A a \in Range(suggested) : Cites(a, items)
    PROVE  /\ Suggestions(r, items, suggested) \in Seq(AdviceType)
           /\ \A a \in Range(Suggestions(r, items, suggested)) : Cites(a, items)
           /\ Range(NoEvidence(items)) \subseteq Range(Suggestions(r, items, suggested))
           /\ Range(MissingSignal(r, items)) \subseteq Range(Suggestions(r, items, suggested))
<1> DEFINE no == NoEvidence(items)
           errors == ErrorEvidence(items)
           several == MultiServiceAdvice(r, items)
           missing == MissingSignal(r, items)
<1>1. /\ no \in Seq(AdviceType) /\ errors \in Seq(AdviceType) /\ several \in Seq(AdviceType)
      /\ \A a \in Range(no) \cup Range(errors) \cup Range(several) : Cites(a, items)
    BY RulesAdvise
<1>2. missing \in Seq(AdviceType) /\ \A a \in Range(missing) : Cites(a, items)
    BY MissingAreNamed
<1>3. Suggestions(r, items, suggested) = suggested \o no \o errors \o several \o missing
    BY DEF Suggestions
<1> HIDE DEF no, errors, several, missing
<1>4. ASSUME NEW s \in Seq(AdviceType), NEW t \in Seq(AdviceType)
      PROVE  s \o t \in Seq(AdviceType) /\ Range(s \o t) = Range(s) \cup Range(t)
    <2>1. s \o t \in Seq(AdviceType)
        BY ConcatProperties
    <2>2. Range(s \o t) = Range(s) \cup Range(t)
        BY RangeConcatenation
    <2>3. QED
        BY <2>1, <2>2
<1>5. /\ suggested \o no \in Seq(AdviceType)
      /\ Range(suggested \o no) = Range(suggested) \cup Range(no)
    BY <1>1, <1>4
<1>6. /\ suggested \o no \o errors \in Seq(AdviceType)
      /\ Range(suggested \o no \o errors) = Range(suggested \o no) \cup Range(errors)
    BY <1>1, <1>4, <1>5
<1>7. /\ suggested \o no \o errors \o several \in Seq(AdviceType)
      /\ Range(suggested \o no \o errors \o several)
           = Range(suggested \o no \o errors) \cup Range(several)
    BY <1>1, <1>4, <1>6
<1>8. /\ suggested \o no \o errors \o several \o missing \in Seq(AdviceType)
      /\ Range(suggested \o no \o errors \o several \o missing)
           = Range(suggested \o no \o errors \o several) \cup Range(missing)
    BY <1>2, <1>4, <1>7
<1>9. Range(Suggestions(r, items, suggested))
        = Range(suggested) \cup Range(no) \cup Range(errors) \cup Range(several) \cup Range(missing)
    BY <1>3, <1>5, <1>6, <1>7, <1>8
<1>10. QED
    BY <1>1, <1>2, <1>3, <1>8, <1>9 DEF no, missing

\* What is recommended is some of the suggestions, with the evidence they cite.
LEMMA RecommendationsSelect ==
    ASSUME NEW items \in Seq(Evidence), NEW r \in Requests, NEW suggested,
           Suggestions(r, items, suggested) \in Seq(AdviceType)
    PROVE  LET all == Suggestions(r, items, suggested)
               advised == Recommendations(r, items, suggested)
           IN  /\ \A a \in Range(advised) : \E i \in DOMAIN all :
                    /\ a.ids = FallbackEvidenceIDs(all[i].ids, items)
                    /\ a.action = all[i].action
               /\ \A i \in Merged(all) : \E a \in Range(advised) : a.action = all[i].action
<1> DEFINE all == Suggestions(r, items, suggested)
           S == Merged(all)
           key == [i \in S |-> all[i].priority]
           order == StableSort(S, key)
           advised == [n \in DOMAIN order |->
                         [all[order[n]] EXCEPT !.ids = FallbackEvidenceIDs(@, items)]]
<1>1. Recommendations(r, items, suggested) = advised
    BY DEF Recommendations
<1>2. DOMAIN all = 1..Len(all) /\ Len(all) \in Nat /\ \A i \in DOMAIN all : all[i] \in AdviceType
    BY LenProperties
<1>3. S \subseteq DOMAIN all
    BY DEF Merged
<1>4. S \subseteq Int /\ IsFiniteSet(S)
    BY <1>3, PlacesAreFinite
<1>5. \A i \in S : all[i].priority \in Int
    BY <1>2, <1>3 DEF AdviceType
<1>6. key \in [S -> Int]
    BY <1>5
<1> HIDE DEF key, S
<1>7. /\ DOMAIN order = 1..Cardinality(S)
      /\ \A n \in 1..Cardinality(S) : order[n] \in S
      /\ \A i \in S : Place(S, key, i) + 1 \in 1..Cardinality(S)
                      /\ order[Place(S, key, i) + 1] = i
    BY <1>4, <1>6, StableSortSorts
<1> HIDE DEF order, all
<1>8. ASSUME NEW a \in AdviceType, NEW ids
      PROVE  [a EXCEPT !.ids = ids].ids = ids /\ [a EXCEPT !.ids = ids].action = a.action
    BY DEF AdviceType
<1>9. ASSUME NEW n \in DOMAIN order
      PROVE  /\ order[n] \in DOMAIN all /\ order[n] \in S
             /\ advised[n].ids = FallbackEvidenceIDs(all[order[n]].ids, items)
             /\ advised[n].action = all[order[n]].action
    <2>1. order[n] \in S /\ order[n] \in DOMAIN all /\ all[order[n]] \in AdviceType
        BY <1>2, <1>3, <1>7
    <2>2. advised[n] = [all[order[n]] EXCEPT
                          !.ids = FallbackEvidenceIDs(all[order[n]].ids, items)]
        OBVIOUS
    <2>3. QED
        BY <1>8, <2>1, <2>2
<1>10. DOMAIN advised = DOMAIN order
    OBVIOUS
<1> HIDE DEF advised
<1>11. \A a \in Range(advised) : \E n \in DOMAIN order : a = advised[n]
    BY <1>10 DEF Range
<1>12. \A i \in S : \E n \in DOMAIN order : order[n] = i
    BY <1>7
<1>13. \A n \in DOMAIN order : advised[n] \in Range(advised)
    BY <1>10 DEF Range
<1>14. \A a \in Range(advised) : \E i \in DOMAIN all :
         /\ a.ids = FallbackEvidenceIDs(all[i].ids, items)
         /\ a.action = all[i].action
    BY <1>9, <1>11
<1>15. \A i \in S : \E a \in Range(advised) : a.action = all[i].action
    BY <1>9, <1>12, <1>13
<1>16. QED
    BY <1>1, <1>14, <1>15 DEF all, S

\* Each action that is suggested is recommended.
LEMMA EachActionCounts ==
    ASSUME NEW items \in Seq(Evidence), NEW r \in Requests, NEW suggested,
           Suggestions(r, items, suggested) \in Seq(AdviceType),
           NEW a \in Range(Suggestions(r, items, suggested)), a.action # NoAction
    PROVE  \E advice \in Range(Recommendations(r, items, suggested)) : advice.action = a.action
<1> DEFINE all == Suggestions(r, items, suggested)
           same == {i \in DOMAIN all : all[i].action = a.action}
<1>1. DOMAIN all = 1..Len(all) /\ Len(all) \in Nat
    BY LenProperties
<1>2. same # {}
    BY DEF Range
<1>3. same \subseteq Int /\ IsFiniteSet(same)
    <2>1. same \subseteq DOMAIN all
        OBVIOUS
    <2> HIDE DEF same
    <2>2. QED
        BY <2>1, PlacesAreFinite
<1>4. PICK i \in same : \A j \in same : i <= j
    <2> HIDE DEF same
    <2>1. QED
        BY <1>2, <1>3, LeastPlace
<1>5. ASSUME NEW j \in 1..(i - 1) PROVE all[j].action # a.action
    <2>1. j \in DOMAIN all /\ ~(i <= j)
        BY <1>1, <1>4
    <2>2. QED
        BY <1>4, <2>1
<1>6. i \in Merged(all)
    BY <1>4, <1>5 DEF Merged
<1>7. QED
    BY <1>4, <1>6, RecommendationsSelect

-----------------------------------------------------------------------------
(* What the LLM says, as far as it counts.                                  *)

\* Of what the LLM says what counts is about evidence it was shown.
LEMMA DecodedIsKnown ==
    ASSUME NEW items \in Seq(Evidence), NEW shows \in Seq(Evidence),
           Range(shows) \subseteq Range(items), NEW r \in Requests, NEW payload \in Payload
    PROVE  LET decoded == Decode(payload, r, shows)
           IN  /\ decoded.severity = payload.severity
               /\ decoded.services \subseteq DistinctServices(r, items)
               /\ \A cause \in decoded.causes :
                    cause # {} /\ cause \subseteq {e.name : e \in Range(items)}
               /\ decoded.actions \in Seq(AdviceType)
               /\ \A a \in Range(decoded.actions) : Cites(a, items)
<1> DEFINE ids == {e.id : e \in Range(shows)}
           names == {e.name : e \in Range(shows)}
           kept == [i \in DOMAIN payload.actions |->
                      [payload.actions[i] EXCEPT !.ids = FilterKnown(@, ids)]]
           Said == [action : [kind : STRING, about : STRING], priority : Int, ids : SUBSET Nat]
<1>1. payload.actions \in Seq(Said)
    BY DEF Payload
<1>2. \A i \in DOMAIN payload.actions : payload.actions[i] \in Said
    <2> DEFINE actions == payload.actions
    <2>1. actions \in Seq(Said)
        BY <1>1
    <2> HIDE DEF actions, Said
    <2>2. \A i \in DOMAIN actions : actions[i] \in Said
        BY <2>1
    <2>3. QED
        BY <2>2 DEF actions
<1>3. /\ Decode(payload, r, shows).severity = payload.severity
      /\ Decode(payload, r, shows).services
           = FilterKnown(payload.services, DistinctServices(r, shows))
      /\ Decode(payload, r, shows).causes
           = {FilterKnown(c, names) : c \in payload.causes} \ {{}}
      /\ Decode(payload, r, shows).actions = kept
    BY DEF Decode
<1>4. DistinctServices(r, shows) \subseteq DistinctServices(r, items)
    BY DEF DistinctServices
<1>5. names \subseteq {e.name : e \in Range(items)} /\ ids \subseteq Ids(items)
    BY DEF Ids
<1>6. DOMAIN payload.actions = 1..Len(payload.actions) /\ Len(payload.actions) \in Nat
    <2> HIDE DEF Said
    <2>1. QED
        BY <1>1, LenProperties
<1> HIDE DEF ids, names
<1>7. ASSUME NEW said \in Said
      PROVE  /\ [said EXCEPT !.ids = FilterKnown(@, ids)] \in AdviceType
             /\ [said EXCEPT !.ids = FilterKnown(@, ids)].ids \subseteq ids
    <2>1. said.action \in Actions /\ said.priority \in Int /\ said.ids \subseteq Nat
        BY DEF Actions
    <2>2. FilterKnown(said.ids, ids) \subseteq Nat /\ FilterKnown(said.ids, ids) \subseteq ids
        BY <2>1 DEF FilterKnown
    <2>3. [said EXCEPT !.ids = FilterKnown(@, ids)]
            = [action |-> said.action, priority |-> said.priority,
               ids |-> FilterKnown(said.ids, ids)]
        OBVIOUS
    <2>4. QED
        BY <2>1, <2>2, <2>3 DEF AdviceType
<1>8. \A i \in DOMAIN payload.actions : kept[i] \in AdviceType /\ kept[i].ids \subseteq ids
    BY <1>7, <1>2
<1>9. kept \in [1..Len(payload.actions) -> AdviceType] /\ DOMAIN kept = DOMAIN payload.actions
    BY <1>6, <1>8
<1> HIDE DEF kept
<1>10. kept \in Seq(AdviceType)
    <2> DEFINE n == Len(payload.actions)
    <2>1. n \in Nat /\ kept \in [1..n -> AdviceType]
        BY <1>6, <1>9
    <2> HIDE DEF n
    <2>2. QED
        BY <2>1
<1>11. \A a \in Range(kept) : Cites(a, items)
    <2>1. ASSUME NEW i \in DOMAIN kept PROVE Cites(kept[i], items)
        BY <1>5, <1>8, <1>9 DEF Cites
    <2>2. \A a \in Range(kept) : \E i \in DOMAIN kept : a = kept[i]
        BY DEF Range
    <2>3. QED
        BY <2>1, <2>2
<1>12. FilterKnown(payload.services, DistinctServices(r, shows)) \subseteq DistinctServices(r, items)
    BY <1>4 DEF FilterKnown
<1>13. \A cause \in {FilterKnown(c, names) : c \in payload.causes} \ {{}} :
         cause # {} /\ cause \subseteq {e.name : e \in Range(items)}
    <2>1. \A c : FilterKnown(c, names) \subseteq names
        BY DEF FilterKnown
    <2>2. QED
        BY <1>5, <2>1
<1>14. QED
    BY <1>3, <1>10, <1>11, <1>12, <1>13

\* The stored result follows from the evidence and from what the LLM said.
LEMMA ResultFollows ==
    ASSUME TypeInv, OutcomeInv, step = "done"
    PROVE  /\ evidence \in Seq(Evidence) /\ request \in Requests
           /\ result.evidence = evidence
           /\ \E payload \in Payload :
                /\ result.suggested = payload.severity
                /\ result.severity = Reconcile(payload.severity, request, evidence)
           /\ result.services \subseteq DistinctServices(request, evidence)
           /\ \A cause \in result.causes :
                cause # {} /\ cause \subseteq {e.name : e \in Range(evidence)}
           /\ \E said \in Seq(AdviceType) :
                /\ \A a \in Range(said) : Cites(a, evidence)
                /\ result.actions = Recommendations(request, evidence, said)
<1>1. evidence \in Seq(Evidence) /\ shown \in Seq(Evidence) /\ request \in Requests
    BY DEF TypeInv, TypeOK
<1>2. shown = FilterEvidence(evidence, request)
    BY DEF OutcomeInv
<1>3. Range(shown) \subseteq Range(evidence)
    BY <1>1, <1>2, FilterSelects
<1>4. PICK payload \in Payloads : result = Outcome(payload)
    BY DEF OutcomeInv
<1>5. payload \in Payload
    BY DiagnosisAssumption
<1> DEFINE decoded == Decode(payload, request, shown)
<1>6. /\ result.suggested = payload.severity
      /\ result.severity = Reconcile(decoded.severity, request, evidence)
      /\ result.services = decoded.services
      /\ result.causes = decoded.causes
      /\ result.actions = Recommendations(request, evidence, decoded.actions)
      /\ result.evidence = evidence
    BY <1>4 DEF Outcome
<1>7. /\ decoded.severity = payload.severity
      /\ decoded.services \subseteq DistinctServices(request, evidence)
      /\ \A cause \in decoded.causes :
           cause # {} /\ cause \subseteq {e.name : e \in Range(evidence)}
      /\ decoded.actions \in Seq(AdviceType)
      /\ \A a \in Range(decoded.actions) : Cites(a, evidence)
    BY <1>1, <1>3, <1>5, DecodedIsKnown
<1> HIDE DEF decoded
<1>8. QED
    BY <1>1, <1>5, <1>6, <1>7

\* The severity is reconciled with that of the whole evidence.
LEMMA SeverityHolds == TypeInv /\ OutcomeInv => NeverUnderReported
<1> SUFFICES ASSUME TypeInv, OutcomeInv, step = "done"
             PROVE  /\ Rank(result.severity) >= Rank(result.suggested)
                    /\ \A i, j \in DOMAIN result.evidence :
                         Rank(result.severity)
                           >= Rank(Classify(request, SubSeq(result.evidence, i, j)))
    BY DEF NeverUnderReported
<1>1. PICK payload \in Payload :
        /\ result.suggested = payload.severity
        /\ result.severity = Reconcile(payload.severity, request, evidence)
    BY ResultFollows
<1>2. evidence \in Seq(Evidence) /\ request \in Requests /\ result.evidence = evidence
    BY ResultFollows
<1>3. Rank(result.severity) >= Rank(result.suggested)
      /\ Rank(result.severity) >= Rank(Classify(request, evidence))
    BY <1>1, ReconcileTakesTheHigher
<1>4. ASSUME NEW i \in DOMAIN evidence, NEW j \in DOMAIN evidence
      PROVE  Rank(result.severity) >= Rank(Classify(request, SubSeq(evidence, i, j)))
    <2>1. Rank(Classify(request, evidence)) >= Rank(Classify(request, SubSeq(evidence, i, j)))
        BY <1>2, ClassifyGrows
    <2>2. \A s : Rank(s) \in 0..4
        BY RankTypes
    <2>3. \A x, y, z \in 0..4 : x >= y /\ y >= z => x >= z
        OBVIOUS
    <2>4. QED
        BY <1>3, <2>1, <2>2, <2>3
<1>5. QED
    BY <1>2, <1>3, <1>4

\* What is shown is filtered from the evidence as it stands.
LEMMA BestHolds == TypeInv /\ OutcomeInv => BestEvidenceShown
<1> SUFFICES ASSUME TypeInv, OutcomeInv, step \in {"generate", "save", "done"},
                    NEW e \in Range(evidence), RelevantEvidence(request, e), e \notin Range(shown)
             PROVE  /\ Len(shown) = MaxLLMEvidenceItems
                    /\ \A s \in Range(shown) : s.score >= e.score
    BY DEF BestEvidenceShown
<1>1. evidence \in Seq(Evidence) /\ shown = FilterEvidence(evidence, request)
    BY DEF TypeInv, TypeOK, OutcomeInv
<1>2. PICK k \in Matching(evidence, request) : evidence[k] = e
    BY DEF Range, Matching
<1>3. CASE Cardinality(Matching(evidence, request)) <= MaxLLMEvidenceItems
    BY <1>1, <1>2, <1>3, AllIsShown
<1>4. CASE ~(Cardinality(Matching(evidence, request)) <= MaxLLMEvidenceItems)
    BY <1>1, <1>2, <1>4, BestIsShown
<1>5. QED
    BY <1>3, <1>4

\* What is recommended cites what the LLM was shown, the rules cite the evidence.
LEMMA GroundHolds == TypeInv /\ OutcomeInv => Grounded
<1> SUFFICES ASSUME TypeInv, OutcomeInv, step = "done"
             PROVE  Grounded
    BY DEF Grounded
<1>1. /\ evidence \in Seq(Evidence) /\ request \in Requests /\ result.evidence = evidence
      /\ result.services \subseteq DistinctServices(request, evidence)
      /\ \A cause \in result.causes :
           cause # {} /\ cause \subseteq {e.name : e \in Range(evidence)}
    BY ResultFollows
<1>2. PICK said \in Seq(AdviceType) :
        /\ \A a \in Range(said) : Cites(a, evidence)
        /\ result.actions = Recommendations(request, evidence, said)
    BY ResultFollows
<1>3. /\ Suggestions(request, evidence, said) \in Seq(AdviceType)
      /\ \A a \in Range(Suggestions(request, evidence, said)) : Cites(a, evidence)
    BY <1>1, <1>2, SuggestionsAdvise
<1>4. ASSUME NEW action \in Range(result.actions)
      PROVE  /\ action.ids \subseteq {e.id : e \in Range(evidence)}
             /\ action.ids = {} => evidence = <<>>
    <2> DEFINE all == Suggestions(request, evidence, said)
    <2>1. PICK i \in DOMAIN all : action.ids = FallbackEvidenceIDs(all[i].ids, evidence)
        BY <1>1, <1>2, <1>3, RecommendationsSelect
    <2>2. all[i].ids \subseteq Ids(evidence)
        BY <1>3 DEF Cites, Range
    <2> HIDE DEF all
    <2>3. /\ action.ids \subseteq Ids(evidence)
          /\ evidence # <<>> => action.ids # {}
        BY <1>1, <2>1, <2>2, FallbackCites
    <2>4. QED
        BY <2>3 DEF Ids
<1>5. QED
    BY <1>1, <1>4 DEF Grounded

\* The rule about missing signals speaks, and merging does not lose its advice.
LEMMA GapsHold == TypeInv /\ OutcomeInv => GapsAreNamed
<1> SUFFICES ASSUME TypeInv, OutcomeInv, step = "done",
                    NEW signal \in Range(request.signals),
                    \A e \in Range(result.evidence) : e.signal # signal
             PROVE  \E action \in Range(result.actions) :
                      \/ action.action = [kind |-> "collect", about |-> signal]
                      \/ result.evidence = <<>> /\ action.action.kind = "connect"
    BY DEF GapsAreNamed
<1>1. evidence \in Seq(Evidence) /\ request \in Requests /\ result.evidence = evidence
    BY ResultFollows
<1>2. PICK said \in Seq(AdviceType) :
        /\ \A a \in Range(said) : Cites(a, evidence)
        /\ result.actions = Recommendations(request, evidence, said)
    BY ResultFollows
<1> DEFINE all == Suggestions(request, evidence, said)
<1>3. /\ all \in Seq(AdviceType)
      /\ Range(NoEvidence(evidence)) \subseteq Range(all)
      /\ Range(MissingSignal(request, evidence)) \subseteq Range(all)
    BY <1>1, <1>2, SuggestionsAdvise
<1>4. ASSUME NEW a \in Range(all), a.action # NoAction
      PROVE  \E action \in Range(result.actions) : action.action = a.action
    BY <1>1, <1>2, <1>3, <1>4, EachActionCounts
<1> HIDE DEF all
<1>5. CASE evidence = <<>>
    <2> DEFINE connect == Advice("connect", "", 1, {})
    <2>1. NoEvidence(evidence) = <<connect>>
        BY <1>5 DEF NoEvidence
    <2>2. connect.action.kind = "connect"
        BY DEF Advice
    <2>5. connect.action # NoAction
        <3>1. NoAction.kind = ""
            BY DEF NoAction
        <3>2. QED
            BY <2>2, <3>1
    <2> HIDE DEF connect
    <2>3. connect \in Range(all)
        BY <1>3, <2>1 DEF Range
    <2>4. QED
        BY <1>1, <1>4, <1>5, <2>2, <2>3, <2>5
<1>6. CASE evidence # <<>>
    <2>1. PICK a \in Range(MissingSignal(request, evidence)) :
            a.action = [kind |-> "collect", about |-> signal]
        BY <1>1, <1>6, MissingAreNamed
    <2>2. a.action # NoAction
        <3>1. NoAction.kind = "" /\ a.action.kind = "collect"
            BY <2>1 DEF NoAction
        <3>2. QED
            BY <3>1
    <2>3. QED
        BY <1>3, <1>4, <2>1, <2>2
<1>7. QED
    BY <1>5, <1>6

\* The state always has its types; above all, what the queries, answers and
\* policies compute is evidence.
THEOREM TypeCorrect == Spec => []TypeOK
<1>1. TypeInv => TypeOK
    BY DEF TypeInv
<1>2. QED
    BY <1>1, InitTypeInv, NextTypeInv, PTL DEF Spec

\* Both invariants hold in every state.
LEMMA SpecInvariants == Spec => [](TypeInv /\ OutcomeInv)
BY InitTypeInv, NextTypeInv, InitOutcomeInv, NextOutcomeInv, PTL DEF Spec

\* The severity of a stored analysis is at least what the LLM suggests and what
\* any stretch of its evidence calls for (severity.go).
THEOREM SeverityIsReconciled == Spec => []NeverUnderReported
BY SpecInvariants, SeverityHolds, PTL

\* No evidence is kept from the LLM that scores higher than some it is shown, or
\* while there is room (evidence.go).
THEOREM StrongestIsShown == Spec => []BestEvidenceShown
BY SpecInvariants, BestHolds, PTL

\* A stored analysis cites nothing that it does not hold, whatever the LLM says
\* (guard.go).
THEOREM ResultsAreGrounded == Spec => []Grounded
BY SpecInvariants, GroundHolds, PTL

\* A signal that was asked for and is missing from the evidence is named by an
\* action (recommendation.go).
THEOREM GapsAreReported == Spec => []GapsAreNamed
BY SpecInvariants, GapsHold, PTL

-----------------------------------------------------------------------------
(* What each collector was answered, in the evidence.                       *)

\* No two of the configured providers are of a kind: two of a kind give their
\* evidence the same name.
OneOfAKind ==
    \A i, j \in DOMAIN Collectors : Collectors[i] = Collectors[j] => i = j

\* An item that has been numbered and rated.
Marked(e, id, severity) == [e EXCEPT !.id = id, !.severity = severity]

\* It is the same item otherwise.
LEMMA Marking ==
    ASSUME NEW e \in Evidence, NEW id, NEW severity
    PROVE  /\ Marked(e, id, severity).provider = e.provider
           /\ Marked(e, id, severity).id = id
           /\ Marked(e, id, severity).severity = severity
           /\ \A x, y : Marked(Marked(e, x, y), id, severity) = Marked(e, id, severity)
           /\ Marked(e, e.id, e.severity) = e
<1>1. /\ Marked(e, id, severity).provider = e.provider
      /\ Marked(e, id, severity).id = id
      /\ Marked(e, id, severity).severity = severity
    BY DEF Marked, Evidence
<1>2. \A x, y : Marked(Marked(e, x, y), id, severity) = Marked(e, id, severity)
    BY DEF Marked, Evidence
<1>3. Marked(e, e.id, e.severity) = e
    BY DEF Marked, Evidence
<1>4. QED
    BY <1>1, <1>2, <1>3

\* An item of the evidence and the answer it comes from.
Same(e, answer) == e = Marked(answer, e.id, e.severity)

\* The items of a collector are its answers, next to each other.
Stored(items, i, answers) ==
    \E a \in Nat : /\ PlacesOf(items, i) = (a + 1)..(a + Len(answers))
                   /\ \A j \in 1..Len(answers) : Same(items[a + j], answers[j])

\* What one collector adds leaves the others alone.
LEMMA StoredElsewhere ==
    ASSUME NEW items \in Seq(Evidence), NEW more \in Seq(Evidence),
           NEW i \in DOMAIN Collectors, NEW answers \in Seq(Evidence),
           Stored(items, i, answers),
           \A e \in Range(more) : e.provider # Collectors[i]
    PROVE  Stored(items \o more, i, answers)
<1>1. /\ DOMAIN (items \o more) = 1..(Len(items) + Len(more))
      /\ DOMAIN items = 1..Len(items) /\ DOMAIN more = 1..Len(more)
      /\ Len(items) \in Nat /\ Len(more) \in Nat /\ Len(answers) \in Nat
    <2>1. items \o more \in Seq(Evidence) /\ Len(items \o more) = Len(items) + Len(more)
        BY ConcatProperties
    <2>2. DOMAIN (items \o more) = 1..Len(items \o more)
        BY <2>1, LenProperties
    <2>3. QED
        BY <2>1, <2>2, LenProperties
<1>2. \A k \in 1..Len(items) : (items \o more)[k] = items[k] /\ k \in DOMAIN (items \o more)
    BY <1>1, ConcatProperties
<1>3. \A k \in DOMAIN (items \o more) : k \notin 1..Len(items) =>
        (items \o more)[k] = more[k - Len(items)] /\ k - Len(items) \in DOMAIN more
    BY <1>1, ConcatProperties
<1>4. PlacesOf(items \o more, i) = PlacesOf(items, i)
    <2>1. \A n \in DOMAIN more : more[n].provider # Collectors[i]
        BY DEF Range
    <2>2. QED
        BY <1>1, <1>2, <1>3, <2>1 DEF PlacesOf
<1>5. PICK a \in Nat : /\ PlacesOf(items, i) = (a + 1)..(a + Len(answers))
                       /\ \A j \in 1..Len(answers) : Same(items[a + j], answers[j])
    BY DEF Stored
<1>6. ASSUME NEW j \in 1..Len(answers) PROVE Same((items \o more)[a + j], answers[j])
    <2>1. a + j \in (a + 1)..(a + Len(answers))
        BY <1>1
    <2>2. a + j \in 1..Len(items)
        BY <1>1, <1>5, <2>1 DEF PlacesOf
    <2>3. QED
        BY <1>2, <1>5, <2>2
<1>7. QED
    BY <1>4, <1>5, <1>6 DEF Stored

\* What it adds is what it was answered.
LEMMA StoredHere ==
    ASSUME NEW items \in Seq(Evidence), NEW more \in Seq(Evidence),
           NEW i \in DOMAIN Collectors,
           Stored(items, i, <<>>), \A e \in Range(more) : e.provider = Collectors[i]
    PROVE  Stored(items \o more, i, more)
<1>1. /\ DOMAIN (items \o more) = 1..(Len(items) + Len(more))
      /\ DOMAIN items = 1..Len(items) /\ DOMAIN more = 1..Len(more)
      /\ Len(items) \in Nat /\ Len(more) \in Nat
    <2>1. items \o more \in Seq(Evidence) /\ Len(items \o more) = Len(items) + Len(more)
        BY ConcatProperties
    <2>2. DOMAIN (items \o more) = 1..Len(items \o more)
        BY <2>1, LenProperties
    <2>3. QED
        BY <2>1, <2>2, LenProperties
<1>2. \A k \in 1..Len(items) : (items \o more)[k] = items[k]
    BY <1>1, ConcatProperties
<1>3. \A n \in DOMAIN more : /\ (items \o more)[Len(items) + n] = more[n]
                             /\ Len(items) + n \in DOMAIN (items \o more)
                             /\ more[n].provider = Collectors[i]
    <2>1. \A n \in DOMAIN more : (items \o more)[Len(items) + n] = more[n]
        BY <1>1, ConcatProperties
    <2>2. QED
        BY <1>1, <2>1 DEF Range
<1>4. \A k \in 1..Len(items) : items[k].provider # Collectors[i]
    <2>1. PICK a \in Nat : PlacesOf(items, i) = (a + 1)..(a + Len(<<>>))
        BY DEF Stored
    <2>2. PlacesOf(items, i) = {}
        BY <2>1
    <2>3. QED
        BY <1>1, <2>2 DEF PlacesOf
<1>5. \A k \in DOMAIN (items \o more) :
        k \notin 1..Len(items) => k \in (Len(items) + 1)..(Len(items) + Len(more))
    BY <1>1
<1>6. \A k \in (Len(items) + 1)..(Len(items) + Len(more)) :
        \E n \in DOMAIN more : k = Len(items) + n
    <2>1. ASSUME NEW k \in (Len(items) + 1)..(Len(items) + Len(more))
          PROVE  k - Len(items) \in DOMAIN more /\ k = Len(items) + (k - Len(items))
        BY <1>1
    <2>2. QED
        BY <2>1
<1>7. PlacesOf(items \o more, i) = (Len(items) + 1)..(Len(items) + Len(more))
    <2>1. \A k \in PlacesOf(items \o more, i) : k \in (Len(items) + 1)..(Len(items) + Len(more))
        BY <1>2, <1>4, <1>5 DEF PlacesOf
    <2>2. \A k \in (Len(items) + 1)..(Len(items) + Len(more)) : k \in PlacesOf(items \o more, i)
        BY <1>3, <1>6 DEF PlacesOf
    <2>3. QED
        BY <2>1, <2>2
<1>8. \A j \in 1..Len(more) : Same((items \o more)[Len(items) + j], more[j])
    <2>1. \A e \in Evidence : Same(e, e)
        BY Marking DEF Same
    <2>2. \A j \in 1..Len(more) : more[j] \in Evidence
        BY <1>1
    <2>3. QED
        BY <1>1, <1>3, <2>1, <2>2
<1>9. QED
    BY <1>1, <1>7, <1>8 DEF Stored

\* Numbering the evidence and rating it leaves it where it is.
LEMMA StoredNormalized ==
    ASSUME NEW items \in Seq(Evidence), NEW i \in DOMAIN Collectors,
           NEW answers \in Seq(Evidence), Stored(items, i, answers)
    PROVE  Stored(Normalized(items), i, answers)
<1> DEFINE rated == Normalized(items)
<1>1. DOMAIN rated = DOMAIN items
      /\ \A k \in DOMAIN items :
           rated[k] = Marked(items[k], k, EvidenceSeverity(items[k]))
    BY NormalizedType DEF Marked
<1>2. \A k \in DOMAIN items : items[k] \in Evidence
    BY LenProperties
<1> HIDE DEF rated
<1>4. \A k \in DOMAIN items : rated[k].provider = items[k].provider
    BY <1>1, <1>2, Marking
<1>5. PlacesOf(rated, i) = PlacesOf(items, i)
    BY <1>1, <1>4 DEF PlacesOf
<1>6. PICK a \in Nat : /\ PlacesOf(items, i) = (a + 1)..(a + Len(answers))
                       /\ \A j \in 1..Len(answers) : Same(items[a + j], answers[j])
    BY DEF Stored
<1>7. ASSUME NEW e \in Evidence, NEW answer \in Evidence, Same(e, answer), NEW id, NEW severity
      PROVE  Same(Marked(e, id, severity), answer)
    BY <1>7, Marking DEF Same
<1>8. ASSUME NEW j \in 1..Len(answers) PROVE Same(rated[a + j], answers[j])
    <2>3. Len(answers) \in Nat /\ DOMAIN answers = 1..Len(answers)
        BY LenProperties
    <2>4. answers[j] \in Evidence
        BY <2>3
    <2>1. a + j \in (a + 1)..(a + Len(answers)) /\ answers[j] \in Evidence
        BY <2>3, <2>4
    <2>2. a + j \in DOMAIN items
        BY <1>6, <2>1 DEF PlacesOf
    <2>5. QED
        BY <1>1, <1>2, <1>6, <1>7, <2>1, <2>2
<1>9. QED
    BY <1>5, <1>6, <1>8 DEF Stored, rated

\* Taking the items of a collector out again gives its answers.
LEMMA StoredIsGiven ==
    ASSUME NEW items \in Seq(Evidence), NEW i \in DOMAIN Collectors,
           NEW answers \in Seq(Evidence), Stored(items, i, answers)
    PROVE  LET stored == Items(items, InOrder(PlacesOf(items, i)))
           IN  /\ Len(stored) = Len(answers)
               /\ answers = <<>> => stored = <<>>
               /\ \A j \in DOMAIN stored :
                    stored[j] = Marked(answers[j], stored[j].id, stored[j].severity)
<1> DEFINE n == Len(answers)
<1>1. n \in Nat
    BY LenProperties
<1>2. PICK a \in Nat : /\ PlacesOf(items, i) = (a + 1)..(a + n)
                       /\ \A j \in 1..n : Same(items[a + j], answers[j])
    BY DEF Stored
<1> DEFINE order == InOrder((a + 1)..(a + n))
           stored == [k \in DOMAIN order |-> items[order[k]]]
<1> HIDE DEF n
<1>3. Items(items, InOrder(PlacesOf(items, i))) = stored
    BY <1>2 DEF Items
<1>4. DOMAIN order = 1..n /\ \A k \in 1..n : order[k] = a + k
    <2>1. a + n \in Nat /\ a <= a + n /\ (a + n) - a = n
        BY <1>1
    <2>2. QED
        BY <2>1, IntervalInOrder
<1> HIDE DEF order
<1>5. DOMAIN stored = 1..n /\ \A k \in 1..n : stored[k] = items[a + k]
    BY <1>4
<1>6. stored \in Seq(Range(stored)) /\ Len(stored) = n
    <2>1. stored \in [1..n -> Range(stored)]
        BY <1>5 DEF Range
    <2> HIDE DEF stored
    <2>2. stored \in Seq(Range(stored))
        BY <1>1, <2>1
    <2>3. QED
        BY <1>1, <1>5, <2>2, LenProperties
<1> HIDE DEF stored
<1>7. \A j \in DOMAIN stored :
        stored[j] = Marked(answers[j], stored[j].id, stored[j].severity)
    BY <1>2, <1>5 DEF Same
<1>8. answers = <<>> => stored = <<>>
    <2>1. answers = <<>> => n = 0
        BY DEF n
    <2>2. QED
        BY <1>6, <2>1, EmptySeq
<1>9. QED
    BY <1>3, <1>6, <1>7, <1>8 DEF n

\* The collectors before this one are finished.
Finished == IF step = "query" THEN at - 1 ELSE at

\* What counts of the answers of a collector.
Kept(i) == IF i <= Finished /\ i \notin missed THEN given[i] ELSE <<>>

\* The evidence holds what counts, of one collector what it was answered so far
\* is held back, and those to come were not asked yet.
WholeInv ==
    /\ step \in {"generate", "save", "done"} => at = Len(Collectors)
    /\ step = "query" => own = given[at]
    /\ step # "query" => own = <<>>
    /\ missed \subseteq 1..Finished
    /\ \A i \in DOMAIN Collectors : i > at => given[i] = <<>>
    /\ \A i \in DOMAIN Collectors : \A e \in Range(given[i]) : e.provider = Collectors[i]
    /\ \A i \in DOMAIN Collectors : Stored(evidence, i, Kept(i))

\* No collector was asked before the run starts.
LEMMA InitWholeInv == Init => WholeInv
<1> SUFFICES ASSUME Init PROVE WholeInv
    OBVIOUS
<1>1. /\ \A i \in DOMAIN Collectors : given[i] = <<>> /\ Kept(i) = <<>>
      /\ at = 0 /\ step = "idle" /\ own = <<>> /\ evidence = <<>> /\ missed = {}
    BY DEF Init, Kept
<1>2. Range(<<>>) = {}
    BY DEF Range
<1>3. \A i \in DOMAIN Collectors : Stored(<<>>, i, <<>>)
    <2>1. \A i \in DOMAIN Collectors : PlacesOf(<<>>, i) = {}
        BY DEF PlacesOf
    <2>2. (0 + 1)..(0 + Len(<<>>)) = {} /\ 1..Len(<<>>) = {} /\ 0 \in Nat
        OBVIOUS
    <2>3. QED
        BY <2>1, <2>2 DEF Stored
<1>4. QED
    BY <1>1, <1>2, <1>3 DEF WholeInv

\* A step that leaves the collectors alone keeps it.
LEMMA WholeFrame ==
    ASSUME WholeInv, at' = at, own' = own, evidence' = evidence, given' = given,
           missed' = missed, (step' = "query") <=> (step = "query"),
           step' \in {"generate", "save", "done"} => step \in {"generate", "save", "done"}
    PROVE  WholeInv'
<1>1. Finished' = Finished
    BY DEF Finished
<1>2. \A i \in DOMAIN Collectors : Kept(i)' = Kept(i)
    BY <1>1 DEF Kept
<1>3. \A i \in DOMAIN Collectors : Stored(evidence, i, Kept(i))'
    <2>1. ASSUME NEW i \in DOMAIN Collectors PROVE Stored(evidence, i, Kept(i))'
        <3>1. Stored(evidence, i, Kept(i))
            BY DEF WholeInv
        <3>2. QED
            BY <1>2, <3>1
    <2>2. QED
        BY <2>1
<1>4. QED
    BY <1>1, <1>3 DEF WholeInv

\* The collector whose turn it is has nothing in the evidence yet.
LEMMA NothingKeptYet ==
    ASSUME TypeInv, WholeInv, step = "query"
    PROVE  /\ at \in DOMAIN Collectors /\ at \notin missed /\ Kept(at) = <<>>
           /\ own = given[at] /\ Stored(evidence, at, <<>>)
<1>1. at \in DOMAIN Collectors /\ at \in Nat
    BY CollectorAtHand DEF TypeInv, TypeOK
<1>2. Finished = at - 1
    BY DEF Finished
<1>3. at \notin missed /\ Kept(at) = <<>>
    BY <1>1, <1>2 DEF WholeInv, Kept
<1>4. QED
    BY <1>1, <1>3 DEF WholeInv

\* A collector that is asked has nothing held back.
LEMMA StartsCollecting ==
    ASSUME TypeInv, WholeInv, NextCollector PROVE WholeInv'
<1>1. /\ step = "collect" /\ step' = "query" /\ at' = at + 1 /\ at < Len(Collectors)
      /\ own' = own /\ evidence' = evidence /\ given' = given /\ missed' = missed
    BY DEF NextCollector, history
<1>2. at \in Nat /\ Len(Collectors) \in Nat /\ DOMAIN Collectors = 1..Len(Collectors)
    BY DiagnosisAssumption, LenProperties DEF TypeInv, TypeOK
<1>3. Finished = at /\ Finished' = at
    BY <1>1, <1>2 DEF Finished
<1>4. \A i \in DOMAIN Collectors : Kept(i)' = Kept(i)
    BY <1>1, <1>3 DEF Kept
<1>5. \A i \in DOMAIN Collectors : Stored(evidence, i, Kept(i))'
    <2>1. ASSUME NEW i \in DOMAIN Collectors PROVE Stored(evidence, i, Kept(i))'
        <3>1. Stored(evidence, i, Kept(i))
            BY DEF WholeInv
        <3>2. QED
            BY <1>1, <1>4, <3>1
    <2>2. QED
        BY <2>1
<1>6. at' \in DOMAIN Collectors /\ at' > at /\ \A i \in DOMAIN Collectors : i > at' => i > at
    BY <1>1, <1>2
<1>7. own' = <<>> /\ given[at'] = <<>>
    BY <1>1, <1>6 DEF WholeInv
<1>8. QED
    BY <1>1, <1>3, <1>5, <1>6, <1>7 DEF WholeInv

\* A collector that ends hands over all that it was answered.
LEMMA EndsCollecting ==
    ASSUME OneOfAKind, TypeInv, WholeInv, EndOfCollector PROVE WholeInv'
<1>1. /\ step = "query" /\ step' = "collect" /\ at' = at
      /\ evidence' = evidence \o own /\ own' = <<>> /\ given' = given /\ missed' = missed
    BY DEF EndOfCollector, history
<1>2. /\ at \in DOMAIN Collectors /\ at \notin missed
      /\ own = given[at] /\ Stored(evidence, at, <<>>)
    BY <1>1, NothingKeptYet
<1>3. /\ evidence \in Seq(Evidence) /\ at \in Nat
      /\ \A i \in DOMAIN Collectors : given[i] \in Seq(Evidence)
      /\ DOMAIN Collectors \subseteq Int
    BY DiagnosisAssumption, LenProperties DEF TypeInv, TypeOK
<1>4. Finished = at - 1 /\ Finished' = at
    BY <1>1 DEF Finished
<1>5. \A i \in DOMAIN Collectors : i = at => Kept(i)' = own
    BY <1>1, <1>2, <1>3, <1>4 DEF Kept
<1>6. \A i \in DOMAIN Collectors : i # at => Kept(i)' = Kept(i)
    BY <1>1, <1>3, <1>4 DEF Kept
<1>7. \A i \in DOMAIN Collectors : Stored(evidence, i, Kept(i))'
    <2>1. \A e \in Range(own) : e.provider = Collectors[at]
        BY <1>2 DEF WholeInv
    <2>2. own \in Seq(Evidence)
        BY <1>2, <1>3
    <2>3. Stored(evidence', at, own)
        BY <1>1, <1>2, <1>3, <2>1, <2>2, StoredHere
    <2>4. ASSUME NEW i \in DOMAIN Collectors, i # at PROVE Stored(evidence', i, Kept(i)')
        <3>1. Stored(evidence, i, Kept(i))
            BY DEF WholeInv
        <3>2. Kept(i) \in Seq(Evidence)
            BY <1>3 DEF Kept
        <3>3. \A e \in Range(own) : e.provider # Collectors[i]
            BY <1>2, <2>1, <2>4 DEF OneOfAKind
        <3>4. Stored(evidence \o own, i, Kept(i))
            BY <1>3, <2>2, <3>1, <3>2, <3>3, StoredElsewhere
        <3>5. QED
            BY <1>1, <1>6, <2>4, <3>4
    <2>5. ASSUME NEW i \in DOMAIN Collectors PROVE Stored(evidence, i, Kept(i))'
        BY <1>5, <2>3, <2>4
    <2>6. QED
        BY <2>5
<1>8. missed' \subseteq 1..Finished'
    BY <1>1, <1>3, <1>4 DEF WholeInv
<1>9. QED
    BY <1>1, <1>7, <1>8 DEF WholeInv

\* One that fails hands over nothing.
LEMMA FailsCollecting ==
    ASSUME TypeInv, WholeInv, step = "query", CollectorFails PROVE WholeInv'
<1>1. /\ step' = "collect" /\ at' = at /\ evidence' = evidence /\ own' = <<>>
      /\ given' = given /\ missed' = missed \cup {at}
    BY DEF CollectorFails, DropsWhatItHad
<1>2. at \in DOMAIN Collectors /\ Kept(at) = <<>>
    BY NothingKeptYet
<1>3. at \in Nat /\ at # 0 /\ DOMAIN Collectors \subseteq Int
    BY DiagnosisAssumption, LenProperties DEF TypeInv, TypeOK
<1>4. Finished = at - 1 /\ Finished' = at
    BY <1>1 DEF Finished
<1>5. \A i \in DOMAIN Collectors : Kept(i)' = Kept(i)
    <2>1. \A i \in DOMAIN Collectors : i = at => Kept(i)' = <<>>
        BY <1>1 DEF Kept
    <2>2. \A i \in DOMAIN Collectors : i # at => Kept(i)' = Kept(i)
        BY <1>1, <1>3, <1>4 DEF Kept
    <2>3. QED
        BY <1>2, <2>1, <2>2
<1>6. \A i \in DOMAIN Collectors : Stored(evidence, i, Kept(i))'
    <2>1. ASSUME NEW i \in DOMAIN Collectors PROVE Stored(evidence, i, Kept(i))'
        <3>1. Stored(evidence, i, Kept(i))
            BY DEF WholeInv
        <3>2. QED
            BY <1>1, <1>5, <3>1
    <2>2. QED
        BY <2>1
<1>7. missed' \subseteq 1..Finished'
    BY <1>1, <1>3, <1>4 DEF WholeInv
<1>8. QED
    BY <1>1, <1>6, <1>7 DEF WholeInv

\* An answer is held back until its collector ends.
LEMMA CollectsAnswer ==
    ASSUME TypeInv, WholeInv, NEW answer, answer \in Answers[Collectors[at]], Answered(answer)
    PROVE  WholeInv'
<1>1. /\ step = "query" /\ step' = step /\ at' = at /\ evidence' = evidence
      /\ missed' = missed
    BY DEF Answered
<1>2. PICK items \in Seq({e \in Evidence : e.provider = Collectors[at]}) :
        /\ items \in Seq(Evidence)
        /\ own' = own \o items
        /\ given' = [given EXCEPT ![at] = @ \o items]
    BY <1>1, AnsweredAdds
<1>3. /\ at \in DOMAIN Collectors /\ at \notin missed /\ own = given[at]
    BY <1>1, NothingKeptYet
<1>4. given \in [DOMAIN Collectors -> Seq(Evidence)] /\ at \in Nat /\ DOMAIN Collectors \subseteq Int
    BY DiagnosisAssumption, LenProperties DEF TypeInv, TypeOK
<1>5. /\ given'[at] = given[at] \o items
      /\ \A i \in DOMAIN Collectors : i # at => given'[i] = given[i]
    BY <1>2, <1>3, <1>4
<1>6. \A e \in Range(given'[at]) : e.provider = Collectors[at]
    <2>1. Range(given[at] \o items) = Range(given[at]) \cup Range(items)
        BY <1>2, <1>3, <1>4, RangeConcatenation
    <2>2. \A e \in Range(items) : e.provider = Collectors[at]
        BY <1>2 DEF Range
    <2>3. QED
        BY <1>3, <1>5, <2>1, <2>2 DEF WholeInv
<1>7. Finished = at - 1 /\ Finished' = at - 1
    BY <1>1 DEF Finished
<1>8. \A i \in DOMAIN Collectors : Kept(i)' = Kept(i)
    <2>1. ~(at <= at - 1)
        BY <1>4
    <2>2. QED
        BY <1>1, <1>5, <1>7, <2>1 DEF Kept
<1>9. \A i \in DOMAIN Collectors : Stored(evidence, i, Kept(i))'
    <2>1. ASSUME NEW i \in DOMAIN Collectors PROVE Stored(evidence, i, Kept(i))'
        <3>1. Stored(evidence, i, Kept(i))
            BY DEF WholeInv
        <3>2. QED
            BY <1>1, <1>8, <3>1
    <2>2. QED
        BY <2>1
<1>10. \A i \in DOMAIN Collectors : i > at => given'[i] = <<>>
    <2>1. ~(at > at)
        BY <1>4
    <2>2. QED
        BY <1>5, <2>1 DEF WholeInv
<1>11. \A i \in DOMAIN Collectors : \A e \in Range(given'[i]) : e.provider = Collectors[i]
    BY <1>5, <1>6 DEF WholeInv
<1>12. own' = given'[at]
    BY <1>2, <1>3, <1>5
<1>13. QED
    BY <1>1, <1>7, <1>9, <1>10, <1>11, <1>12 DEF WholeInv

\* Numbering and rating the evidence does not move it.
LEMMA NumbersEvidence ==
    ASSUME TypeInv, WholeInv, Normalize PROVE WholeInv'
<1>1. /\ step = "collect" /\ step' = "generate" /\ at = Len(Collectors) /\ at' = at
      /\ evidence' = Normalized(evidence) /\ own' = own /\ given' = given
      /\ missed' = missed
    BY DEF Normalize, history
<1>2. evidence \in Seq(Evidence) /\ \A i \in DOMAIN Collectors : given[i] \in Seq(Evidence)
    BY DEF TypeInv, TypeOK
<1>3. Finished' = Finished
    BY <1>1 DEF Finished
<1>4. \A i \in DOMAIN Collectors : Kept(i)' = Kept(i) /\ Kept(i) \in Seq(Evidence)
    BY <1>1, <1>2, <1>3 DEF Kept
<1>5. \A i \in DOMAIN Collectors : Stored(evidence, i, Kept(i))'
    <2>1. ASSUME NEW i \in DOMAIN Collectors PROVE Stored(evidence, i, Kept(i))'
        <3>1. Stored(evidence, i, Kept(i))
            BY DEF WholeInv
        <3>2. Stored(Normalized(evidence), i, Kept(i))
            BY <1>2, <1>4, <3>1, StoredNormalized
        <3>3. QED
            BY <1>1, <1>4, <3>2
    <2>2. QED
        BY <2>1
<1>6. QED
    BY <1>1, <1>3, <1>5 DEF WholeInv

\* Every step keeps it.
LEMMA NextWholeInv == OneOfAKind /\ TypeInv /\ WholeInv /\ [Next]_vars => WholeInv'
<1> SUFFICES ASSUME OneOfAKind, TypeInv, WholeInv, [Next]_vars
             PROVE  WholeInv'
    OBVIOUS
<1>1. ASSUME RunFails, step # "query" PROVE WholeInv'
    BY <1>1, WholeFrame DEF RunFails, history
<1>2. ASSUME CallFails PROVE WholeInv'
    BY <1>1, <1>2, FailsCollecting DEF CallFails
<1>3. CASE Start
    BY <1>3, WholeFrame DEF Start, history
<1>4. CASE Cancel
    BY <1>4, WholeFrame DEF Cancel, progress, history
<1>5. CASE NextCollector
    BY <1>5, StartsCollecting
<1>6. CASE CollectingStops
    BY <1>6, <1>1 DEF CollectingStops
<1>7. CASE EndOfCollector
    BY <1>7, EndsCollecting
<1>8. CASE \E answer \in (IF step = "query" THEN Answers[Collectors[at]] ELSE {}) : Answered(answer)
    BY <1>8, CollectsAnswer
<1>9. CASE Send
    BY <1>9, WholeFrame DEF Send, history
<1>10. CASE Abandon
    BY <1>10, <1>2 DEF Abandon
<1>11. ASSUME NEW failure, Backoff(failure) PROVE WholeInv'
    BY <1>11, WholeFrame DEF Backoff, history
<1>12. ASSUME NEW failure, GiveUp(failure) PROVE WholeInv'
    BY <1>12, <1>2 DEF GiveUp
<1>13. CASE Normalize
    BY <1>13, NumbersEvidence
<1>14. ASSUME NEW payload, Generated(payload) PROVE WholeInv'
    BY <1>14, WholeFrame DEF Generated, history
<1>15. CASE Save
    BY <1>15, WholeFrame DEF Save, history
<1>16. CASE SaveFails
    BY <1>16, <1>1 DEF SaveFails
<1>17. CASE UNCHANGED vars
    BY <1>17, WholeFrame DEF vars, progress, history
<1>18. QED
    BY <1>3, <1>4, <1>5, <1>6, <1>7, <1>8, <1>9, <1>10, <1>11, <1>12, <1>13, <1>14,
       <1>15, <1>16, <1>17 DEF Next

\* At the end every collector is finished.
LEMMA WholeHolds == TypeInv /\ OutcomeInv /\ WholeInv => WholeOrNothing
<1> SUFFICES ASSUME TypeInv, OutcomeInv, WholeInv, step = "done", NEW i \in DOMAIN Collectors
             PROVE  LET stored == Items(result.evidence, InOrder(PlacesOf(result.evidence, i)))
                    IN  IF i \in missed THEN stored = <<>>
                        ELSE /\ Len(stored) = Len(given[i])
                             /\ \A j \in DOMAIN stored :
                                  stored[j] = Marked(given[i][j], stored[j].id,
                                                     stored[j].severity)
    BY DEF WholeOrNothing, Marked
<1>1. evidence \in Seq(Evidence) /\ result.evidence = evidence
    BY ResultFollows
<1>2. given[i] \in Seq(Evidence)
    BY DEF TypeInv, TypeOK
<1>3. Finished = Len(Collectors) /\ i <= Finished
    <2>1. at = Len(Collectors) /\ Finished = at
        BY DEF WholeInv, Finished
    <2>2. i \in 1..Len(Collectors)
        BY DiagnosisAssumption, LenProperties
    <2>3. QED
        BY <2>1, <2>2
<1>4. Stored(evidence, i, Kept(i)) /\ Kept(i) \in Seq(Evidence)
    BY <1>2 DEF WholeInv, Kept
<1>5. CASE i \in missed
    <2>1. Kept(i) = <<>>
        BY <1>5 DEF Kept
    <2>2. QED
        BY <1>1, <1>4, <1>5, <2>1, StoredIsGiven
<1>6. CASE i \notin missed
    <2>1. Kept(i) = given[i]
        BY <1>3, <1>6 DEF Kept
    <2>2. QED
        BY <1>1, <1>4, <1>6, <2>1, StoredIsGiven
<1>7. QED
    BY <1>5, <1>6

\* Of a provider that failed nothing is stored, of any other all that it
\* answered, in its order.
THEOREM AllOrNothing == OneOfAKind => (Spec => []WholeOrNothing)
<1> SUFFICES ASSUME OneOfAKind PROVE Spec => []WholeOrNothing
    OBVIOUS
<1>1. TypeInv /\ WholeInv /\ [Next]_vars => WholeInv'
    BY NextWholeInv
<1>2. QED
    BY SpecInvariants, InitWholeInv, <1>1, WholeHolds, PTL DEF Spec

-----------------------------------------------------------------------------
(* A run that was cut short.                                                *)

\* A collector is cut short only when the context is done, and from then on no
\* call of the LLM is sent: none is under way when the run comes to it.
CutInv ==
    /\ cut => canceled
    /\ step \in {"idle", "collect"} => call = "none"
    /\ step = "generate" /\ cut => call = "none"
    /\ step \in {"save", "done"} => ~cut

\* Nothing has been collected before the run starts.
LEMMA InitCutInv == Init => CutInv
BY DEF Init, CutInv

\* Every step keeps it: a call is sent only while the context is not done.
LEMMA NextCutInv == CutInv /\ [Next]_vars => CutInv'
<1> SUFFICES ASSUME CutInv, [Next]_vars
             PROVE  CutInv'
    OBVIOUS
<1>1. CASE Start
    BY <1>1 DEF Start, CutInv, history
<1>2. CASE Cancel
    BY <1>2 DEF Cancel, CutInv, progress, history
<1>3. ASSUME RunFails PROVE CutInv'
    BY <1>3 DEF RunFails, CutInv, history
<1>4. ASSUME CollectorFails PROVE CutInv'
    BY <1>4 DEF CollectorFails, CutInv
<1>5. ASSUME CallFails PROVE CutInv'
    BY <1>5, <1>3, <1>4 DEF CallFails
<1>6. CASE NextCollector
    BY <1>6 DEF NextCollector, CutInv, history
<1>7. CASE CollectingStops
    BY <1>7, <1>3 DEF CollectingStops
<1>8. CASE EndOfCollector
    BY <1>8 DEF EndOfCollector, CutInv, history
<1>9. ASSUME NEW answer, Answered(answer) PROVE CutInv'
    BY <1>9 DEF Answered, CutInv
<1>10. CASE Send
    BY <1>10 DEF Send, Calling, Interrupted, CutInv, history
<1>11. CASE Abandon
    BY <1>11, <1>5 DEF Abandon
<1>12. ASSUME NEW failure, Backoff(failure) PROVE CutInv'
    BY <1>12 DEF Backoff, CutInv, history
<1>13. ASSUME NEW failure, GiveUp(failure) PROVE CutInv'
    BY <1>13, <1>5 DEF GiveUp
<1>14. CASE Normalize
    BY <1>14 DEF Normalize, CutInv, history
<1>15. ASSUME NEW payload, Generated(payload) PROVE CutInv'
    BY <1>15 DEF Generated, CutInv, history
<1>16. CASE Save
    BY <1>16 DEF Save, CutInv, history
<1>17. CASE SaveFails
    BY <1>17, <1>3 DEF SaveFails
<1>18. CASE UNCHANGED vars
    BY <1>18 DEF vars, progress, history, CutInv
<1>19. QED
    BY <1>1, <1>2, <1>6, <1>7, <1>8, <1>9, <1>10, <1>11, <1>12, <1>13, <1>14, <1>15,
       <1>16, <1>17, <1>18 DEF Next

\* An analysis whose run was canceled while a provider was asked is not stored
\* with the evidence of the others, whatever the providers and the LLM do
\* (composite/signal_collector.go, retry.go).
THEOREM CutShortIsLost == Spec => []CutShortIsNotStored
<1>1. CutInv => CutShortIsNotStored
    BY DEF CutInv, CutShortIsNotStored
<1>2. QED
    BY <1>1, InitCutInv, NextCutInv, PTL DEF Spec
=============================================================================
