---------------------------- MODULE AnalysisList ----------------------------
(***************************************************************************)
(* The lists of analyses: GET /v1/analyses with its filters, orders and     *)
(* pages, and the counts of /v1/analyses/stats and /v1/services, over both  *)
(* repositories of analyses, while analyses are stored and deleted.         *)
(*                                                                         *)
(* A client walks through a list: it asks for a page and follows the link   *)
(* to the next one until there is none.                                     *)
(***************************************************************************)
EXTENDS Integers, FiniteSets

CONSTANTS
    Id, Service,      \* numbers, in the order of the strings they stand for
    Collation,        \* where the database sorts the names of services
    Provider, Word,   \* provider names; texts a summary or an id may contain
    Wild,             \* a text that is nothing but wildcards to ILIKE
    NotGiven,              \* a filter that is not given
    Stores,           \* the repositories considered
    Contents,         \* what analyses say
    Queries,          \* what clients ask for
    Keeps,            \* how many analyses a purge keeps
    Limits,           \* what GET /v1/services is asked for
    DefaultLimit, MaxLimit,   \* of a page
    StatsFetch, TopCount,     \* analyses and services the statistics look at
    Day,              \* length of a day
    Int32Max, Int64Max,
    MaxTime, MaxWrites        \* bounds of the model

Severity == {"info", "low", "medium", "high", "critical"}

Confidence == {"low", "medium", "high"}

Signal == {"logs", "metrics", "traces", "apm"}

Content == [severity : Severity, confidence : Confidence, services : SUBSET Service,
            evidence : SUBSET [signal : Signal, provider : Provider],
            words : SUBSET Word]

Time == 0..MaxTime

Filter == [severity : Severity \cup {NotGiven}, service : Service \cup {NotGiven},
           signal : Signal \cup {NotGiven}, provider : Provider \cup {NotGiven},
           from : Time \cup {NotGiven}, to : Time \cup {NotGiven},
           text : Word \cup {Wild, NotGiven}]

\* What the handler reads from the URL; a sort or an order that is not given
\* is createdAt or desc.
Query == [limit : 0..Int64Max, offset : 0..Int64Max,
          sort : {"createdAt", "severity", "confidence"},
          order : {"asc", "desc"}, filter : Filter]

ASSUME AnalysisListAssumption ==
    /\ Id \subseteq Nat /\ Service \subseteq Nat /\ IsFiniteSet(Id) /\ IsFiniteSet(Service)
    /\ Collation \in [Service -> Nat]
    /\ \A s, t \in Service : Collation[s] = Collation[t] => s = t
    /\ Stores \subseteq {"memory", "postgres"}
    /\ Contents \subseteq Content /\ Queries \subseteq Query /\ Queries # {}
    /\ Keeps \subseteq 0..Int64Max /\ Limits \subseteq 0..Int64Max
    /\ {DefaultLimit, MaxLimit, StatsFetch, TopCount, Day} \subseteq Nat \ {0}
    /\ DefaultLimit <= MaxLimit /\ MaxLimit <= Int32Max /\ Int32Max < Int64Max
    /\ TopCount <= Int32Max
    /\ {Int32Max, Int64Max, MaxTime, MaxWrites} \subseteq Nat

VARIABLES
    store,    \* the repository in use
    rows,     \* the analyses stored, by id
    writes,   \* statements that wrote so far
    walk      \* what the client is doing, see Walk

vars == <<store, rows, writes, walk>>

-----------------------------------------------------------------------------
(* Filters and orders, in memory and in SQL.                                *)

Analysis == [created : Time, about : Content]

Stored == DOMAIN rows

SeverityRank == [info |-> 0, low |-> 1, medium |-> 2, high |-> 3, critical |-> 4]

ConfidenceRank == [low |-> 1, medium |-> 2, high |-> 3]

SeverityMatches(a, f) == f.severity = NotGiven \/ a.about.severity = f.severity

ServiceMatches(a, f) == f.service = NotGiven \/ f.service \in a.about.services

SignalMatches(a, f) == f.signal = NotGiven \/ \E e \in a.about.evidence : e.signal = f.signal

ProviderMatches(a, f) ==
    f.provider = NotGiven \/ \E e \in a.about.evidence : e.provider = f.provider

TimeWindowMatches(a, f) ==
    ~(f.from # NotGiven /\ a.created < f.from) /\ ~(f.to # NotGiven /\ a.created > f.to)

TextQueryMatches(a, f) == f.text = NotGiven \/ f.text \in a.about.words

MatchesAnalysisFilter(a, f) ==
    /\ SeverityMatches(a, f) /\ ServiceMatches(a, f) /\ SignalMatches(a, f)
    /\ ProviderMatches(a, f) /\ TimeWindowMatches(a, f) /\ TextQueryMatches(a, f)

\* The bounds leave out their ends.
WhereInside(a, f) ==
    /\ f.severity \in {NotGiven, a.about.severity}
    /\ f.service \in {NotGiven} \cup a.about.services
    /\ f.from = NotGiven \/ a.created > f.from
    /\ f.to = NotGiven \/ a.created < f.to
    /\ f.text \in {NotGiven, Wild} \cup a.about.words
    /\ f.signal \in {NotGiven} \cup {e.signal : e \in a.about.evidence}
    /\ f.provider \in {NotGiven} \cup {e.provider : e \in a.about.evidence}

\* The WHERE clause.
Where(a, f) ==
    /\ f.severity \in {NotGiven, a.about.severity}
    /\ f.service \in {NotGiven} \cup a.about.services
    /\ f.from = NotGiven \/ a.created >= f.from
    /\ f.to = NotGiven \/ a.created <= f.to
    /\ f.text \in {NotGiven, Wild} \cup a.about.words
    /\ f.signal \in {NotGiven} \cup {e.signal : e \in a.about.evidence}
    /\ f.provider \in {NotGiven} \cup {e.provider : e \in a.about.evidence}

InMemory(f) == {i \in Stored : MatchesAnalysisFilter(rows[i], f)}

Selected(f) == {i \in Stored : Where(rows[i], f)}

Rank(i, sort) ==
    CASE sort = "createdAt"  -> rows[i].created
      [] sort = "severity"   -> SeverityRank[rows[i].about.severity]
      [] sort = "confidence" -> ConfidenceRank[rows[i].about.confidence]

\* analysisSortStrategies: the id decides between equals ...
AnalysisLess(i, j, sort) ==
    \/ Rank(i, sort) < Rank(j, sort)
    \/ Rank(i, sort) = Rank(j, sort) /\ i < j

\* ... and is turned around with the rest; by default the newest come first.
SortedBefore(i, j, q) ==
    IF q.order = "asc" THEN AnalysisLess(i, j, q.sort) ELSE AnalysisLess(j, i, q.sort)

\* ORDER BY: the id always ascends.
OrderedBefore(i, j, q) ==
    \/ q.order = "asc" /\ Rank(i, q.sort) < Rank(j, q.sort)
    \/ q.order = "desc" /\ Rank(i, q.sort) > Rank(j, q.sort)
    \/ Rank(i, q.sort) = Rank(j, q.sort) /\ i < j

-----------------------------------------------------------------------------
(* Pages.                                                                   *)

\* A limit that is not given stays zero.
NotDefaulted(q) ==
    [q EXCEPT !.limit = IF @ > MaxLimit THEN MaxLimit ELSE @]

\* normalizeAnalysisListFilter.
Normalized(q) ==
    [q EXCEPT !.limit = IF @ = 0 THEN DefaultLimit
                        ELSE IF @ > MaxLimit THEN MaxLimit ELSE @]

\* Conversions to 32 and 64 bits.
Int32(n) == ((n + Int32Max + 1) % (2 * (Int32Max + 1))) - (Int32Max + 1)

Int64(n) == ((n + Int64Max + 1) % (2 * (Int64Max + 1))) - (Int64Max + 1)

MemoryPosition(i, q) == Cardinality({j \in InMemory(q.filter) : SortedBefore(j, i, q)})

MemoryPage(q) ==
    {i \in InMemory(q.filter) : MemoryPosition(i, q) \in q.offset..(q.offset + q.limit - 1)}

SQLPosition(i, q) == Cardinality({j \in Selected(q.filter) : OrderedBefore(j, i, q)})

\* LIMIT and OFFSET are int32 parameters.
SQLPage(q) ==
    {i \in Selected(q.filter) :
       SQLPosition(i, q) \in Int32(q.offset)..(Int32(q.offset) + q.limit - 1)}

\* Instead of the offset of the next page.
NoLink == -(Int64Max + 2)

\* A page starts where only one more would be left: no link.
EndsEarly(q, total) ==
    LET next == Int64(q.offset + q.limit)
    IN  IF q.limit <= 0 \/ next + 1 >= total THEN NoLink ELSE next

\* toPagination.
NextOffset(q, total) ==
    LET next == Int64(q.offset + q.limit)
    IN  IF q.limit <= 0 \/ next >= total THEN NoLink ELSE next

-----------------------------------------------------------------------------
(* Statistics.                                                              *)

\* The parameters of parseAnalysisStatsFilter.
StatsFilter(f) == [f EXCEPT !.signal = NotGiven, !.provider = NotGiven, !.text = NotGiven]

\* The newest analyses that match, as many as are fetched.
Fetched(f) ==
    MemoryPage([limit |-> StatsFetch, offset |-> 0, sort |-> "createdAt",
                order |-> "desc", filter |-> f])

\* The names an analysis carries are distinct, trimmed and not empty: filterKnown
\* of llmguard lets no other through.
Mentions(s, ids) == Cardinality({i \in ids : s \in rows[i].about.services})

\* topServiceCounts: how often the most mentioned are, and between equals the
\* names that are sorted first.
TopServices(ids, found, top, sorted) ==
    LET counts == {s \in found : Mentions(s, ids) > 0}
        ahead(t) == {s \in counts : \/ Mentions(s, ids) > Mentions(t, ids)
                                    \/ /\ Mentions(s, ids) = Mentions(t, ids)
                                       /\ sorted[s] < sorted[t]}
    IN  [s \in {t \in counts : Cardinality(ahead(t)) < top} |-> Mentions(s, ids)]

\* How Go compares names, byte by byte.
ByBytes == [s \in Service |-> s]

Histogram(ids, of(_), values) ==
    [v \in values |-> Cardinality({i \in ids : of(i) = v})]

Days == {t \div Day : t \in Time}

ComputeAnalysisStats(ids) ==
    [total        |-> Cardinality(ids),
     bySeverity   |-> Histogram(ids, LAMBDA i : rows[i].about.severity, Severity),
     byConfidence |-> Histogram(ids, LAMBDA i : rows[i].about.confidence, Confidence),
     top          |-> TopServices(ids, Service, TopCount, ByBytes),
     trend        |-> Histogram(ids, LAMBDA i : rows[i].created \div Day, Days)]

\* Stats in memory.
MemoryStats(f) == ComputeAnalysisStats(Fetched(StatsFilter(f)))

\* The queries behind the statistics, each over all rows; of the names an
\* autocompletion finds.
AnalysesSeverityHistogram(f) ==
    [v \in Severity |-> Cardinality({i \in Selected(f) : rows[i].about.severity = v})]

AnalysesConfidenceHistogram(f) ==
    [v \in Confidence |-> Cardinality({i \in Selected(f) : rows[i].about.confidence = v})]

\* The LIMIT is an int32 parameter.
AnalysesTopServices(f, found, limit) ==
    TopServices(Selected(f), found, Int32(limit), Collation)

AnalysesTrendBuckets(f) ==
    [d \in Days |-> Cardinality({i \in Selected(f) : rows[i].created \div Day = d})]

\* AnalysisStats: the total is the sum of the severities.
SQLStats(f) ==
    LET part == StatsFilter(f)
        bySeverity == AnalysesSeverityHistogram(part)
    IN  [total        |-> bySeverity["info"] + bySeverity["low"] + bySeverity["medium"]
                            + bySeverity["high"] + bySeverity["critical"],
         bySeverity   |-> bySeverity,
         byConfidence |-> AnalysesConfidenceHistogram(part),
         top          |-> AnalysesTopServices(part, Service, TopCount),
         trend        |-> AnalysesTrendBuckets(part)]

NoFilter == [f \in {"severity", "service", "signal", "provider", "from", "to", "text"} |-> NotGiven]

\* Services: a limit that is not given is zero, any other is taken as it is.
ServiceLimit(limit) == IF limit = 0 THEN TopCount ELSE limit

\* Services in memory; the answer has the names only.
MemoryServices(found, limit) ==
    TopServices(Fetched(NoFilter), found, ServiceLimit(limit), ByBytes)

\* ListAffectedServices; a LIMIT below zero fails.
SQLServices(found, limit) == AnalysesTopServices(NoFilter, found, ServiceLimit(limit))

-----------------------------------------------------------------------------
(* The walk.                                                                *)

\* asked: the page has been asked for; counted: CountAnalyses has returned;
\* answered: there is a link; done; failed.  start: what it had to show when
\* it began; shown: how often each analysis was; still: nothing was written
\* since it began; growing: only new analyses were stored, none of them
\* between the two statements of a page.
Walk == [step : {"idle", "asked", "counted", "answered", "done", "failed"},
         query : Queries, at : Int, total : Nat,
         start : SUBSET Id, shown : [Id -> Nat], still : BOOLEAN, growing : BOOLEAN]

\* The query as the page at hand asks it.
Page(w) == Normalized([w.query EXCEPT !.offset = w.at])

Position(i, q) == IF store = "memory" THEN MemoryPosition(i, q) ELSE SQLPosition(i, q)

Matching(f) == IF store = "memory" THEN InMemory(f) ELSE Selected(f)

Start(q) ==
    [step |-> "asked", query |-> q, at |-> q.offset, total |-> 0,
     start |-> {i \in Matching(q.filter) : Position(i, q) >= q.offset},
     shown |-> [i \in Id |-> 0], still |-> TRUE, growing |-> TRUE]

Resting(q) == [Start(q) EXCEPT !.step = "idle", !.at = 0, !.start = {}]

TypeOK ==
    /\ store \in Stores
    /\ Stored \subseteq Id
    /\ \A i \in Stored : rows[i].created \in Time /\ rows[i].about \in Contents
    /\ writes \in 0..MaxWrites
    /\ walk \in Walk

Init ==
    /\ store \in Stores
    /\ rows = [i \in {} |-> {}]
    /\ writes = 0
    /\ walk = Resting(CHOOSE q \in Queries : TRUE)

\* handleListAnalyses reads the parameters.
Ask(q) ==
    /\ walk.step \in {"idle", "done", "failed"}
    /\ walk' = Start(q)
    /\ UNCHANGED <<store, rows, writes>>

\* The page is answered with its total and link.
Answer(ids, total) ==
    LET link == NextOffset(Page(walk), total)
    IN  walk' = [walk EXCEPT !.step = IF link = NoLink THEN "done" ELSE "answered",
                             !.at = IF link = NoLink THEN @ ELSE link,
                             !.total = total,
                             !.shown = [i \in Id |-> @[i] + IF i \in ids THEN 1 ELSE 0]]

\* ListAnalyses in memory, under the lock.
ListInMemory ==
    /\ store = "memory" /\ walk.step = "asked"
    /\ Answer(MemoryPage(Page(walk)), Cardinality(InMemory(walk.query.filter)))
    /\ UNCHANGED <<store, rows, writes>>

\* ListAnalyses over Postgres: two statements, each of its own.
CountAnalyses ==
    /\ store = "postgres" /\ walk.step = "asked"
    /\ walk' = [walk EXCEPT !.step = "counted",
                            !.total = Cardinality(Selected(walk.query.filter))]
    /\ UNCHANGED <<store, rows, writes>>

ListAnalyses ==
    /\ walk.step = "counted" /\ Int32(walk.at) >= 0
    /\ Answer(SQLPage(Page(walk)), walk.total)
    /\ UNCHANGED <<store, rows, writes>>

\* A statement fails; an OFFSET below zero always does.
StatementFails ==
    /\ store = "postgres" /\ walk.step \in {"asked", "counted"}
    /\ walk' = [walk EXCEPT !.step = "failed"]
    /\ UNCHANGED <<store, rows, writes>>

\* The client follows the link; an offset below zero is refused.
Follow ==
    /\ walk.step = "answered"
    /\ walk' = [walk EXCEPT !.step = IF walk.at < 0 THEN "failed" ELSE "asked"]
    /\ UNCHANGED <<store, rows, writes>>

-----------------------------------------------------------------------------
(* What is written meanwhile.                                               *)

Disturbed(grows) ==
    walk' = [walk EXCEPT !.still = FALSE,
                         !.growing = @ /\ grows /\ walk.step # "counted"]

\* The time an analysis carries was read before it is stored, by a clock of
\* whatever instance ran it; a run that is repeated stores it again.
Save(i, created, about) ==
    /\ writes < MaxWrites
    /\ writes' = writes + 1
    /\ rows' = [j \in Stored \cup {i} |->
                  IF j = i THEN [created |-> created, about |-> about] ELSE rows[j]]
    /\ Disturbed(i \notin Stored)
    /\ UNCHANGED store

Delete(ids) ==
    /\ store = "postgres" /\ writes < MaxWrites
    /\ writes' = writes + 1
    /\ rows' = [i \in Stored \ ids |-> rows[i]]
    /\ Disturbed(FALSE)
    /\ UNCHANGED store

\* Retention needs Postgres.
DeleteByID(i) == i \in Stored /\ Delete({i})

OlderThan(cutoff) == {i \in Stored : rows[i].created < cutoff}

DeleteOlderThan(cutoff) == Delete(OlderThan(cutoff))

\* The orders ORDER BY created_at DESC may put the analyses in: those of the
\* same age come in any.
AgeOrders ==
    {place \in [Stored -> 1..Cardinality(Stored)] :
       \A i, j \in Stored : /\ place[i] = place[j] => i = j
                            /\ rows[i].created > rows[j].created => place[i] < place[j]}

\* Before the order by age starts with the oldest.
OverflowOfOldest(keep) ==
    {{i \in Stored : Cardinality(Stored) - place[i] >= Int32(keep)} : place \in AgeOrders}

\* What the subquery may select: all behind its OFFSET, an int32 parameter.
Overflow(keep) ==
    {{i \in Stored : place[i] > Int32(keep)} : place \in AgeOrders}

\* An offset below zero fails, a keep of zero is refused.
DeleteKeepingNewest(keep) ==
    /\ keep > 0 /\ Int32(keep) >= 0
    /\ \E ids \in Overflow(keep) : Delete(ids)

\* The previews: what a purge would delete now.
CountOlderThan(cutoff) == Cardinality(OlderThan(cutoff))

\* What CountAnalysesExceedingNewest may count: its subquery is its own, in an
\* order of its own.
CountExceedingNewest(keep) == {Cardinality(ids) : ids \in Overflow(keep)}

Next ==
    \/ \E q \in Queries : Ask(q)
    \/ ListInMemory \/ CountAnalyses \/ ListAnalyses \/ StatementFails \/ Follow
    \/ \E i \in Id, created \in Time, about \in Contents : Save(i, created, about)
    \/ \E i \in Id : DeleteByID(i)
    \/ \E cutoff \in Time : DeleteOlderThan(cutoff)
    \/ \E keep \in Keeps : DeleteKeepingNewest(keep)

Spec == Init /\ [][Next]_vars

-----------------------------------------------------------------------------
(* Properties.                                                              *)

\* Where the code keeps the offset asked for: neither int32(offset) nor the
\* offset of the next page leaves its width.
Fits(q) == q.offset <= Int32Max

\* A walk through analyses nobody writes shows each one that matches, from the
\* offset on, exactly once, and the total counts them all: the order is strict
\* among equals, pages are disjoint, and the links neither skip nor stop early
\* (ListAnalyses, toPagination).
QuietWalkIsExact ==
    walk.step = "done" /\ walk.still /\ Fits(walk.query) =>
      /\ walk.shown = [i \in Id |-> IF i \in walk.start THEN 1 ELSE 0]
      /\ walk.total = Cardinality(Matching(walk.query.filter))

\* A walk misses nothing that was there when it began while other analyses are
\* stored for the first time, wherever they come in the order: they can only
\* push analyses on to later pages - as long as none comes between the count
\* and the rows of a page (ListAnalyses over Postgres).
InsertionsHideNothing ==
    walk.step = "done" /\ walk.growing /\ Fits(walk.query) =>
      \A i \in walk.start : walk.shown[i] > 0

\* How many services are shown with a count.
Shown(top, n) == Cardinality({s \in DOMAIN top : top[s] = n})

\* Both repositories give the same answers: the same page for an ascending
\* order, pages of the same ranks for a descending one, where equals come the
\* other way round.  As long as memory fetches all that match: the same
\* statistics, and as many services of each count, whatever collation decides
\* between names mentioned equally often.  So does GET /v1/services, for a
\* limit that fits 32 bits; beyond, nothing clamps it, and what Postgres still
\* answers leaves services out but never shows more.  Wildcards are left apart.
BackendsAgree ==
    LET p == Normalized(walk.query)
    IN  p.filter.text # Wild /\ Fits(p) =>
          /\ p.order = "asc" => MemoryPage(p) = SQLPage(p)
          /\ \A r \in 0..MaxTime + 4 :
               Cardinality({i \in MemoryPage(p) : Rank(i, p.sort) = r})
                 = Cardinality({i \in SQLPage(p) : Rank(i, p.sort) = r})
          /\ Cardinality(Selected(StatsFilter(p.filter))) <= StatsFetch =>
               LET inMemory == MemoryStats(p.filter)
                   inSQL == SQLStats(p.filter)
               IN  /\ [inMemory EXCEPT !.top = inSQL.top] = inSQL
                   /\ \A n \in 1..Cardinality(Id) : Shown(inMemory.top, n) = Shown(inSQL.top, n)
          /\ Cardinality(Stored) <= StatsFetch =>
               \A found \in SUBSET Service, limit \in Limits :
                 LET inMemory == MemoryServices(found, limit)
                     inSQL == SQLServices(found, limit)
                 IN  \A n \in 1..Cardinality(Id) :
                       /\ limit <= Int32Max => Shown(inSQL, n) = Shown(inMemory, n)
                       /\ Int32(limit) >= 0 => Shown(inSQL, n) <= Shown(inMemory, n)

\* A purge deletes what its preview announces, although the two subqueries may
\* order ties differently, and even where a number to keep beyond 32 bits is
\* narrowed; it deletes none that is newer than one it keeps; and a number that
\* fits is what stays, or all there is (CountAnalysesExceedingNewest,
\* DeleteAnalysesKeepingNewest).
PurgesAsPreviewed ==
    [][/\ \A cutoff \in Time :
             DeleteOlderThan(cutoff) =>
               Cardinality(Stored) = Cardinality(Stored') + CountOlderThan(cutoff)
       /\ \A keep \in Keeps :
             DeleteKeepingNewest(keep) =>
               /\ \A n \in CountExceedingNewest(keep) :
                    Cardinality(Stored) = Cardinality(Stored') + n
               /\ \A i \in Stored', j \in Stored \ Stored' :
                     rows[i].created >= rows[j].created
               /\ keep <= Int32Max => Cardinality(Stored') = keep \/ Stored' = Stored]_vars
=============================================================================
