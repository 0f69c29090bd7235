------------------------- MODULE AnalysisListProofs -------------------------
(***************************************************************************)
(* Lists of any number of analyses, over both repositories, while analyses  *)
(* are stored and deleted: types; purges do what their previews announce;   *)
(* a walk misses nothing that was there when it began while analyses are    *)
(* only added, and is exact while nothing is written; and both repositories *)
(* give the same answers.                                                   *)
(*                                                                         *)
(* The argument: an analysis has the position that counts those before it   *)
(* (PositionCounts), a page shows the positions from its offset on          *)
(* (PageShows), a new analysis pushes others back and never forward         *)
(* (PositionsGrow), and so what is not shown is always ahead (WalkInv).     *)
(* The repositories order equals differently, but the places of equals are  *)
(* the same ones (PlacesAreConsecutive).                                    *)
(***************************************************************************)
EXTENDS AnalysisList, TLAPS, FiniteSetTheorems

-----------------------------------------------------------------------------
(* Queries, conversions and links.                                          *)

\* What a page asks for at some offset.
Moved(q, at) == [q EXCEPT !.offset = at]

\* What a client asks for has its type.
LEMMA QueryTypes ==
    ASSUME NEW q \in Queries
    PROVE  /\ q.limit \in 0..Int64Max /\ q.offset \in 0..Int64Max
           /\ q.sort \in {"createdAt", "severity", "confidence"}
           /\ q.order \in {"asc", "desc"} /\ q.filter \in Filter
           /\ q \in Query
BY AnalysisListAssumption DEF Query

\* A page has at least one place, and follows the order of the query.
LEMMA PageOfQuery ==
    ASSUME NEW q \in Queries, NEW at \in Int
    PROVE  LET p == Normalized([q EXCEPT !.offset = at])
           IN  /\ p.limit \in 1..MaxLimit /\ p.offset = at
               /\ p.sort = q.sort /\ p.order = q.order /\ p.filter = q.filter
<1> DEFINE Asked == [limit : 0..Int64Max, offset : Int,
                     sort : {"createdAt", "severity", "confidence"},
                     order : {"asc", "desc"}, filter : Filter]
<1>1. q \in Query
    BY QueryTypes
<1>2. /\ Moved(q, at) \in Asked
      /\ Moved(q, at).offset = at /\ Moved(q, at).sort = q.sort
      /\ Moved(q, at).order = q.order /\ Moved(q, at).filter = q.filter
    BY <1>1 DEF Moved, Query
<1>3. ASSUME NEW m \in Asked
      PROVE  /\ Normalized(m).limit = IF m.limit = 0 THEN DefaultLimit
                                      ELSE IF m.limit > MaxLimit THEN MaxLimit ELSE m.limit
             /\ Normalized(m).offset = m.offset /\ Normalized(m).sort = m.sort
             /\ Normalized(m).order = m.order /\ Normalized(m).filter = m.filter
    BY DEF Normalized
<1>4. \A m \in Asked : Normalized(m).limit \in 1..MaxLimit
    <2>1. /\ DefaultLimit \in Nat \ {0} /\ MaxLimit \in Nat \ {0} /\ DefaultLimit <= MaxLimit
          /\ Int64Max \in Nat
        BY AnalysisListAssumption
    <2>2. ASSUME NEW m \in Asked PROVE Normalized(m).limit \in 1..MaxLimit
        <3>1. m.limit \in Nat
            BY <2>1
        <3>2. QED
            BY <1>3, <2>1, <3>1
    <2>3. QED
        BY <2>2
<1>5. [q EXCEPT !.offset = at] = Moved(q, at)
    BY DEF Moved
<1> HIDE DEF Asked
<1>6. QED
    BY <1>2, <1>3, <1>4, <1>5

\* Conversions leave alone what fits.
LEMMA ConversionsFit ==
    /\ \A n \in Int : Int32(n) \in Int /\ Int64(n) \in Int
    /\ \A n \in 0..Int32Max : Int32(n) = n
    /\ \A n \in 0..Int64Max : Int64(n) = n
<1>1. Int32Max \in Nat /\ Int64Max \in Nat
    BY AnalysisListAssumption
<1>2. \A n \in Int, M \in Nat : (n + M + 1) % (2 * (M + 1)) \in Int
    <2>1. \A M \in Nat : 2 * (M + 1) \in Nat \ {0}
        OBVIOUS
    <2>2. \A k \in Int, m \in Nat \ {0} : k % m \in Int
        OBVIOUS
    <2>3. QED
        BY <2>1, <2>2
<1>3. \A M \in Nat : \A n \in 0..M : ((n + M + 1) % (2 * (M + 1))) - (M + 1) = n
    <2>1. \A k \in Nat, m \in Nat \ {0} : k < m => k % m = k
        OBVIOUS
    <2>2. \A M \in Nat : \A n \in 0..M : n + M + 1 \in Nat /\ 2 * (M + 1) \in Nat \ {0}
                                         /\ n + M + 1 < 2 * (M + 1)
        OBVIOUS
    <2>3. \A M \in Nat : \A n \in 0..M : (n + M + 1) % (2 * (M + 1)) = n + M + 1
        BY <2>1, <2>2
    <2>4. QED
        BY <2>3
<1>4. QED
    BY <1>1, <1>2, <1>3 DEF Int32, Int64

-----------------------------------------------------------------------------
(* Types.                                                                   *)

\* What is stored can be counted.
LEMMA StoredIsFinite ==
    ASSUME TypeOK
    PROVE  /\ IsFiniteSet(Stored) /\ Cardinality(Stored) \in Nat
           /\ Stored \subseteq Nat
BY AnalysisListAssumption, FS_Subset, FS_CardinalityType DEF TypeOK

\* The next page starts behind this one, or there is none.
LEMMA LinkTypes ==
    ASSUME NEW q, q.limit \in 1..MaxLimit, q.offset \in Int, NEW total \in Int
    PROVE  /\ NextOffset(q, total) \in Int
           /\ NextOffset(q, total) = NoLink => Int64(q.offset + q.limit) >= total
           /\ NextOffset(q, total) # NoLink =>
                NextOffset(q, total) = Int64(q.offset + q.limit)
                /\ Int64(q.offset + q.limit) < total
<1>1. MaxLimit \in Nat /\ Int64Max \in Nat
    BY AnalysisListAssumption
<1>2. q.limit \in Int /\ q.offset + q.limit \in Int /\ ~(q.limit <= 0)
    BY <1>1
<1>3. Int64(q.offset + q.limit) \in Int
    BY <1>2, ConversionsFit
<1>4. NoLink \in Int
    BY <1>1 DEF NoLink
<1>5. \A n \in Int : Int64(n) # NoLink
    <2>1. \A n \in Int, M \in Nat : (n + M + 1) % (2 * (M + 1)) >= 0
        <3>1. \A M \in Nat : 2 * (M + 1) \in Nat \ {0}
            OBVIOUS
        <3>2. \A k \in Int, m \in Nat \ {0} : k % m >= 0
            OBVIOUS
        <3>3. QED
            BY <3>1, <3>2
    <2>2. \A n \in Int : (n + Int64Max + 1) % (2 * (Int64Max + 1)) \in Int
        BY <1>1
    <2>3. QED
        BY <1>1, <2>1, <2>2 DEF Int64, NoLink
<1>6. QED
    BY <1>2, <1>3, <1>4, <1>5 DEF NextOffset

\* A client that has not asked yet.
LEMMA RestingTypes ==
    ASSUME NEW q \in Queries
    PROVE  /\ Resting(q) \in Walk
           /\ Resting(q).step = "idle" /\ Resting(q).start = {} /\ Resting(q).query = q
<1> DEFINE due == {i \in Matching(q.filter) : Position(i, q) >= q.offset}
           none == [i \in Id |-> 0]
           start == Start(q)
<1>1. start = [step |-> "asked", query |-> q, at |-> q.offset, total |-> 0,
               start |-> due, shown |-> none, still |-> TRUE, growing |-> TRUE]
    BY DEF Start
<1>2. none \in [Id -> Nat] /\ {} \subseteq Id
    OBVIOUS
<1>3. Resting(q) = [start EXCEPT !.step = "idle", !.at = 0, !.start = {}]
    BY DEF Resting
<1> HIDE DEF due, none, start
<1>4. Resting(q) = [step |-> "idle", query |-> q, at |-> 0, total |-> 0,
                    start |-> {}, shown |-> none, still |-> TRUE, growing |-> TRUE]
    BY <1>1, <1>3
<1>5. QED
    BY <1>2, <1>4 DEF Walk

\* A client that asks has nothing yet.
LEMMA StartTypes ==
    ASSUME TypeOK, NEW q \in Queries
    PROVE  /\ Start(q) \in Walk
           /\ Start(q).step = "asked" /\ Start(q).query = q /\ Start(q).at = q.offset
           /\ Start(q).start = {i \in Matching(q.filter) : Position(i, q) >= q.offset}
           /\ \A i \in Id : Start(q).shown[i] = 0
<1> DEFINE due == {i \in Matching(q.filter) : Position(i, q) >= q.offset}
           none == [i \in Id |-> 0]
<1>1. q.offset \in Int
    BY QueryTypes, AnalysisListAssumption
<1>2. Matching(q.filter) \subseteq Id
    BY DEF Matching, InMemory, Selected, TypeOK
<1>3. due \subseteq Id /\ none \in [Id -> Nat] /\ \A i \in Id : none[i] = 0
    BY <1>2
<1>4. Start(q) = [step |-> "asked", query |-> q, at |-> q.offset, total |-> 0,
                  start |-> due, shown |-> none, still |-> TRUE, growing |-> TRUE]
    BY DEF Start
<1>5. due = {i \in Matching(q.filter) : Position(i, q) >= q.offset}
    OBVIOUS
<1> HIDE DEF due, none
<1>6. Start(q) \in Walk
    BY <1>1, <1>3, <1>4 DEF Walk
<1>7. /\ Start(q).step = "asked" /\ Start(q).query = q /\ Start(q).at = q.offset
      /\ Start(q).start = due /\ Start(q).shown = none
    BY <1>4
<1>8. QED
    BY <1>3, <1>5, <1>6, <1>7

\* A page that is answered shows its analyses once more.
LEMMA AnswerTypes ==
    ASSUME TypeOK, NEW ids, NEW total \in Nat, Answer(ids, total)
    PROVE  LET link == NextOffset(Page(walk), total)
           IN  /\ walk' \in Walk
               /\ walk'.query = walk.query /\ walk'.total = total /\ walk'.start = walk.start
               /\ walk'.still = walk.still /\ walk'.growing = walk.growing
               /\ link = NoLink => walk'.step = "done" /\ walk'.at = walk.at
               /\ link # NoLink => walk'.step = "answered" /\ walk'.at = link
               /\ \A i \in Id : walk'.shown[i] = walk.shown[i] + IF i \in ids THEN 1 ELSE 0
<1> DEFINE link == NextOffset(Page(walk), total)
           shown == [i \in Id |-> walk.shown[i] + IF i \in ids THEN 1 ELSE 0]
           step == IF link = NoLink THEN "done" ELSE "answered"
           at == IF link = NoLink THEN walk.at ELSE link
<1>1. walk \in Walk
    BY DEF TypeOK
<1>2. walk.query \in Queries /\ walk.at \in Int /\ walk.shown \in [Id -> Nat]
    BY <1>1 DEF Walk
<1>3. Page(walk).limit \in 1..MaxLimit /\ Page(walk).offset \in Int
    BY <1>2, PageOfQuery DEF Page
<1>4. link \in Int
    BY <1>3, LinkTypes
<1>5. shown \in [Id -> Nat]
    BY <1>2
<1>6. at \in Int
    BY <1>2, <1>4
<1>7. walk' = [walk EXCEPT !.step = step, !.at = at, !.total = total, !.shown = shown]
    BY DEF Answer
<1>8. \A i \in Id : shown[i] = walk.shown[i] + IF i \in ids THEN 1 ELSE 0
    OBVIOUS
<1>9. /\ step \in {"done", "answered"}
      /\ link = NoLink => step = "done" /\ at = walk.at
      /\ link # NoLink => step = "answered" /\ at = link
    OBVIOUS
<1> HIDE DEF link, shown, step, at
<1>10. /\ walk' \in Walk
       /\ walk'.query = walk.query /\ walk'.total = total /\ walk'.start = walk.start
       /\ walk'.still = walk.still /\ walk'.growing = walk.growing
       /\ walk'.step = step /\ walk'.at = at /\ walk'.shown = shown
    BY <1>1, <1>5, <1>6, <1>7, <1>9 DEF Walk
<1>11. QED
    BY <1>8, <1>9, <1>10 DEF link

\* Whatever is written disturbs the walk and nothing else of it.
LEMMA DisturbedTypes ==
    ASSUME TypeOK, NEW grows \in BOOLEAN, Disturbed(grows)
    PROVE  /\ walk' \in Walk
           /\ walk'.step = walk.step /\ walk'.query = walk.query /\ walk'.at = walk.at
           /\ walk'.total = walk.total /\ walk'.start = walk.start /\ walk'.shown = walk.shown
           /\ walk'.still = FALSE
           /\ walk'.growing <=> walk.growing /\ grows /\ walk.step # "counted"
<1>1. walk \in Walk
    BY DEF TypeOK
<1> DEFINE growing == walk.growing /\ grows /\ walk.step # "counted"
<1>2. growing \in BOOLEAN
    OBVIOUS
<1>3. walk' = [walk EXCEPT !.still = FALSE, !.growing = growing]
    BY DEF Disturbed
<1> HIDE DEF growing
<1>4. /\ walk' \in Walk
      /\ walk'.step = walk.step /\ walk'.query = walk.query /\ walk'.at = walk.at
      /\ walk'.total = walk.total /\ walk'.start = walk.start /\ walk'.shown = walk.shown
      /\ walk'.still = FALSE /\ walk'.growing = growing
    BY <1>1, <1>2, <1>3 DEF Walk
<1>5. QED
    BY <1>4 DEF growing

\* What matches is stored and can be counted.
LEMMA MatchingTypes ==
    ASSUME TypeOK, NEW f
    PROVE  /\ InMemory(f) \subseteq Stored /\ Selected(f) \subseteq Stored
           /\ IsFiniteSet(InMemory(f)) /\ IsFiniteSet(Selected(f))
           /\ Cardinality(InMemory(f)) \in Nat /\ Cardinality(Selected(f)) \in Nat
<1>1. InMemory(f) \subseteq Stored /\ Selected(f) \subseteq Stored
    BY DEF InMemory, Selected
<1>2. QED
    BY <1>1, StoredIsFinite, FS_Subset, FS_CardinalityType

\* Nothing is stored and nobody has asked at first.
LEMMA InitTypeOK == Init => TypeOK
<1> SUFFICES ASSUME Init PROVE TypeOK
    OBVIOUS
<1>1. DOMAIN rows = {} /\ store \in Stores /\ writes = 0
    BY DEF Init
<1>2. (CHOOSE q \in Queries : TRUE) \in Queries
    BY AnalysisListAssumption
<1> DEFINE q == CHOOSE q \in Queries : TRUE
<1>4. walk = Resting(q)
    BY DEF Init
<1> HIDE DEF q
<1>5. Resting(q) \in Walk
    <2>1. q \in Queries
        BY <1>2 DEF q
    <2>2. QED
        BY <2>1, RestingTypes
<1>6. 0 \in 0..MaxWrites
    BY AnalysisListAssumption
<1>7. QED
    BY <1>1, <1>4, <1>5, <1>6 DEF TypeOK, Stored

\* What a write leaves behind is stored, with a time and a content.
LEMMA WriteTypes ==
    /\ \A i \in Id, created \in Time, about \in Contents :
         TypeOK /\ Save(i, created, about) => TypeOK'
    /\ \A ids : TypeOK /\ Delete(ids) => TypeOK'
<1>1. MaxWrites \in Nat
    BY AnalysisListAssumption
<1>2. ASSUME NEW i \in Id, NEW created \in Time, NEW about \in Contents, TypeOK,
             Save(i, created, about)
      PROVE  TypeOK'
    <2>1. /\ DOMAIN rows' = Stored \cup {i}
          /\ \A j \in Stored \cup {i} :
               rows'[j] = IF j = i THEN [created |-> created, about |-> about] ELSE rows[j]
          /\ writes < MaxWrites /\ writes' = writes + 1 /\ store' = store
        BY <1>2 DEF Save
    <2>2. walk' \in Walk
        BY <1>2, DisturbedTypes DEF Save
    <2>3. \A j \in Stored \cup {i} : rows'[j].created \in Time /\ rows'[j].about \in Contents
        BY <1>2, <2>1 DEF TypeOK
    <2>4. writes' \in 0..MaxWrites
        BY <1>1, <1>2, <2>1 DEF TypeOK
    <2>5. Stored \cup {i} \subseteq Id
        BY <1>2 DEF TypeOK
    <2>6. QED
        BY <1>2, <2>1, <2>2, <2>3, <2>4, <2>5 DEF TypeOK, Stored
<1>3. ASSUME NEW ids, TypeOK, Delete(ids) PROVE TypeOK'
    <2>1. /\ DOMAIN rows' = Stored \ ids
          /\ \A j \in Stored \ ids : rows'[j] = rows[j]
          /\ writes < MaxWrites /\ writes' = writes + 1 /\ store' = store
        BY <1>3 DEF Delete
    <2>2. Disturbed(FALSE)
        BY <1>3 DEF Delete
    <2>3. walk' \in Walk
        <3>1. \A grows \in BOOLEAN : Disturbed(grows) => walk' \in Walk
            BY <1>3, DisturbedTypes
        <3>2. QED
            BY <2>2, <3>1
    <2>4. writes' \in 0..MaxWrites
        BY <1>1, <1>3, <2>1 DEF TypeOK
    <2>5. QED
        BY <1>3, <2>1, <2>3, <2>4 DEF TypeOK, Stored
<1>4. QED
    BY <1>2, <1>3

\* Every step keeps the types.
LEMMA NextTypeOK == TypeOK /\ [Next]_vars => TypeOK'
<1> SUFFICES ASSUME TypeOK, [Next]_vars
             PROVE  TypeOK'
    OBVIOUS
<1>1. ASSUME UNCHANGED <<store, rows, writes>>, walk' \in Walk PROVE TypeOK'
    BY <1>1 DEF TypeOK, Stored
<1>2. ASSUME NEW q \in Queries, Ask(q) PROVE TypeOK'
    BY <1>1, <1>2, StartTypes DEF Ask
<1>3. CASE ListInMemory
    BY <1>1, <1>3, AnswerTypes, MatchingTypes DEF ListInMemory
<1>4. walk.total \in Nat
    BY DEF TypeOK, Walk
<1>5. CASE CountAnalyses
    <2>1. Cardinality(Selected(walk.query.filter)) \in Nat
        BY MatchingTypes
    <2>2. walk' \in Walk
        BY <1>5, <2>1 DEF CountAnalyses, TypeOK, Walk
    <2>3. QED
        BY <1>1, <1>5, <2>2 DEF CountAnalyses
<1>6. CASE ListAnalyses
    BY <1>1, <1>4, <1>6, AnswerTypes DEF ListAnalyses
<1>7. CASE StatementFails
    BY <1>1, <1>7 DEF StatementFails, TypeOK, Walk
<1>8. CASE Follow
    BY <1>1, <1>8 DEF Follow, TypeOK, Walk
<1>9. ASSUME NEW i \in Id, NEW created \in Time, NEW about \in Contents, Save(i, created, about)
      PROVE  TypeOK'
    BY <1>9, WriteTypes
<1>10. ASSUME NEW i, DeleteByID(i) PROVE TypeOK'
    BY <1>10, WriteTypes DEF DeleteByID
<1>11. ASSUME NEW cutoff, DeleteOlderThan(cutoff) PROVE TypeOK'
    BY <1>11, WriteTypes DEF DeleteOlderThan
<1>12. ASSUME NEW keep, DeleteKeepingNewest(keep) PROVE TypeOK'
    BY <1>12, WriteTypes DEF DeleteKeepingNewest
<1>13. CASE UNCHANGED vars
    BY <1>13 DEF vars, TypeOK, Stored
<1>14. QED
    BY <1>2, <1>3, <1>5, <1>6, <1>7, <1>8, <1>9, <1>10, <1>11, <1>12, <1>13 DEF Next

\* Analyses, filters, offsets and the walk keep their types, whatever is asked, written or
\* purged.
THEOREM TypeCorrect == Spec => []TypeOK
BY InitTypeOK, NextTypeOK, PTL DEF Spec

-----------------------------------------------------------------------------
(* Purges.                                                                  *)

\* A deletion takes away what it was given and nothing else.
LEMMA DeleteTakes ==
    ASSUME TypeOK, NEW ids \in SUBSET Stored, Delete(ids)
    PROVE  /\ Stored' = Stored \ ids
           /\ Cardinality(Stored) = Cardinality(Stored') + Cardinality(ids)
<1>1. Stored' = Stored \ ids
    BY DEF Delete, Stored
<1>2. IsFiniteSet(Stored) /\ Cardinality(Stored) \in Nat
    BY StoredIsFinite
<1>3. Stored \cap ids = ids
    OBVIOUS
<1>4. IsFiniteSet(ids) /\ Cardinality(ids) \in Nat
    BY <1>2, FS_Subset, FS_CardinalityType
<1>5. Cardinality(Stored \ ids) = Cardinality(Stored) - Cardinality(ids)
    BY <1>2, <1>3, FS_Difference
<1>6. QED
    BY <1>1, <1>2, <1>4, <1>5

\* A purge by age deletes as many as its preview counts.
LEMMA AgePurges ==
    ASSUME TypeOK, NEW cutoff, DeleteOlderThan(cutoff)
    PROVE  Cardinality(Stored) = Cardinality(Stored') + CountOlderThan(cutoff)
<1>1. OlderThan(cutoff) \in SUBSET Stored
    BY DEF OlderThan
<1>2. QED
    BY <1>1, DeleteTakes DEF DeleteOlderThan, CountOlderThan

\* An order of n analyses uses each place once: behind the first k there are n - k.
LEMMA BehindOffset ==
    ASSUME TypeOK, NEW place \in AgeOrders, NEW k \in Nat
    PROVE  LET n == Cardinality(Stored)
               ids == {i \in Stored : place[i] > k}
           IN  Cardinality(ids) = IF k > n THEN 0 ELSE n - k
<1> DEFINE n == Cardinality(Stored)
           T == 1..n
           ids == {i \in Stored : place[i] > k}
           W == (k + 1)..n
           f == [i \in ids |-> place[i]]
<1>1. IsFiniteSet(Stored) /\ n \in Nat
    BY StoredIsFinite
<1>2. place \in [Stored -> T] /\ \A i, j \in Stored : place[i] = place[j] => i = j
    BY DEF AgeOrders
<1>3. IsFiniteSet(T) /\ Cardinality(T) = n
    <2>1. IsFiniteSet(T) /\ Cardinality(T) = IF 1 > n THEN 0 ELSE n - 1 + 1
        BY <1>1, FS_Interval
    <2>2. QED
        BY <1>1, <2>1
<1>4. place \in Injection(Stored, T)
    BY <1>2 DEF Injection, IsInjective
<1> HIDE DEF n
<1>5. place \in Surjection(Stored, T)
    <2>1. Cardinality(Stored) = Cardinality(T)
        BY <1>3 DEF n
    <2>2. QED
        BY <1>1, <1>3, <1>4, <2>1, FS_Injection
<1>6. \A t \in T : \E i \in Stored : place[i] = t
    BY <1>5 DEF Surjection
<1>7. \A t \in Int : t \in W <=> t \in T /\ t > k
    BY <1>1
<1>8. \A i \in ids : place[i] \in W
    <2>1. T \subseteq Int
        BY <1>1
    <2>2. QED
        BY <1>2, <1>7, <2>1
<1>9. \A t \in W : \E i \in ids : place[i] = t
    <2>1. W \subseteq Int
        BY <1>1
    <2>2. QED
        BY <1>6, <1>7, <2>1
<1>10. f \in Bijection(ids, W)
    <2>1. f \in [ids -> W]
        BY <1>8
    <2>2. \A i, j \in ids : f[i] = f[j] => i = j
        BY <1>2
    <2>3. \A t \in W : \E i \in ids : f[i] = t
        BY <1>9
    <2>4. QED
        BY <2>1, <2>2, <2>3 DEF Bijection, Injection, Surjection, IsInjective
<1>11. IsFiniteSet(ids) /\ ExistsBijection(ids, W)
    BY <1>1, <1>10, FS_Subset DEF ExistsBijection
<1>12. Cardinality(W) = Cardinality(ids)
    BY <1>11, FS_Bijection
<1>13. Cardinality(W) = IF k + 1 > n THEN 0 ELSE n - (k + 1) + 1
    BY <1>1, FS_Interval
<1> HIDE DEF W, ids
<1>14. Cardinality(ids) = IF k > n THEN 0 ELSE n - k
    BY <1>1, <1>12, <1>13
<1>15. QED
    BY <1>14 DEF n, ids

\* A purge by number deletes as many as the count announces, whatever order each of the
\* two subqueries uses; none that is newer than one it keeps; and a number that fits is
\* what stays, or everything.
LEMMA CountPurges ==
    ASSUME TypeOK, NEW keep \in 0..Int64Max, DeleteKeepingNewest(keep)
    PROVE  /\ \A n \in CountExceedingNewest(keep) :
                Cardinality(Stored) = Cardinality(Stored') + n
           /\ \A i \in Stored', j \in Stored \ Stored' : rows[i].created >= rows[j].created
           /\ keep <= Int32Max => Cardinality(Stored') = keep \/ Stored' = Stored
<1> DEFINE k == Int32(keep)
           n == Cardinality(Stored)
           over == IF k > n THEN 0 ELSE n - k
<1>1. PICK ids \in Overflow(keep) : Delete(ids)
    BY DEF DeleteKeepingNewest
<1>2. PICK place \in AgeOrders : ids = {i \in Stored : place[i] > k}
    BY <1>1 DEF Overflow
<1>3. k \in Nat /\ n \in Nat /\ keep \in Nat
    <2>1. keep \in Int /\ Int64Max \in Nat
        BY AnalysisListAssumption
    <2>2. k \in Int /\ k >= 0 /\ n \in Nat
        BY <2>1, ConversionsFit, StoredIsFinite DEF DeleteKeepingNewest
    <2> HIDE DEF k
    <2>3. QED
        BY <2>1, <2>2
<1>4. /\ Stored' = Stored \ ids
      /\ n = Cardinality(Stored') + Cardinality(ids)
    BY <1>1, <1>2, DeleteTakes
<1>5. \A ordering \in AgeOrders : Cardinality({i \in Stored : ordering[i] > k}) = over
    BY <1>3, BehindOffset
<1>6. Cardinality(ids) = over
    BY <1>2, <1>5
<1>7. \A m \in CountExceedingNewest(keep) : m = over
    BY <1>5 DEF CountExceedingNewest, Overflow
<1>8. ASSUME NEW i \in Stored', NEW j \in Stored \ Stored'
      PROVE  rows[i].created >= rows[j].created
    <2>1. i \in Stored \ ids /\ j \in ids /\ j \in Stored
        BY <1>2, <1>4
    <2>2. place[i] \in Int /\ place[j] \in Int
        BY <1>3, <2>1 DEF AgeOrders
    <2>3. ~(place[i] > k) /\ place[j] > k
        BY <1>2, <2>1
    <2>4. ~(place[j] < place[i])
        <3> HIDE DEF k
        <3>1. QED
            BY <1>3, <2>2, <2>3
    <2>5. ~(rows[j].created > rows[i].created)
        BY <2>1, <2>4 DEF AgeOrders
    <2>6. rows[i].created \in Int /\ rows[j].created \in Int
        BY <2>1 DEF TypeOK, Time
    <2>7. QED
        BY <2>5, <2>6
<1>9. ASSUME keep <= Int32Max PROVE Cardinality(Stored') = keep \/ Stored' = Stored
    <2>1. k = keep
        <3>1. keep \in 0..Int32Max
            BY <1>3, <1>9, AnalysisListAssumption
        <3>2. QED
            BY <3>1, ConversionsFit
    <2>2. IsFiniteSet(ids) /\ Cardinality(ids) \in Nat
        BY <1>2, StoredIsFinite, FS_Subset, FS_CardinalityType
    <2>3. IsFiniteSet(Stored') /\ Cardinality(Stored') \in Nat
        BY <1>4, StoredIsFinite, FS_Subset, FS_CardinalityType
    <2>4. CASE k > n
        <3>1. Cardinality(ids) = 0
            BY <1>6, <2>4
        <3>2. ids = {}
            BY <2>2, <3>1, FS_EmptySet
        <3>3. QED
            BY <1>4, <3>2
    <2>5. CASE ~(k > n)
        <3>1. Cardinality(ids) = n - k
            BY <1>6, <2>5
        <3> HIDE DEF k, n
        <3>2. QED
            BY <1>3, <1>4, <2>1, <2>3, <3>1
    <2>6. QED
        BY <2>4, <2>5
<1> HIDE DEF over
<1>10. QED
    BY <1>4, <1>6, <1>7, <1>8, <1>9

\* A purge deletes as many as its preview announces, even where the number to keep is
\* narrowed, none newer than one it keeps, and keeps the number it was given if that fits
\* (DeleteAnalysesKeepingNewest, CountAnalysesExceedingNewest and those by age).
THEOREM PurgesKeepTheirWord == Spec => PurgesAsPreviewed
<1>1. Keeps \subseteq 0..Int64Max
    BY AnalysisListAssumption
<1>2. TypeOK /\ [Next]_vars =>
        [/\ \A cutoff \in Time :
              DeleteOlderThan(cutoff) =>
                Cardinality(Stored) = Cardinality(Stored') + CountOlderThan(cutoff)
         /\ \A keep \in Keeps :
              DeleteKeepingNewest(keep) =>
                /\ \A n \in CountExceedingNewest(keep) :
                     Cardinality(Stored) = Cardinality(Stored') + n
                /\ \A i \in Stored', j \in Stored \ Stored' :
                      rows[i].created >= rows[j].created
                /\ keep <= Int32Max => Cardinality(Stored') = keep \/ Stored' = Stored]_vars
    BY <1>1, AgePurges, CountPurges
<1>3. QED
    BY <1>2, TypeCorrect, PTL DEF PurgesAsPreviewed, Spec

-----------------------------------------------------------------------------
(* Positions and pages.                                                     *)

\* What the repository in use puts before an analysis.
Precedes(j, i, q) ==
    IF store = "memory" THEN SortedBefore(j, i, q) ELSE OrderedBefore(j, i, q)

\* Those of them that match.
Preceding(i, q) == {j \in Matching(q.filter) : Precedes(j, i, q)}

\* The position of an analysis is the number of those before it.
LEMMA PositionCounts == \A i, q : Position(i, q) = Cardinality(Preceding(i, q))
<1>1. CASE store = "memory"
    BY <1>1 DEF Position, MemoryPosition, Preceding, Precedes, Matching
<1>2. CASE store # "memory"
    BY <1>2 DEF Position, SQLPosition, Preceding, Precedes, Matching
<1>3. QED
    BY <1>1, <1>2

\* What matches in the repository in use is stored and can be counted.
LEMMA MatchingIsFinite ==
    ASSUME TypeOK, NEW f
    PROVE  /\ Matching(f) \subseteq Stored /\ IsFiniteSet(Matching(f))
           /\ Cardinality(Matching(f)) \in Nat
BY MatchingTypes DEF Matching

\* Whatever the order, an analysis has a rank in it.
LEMMA RanksAreNumbers ==
    ASSUME TypeOK, NEW i \in Stored, NEW sort \in {"createdAt", "severity", "confidence"}
    PROVE  Rank(i, sort) \in Int
<1>1. rows[i].created \in Time /\ rows[i].about \in Content
    BY AnalysisListAssumption DEF TypeOK
<1>2. rows[i].created \in Int
    BY <1>1 DEF Time
<1>3. SeverityRank[rows[i].about.severity] \in Int
    <2>1. rows[i].about.severity \in Severity
        BY <1>1 DEF Content
    <2>2. \A s \in Severity : SeverityRank[s] \in Int
        BY DEF Severity, SeverityRank
    <2>3. QED
        BY <2>1, <2>2
<1>4. ConfidenceRank[rows[i].about.confidence] \in Int
    <2>1. rows[i].about.confidence \in Confidence
        BY <1>1 DEF Content
    <2>2. \A c \in Confidence : ConfidenceRank[c] \in Int
        BY DEF Confidence, ConfidenceRank
    <2>3. QED
        BY <2>1, <2>2
<1>5. QED
    BY <1>2, <1>3, <1>4 DEF Rank

\* Nothing comes before itself: each has a position within the total.
LEMMA PositionWithin ==
    ASSUME TypeOK, NEW q \in Queries, NEW i \in Matching(q.filter)
    PROVE  /\ Position(i, q) \in Nat
           /\ Position(i, q) < Cardinality(Matching(q.filter))
<1>1. i \in Stored /\ i \in Int /\ IsFiniteSet(Matching(q.filter))
    BY MatchingIsFinite, StoredIsFinite
<1>2. ~Precedes(i, i, q)
    <2>1. q.sort \in {"createdAt", "severity", "confidence"} /\ q.order \in {"asc", "desc"}
        BY QueryTypes
    <2>2. Rank(i, q.sort) \in Int
        BY <1>1, <2>1, RanksAreNumbers
    <2>3. \A x \in Int : ~(x < x) /\ ~(x > x)
        OBVIOUS
    <2>4. ~AnalysisLess(i, i, q.sort) /\ ~OrderedBefore(i, i, q)
        BY <1>1, <2>2, <2>3 DEF AnalysisLess, OrderedBefore
    <2>5. QED
        BY <2>4 DEF Precedes, SortedBefore
<1>3. Preceding(i, q) \in SUBSET Matching(q.filter) /\ Preceding(i, q) # Matching(q.filter)
    BY <1>2 DEF Preceding
<1>4. /\ IsFiniteSet(Preceding(i, q))
      /\ Cardinality(Preceding(i, q)) <= Cardinality(Matching(q.filter))
      /\ Cardinality(Preceding(i, q)) # Cardinality(Matching(q.filter))
    BY <1>1, <1>3, FS_Subset
<1>5. Cardinality(Preceding(i, q)) \in Nat /\ Cardinality(Matching(q.filter)) \in Nat
    BY <1>1, <1>4, FS_CardinalityType
<1>6. QED
    BY <1>4, <1>5, PositionCounts

\* A page shows the positions from its offset on, as many as its limit.
LEMMA PageShows ==
    ASSUME TypeOK
    PROVE  LET q == walk.query
               p == Page(walk)
               shows == {i \in Matching(q.filter) :
                           Position(i, q) \in walk.at..(walk.at + p.limit - 1)}
           IN  /\ p.limit \in 1..MaxLimit /\ p.offset = walk.at
               /\ store = "memory" => MemoryPage(p) = shows
               /\ store # "memory" /\ walk.at \in 0..Int32Max => SQLPage(p) = shows
<1> DEFINE q == walk.query
           p == Page(walk)
<1>1. q \in Queries /\ walk.at \in Int
    BY DEF TypeOK, Walk
<1>2. /\ p.limit \in 1..MaxLimit /\ p.offset = walk.at
      /\ p.sort = q.sort /\ p.order = q.order /\ p.filter = q.filter
    BY <1>1, PageOfQuery DEF Page
<1> HIDE DEF q, p
<1>3. \A i, j : SortedBefore(j, i, p) = SortedBefore(j, i, q)
                /\ OrderedBefore(j, i, p) = OrderedBefore(j, i, q)
    BY <1>2 DEF SortedBefore, OrderedBefore
<1>4. \A i : MemoryPosition(i, p) = MemoryPosition(i, q) /\ SQLPosition(i, p) = SQLPosition(i, q)
    BY <1>2, <1>3 DEF MemoryPosition, SQLPosition
<1>5. store = "memory" => MemoryPage(p)
        = {i \in Matching(q.filter) : Position(i, q) \in walk.at..(walk.at + p.limit - 1)}
    BY <1>2, <1>4 DEF MemoryPage, Position, Matching
<1>6. store # "memory" /\ walk.at \in 0..Int32Max => SQLPage(p)
        = {i \in Matching(q.filter) : Position(i, q) \in walk.at..(walk.at + p.limit - 1)}
    BY <1>2, <1>4, ConversionsFit DEF SQLPage, Position, Matching
<1>7. QED
    BY <1>2, <1>5, <1>6 DEF q, p

\* Nothing moves while nothing is written.
LEMMA PositionsStay ==
    ASSUME store' = store, rows' = rows
    PROVE  /\ \A f : Matching(f)' = Matching(f)
           /\ \A i, q : Position(i, q)' = Position(i, q)
<1>1. Stored' = Stored
    BY DEF Stored
<1>2. \A f : Matching(f)' = Matching(f)
    BY <1>1 DEF Matching, InMemory, Selected
<1>3. \A i, q : Position(i, q)' = Position(i, q)
    BY <1>1 DEF Position, MemoryPosition, SQLPosition, InMemory, Selected, SortedBefore,
       OrderedBefore, AnalysisLess, Rank
<1>4. QED
    BY <1>2, <1>3

\* An analysis that is stored for the first time only pushes others back.
LEMMA PositionsGrow ==
    ASSUME TypeOK, TypeOK', store' = store, Stored \subseteq Stored',
           \A j \in Stored : rows'[j] = rows[j]
    PROVE  /\ \A f : Matching(f) \subseteq Matching(f)'
           /\ \A q : \A i \in Matching(q.filter) : /\ Position(i, q)' \in Nat
                                                   /\ Position(i, q)' >= Position(i, q)
<1>1. \A f : Matching(f) \subseteq Matching(f)'
    BY DEF Matching, InMemory, Selected
<1>2. \A i, j \in Stored : \A sort : Rank(i, sort)' = Rank(i, sort)
    BY DEF Rank
<1>3. \A i, j \in Stored : \A q : Precedes(j, i, q) => Precedes(j, i, q)'
    BY <1>2 DEF Precedes, SortedBefore, OrderedBefore, AnalysisLess
<1>4. ASSUME NEW q, NEW i \in Matching(q.filter)
      PROVE  Preceding(i, q) \subseteq Preceding(i, q)'
    <2>1. Matching(q.filter) \subseteq Stored
        BY MatchingIsFinite
    <2>2. QED
        BY <1>1, <1>3, <1>4, <2>1 DEF Preceding
<1>5. \A i, q : Position(i, q)' = Cardinality(Preceding(i, q)')
    <2>1. CASE store' = "memory"
        BY <2>1 DEF Position, MemoryPosition, Preceding, Precedes, Matching
    <2>2. CASE store' # "memory"
        BY <2>2 DEF Position, SQLPosition, Preceding, Precedes, Matching
    <2>3. QED
        BY <2>1, <2>2
<1>6. \A q : \A i : IsFiniteSet(Preceding(i, q)')
    <2>1. IsFiniteSet(Stored')
        BY AnalysisListAssumption, FS_Subset DEF TypeOK
    <2>2. \A q : \A i : Preceding(i, q)' \subseteq Stored'
        BY DEF Preceding, Matching, InMemory, Selected
    <2>3. QED
        BY <2>1, <2>2, FS_Subset
<1>7. ASSUME NEW q, NEW i \in Matching(q.filter)
      PROVE  Position(i, q)' \in Nat /\ Position(i, q)' >= Position(i, q)
    <2>1. Cardinality(Preceding(i, q)) <= Cardinality(Preceding(i, q)')
        BY <1>4, <1>6, FS_Subset
    <2>2. Cardinality(Preceding(i, q)') \in Nat /\ Cardinality(Preceding(i, q)) \in Nat
        BY <1>4, <1>6, FS_Subset, FS_CardinalityType
    <2>3. QED
        BY <1>5, <2>1, <2>2, PositionCounts
<1>8. QED
    BY <1>1, <1>7

-----------------------------------------------------------------------------
(* The walk.                                                                *)

\* The offsets of all analyses there can be fit 32 bits, and that of a page
\* behind them 64.
WithinWidth == Cardinality(Id) <= Int32Max /\ Int32Max + MaxLimit <= Int64Max

\* There is a page to ask for.
Walking == walk.step \in {"asked", "counted", "answered"}

\* A walk goes forward, and its offsets keep their width.
CourseInv ==
    /\ walk.step = "counted" => store # "memory" /\ walk.total <= Cardinality(Id)
    /\ Walking /\ Fits(walk.query) => walk.at \in walk.query.offset..Int32Max

\* While analyses are only added, what has not been shown is still ahead.
GrowInv ==
    walk.growing /\ Fits(walk.query) =>
      /\ walk.start \subseteq Matching(walk.query.filter)
      /\ Walking => \A i \in walk.start :
           walk.shown[i] = 0 => Position(i, walk.query) >= walk.at
      /\ walk.step = "counted" => walk.total = Cardinality(Matching(walk.query.filter))
      /\ walk.step = "done" => \A i \in walk.start : walk.shown[i] # 0

\* While nothing is written, what has been shown is what is behind.
QuietInv ==
    walk.still /\ Fits(walk.query) =>
      /\ walk.step # "idle" =>
           walk.start = {i \in Matching(walk.query.filter) :
                           Position(i, walk.query) >= walk.query.offset}
      /\ Walking => \A i \in Id :
           walk.shown[i] = IF i \in walk.start /\ Position(i, walk.query) < walk.at THEN 1 ELSE 0
      /\ walk.step = "counted" => walk.total = Cardinality(Matching(walk.query.filter))
      /\ walk.step = "done" =>
           /\ \A i \in Id : walk.shown[i] = IF i \in walk.start THEN 1 ELSE 0
           /\ walk.total = Cardinality(Matching(walk.query.filter))

\* What walks rely on.
WalkInv == TypeOK /\ CourseInv /\ GrowInv /\ QuietInv

\* The widths and the number of analyses there can be.
LEMMA WidthTypes ==
    /\ Int32Max \in Nat /\ Int64Max \in Nat /\ MaxLimit \in Nat \ {0} /\ MaxLimit <= Int32Max
    /\ IsFiniteSet(Id) /\ Cardinality(Id) \in Nat
BY AnalysisListAssumption, FS_CardinalityType

\* No filter matches more analyses than there are.
LEMMA MatchedWithin ==
    ASSUME TypeOK, NEW f
    PROVE  Cardinality(Matching(f)) \in Nat /\ Cardinality(Matching(f)) <= Cardinality(Id)
<1>1. Matching(f) \subseteq Id /\ Cardinality(Matching(f)) \in Nat
    BY MatchingIsFinite DEF TypeOK
<1>2. QED
    BY <1>1, WidthTypes, FS_Subset

\* A client that asks has everything ahead.
LEMMA AskKeeps ==
    ASSUME WalkInv, NEW q \in Queries, Ask(q)
    PROVE  CourseInv' /\ GrowInv' /\ QuietInv'
<1>1. store' = store /\ rows' = rows /\ walk' = Start(q)
    BY DEF Ask
<1>2. /\ walk'.step = "asked" /\ walk'.query = q /\ walk'.at = q.offset
      /\ walk'.start = {i \in Matching(q.filter) : Position(i, q) >= q.offset}
      /\ \A i \in Id : walk'.shown[i] = 0
    BY <1>1, StartTypes DEF WalkInv
<1>3. q.offset \in Int /\ Int32Max \in Int
    BY QueryTypes, WidthTypes
<1>4. \A f : Matching(f)' = Matching(f)
    BY <1>1, PositionsStay
<1>5. \A i, p : Position(i, p)' = Position(i, p)
    BY <1>1, PositionsStay
<1>6. walk'.start = {i \in Matching(q.filter)' : Position(i, q)' >= q.offset}
    BY <1>2, <1>4, <1>5
<1>7. CourseInv'
    BY <1>2, <1>3 DEF CourseInv, Fits
<1>8. GrowInv'
    BY <1>2, <1>6 DEF GrowInv
<1>9. \A i \in walk'.start : ~(Position(i, q)' < q.offset)
    <2>1. \A i \in Matching(q.filter) : Position(i, q) \in Nat
        BY PositionWithin DEF WalkInv
    <2>2. \A x \in Nat, y \in Int : x >= y => ~(x < y)
        OBVIOUS
    <2>3. QED
        BY <1>2, <1>3, <1>5, <2>1, <2>2
<1>10. QuietInv'
    BY <1>2, <1>6, <1>9 DEF QuietInv
<1>11. QED
    BY <1>7, <1>8, <1>10

\* A step that only moves on, without an answer.
LEMMA MovingKeeps ==
    ASSUME WalkInv, store' = store, rows' = rows,
           walk'.query = walk.query, walk'.at = walk.at, walk'.start = walk.start,
           walk'.shown = walk.shown, walk'.still = walk.still, walk'.growing = walk.growing,
           Walking, walk'.step \in {"asked", "counted", "failed"},
           walk'.step = "counted" =>
             store # "memory" /\ walk'.total = Cardinality(Matching(walk.query.filter))
    PROVE  CourseInv' /\ GrowInv' /\ QuietInv'
<1>1. \A f : Matching(f)' = Matching(f)
    BY PositionsStay
<1>2. \A i, q : Position(i, q)' = Position(i, q)
    BY PositionsStay
<1>3. Cardinality(Matching(walk.query.filter)) <= Cardinality(Id)
    BY MatchedWithin DEF WalkInv
<1>4. CourseInv'
    BY <1>3 DEF WalkInv, CourseInv, Walking, Fits
<1>5. GrowInv'
    BY <1>1, <1>2 DEF WalkInv, GrowInv, Walking, Fits
<1>6. QuietInv'
    BY <1>1, <1>2 DEF WalkInv, QuietInv, Walking, Fits
<1>7. QED
    BY <1>4, <1>5, <1>6

\* A page that is answered shows the places from its offset to that of the next
\* page, or to the end.
LEMMA AnswerKeeps ==
    ASSUME WithinWidth, WalkInv, store' = store, rows' = rows, Walking,
           NEW ids, NEW total \in Nat, Answer(ids, total), total <= Cardinality(Id),
           walk.growing /\ Fits(walk.query) => total = Cardinality(Matching(walk.query.filter)),
           walk.still /\ Fits(walk.query) => total = Cardinality(Matching(walk.query.filter)),
           Fits(walk.query) =>
             ids = {i \in Matching(walk.query.filter) :
                      Position(i, walk.query) \in walk.at..(walk.at + Page(walk).limit - 1)}
    PROVE  CourseInv' /\ GrowInv' /\ QuietInv'
<1> DEFINE q == walk.query
           limit == Page(walk).limit
           link == NextOffset(Page(walk), total)
<1>1. /\ walk'.query = q /\ walk'.total = total /\ walk'.start = walk.start
      /\ walk'.still = walk.still /\ walk'.growing = walk.growing
      /\ link = NoLink => walk'.step = "done" /\ walk'.at = walk.at
      /\ link # NoLink => walk'.step = "answered" /\ walk'.at = link
      /\ \A i \in Id : walk'.shown[i] = walk.shown[i] + IF i \in ids THEN 1 ELSE 0
    BY AnswerTypes DEF WalkInv
<1>2. /\ q \in Queries /\ walk.at \in Int /\ walk.start \subseteq Id
      /\ walk.shown \in [Id -> Nat]
    BY DEF WalkInv, TypeOK, Walk
<1>3. limit \in 1..MaxLimit /\ Page(walk).offset = walk.at
    BY PageShows DEF WalkInv
<1>4. q.offset \in Nat
    BY <1>2, QueryTypes, WidthTypes
<1>5. Fits(q) => walk.at \in q.offset..Int32Max /\ walk.at \in Nat
    BY <1>4, WidthTypes DEF WalkInv, CourseInv
<1>6. Fits(q) => Int64(walk.at + limit) = walk.at + limit
    <2>1. Fits(q) => walk.at + limit \in 0..Int64Max
        BY <1>3, <1>5, WidthTypes DEF WithinWidth
    <2>2. QED
        BY <2>1, ConversionsFit
<1>7. /\ Fits(q) /\ link = NoLink => walk.at + limit >= total
      /\ Fits(q) /\ link # NoLink => link = walk.at + limit /\ walk.at + limit < total
    BY <1>3, <1>6, LinkTypes, <1>2
<1>8. \A f : Matching(f)' = Matching(f)
    BY PositionsStay
<1>9. \A i, p : Position(i, p)' = Position(i, p)
    BY PositionsStay
<1>10. \A i \in Matching(q.filter) : /\ Position(i, q) \in Nat
                                     /\ Position(i, q) < Cardinality(Matching(q.filter))
    BY <1>2, PositionWithin DEF WalkInv
<1>11. Matching(q.filter) \subseteq Id /\ Cardinality(Matching(q.filter)) \in Nat
    BY MatchingIsFinite DEF WalkInv, TypeOK
<1>12. Fits(q) => \A i \in Matching(q.filter) :
         i \in ids <=> walk.at <= Position(i, q) /\ Position(i, q) < walk.at + limit
    <2>1. \A x, a \in Nat, n \in Nat \ {0} : x \in a..(a + n - 1) <=> a <= x /\ x < a + n
        OBVIOUS
    <2>2. limit \in Nat \ {0}
        BY <1>3, WidthTypes
    <2>3. QED
        BY <1>5, <1>10, <2>1, <2>2
<1> HIDE DEF link, limit, q
<1>13. CourseInv'
    <2>1. Fits(q) /\ link # NoLink => link \in q.offset..Int32Max
        BY <1>3, <1>4, <1>5, <1>7, WidthTypes DEF WithinWidth
    <2>2. QED
        BY <1>1, <2>1 DEF CourseInv, Walking, Fits
<1>14. limit \in Nat \ {0} /\ total \in Nat
    BY <1>3, WidthTypes
<1>15. ASSUME walk.growing, Fits(q)
       PROVE  /\ walk.start \subseteq Matching(q.filter)
              /\ \A i \in walk.start :
                   walk'.shown[i] = 0 => link # NoLink /\ Position(i, q) >= link
    <2>1. walk.start \subseteq Matching(q.filter)
        BY <1>15 DEF WalkInv, GrowInv, q
    <2>2. ASSUME NEW i \in walk.start, walk'.shown[i] = 0
          PROVE  link # NoLink /\ Position(i, q) >= link
        <3>1. walk.shown[i] \in Nat
            BY <1>2
        <3>2. walk.shown[i] = 0 /\ i \notin ids
            BY <1>1, <1>2, <2>2, <3>1
        <3>3. Position(i, q) >= walk.at
            BY <1>15, <3>2 DEF WalkInv, GrowInv, q
        <3>4. Position(i, q) \in Nat /\ Position(i, q) < total
            BY <1>10, <1>15, <2>1 DEF q
        <3>5. ~(Position(i, q) < walk.at + limit)
            BY <1>5, <1>12, <1>15, <2>1, <3>2, <3>3, <3>4
        <3>6. QED
            BY <1>5, <1>7, <1>14, <1>15, <3>4, <3>5
    <2>3. QED
        BY <2>1, <2>2
<1>16. GrowInv'
    BY <1>1, <1>8, <1>9, <1>15 DEF GrowInv, Walking, Fits
<1>17. ASSUME walk.still, Fits(q)
       PROVE  /\ walk.start = {i \in Matching(q.filter) : Position(i, q) >= q.offset}
              /\ total = Cardinality(Matching(q.filter))
              /\ \A i \in Id : walk'.shown[i]
                   = IF i \in walk.start /\ Position(i, q) < walk.at + limit THEN 1 ELSE 0
    <2>1. walk.start = {i \in Matching(q.filter) : Position(i, q) >= q.offset}
        BY <1>17 DEF WalkInv, QuietInv, Walking, q
    <2>2. \A i \in Id : walk.shown[i]
            = IF i \in walk.start /\ Position(i, q) < walk.at THEN 1 ELSE 0
        BY <1>17 DEF WalkInv, QuietInv, q
    <2>3. ASSUME NEW i \in Id
          PROVE  walk'.shown[i]
                   = IF i \in walk.start /\ Position(i, q) < walk.at + limit THEN 1 ELSE 0
        <3>1. walk'.shown[i] = walk.shown[i] + IF i \in ids THEN 1 ELSE 0
            BY <1>1
        <3>2. CASE i \in walk.start
            <4>1. Position(i, q) \in Nat /\ i \in Matching(q.filter)
                BY <1>10, <2>1, <3>2
            <4>2. walk.shown[i] = IF Position(i, q) < walk.at THEN 1 ELSE 0
                BY <2>2, <3>2
            <4>3. i \in ids <=> walk.at <= Position(i, q) /\ Position(i, q) < walk.at + limit
                BY <1>12, <1>17, <4>1
            <4>4. walk.at \in Nat
                BY <1>5, <1>17
            <4>5. QED
                BY <1>14, <3>1, <3>2, <4>1, <4>2, <4>3, <4>4
        <3>3. CASE i \notin walk.start
            <4>1. walk.shown[i] = 0
                BY <2>2, <3>3
            <4>2. i \notin ids
                <5>1. SUFFICES ASSUME i \in ids PROVE FALSE
                    OBVIOUS
                <5>2. i \in Matching(q.filter)
                    BY <1>17, <5>1 DEF q
                <5>3. Position(i, q) \in Nat /\ walk.at <= Position(i, q)
                    BY <1>10, <1>12, <1>17, <5>1, <5>2
                <5>4. Position(i, q) >= q.offset
                    BY <1>4, <1>5, <1>17, <5>3
                <5>5. QED
                    BY <2>1, <3>3, <5>2, <5>4
            <4>3. QED
                BY <3>1, <3>3, <4>1, <4>2
        <3>4. QED
            BY <3>2, <3>3
    <2>4. QED
        BY <1>17, <2>1, <2>3 DEF q
<1>18. ASSUME walk.still, Fits(q), link = NoLink
       PROVE  \A i \in Id : walk'.shown[i] = IF i \in walk.start THEN 1 ELSE 0
    <2>1. \A i \in walk.start : Position(i, q) < walk.at + limit
        <3>1. ASSUME NEW i \in walk.start PROVE Position(i, q) < walk.at + limit
            <4>1. Position(i, q) \in Nat /\ Position(i, q) < total
                BY <1>10, <1>17, <1>18
            <4>2. QED
                BY <1>5, <1>7, <1>14, <1>18, <4>1
        <3>2. QED
            BY <3>1
    <2>2. QED
        BY <1>17, <1>18, <2>1
<1>19. QuietInv'
    BY <1>1, <1>7, <1>8, <1>9, <1>17, <1>18 DEF QuietInv, Walking, Fits
<1>20. QED
    BY <1>13, <1>16, <1>19

-----------------------------------------------------------------------------
\* Nobody walks at first.
LEMMA InitWalkInv == Init => WalkInv
<1> SUFFICES ASSUME Init PROVE WalkInv
    OBVIOUS
<1> DEFINE first == CHOOSE q \in Queries : TRUE
<1>1. first \in Queries
    BY AnalysisListAssumption
<1>2. walk = Resting(first)
    BY DEF Init
<1> HIDE DEF first
<1>3. walk.step = "idle" /\ walk.start = {}
    BY <1>1, <1>2, RestingTypes
<1>4. CourseInv /\ GrowInv /\ QuietInv
    BY <1>3 DEF CourseInv, GrowInv, QuietInv, Walking
<1>5. QED
    BY <1>4, InitTypeOK DEF WalkInv

\* What is written disturbs a walk at most by pushing analyses back.
LEMMA WritingKeeps ==
    ASSUME WalkInv, TypeOK', store' = store, NEW grows \in BOOLEAN, Disturbed(grows),
           grows => Stored \subseteq Stored' /\ \A j \in Stored : rows'[j] = rows[j]
    PROVE  CourseInv' /\ GrowInv' /\ QuietInv'
<1>1. /\ walk'.step = walk.step /\ walk'.query = walk.query /\ walk'.at = walk.at
      /\ walk'.total = walk.total /\ walk'.start = walk.start /\ walk'.shown = walk.shown
      /\ walk'.still = FALSE
      /\ walk'.growing <=> walk.growing /\ grows /\ walk.step # "counted"
    BY DisturbedTypes DEF WalkInv
<1>2. CourseInv'
    BY <1>1 DEF WalkInv, CourseInv, Walking, Fits
<1>3. ASSUME walk'.growing, Fits(walk.query), NEW q, q = walk.query
      PROVE  /\ walk.start \subseteq Matching(q.filter)'
             /\ Walking => \A i \in walk.start :
                  walk.shown[i] = 0 => Position(i, q)' >= walk.at
    <2>1. walk.start \subseteq Matching(q.filter)
        BY <1>1, <1>3 DEF WalkInv, GrowInv
    <2>2. walk.at \in Int /\ q \in Queries
        BY <1>3 DEF WalkInv, TypeOK, Walk
    <2>3. \A f : Matching(f) \subseteq Matching(f)'
        BY <1>1, <1>3, PositionsGrow DEF WalkInv
    <2>4. \A i \in Matching(q.filter) : Position(i, q)' >= Position(i, q)
        BY <1>1, <1>3, PositionsGrow DEF WalkInv
    <2>5. \A i \in Matching(q.filter) : Position(i, q) \in Nat
        BY <2>2, PositionWithin DEF WalkInv
    <2>6. \A i \in Matching(q.filter) : Position(i, q)' \in Nat
        BY <1>1, <1>3, PositionsGrow DEF WalkInv
    <2>7. ASSUME Walking, NEW i \in walk.start, walk.shown[i] = 0
          PROVE  Position(i, q)' >= walk.at
        <3>1. Position(i, q) >= walk.at
            BY <1>1, <1>3, <2>7 DEF WalkInv, GrowInv
        <3>2. \A x, y \in Nat, a \in Int : y >= x /\ x >= a => y >= a
            OBVIOUS
        <3>3. QED
            BY <2>1, <2>2, <2>4, <2>5, <2>6, <3>1, <3>2
    <2>8. QED
        BY <2>1, <2>3, <2>7
<1>4. walk.growing /\ Fits(walk.query) /\ walk.step = "done" =>
        \A i \in walk.start : walk.shown[i] # 0
    BY DEF WalkInv, GrowInv
<1>5. GrowInv'
    BY <1>1, <1>3, <1>4 DEF GrowInv, Walking, Fits
<1>6. QuietInv'
    BY <1>1 DEF QuietInv
<1>7. QED
    BY <1>2, <1>5, <1>6

\* A page of the repository in memory counts and shows the same rows.
LEMMA ListInMemoryKeeps ==
    ASSUME WithinWidth, WalkInv, ListInMemory
    PROVE  CourseInv' /\ GrowInv' /\ QuietInv'
<1> DEFINE ids == MemoryPage(Page(walk))
           total == Cardinality(InMemory(walk.query.filter))
<1>1. /\ store = "memory" /\ walk.step = "asked" /\ Answer(ids, total)
      /\ store' = store /\ rows' = rows
    BY DEF ListInMemory
<1>2. total = Cardinality(Matching(walk.query.filter))
    BY <1>1 DEF Matching
<1>3. total \in Nat /\ total <= Cardinality(Id)
    BY <1>2, MatchedWithin DEF WalkInv
<1>4. ids = {i \in Matching(walk.query.filter) :
               Position(i, walk.query) \in walk.at..(walk.at + Page(walk).limit - 1)}
    BY <1>1, PageShows DEF WalkInv
<1>5. Walking
    BY <1>1 DEF Walking
<1> HIDE DEF ids, total
<1>6. QED
    BY <1>1, <1>2, <1>3, <1>4, <1>5, AnswerKeeps

\* Over Postgres it shows the rows there are after the count.
LEMMA ListAnalysesKeeps ==
    ASSUME WithinWidth, WalkInv, ListAnalyses
    PROVE  CourseInv' /\ GrowInv' /\ QuietInv'
<1> DEFINE ids == SQLPage(Page(walk))
<1>1. /\ walk.step = "counted" /\ Answer(ids, walk.total)
      /\ store' = store /\ rows' = rows
    BY DEF ListAnalyses
<1>2. store # "memory" /\ walk.total <= Cardinality(Id) /\ walk.total \in Nat
    BY <1>1 DEF WalkInv, CourseInv, TypeOK, Walk
<1>3. Walking
    BY <1>1 DEF Walking
<1>4. Fits(walk.query) => walk.at \in 0..Int32Max
    <2>1. walk.query.offset \in Nat
        BY QueryTypes, WidthTypes DEF WalkInv, TypeOK, Walk
    <2>2. QED
        BY <1>3, <2>1, WidthTypes DEF WalkInv, CourseInv
<1>5. Fits(walk.query) =>
        ids = {i \in Matching(walk.query.filter) :
                 Position(i, walk.query) \in walk.at..(walk.at + Page(walk).limit - 1)}
    BY <1>2, <1>4, PageShows DEF WalkInv
<1>6. /\ walk.growing /\ Fits(walk.query) =>
           walk.total = Cardinality(Matching(walk.query.filter))
      /\ walk.still /\ Fits(walk.query) =>
           walk.total = Cardinality(Matching(walk.query.filter))
    BY <1>1 DEF WalkInv, GrowInv, QuietInv
<1> HIDE DEF ids
<1>7. QED
    BY <1>1, <1>2, <1>3, <1>5, <1>6, AnswerKeeps

\* The steps between the pages.
LEMMA BetweenKeeps ==
    ASSUME WalkInv, CountAnalyses \/ StatementFails \/ Follow
    PROVE  CourseInv' /\ GrowInv' /\ QuietInv'
<1>1. store' = store /\ rows' = rows /\ Walking
    BY DEF CountAnalyses, StatementFails, Follow, Walking
<1>2. CASE CountAnalyses
    <2> DEFINE total == Cardinality(Selected(walk.query.filter))
    <2>1. walk' = [walk EXCEPT !.step = "counted", !.total = total] /\ store # "memory"
        BY <1>2 DEF CountAnalyses
    <2>2. total = Cardinality(Matching(walk.query.filter))
        BY <2>1 DEF Matching
    <2> HIDE DEF total
    <2>3. /\ walk'.query = walk.query /\ walk'.at = walk.at /\ walk'.start = walk.start
          /\ walk'.shown = walk.shown /\ walk'.still = walk.still
          /\ walk'.growing = walk.growing /\ walk'.step = "counted" /\ walk'.total = total
        BY <2>1 DEF WalkInv, TypeOK, Walk
    <2>4. QED
        BY <1>1, <2>1, <2>2, <2>3, MovingKeeps
<1>3. CASE StatementFails
    <2>1. walk' = [walk EXCEPT !.step = "failed"]
        BY <1>3 DEF StatementFails
    <2>2. /\ walk'.query = walk.query /\ walk'.at = walk.at /\ walk'.start = walk.start
          /\ walk'.shown = walk.shown /\ walk'.still = walk.still
          /\ walk'.growing = walk.growing /\ walk'.step = "failed"
        BY <2>1 DEF WalkInv, TypeOK, Walk
    <2>3. QED
        BY <1>1, <2>2, MovingKeeps
<1>4. CASE Follow
    <2> DEFINE step == IF walk.at < 0 THEN "failed" ELSE "asked"
    <2>1. walk' = [walk EXCEPT !.step = step] /\ step \in {"failed", "asked"}
        BY <1>4 DEF Follow
    <2> HIDE DEF step
    <2>2. /\ walk'.query = walk.query /\ walk'.at = walk.at /\ walk'.start = walk.start
          /\ walk'.shown = walk.shown /\ walk'.still = walk.still
          /\ walk'.growing = walk.growing /\ walk'.step = step
        BY <2>1 DEF WalkInv, TypeOK, Walk
    <2>3. walk'.step \in {"asked", "counted", "failed"} /\ walk'.step # "counted"
        BY <2>1, <2>2
    <2>4. QED
        BY <1>1, <2>2, <2>3, MovingKeeps
<1>5. QED
    BY <1>2, <1>3, <1>4

\* Every step keeps what walks rely on.
LEMMA NextWalkInv == WithinWidth /\ WalkInv /\ [Next]_vars => WalkInv'
<1> SUFFICES ASSUME WithinWidth, WalkInv, [Next]_vars PROVE WalkInv'
    OBVIOUS
<1>1. TypeOK'
    BY NextTypeOK DEF WalkInv
<1>2. SUFFICES CourseInv' /\ GrowInv' /\ QuietInv'
    BY <1>1 DEF WalkInv
<1>3. ASSUME NEW q \in Queries, Ask(q) PROVE CourseInv' /\ GrowInv' /\ QuietInv'
    BY <1>3, AskKeeps
<1>4. CASE ListInMemory
    BY <1>4, ListInMemoryKeeps
<1>5. CASE ListAnalyses
    BY <1>5, ListAnalysesKeeps
<1>6. CASE CountAnalyses \/ StatementFails \/ Follow
    BY <1>6, BetweenKeeps
<1>7. ASSUME NEW i \in Id, NEW created \in Time, NEW about \in Contents,
             Save(i, created, about)
      PROVE  CourseInv' /\ GrowInv' /\ QuietInv'
    <2> DEFINE grows == i \notin Stored
    <2>1. /\ store' = store /\ Disturbed(grows) /\ grows \in BOOLEAN
          /\ rows' = [j \in Stored \cup {i} |->
                        IF j = i THEN [created |-> created, about |-> about] ELSE rows[j]]
        BY <1>7 DEF Save
    <2>2. grows => Stored \subseteq Stored' /\ \A j \in Stored : rows'[j] = rows[j]
        BY <2>1 DEF Stored
    <2> HIDE DEF grows
    <2>3. QED
        BY <1>1, <2>1, <2>2, WritingKeeps
<1>8. ASSUME NEW ids, Delete(ids) PROVE CourseInv' /\ GrowInv' /\ QuietInv'
    <2>1. store' = store /\ Disturbed(FALSE)
        BY <1>8 DEF Delete
    <2>2. \A grows \in BOOLEAN : Disturbed(grows) /\ ~grows =>
            CourseInv' /\ GrowInv' /\ QuietInv'
        BY <1>1, <2>1, WritingKeeps
    <2>3. QED
        BY <2>1, <2>2
<1>9. CASE UNCHANGED vars
    <2>1. store' = store /\ rows' = rows /\ walk' = walk
        BY <1>9 DEF vars
    <2>2. \A f : Matching(f)' = Matching(f)
        BY <2>1, PositionsStay
    <2>3. \A i, q : Position(i, q)' = Position(i, q)
        BY <2>1, PositionsStay
    <2>4. CourseInv' /\ GrowInv'
        BY <2>1, <2>2, <2>3 DEF WalkInv, CourseInv, GrowInv, Walking, Fits
    <2>5. QuietInv'
        BY <2>1, <2>2, <2>3 DEF WalkInv, QuietInv, Walking, Fits
    <2>6. QED
        BY <2>4, <2>5
<1>10. QED
    BY <1>3, <1>4, <1>5, <1>6, <1>7, <1>8, <1>9
    DEF Next, DeleteByID, DeleteOlderThan, DeleteKeepingNewest

\* What walks rely on always holds.
LEMMA AlwaysWalkInv == WithinWidth => (Spec => []WalkInv)
<1> SUFFICES ASSUME WithinWidth PROVE Spec => []WalkInv
    OBVIOUS
<1>1. WalkInv /\ [Next]_vars => WalkInv'
    BY NextWalkInv
<1>2. QED
    BY InitWalkInv, <1>1, PTL DEF Spec

\* A walk misses nothing that was there when it began while analyses are only
\* added, over either repository and however many there are, as long as their
\* number fits the 32 bits of an offset (ListAnalyses, toPagination).
THEOREM NothingIsHidden == WithinWidth => (Spec => []InsertionsHideNothing)
<1> SUFFICES ASSUME WithinWidth PROVE Spec => []InsertionsHideNothing
    OBVIOUS
<1>1. WalkInv => InsertionsHideNothing
    <2> SUFFICES ASSUME WalkInv, walk.step = "done", walk.growing, Fits(walk.query),
                        NEW i \in walk.start
                 PROVE  walk.shown[i] > 0
        BY DEF InsertionsHideNothing
    <2>1. walk.shown[i] \in Nat
        BY DEF WalkInv, TypeOK, Walk
    <2>2. walk.shown[i] # 0
        BY DEF WalkInv, GrowInv
    <2>3. QED
        BY <2>1, <2>2
<1>2. QED
    BY AlwaysWalkInv, <1>1, PTL

\* A walk through analyses nobody writes shows each that matches once, and the
\* total counts them: the order is strict, pages are disjoint, links neither
\* skip nor stop early (ListAnalyses, toPagination).
THEOREM QuietWalksAreExact == WithinWidth => (Spec => []QuietWalkIsExact)
<1> SUFFICES ASSUME WithinWidth PROVE Spec => []QuietWalkIsExact
    OBVIOUS
<1>1. WalkInv => QuietWalkIsExact
    <2> SUFFICES ASSUME WalkInv, walk.step = "done", walk.still, Fits(walk.query)
                 PROVE  /\ walk.shown = [i \in Id |-> IF i \in walk.start THEN 1 ELSE 0]
                        /\ walk.total = Cardinality(Matching(walk.query.filter))
        BY DEF QuietWalkIsExact
    <2>1. walk.shown \in [Id -> Nat]
        BY DEF WalkInv, TypeOK, Walk
    <2>2. \A i \in Id : walk.shown[i] = IF i \in walk.start THEN 1 ELSE 0
        BY DEF WalkInv, QuietInv
    <2>3. walk.total = Cardinality(Matching(walk.query.filter))
        BY DEF WalkInv, QuietInv
    <2>4. QED
        BY <2>1, <2>2, <2>3
<1>2. QED
    BY AlwaysWalkInv, <1>1, PTL

-----------------------------------------------------------------------------
(* Two repositories, one answer.                                            *)

\* The elements of C, equals, come directly after those of G: each has these ahead of
\* it, besides equals, and of two one has all that is ahead of the other and that one.
Line(S, C, G, ahead) ==
    /\ \A i \in C : ahead[i] \in SUBSET S /\ G \subseteq ahead[i]
                     /\ ahead[i] \subseteq G \cup C /\ i \notin ahead[i]
    /\ \A i, j \in C : i # j => \/ i \in ahead[j] /\ ahead[i] \subseteq ahead[j]
                                \/ j \in ahead[i] /\ ahead[j] \subseteq ahead[i]

\* Those of them that W has the places of.
Placed(C, ahead, W) == {i \in C : Cardinality(ahead[i]) \in W}

\* The places of equals are consecutive, however they are ordered.
LEMMA PlacesAreConsecutive ==
    ASSUME NEW S, IsFiniteSet(S), NEW C \in SUBSET S, NEW G \in SUBSET (S \ C),
           NEW ahead, Line(S, C, G, ahead), NEW W
    PROVE  Cardinality(Placed(C, ahead, W))
             = Cardinality(W \cap Cardinality(G)..(Cardinality(G) + Cardinality(C) - 1))
<1> USE DEF Line, Placed
<1> DEFINE g == Cardinality(G)
           c == Cardinality(C)
           T == g..(g + c - 1)
           f == [i \in C |-> Cardinality(ahead[i])]
           D == {i \in C : Cardinality(ahead[i]) \in W}
           h == [i \in D |-> Cardinality(ahead[i])]
<1>1. IsFiniteSet(C) /\ IsFiniteSet(G) /\ c \in Nat /\ g \in Nat
    <2>1. IsFiniteSet(C) /\ IsFiniteSet(G)
        BY FS_Subset
    <2>2. QED
        BY <2>1, FS_CardinalityType
<1>2. IsFiniteSet(G \cup C) /\ Cardinality(G \cup C) = g + c
    <2>1. G \cap C = {}
        OBVIOUS
    <2>2. Cardinality(G \cap C) = 0
        BY <2>1, FS_EmptySet
    <2>3. IsFiniteSet(G \cup C) /\ Cardinality(G \cup C) = g + c - Cardinality(G \cap C)
        BY <1>1, FS_Union
    <2>4. QED
        BY <1>1, <2>2, <2>3
<1>3. \A i \in C : IsFiniteSet(ahead[i]) /\ Cardinality(ahead[i]) \in Nat
    BY FS_Subset, FS_CardinalityType
<1>4. ASSUME NEW i \in C PROVE Cardinality(ahead[i]) \in T
    <2>1. g <= Cardinality(ahead[i])
        BY <1>3, FS_Subset
    <2>2. /\ Cardinality(ahead[i]) <= Cardinality(G \cup C)
          /\ Cardinality(ahead[i]) # Cardinality(G \cup C)
        <3>1. ahead[i] \in SUBSET (G \cup C) /\ ahead[i] # G \cup C
            OBVIOUS
        <3>2. QED
            BY <1>2, <3>1, FS_Subset
    <2>3. \A n \in Nat : g <= n /\ n <= g + c /\ n # g + c => n \in T
        BY <1>1
    <2>4. QED
        BY <1>2, <1>3, <2>1, <2>2, <2>3
<1>5. ASSUME NEW i \in C, NEW j \in C, i \in ahead[j], ahead[i] \subseteq ahead[j]
      PROVE  Cardinality(ahead[i]) # Cardinality(ahead[j])
    <2>1. ahead[i] # ahead[j] /\ ahead[i] \in SUBSET ahead[j]
        BY <1>5
    <2>2. QED
        BY <1>3, <2>1, FS_Subset
<1>6. \A i, j \in C : Cardinality(ahead[i]) = Cardinality(ahead[j]) => i = j
    BY <1>5
<1>7. f \in Injection(C, T)
    BY <1>4, <1>6 DEF Injection, IsInjective
<1>8. IsFiniteSet(T) /\ Cardinality(T) = c
    <2>1. g + c - 1 \in Int /\ g \in Int
        BY <1>1
    <2>2. IsFiniteSet(T) /\ Cardinality(T) = IF g > g + c - 1 THEN 0 ELSE (g + c - 1) - g + 1
        BY <2>1, FS_Interval
    <2>3. QED
        BY <1>1, <2>2
<1> HIDE DEF T
<1>9. f \in Surjection(C, T)
    BY <1>7, <1>8, FS_Injection
<1>10. \A t \in T : \E i \in C : Cardinality(ahead[i]) = t
    BY <1>9 DEF Surjection
<1>11. h \in Bijection(D, W \cap T)
    <2>1. h \in [D -> W \cap T]
        BY <1>4
    <2>2. \A i, j \in D : h[i] = h[j] => i = j
        BY <1>6
    <2>3. \A t \in W \cap T : \E i \in D : h[i] = t
        BY <1>10
    <2>4. QED
        BY <2>1, <2>2, <2>3 DEF Bijection, Injection, Surjection, IsInjective
<1>12. ExistsBijection(D, W \cap T) /\ IsFiniteSet(D)
    BY <1>1, <1>11, FS_Subset DEF ExistsBijection
<1>13. Cardinality(W \cap T) = Cardinality(D)
    BY <1>12, FS_Bijection
<1>14. QED
    BY <1>13 DEF T

\* Without wildcards both filters select alike.
LEMMA FiltersAgree ==
    ASSUME TypeOK, NEW f \in Filter, f.text # Wild \/ f.text = NotGiven
    PROVE  InMemory(f) = Selected(f)
<1>1. ASSUME NEW i \in Stored
      PROVE  MatchesAnalysisFilter(rows[i], f) <=> Where(rows[i], f)
    <2> DEFINE a == rows[i]
    <2>1. a.created \in Int
        BY DEF TypeOK, Time
    <2>2. /\ f.from \in Int \/ f.from = NotGiven
          /\ f.to \in Int \/ f.to = NotGiven
        BY DEF Filter, Time
    <2>3. TimeWindowMatches(a, f) <=> /\ f.from = NotGiven \/ a.created >= f.from
                                      /\ f.to = NotGiven \/ a.created <= f.to
        <3>1. \A x, y \in Int : (~(x < y) <=> x >= y) /\ (~(x > y) <=> x <= y)
            OBVIOUS
        <3>2. QED
            BY <2>1, <2>2, <3>1 DEF TimeWindowMatches
    <2>4. TextQueryMatches(a, f) <=> f.text \in {NotGiven, Wild} \cup a.about.words
        BY DEF TextQueryMatches
    <2> HIDE DEF a
    <2>5. MatchesAnalysisFilter(a, f) <=> Where(a, f)
        BY <2>3, <2>4 DEF MatchesAnalysisFilter, Where, SeverityMatches, ServiceMatches,
           SignalMatches, ProviderMatches
    <2>6. QED
        BY <2>5 DEF a
<1>2. QED
    BY <1>1 DEF InMemory, Selected

\* A limit no smaller than what matches fetches it all.
LEMMA FetchedIsAll ==
    ASSUME TypeOK, NEW f, Cardinality(InMemory(f)) <= StatsFetch
    PROVE  Fetched(f) = InMemory(f)
<1> DEFINE q == [limit |-> StatsFetch, offset |-> 0, sort |-> "createdAt",
                 order |-> "desc", filter |-> f]
<1>1. q.limit = StatsFetch /\ q.offset = 0 /\ q.sort = "createdAt" /\ q.order = "desc"
      /\ q.filter = f
    OBVIOUS
<1>2. Fetched(f) = MemoryPage(q)
    BY DEF Fetched
<1> HIDE DEF q
<1>3. InMemory(f) \subseteq Stored /\ IsFiniteSet(InMemory(f)) /\ Stored \subseteq Nat
    BY MatchingTypes, StoredIsFinite
<1>4. ASSUME NEW i \in InMemory(f)
      PROVE  MemoryPosition(i, q) \in 0..(0 + StatsFetch - 1)
    <2> DEFINE ahead == {j \in InMemory(f) : SortedBefore(j, i, q)}
    <2>1. ~SortedBefore(i, i, q)
        <3>1. i \in Stored /\ i \in Nat
            BY <1>3, <1>4
        <3>2. q.sort \in {"createdAt", "severity", "confidence"}
            BY <1>1
        <3>3. Rank(i, q.sort) \in Int
            BY <3>1, <3>2, RanksAreNumbers
        <3>4. QED
            BY <3>1, <3>3 DEF SortedBefore, AnalysisLess
    <2>2. ahead \in SUBSET InMemory(f) /\ ahead # InMemory(f)
        BY <2>1
    <2>3. /\ IsFiniteSet(ahead) /\ Cardinality(ahead) <= Cardinality(InMemory(f))
          /\ Cardinality(ahead) # Cardinality(InMemory(f))
        BY <1>3, <2>2, FS_Subset
    <2>4. Cardinality(ahead) \in Nat /\ Cardinality(InMemory(f)) \in Nat
        BY <1>3, <2>3, FS_CardinalityType
    <2>5. MemoryPosition(i, q) = Cardinality(ahead)
        BY <1>1 DEF MemoryPosition
    <2> HIDE DEF ahead
    <2>6. StatsFetch \in Nat
        BY AnalysisListAssumption
    <2>7. QED
        BY <2>3, <2>4, <2>5, <2>6
<1>5. QED
    BY <1>1, <1>2, <1>4 DEF MemoryPage

\* Every analysis has one severity.
LEMMA SeveritiesAddUp ==
    ASSUME TypeOK, NEW ids \in SUBSET Stored
    PROVE  LET n(v) == Cardinality({i \in ids : rows[i].about.severity = v})
           IN  Cardinality(ids) = n("info") + n("low") + n("medium") + n("high") + n("critical")
<1> DEFINE of(v) == {i \in ids : rows[i].about.severity = v}
<1>1. IsFiniteSet(ids)
    BY StoredIsFinite, FS_Subset
<1>2. \A v : IsFiniteSet(of(v)) /\ Cardinality(of(v)) \in Nat
    BY <1>1, FS_Subset, FS_CardinalityType
<1>3. \A i \in ids : rows[i].about.severity \in Severity
    BY AnalysisListAssumption DEF TypeOK, Content
<1>4. ids = of("info") \cup of("low") \cup of("medium") \cup of("high") \cup of("critical")
    BY <1>3 DEF Severity
<1>5. /\ of("info") \cap of("low") = {}
      /\ (of("info") \cup of("low")) \cap of("medium") = {}
      /\ (of("info") \cup of("low") \cup of("medium")) \cap of("high") = {}
      /\ (of("info") \cup of("low") \cup of("medium") \cup of("high")) \cap of("critical") = {}
    OBVIOUS
<1> HIDE DEF of
<1>6. \A A, B : IsFiniteSet(A) /\ IsFiniteSet(B) /\ A \cap B = {} =>
        IsFiniteSet(A \cup B) /\ Cardinality(A \cup B) = Cardinality(A) + Cardinality(B)
    <2> SUFFICES ASSUME NEW A, NEW B, IsFiniteSet(A), IsFiniteSet(B), A \cap B = {}
                 PROVE  /\ IsFiniteSet(A \cup B)
                        /\ Cardinality(A \cup B) = Cardinality(A) + Cardinality(B)
        OBVIOUS
    <2>1. /\ IsFiniteSet(A \cup B)
          /\ Cardinality(A \cup B) = Cardinality(A) + Cardinality(B) - Cardinality(A \cap B)
        BY FS_Union
    <2>2. Cardinality(A \cap B) = 0
        BY FS_EmptySet
    <2>3. Cardinality(A) \in Nat /\ Cardinality(B) \in Nat
        BY FS_CardinalityType
    <2>4. QED
        BY <2>1, <2>2, <2>3
<1>7. LET two == of("info") \cup of("low")
      IN  IsFiniteSet(two) /\ Cardinality(two) = Cardinality(of("info")) + Cardinality(of("low"))
    BY <1>2, <1>5, <1>6
<1>8. LET three == of("info") \cup of("low") \cup of("medium")
      IN  /\ IsFiniteSet(three)
          /\ Cardinality(three) = Cardinality(of("info")) + Cardinality(of("low"))
                                    + Cardinality(of("medium"))
    BY <1>2, <1>5, <1>6, <1>7
<1>9. LET four == of("info") \cup of("low") \cup of("medium") \cup of("high")
      IN  /\ IsFiniteSet(four)
          /\ Cardinality(four) = Cardinality(of("info")) + Cardinality(of("low"))
                                   + Cardinality(of("medium")) + Cardinality(of("high"))
    BY <1>2, <1>5, <1>6, <1>8
<1>10. Cardinality(ids) = Cardinality(of("info")) + Cardinality(of("low"))
         + Cardinality(of("medium")) + Cardinality(of("high")) + Cardinality(of("critical"))
    BY <1>2, <1>4, <1>5, <1>6, <1>9
<1>11. QED
    BY <1>10 DEF of

\* How many services of a count are shown: they follow those that are mentioned more
\* often, and are cut where the list ends.
PlacesShown(ids, found, top, n) ==
    LET more == Cardinality({s \in found : Mentions(s, ids) > n})
        alike == Cardinality({s \in found : Mentions(s, ids) = n})
    IN  (0..(top - 1)) \cap more..(more + alike - 1)

\* It does not depend on how names are sorted.
LEMMA TopAlike ==
    ASSUME TypeOK, NEW ids \in SUBSET Stored, NEW found \in SUBSET Service,
           NEW key \in [Service -> Nat], \A s, t \in Service : key[s] = key[t] => s = t,
           NEW top \in Nat, NEW n \in Nat \ {0}
    PROVE  Shown(TopServices(ids, found, top, key), n)
             = Cardinality(PlacesShown(ids, found, top, n))
<1> DEFINE S == {s \in found : Mentions(s, ids) > 0}
           C == {s \in found : Mentions(s, ids) = n}
           G == {s \in found : Mentions(s, ids) > n}
           before(t) == {s \in S : \/ Mentions(s, ids) > Mentions(t, ids)
                                   \/ /\ Mentions(s, ids) = Mentions(t, ids)
                                      /\ key[s] < key[t]}
           ahead == [t \in C |-> before(t)]
           W == 0..(top - 1)
<1>1. IsFiniteSet(found)
    BY AnalysisListAssumption, FS_Subset
<1>2. \A s : Mentions(s, ids) \in Nat
    <2>1. IsFiniteSet(ids)
        BY StoredIsFinite, FS_Subset
    <2>2. QED
        BY <2>1, FS_Subset, FS_CardinalityType DEF Mentions
<1>3. S \in SUBSET found /\ C \in SUBSET S /\ G \in SUBSET (S \ C) /\ IsFiniteSet(S)
    <2>1. C \in SUBSET S /\ G \in SUBSET (S \ C)
        BY <1>2
    <2>2. QED
        BY <1>1, <2>1, FS_Subset
<1>4. \A t \in C : Mentions(t, ids) = n
    OBVIOUS
<1>5. \A t \in C : ahead[t] = {s \in S : Mentions(s, ids) > n
                                         \/ (Mentions(s, ids) = n /\ key[s] < key[t])}
    BY <1>4
<1>6. \A s \in S : /\ s \in Service /\ key[s] \in Nat
                   /\ s \in C <=> Mentions(s, ids) = n
                   /\ s \in G <=> Mentions(s, ids) > n
    BY <1>3
<1> HIDE DEF S, C, G, ahead
<1>7. ASSUME NEW t \in C
      PROVE  /\ ahead[t] \in SUBSET S /\ G \subseteq ahead[t]
             /\ ahead[t] \subseteq G \cup C /\ t \notin ahead[t]
    <2>1. ahead[t] \in SUBSET S /\ ahead[t] \subseteq G \cup C /\ G \subseteq ahead[t]
        BY <1>3, <1>5, <1>6
    <2>2. t \notin ahead[t]
        BY <1>2, <1>3, <1>5, <1>6
    <2>3. QED
        BY <2>1, <2>2
<1>8. ASSUME NEW i \in C, NEW j \in C, key[i] < key[j]
      PROVE  i \in ahead[j] /\ ahead[i] \subseteq ahead[j]
    <2>1. i \in ahead[j]
        BY <1>3, <1>5, <1>6, <1>8
    <2>2. ASSUME NEW s \in ahead[i] PROVE s \in ahead[j]
        <3>1. s \in S /\ key[s] \in Nat /\ key[i] \in Nat /\ key[j] \in Nat
            BY <1>3, <1>6, <1>7
        <3>2. Mentions(s, ids) > n \/ (Mentions(s, ids) = n /\ key[s] < key[i])
            BY <1>5
        <3>3. Mentions(s, ids) > n \/ (Mentions(s, ids) = n /\ key[s] < key[j])
            BY <1>8, <3>1, <3>2
        <3>4. QED
            BY <1>5, <3>1, <3>3
    <2>3. QED
        BY <2>1, <2>2
<1>9. \A i, j \in C : i # j => key[i] < key[j] \/ key[j] < key[i]
    BY <1>3, <1>6
<1>10. Line(S, C, G, ahead)
    BY <1>7, <1>8, <1>9 DEF Line
<1>11. Cardinality(Placed(C, ahead, W))
         = Cardinality(W \cap Cardinality(G)..(Cardinality(G) + Cardinality(C) - 1))
    <2> HIDE DEF W, before
    <2>1. QED
        BY <1>3, <1>10, PlacesAreConsecutive
<1>12. {s \in DOMAIN TopServices(ids, found, top, key) :
          TopServices(ids, found, top, key)[s] = n} = Placed(C, ahead, W)
    <2>1. \A t \in S : Cardinality(before(t)) \in Nat
        BY <1>3, FS_Subset, FS_CardinalityType
    <2>2. \A t \in S : Cardinality(before(t)) < top <=> Cardinality(before(t)) \in W
        BY <2>1
    <2>3. TopServices(ids, found, top, key)
            = [t \in {u \in S : Cardinality(before(u)) < top} |-> Mentions(t, ids)]
        BY DEF TopServices, S
    <2>4. \A t \in C : ahead[t] = before(t)
        BY DEF ahead
    <2> HIDE DEF W, before
    <2>5. QED
        BY <1>3, <1>6, <2>2, <2>3, <2>4 DEF Placed
<1>13. QED
    BY <1>11, <1>12 DEF Shown, PlacesShown, S, C, G

\* Both sort names strictly.
LEMMA BothSort ==
    /\ ByBytes \in [Service -> Nat]
    /\ \A s, t \in Service : ByBytes[s] = ByBytes[t] => s = t
    /\ Collation \in [Service -> Nat]
    /\ \A s, t \in Service : Collation[s] = Collation[t] => s = t
BY AnalysisListAssumption DEF ByBytes

\* A number that is narrowed does not grow.
LEMMA NarrowedIsLess == \A n \in Nat : Int32(n) <= n
<1>1. Int32Max \in Nat
    BY AnalysisListAssumption
<1>2. \A k \in Nat, m \in Nat \ {0} : k % m <= k
    <2>1. \A k \in Nat, m \in Nat \ {0} : k < m => k % m = k
        OBVIOUS
    <2>2. \A k \in Nat, m \in Nat \ {0} : k % m < m /\ k % m \in Nat
        OBVIOUS
    <2>3. QED
        BY <2>1, <2>2
<1>3. ASSUME NEW n \in Nat PROVE Int32(n) <= n
    <2> DEFINE m == 2 * (Int32Max + 1)
    <2>1. n + Int32Max + 1 \in Nat /\ m \in Nat \ {0}
        BY <1>1
    <2>2. (n + Int32Max + 1) % m <= n + Int32Max + 1 /\ (n + Int32Max + 1) % m \in Int
        <3> HIDE DEF m
        <3>1. \A k \in Nat : k % m \in Int
            BY <2>1
        <3>2. QED
            BY <1>2, <2>1, <3>1
    <2> HIDE DEF m
    <2>3. ((n + Int32Max + 1) % m) - (Int32Max + 1) <= n
        BY <1>1, <2>2
    <2>4. QED
        BY <2>3 DEF Int32, m
<1>4. QED
    BY <1>3

\* While memory fetches all that match, both compute the same statistics, but for the
\* names among services mentioned equally often.
LEMMA StatisticsAgree ==
    ASSUME TypeOK, NEW f \in Filter, Cardinality(Selected(StatsFilter(f))) <= StatsFetch
    PROVE  /\ [MemoryStats(f) EXCEPT !.top = SQLStats(f).top] = SQLStats(f)
           /\ \A n \in 1..Cardinality(Id) :
                Shown(MemoryStats(f).top, n) = Shown(SQLStats(f).top, n)
<1> DEFINE part == StatsFilter(f)
           ids == Selected(part)
<1>1. part \in Filter /\ part.text = NotGiven
    BY DEF StatsFilter, Filter
<1>2. InMemory(part) = ids /\ Fetched(part) = ids
    BY <1>1, FiltersAgree, FetchedIsAll
<1>3. ids \in SUBSET Stored
    BY MatchingTypes
<1>4. MemoryStats(f) = ComputeAnalysisStats(ids)
    BY <1>2 DEF MemoryStats
<1> HIDE DEF part
<1>5. AnalysesSeverityHistogram(part)
        = [v \in Severity |-> Cardinality({i \in ids : rows[i].about.severity = v})]
    BY DEF AnalysesSeverityHistogram
<1>6. Histogram(ids, LAMBDA i : rows[i].about.severity, Severity)
        = [v \in Severity |-> Cardinality({i \in ids : rows[i].about.severity = v})]
    BY DEF Histogram
<1>7. AnalysesConfidenceHistogram(part)
        = Histogram(ids, LAMBDA i : rows[i].about.confidence, Confidence)
    BY DEF Histogram, AnalysesConfidenceHistogram
<1>8. AnalysesTrendBuckets(part) = Histogram(ids, LAMBDA i : rows[i].created \div Day, Days)
    BY DEF Histogram, AnalysesTrendBuckets
<1>9. AnalysesTopServices(part, Service, TopCount)
        = TopServices(ids, Service, TopCount, Collation)
    <2>1. TopCount \in 0..Int32Max
        BY AnalysisListAssumption
    <2>2. Int32(TopCount) = TopCount
        BY <2>1, ConversionsFit
    <2>3. QED
        BY <2>2 DEF AnalysesTopServices
<1> DEFINE counts == AnalysesSeverityHistogram(part)
<1>10. Cardinality(ids) = counts["info"] + counts["low"] + counts["medium"]
                            + counts["high"] + counts["critical"]
    <2>1. /\ counts["info"] = Cardinality({i \in ids : rows[i].about.severity = "info"})
          /\ counts["low"] = Cardinality({i \in ids : rows[i].about.severity = "low"})
          /\ counts["medium"] = Cardinality({i \in ids : rows[i].about.severity = "medium"})
          /\ counts["high"] = Cardinality({i \in ids : rows[i].about.severity = "high"})
          /\ counts["critical"] = Cardinality({i \in ids : rows[i].about.severity = "critical"})
        BY <1>5 DEF Severity
    <2> HIDE DEF counts, ids
    <2>2. QED
        BY <1>3, <2>1, SeveritiesAddUp
<1>11. SQLStats(f) =
         [total        |-> counts["info"] + counts["low"] + counts["medium"]
                             + counts["high"] + counts["critical"],
          bySeverity   |-> counts,
          byConfidence |-> AnalysesConfidenceHistogram(part),
          top          |-> AnalysesTopServices(part, Service, TopCount),
          trend        |-> AnalysesTrendBuckets(part)]
    BY DEF SQLStats, part
<1> DEFINE byConfidence == Histogram(ids, LAMBDA i : rows[i].about.confidence, Confidence)
           trend == Histogram(ids, LAMBDA i : rows[i].created \div Day, Days)
           inMemory == TopServices(ids, Service, TopCount, ByBytes)
           inSQL == TopServices(ids, Service, TopCount, Collation)
<1>12. MemoryStats(f) =
         [total        |-> Cardinality(ids),
          bySeverity   |-> counts,
          byConfidence |-> byConfidence,
          top          |-> inMemory,
          trend        |-> trend]
    <2>1. counts = Histogram(ids, LAMBDA i : rows[i].about.severity, Severity)
        BY <1>5, <1>6
    <2> HIDE DEF counts, ids
    <2>2. QED
        BY <1>4, <2>1 DEF ComputeAnalysisStats
<1>13. SQLStats(f) =
         [total        |-> Cardinality(ids),
          bySeverity   |-> counts,
          byConfidence |-> byConfidence,
          top          |-> inSQL,
          trend        |-> trend]
    BY <1>7, <1>8, <1>9, <1>10, <1>11
<1>14. ASSUME NEW n \in 1..Cardinality(Id) PROVE Shown(inMemory, n) = Shown(inSQL, n)
    <2>1. n \in Nat \ {0} /\ TopCount \in Nat
        BY AnalysisListAssumption, FS_CardinalityType
    <2>2. /\ ids \in SUBSET Stored /\ Service \in SUBSET Service
          /\ ByBytes \in [Service -> Nat] /\ Collation \in [Service -> Nat]
        BY <1>3, BothSort
    <2> HIDE DEF ids, counts, byConfidence, trend
    <2>3. Shown(inMemory, n) = Shown(inSQL, n)
        BY <2>1, <2>2, BothSort, TopAlike
    <2>4. QED
        BY <2>3
<1> HIDE DEF counts, ids, byConfidence, trend, inMemory, inSQL
<1>15. MemoryStats(f).top = inMemory /\ SQLStats(f).top = inSQL
    BY <1>12, <1>13
<1>16. [MemoryStats(f) EXCEPT !.top = inSQL] = SQLStats(f)
    BY <1>12, <1>13
<1>17. QED
    BY <1>14, <1>15, <1>16

\* And find as many services of each count, for a limit that fits; one that is narrowed
\* shows no more.
LEMMA ServicesAgree ==
    ASSUME TypeOK, Cardinality(Stored) <= StatsFetch, NEW found \in SUBSET Service,
           NEW limit \in 0..Int64Max, NEW n \in 1..Cardinality(Id)
    PROVE  LET inMemory == Shown(MemoryServices(found, limit), n)
               inSQL == Shown(SQLServices(found, limit), n)
           IN  /\ limit <= Int32Max => inSQL = inMemory
               /\ Int32(limit) >= 0 => inSQL <= inMemory
<1> DEFINE ids == Selected(NoFilter)
           asked == ServiceLimit(limit)
           shown(top) == PlacesShown(ids, found, top, n)
<1>1. NoFilter \in Filter /\ NoFilter.text = NotGiven
    BY DEF NoFilter, Filter
<1>2. InMemory(NoFilter) = ids /\ ids \in SUBSET Stored
    BY <1>1, FiltersAgree, MatchingTypes
<1>3. Fetched(NoFilter) = ids
    <2>1. Cardinality(ids) <= Cardinality(Stored)
          /\ Cardinality(ids) \in Nat /\ Cardinality(Stored) \in Nat
        BY <1>2, StoredIsFinite, FS_Subset, FS_CardinalityType
    <2>2. StatsFetch \in Nat
        BY AnalysisListAssumption
    <2> HIDE DEF ids
    <2>3. Cardinality(InMemory(NoFilter)) <= StatsFetch
        BY <1>2, <2>1, <2>2
    <2>4. QED
        BY <1>2, <2>3, FetchedIsAll
<1>4. /\ limit \in Nat /\ asked \in Nat /\ n \in Nat \ {0} /\ Int32Max \in Nat
      /\ Int32(limit) \in Int /\ Int32(asked) \in Int /\ TopCount \in 0..Int32Max
    <2>1. TopCount \in 0..Int32Max /\ Int64Max \in Nat /\ Cardinality(Id) \in Nat
        BY AnalysisListAssumption, FS_CardinalityType
    <2>2. limit \in Nat /\ limit \in Int /\ n \in Nat \ {0}
        BY <2>1
    <2>3. asked \in Nat /\ asked \in Int
        BY <2>1, <2>2 DEF ServiceLimit
    <2>4. QED
        BY <2>1, <2>2, <2>3, ConversionsFit, AnalysisListAssumption
<1>5. MemoryServices(found, limit) = TopServices(ids, found, asked, ByBytes)
    BY <1>3 DEF MemoryServices
<1>6. SQLServices(found, limit) = TopServices(ids, found, Int32(asked), Collation)
    BY DEF SQLServices, AnalysesTopServices
<1> HIDE DEF ids, asked
<1>7. \A top \in Nat : /\ Shown(TopServices(ids, found, top, ByBytes), n) = Cardinality(shown(top))
                       /\ Shown(TopServices(ids, found, top, Collation), n) = Cardinality(shown(top))
    <2>1. ASSUME NEW top \in Nat, NEW key \in [Service -> Nat],
                 \A s, t \in Service : key[s] = key[t] => s = t
          PROVE  Shown(TopServices(ids, found, top, key), n) = Cardinality(shown(top))
        BY <1>2, <1>4, <2>1, TopAlike
    <2> HIDE DEF shown
    <2>2. QED
        BY <2>1, BothSort
<1>8. limit <= Int32Max => Int32(asked) = asked
    <2>1. limit <= Int32Max => asked \in 0..Int32Max
        BY <1>4 DEF asked, ServiceLimit
    <2>2. QED
        BY <2>1, ConversionsFit
<1>9. limit <= Int32Max =>
        Shown(SQLServices(found, limit), n) = Shown(MemoryServices(found, limit), n)
    BY <1>4, <1>5, <1>6, <1>7, <1>8
<1>10. ASSUME Int32(limit) >= 0
       PROVE  Shown(SQLServices(found, limit), n) <= Shown(MemoryServices(found, limit), n)
    <2>1. Int32(asked) \in Nat /\ Int32(asked) <= asked
        <3>1. CASE limit = 0
            <4>1. asked \in 0..Int32Max
                BY <1>4, <3>1 DEF asked, ServiceLimit
            <4>2. QED
                BY <1>4, <4>1, ConversionsFit
        <3>2. CASE limit # 0
            <4>1. asked = limit
                BY <3>2 DEF asked, ServiceLimit
            <4>2. Int32(limit) <= limit
                BY <1>4, NarrowedIsLess
            <4>3. QED
                BY <1>4, <1>10, <4>1, <4>2
        <3>3. QED
            BY <3>1, <3>2
    <2>2. \A a, b \in Nat : a <= b => shown(a) \subseteq shown(b)
        BY DEF PlacesShown
    <2>3. ASSUME NEW a \in Nat PROVE IsFiniteSet(shown(a))
        <3>1. IsFiniteSet(0..(a - 1))
            BY FS_Interval
        <3>2. shown(a) \subseteq 0..(a - 1)
            BY DEF PlacesShown
        <3> HIDE DEF shown
        <3>3. QED
            BY <3>1, <3>2, FS_Subset
    <2> HIDE DEF shown
    <2>4. Cardinality(shown(Int32(asked))) <= Cardinality(shown(asked))
        BY <1>4, <2>1, <2>2, <2>3, FS_Subset
    <2>5. QED
        BY <1>4, <1>5, <1>6, <1>7, <2>1, <2>4
<1>11. QED
    BY <1>9, <1>10

\* What a query that fits asks of both repositories.
LEMMA AskedOfBoth ==
    ASSUME TypeOK, NEW q \in Queries
    PROVE  LET p == Normalized(q)
           IN  /\ p.sort \in {"createdAt", "severity", "confidence"}
               /\ p.order \in {"asc", "desc"} /\ p.filter \in Filter
               /\ p.limit \in Nat /\ p.offset \in 0..Int64Max
               /\ Fits(p) => Int32(p.offset) = p.offset
<1> DEFINE p == Normalized([q EXCEPT !.offset = q.offset])
<1>1. q.offset \in Int /\ q.offset \in 0..Int64Max
    BY QueryTypes, WidthTypes
<1>2. [q EXCEPT !.offset = q.offset] = q
    BY QueryTypes DEF Query
<1>3. /\ p.limit \in 1..MaxLimit /\ p.offset = q.offset
      /\ p.sort = q.sort /\ p.order = q.order /\ p.filter = q.filter
    BY <1>1, PageOfQuery
<1> HIDE DEF p
<1>4. Fits(p) => Int32(p.offset) = p.offset
    BY <1>1, <1>3, ConversionsFit, WidthTypes DEF Fits
<1>5. p = Normalized(q)
    BY <1>2 DEF p
<1>6. /\ p.sort \in {"createdAt", "severity", "confidence"}
      /\ p.order \in {"asc", "desc"} /\ p.filter \in Filter
      /\ p.limit \in Nat /\ p.offset \in 0..Int64Max
    BY <1>1, <1>3, QueryTypes, WidthTypes
<1>7. QED
    BY <1>4, <1>5, <1>6

\* An ascending order is the same order in both, and so are its pages.
LEMMA AscendingPagesAgree ==
    ASSUME NEW p, p.order = "asc", InMemory(p.filter) = Selected(p.filter),
           Int32(p.offset) = p.offset
    PROVE  MemoryPage(p) = SQLPage(p)
<1>1. \A i, j : SortedBefore(j, i, p) <=> OrderedBefore(j, i, p)
    BY DEF SortedBefore, AnalysisLess, OrderedBefore
<1>2. \A i : MemoryPosition(i, p) = SQLPosition(i, p)
    BY <1>1 DEF MemoryPosition, SQLPosition
<1>3. QED
    BY <1>2 DEF MemoryPage, SQLPage

\* A descending order has its equals the other way round: pages of the same ranks.
LEMMA DescendingPagesAgree ==
    ASSUME TypeOK, NEW p, p.order = "desc", p.sort \in {"createdAt", "severity", "confidence"},
           InMemory(p.filter) = Selected(p.filter), Int32(p.offset) = p.offset,
           NEW r \in Int
    PROVE  Cardinality({i \in MemoryPage(p) : Rank(i, p.sort) = r})
             = Cardinality({i \in SQLPage(p) : Rank(i, p.sort) = r})
<1> DEFINE S == Selected(p.filter)
           C == {i \in S : Rank(i, p.sort) = r}
           G == {i \in S : Rank(i, p.sort) > r}
           W == p.offset..(p.offset + p.limit - 1)
           sorted == [i \in S |-> {j \in S : SortedBefore(j, i, p)}]
           ordered == [i \in S |-> {j \in S : OrderedBefore(j, i, p)}]
<1>1. S \subseteq Stored /\ IsFiniteSet(S) /\ S \subseteq Nat
    BY MatchingTypes, StoredIsFinite
<1>2. \A i \in S : Rank(i, p.sort) \in Int /\ i \in Int
    BY <1>1, RanksAreNumbers
<1>3. \A i, j : /\ SortedBefore(j, i, p) <=> \/ Rank(i, p.sort) < Rank(j, p.sort)
                                             \/ Rank(i, p.sort) = Rank(j, p.sort) /\ i < j
                /\ OrderedBefore(j, i, p) <=> \/ Rank(j, p.sort) > Rank(i, p.sort)
                                              \/ Rank(j, p.sort) = Rank(i, p.sort) /\ j < i
    BY DEF SortedBefore, AnalysisLess, OrderedBefore
<1>4. C \in SUBSET S /\ G \in SUBSET (S \ C)
    BY <1>2
<1>5. \A x, y \in Int : (x < y <=> y > x) /\ ~(x < x) /\ (x < y \/ x = y \/ y < x)
    OBVIOUS
<1>6. ASSUME NEW i \in C, NEW j \in S
      PROVE  /\ j \in sorted[i] <=> Rank(j, p.sort) > r \/ (Rank(j, p.sort) = r /\ i < j)
             /\ j \in ordered[i] <=> Rank(j, p.sort) > r \/ (Rank(j, p.sort) = r /\ j < i)
    <2>1. i \in S /\ Rank(i, p.sort) = r
        OBVIOUS
    <2>2. /\ j \in sorted[i] <=> SortedBefore(j, i, p)
          /\ j \in ordered[i] <=> OrderedBefore(j, i, p)
        BY <2>1
    <2>3. Rank(j, p.sort) \in Int /\ j \in Int /\ i \in Int
        BY <1>2, <2>1
    <2> HIDE DEF sorted, ordered
    <2>4. /\ SortedBefore(j, i, p) <=> \/ r < Rank(j, p.sort)
                                       \/ r = Rank(j, p.sort) /\ i < j
          /\ OrderedBefore(j, i, p) <=> \/ Rank(j, p.sort) > r
                                        \/ Rank(j, p.sort) = r /\ j < i
        BY <1>3, <2>1
    <2>5. QED
        BY <2>2, <2>3, <2>4
<1>7. \A i \in C : sorted[i] \subseteq S /\ ordered[i] \subseteq S
    OBVIOUS
<1> HIDE DEF sorted, ordered
<1>8. \A i \in C : /\ G \subseteq sorted[i] /\ sorted[i] \subseteq G \cup C /\ i \notin sorted[i]
                    /\ G \subseteq ordered[i] /\ ordered[i] \subseteq G \cup C
                    /\ i \notin ordered[i]
    <2>1. \A i \in C : i \in S /\ ~(i < i) /\ ~(Rank(i, p.sort) > r)
        BY <1>2
    <2>2. QED
        BY <1>6, <1>7, <2>1
<1>9. ASSUME NEW i \in C, NEW j \in C, i < j
      PROVE  /\ j \in sorted[i] /\ sorted[j] \subseteq sorted[i]
             /\ i \in ordered[j] /\ ordered[i] \subseteq ordered[j]
    <2>1. \A x, y, z \in Int : x < y /\ y < z => x < z
        OBVIOUS
    <2>2. i \in S /\ j \in S /\ i \in Int /\ j \in Int
        BY <1>2
    <2>3. j \in sorted[i] /\ i \in ordered[j]
        BY <1>6, <1>9
    <2>4. ASSUME NEW k \in sorted[j] PROVE k \in sorted[i]
        BY <1>2, <1>6, <1>7, <1>9, <2>1, <2>2
    <2>5. ASSUME NEW k \in ordered[i] PROVE k \in ordered[j]
        BY <1>2, <1>6, <1>7, <1>9, <2>1, <2>2
    <2>6. QED
        BY <2>3, <2>4, <2>5
<1>10. \A i, j \in C : i # j => i < j \/ j < i
    BY <1>2, <1>5
<1>11. Line(S, C, G, sorted) /\ Line(S, C, G, ordered)
    BY <1>7, <1>8, <1>9, <1>10 DEF Line
<1>12. {i \in MemoryPage(p) : Rank(i, p.sort) = r}
         = Placed(C, sorted, W)
    BY DEF Placed, MemoryPage, MemoryPosition, sorted
<1>13. {i \in SQLPage(p) : Rank(i, p.sort) = r}
         = Placed(C, ordered, W)
    BY DEF Placed, SQLPage, SQLPosition, ordered
<1> HIDE DEF C, G, W, S
<1>14. IsFiniteSet(S) /\ C \in SUBSET S /\ G \in SUBSET (S \ C)
    BY <1>1, <1>4
<1>15. Cardinality(Placed(C, sorted, W))
         = Cardinality(W \cap Cardinality(G)..(Cardinality(G) + Cardinality(C) - 1))
    BY <1>11, <1>14, PlacesAreConsecutive
<1>16. Cardinality(Placed(C, ordered, W))
         = Cardinality(W \cap Cardinality(G)..(Cardinality(G) + Cardinality(C) - 1))
    BY <1>11, <1>14, PlacesAreConsecutive
<1>17. QED
    BY <1>12, <1>13, <1>15, <1>16

\* What BackendsAgree says of two statistics and of two answers about services.
SameStatistics(inMemory, inSQL) ==
    /\ [inMemory EXCEPT !.top = inSQL.top] = inSQL
    /\ \A n \in 1..Cardinality(Id) : Shown(inMemory.top, n) = Shown(inSQL.top, n)

SameServices(inMemory, inSQL, limit) ==
    \A n \in 1..Cardinality(Id) :
       /\ limit <= Int32Max => Shown(inSQL, n) = Shown(inMemory, n)
       /\ Int32(limit) >= 0 => Shown(inSQL, n) <= Shown(inMemory, n)

\* Whatever is stored and asked, both repositories give the same answers: the same
\* pages in ascending order, pages of the same ranks in descending order, and while memory
\* fetches all that match the same statistics and as many services of each count, for any
\* collation and any limit that fits 32 bits; a limit that is narrowed shows no more
\* (ListAnalyses, computeAnalysisStats, AnalysisStats, ListAffectedServices).
THEOREM RepositoriesAgree == Spec => []BackendsAgree
<1>1. TypeOK => BackendsAgree
    <2> SUFFICES ASSUME TypeOK PROVE BackendsAgree
        OBVIOUS
    <2> DEFINE p == Normalized(walk.query)
    <2>1. /\ p.sort \in {"createdAt", "severity", "confidence"}
          /\ p.order \in {"asc", "desc"} /\ p.filter \in Filter
          /\ Fits(p) => Int32(p.offset) = p.offset
        BY AskedOfBoth DEF TypeOK, Walk
    <2> HIDE DEF p
    <2> SUFFICES ASSUME p.filter.text # Wild, Fits(p)
                 PROVE  /\ p.order = "asc" => MemoryPage(p) = SQLPage(p)
                        /\ \A r \in 0..MaxTime + 4 :
                             Cardinality({i \in MemoryPage(p) : Rank(i, p.sort) = r})
                               = Cardinality({i \in SQLPage(p) : Rank(i, p.sort) = r})
                        /\ Cardinality(Selected(StatsFilter(p.filter))) <= StatsFetch =>
                             SameStatistics(MemoryStats(p.filter), SQLStats(p.filter))
                        /\ Cardinality(Stored) <= StatsFetch =>
                             \A found \in SUBSET Service, limit \in Limits :
                               SameServices(MemoryServices(found, limit),
                                            SQLServices(found, limit), limit)
        BY DEF BackendsAgree, p, SameStatistics, SameServices
    <2>2. InMemory(p.filter) = Selected(p.filter)
        BY <2>1, FiltersAgree
    <2>3. p.order = "asc" => MemoryPage(p) = SQLPage(p)
        BY <2>1, <2>2, AscendingPagesAgree
    <2>4. ASSUME NEW r \in 0..MaxTime + 4
          PROVE  Cardinality({i \in MemoryPage(p) : Rank(i, p.sort) = r})
                   = Cardinality({i \in SQLPage(p) : Rank(i, p.sort) = r})
        <3>1. CASE p.order = "asc"
            BY <2>3, <3>1
        <3>2. CASE p.order = "desc"
            <4>1. r \in Int
                BY AnalysisListAssumption
            <4>2. QED
                BY <2>1, <2>2, <3>2, <4>1, DescendingPagesAgree
        <3>3. QED
            BY <2>1, <3>1, <3>2
    <2>5. Cardinality(Selected(StatsFilter(p.filter))) <= StatsFetch =>
            SameStatistics(MemoryStats(p.filter), SQLStats(p.filter))
        BY <2>1, StatisticsAgree DEF SameStatistics
    <2>6. Cardinality(Stored) <= StatsFetch =>
            \A found \in SUBSET Service, limit \in Limits :
              SameServices(MemoryServices(found, limit), SQLServices(found, limit), limit)
        BY AnalysisListAssumption, ServicesAgree DEF SameServices
    <2>7. QED
        BY <2>3, <2>4, <2>5, <2>6
<1>2. QED
    BY TypeCorrect, <1>1, PTL
=============================================================================
