----------------------- MODULE WebhookDeliveryProofs -----------------------
(***************************************************************************)
(* Proofs about WebhookDelivery, for every set of subscriptions, calls and *)
(* goroutines and every MaxAttempts and SweepLimit.                        *)
(***************************************************************************)
EXTENDS WebhookDelivery, TLAPS

-----------------------------------------------------------------------------
(* The types of the rows the statements write. *)

\* Every update of webhook_deliveries.sql turns a row into a row.
LEMMA RowUpdates ==
    ASSUME NEW row \in DeliveryRow, NEW n \in Nat, NEW due \in BOOLEAN
    PROVE  /\ MarkDelivered(row) \in DeliveryRow
           /\ MarkFailed(row, n) \in DeliveryRow
           /\ ScheduleRetry(row, n, due) \in DeliveryRow
  BY DEF DeliveryRow, MarkDelivered, MarkFailed, ScheduleRetry

\* What deliver records for a goroutine is a row.
LEMMA RecordedType ==
    ASSUME NEW row \in DeliveryRow, NEW flight \in Carried
    PROVE  Recorded(row, flight) \in DeliveryRow
<1>. flight.attempt \in Nat /\ flight.attempt + 1 \in Nat
  BY DEF Carried
<1>. QED  BY RowUpdates DEF Recorded

\* A goroutine that was started or posted carries an attempt.
LEMMA FlightStep ==
    ASSUME TypeOK, NEW f \in Flight, flights[f].at # "idle"
    PROVE  flights[f] \in Carried /\ flights[f].delivery \in Delivery
<1>. flights[f] \in Carried
  BY DEF TypeOK, Idle
<1>. QED  BY DEF Carried

\* A retry that read its row works with a copy of it.
LEMMA RetrierStep ==
    ASSUME TypeOK, NEW r \in Retrier, retriers[r].at = "commit"
    PROVE  /\ retriers[r] \in RetryCopy
           /\ retriers[r].delivery \in Delivery /\ retriers[r].attempt \in Nat
<1>. retriers[r] \in RetryCopy
  BY DEF TypeOK, Idle
<1>. QED  BY DEF RetryCopy

\* Dispatch keeps the type of the goroutines.
LEMMA DispatchType ==
    ASSUME TypeOK, NEW f \in Flight, NEW d \in Delivery, NEW n \in Nat,
           Dispatch(f, d, n)
    PROVE  flights' \in [Flight -> Carried \cup {Idle}]
<1>. [at |-> "post", delivery |-> d, attempt |-> n, answer |-> "none"] \in Carried
  BY DEF Carried, AnswerKind
<1>. QED  BY DEF Dispatch, TypeOK

\* A fault is within its bound.
LEMMA FaultType ==
    ASSUME TypeOK, NEW kind, Fault(kind)
    PROVE  faults' \in 0..MaxFaults
  BY WebhookAssumption DEF Fault, TypeOK

\* Nothing is stored or started at first.
LEMMA InitType == Init => TypeOK
<1>. SUFFICES ASSUME Init PROVE TypeOK
  OBVIOUS
<1>. AbsentRow \in DeliveryRow
  BY DEF AbsentRow, DeliveryRow
<1>. 0 \in 0..PostCap /\ 0 \in 0..MaxRetries /\ 0 \in 0..MaxFaults
  BY WebhookAssumption DEF PostCap
<1>. QED  BY DEF Init, TypeOK

\* Every step keeps the types.
LEMMA NextType == TypeOK /\ [Next]_vars => TypeOK'
<1>. SUFFICES ASSUME TypeOK, [Next]_vars PROVE TypeOK'
  OBVIOUS
<1>. USE WebhookAssumption
<1>1. ASSUME NEW c \in Call, DispatchEvent(c) PROVE TypeOK'
  BY <1>1 DEF DispatchEvent, TypeOK
<1>2. ASSUME NEW c \in Call, Test(c) PROVE TypeOK'
  <2>. PICK w \in Webhook : left' = [left EXCEPT ![c] = {w}]
    BY <1>2 DEF Test
  <2>. QED  BY <1>2 DEF Test, TypeOK
<1>3. ASSUME NEW c \in Call, NEW w \in Webhook, NEW f \in Flight, DispatchOnce(c, w, f)
      PROVE  TypeOK'
  <2>1. <<c, w>> \in Delivery /\ InsertRow \in DeliveryRow
    BY DEF Delivery, InsertRow, DeliveryRow, TypeOK
  <2>2. rows' \in [Delivery -> DeliveryRow]
    BY <1>3, <2>1 DEF DispatchOnce, TypeOK
  <2>3. flights' \in [Flight -> Carried \cup {Idle}]
    BY <1>3, <2>1, DispatchType DEF DispatchOnce
  <2>4. left' \in [Call -> SUBSET Webhook] /\ created' \in Nat
    BY <1>3 DEF DispatchOnce, TypeOK
  <2>. QED  BY <1>3, <2>2, <2>3, <2>4 DEF DispatchOnce, TypeOK
<1>4. ASSUME NEW c \in Call, NEW w \in Webhook, DispatchOnceFails(c, w) PROVE TypeOK'
  <2>1. <<c, w>> \in Delivery /\ InsertRow \in DeliveryRow
    BY DEF Delivery, InsertRow, DeliveryRow, TypeOK
  <2>2. rows' \in [Delivery -> DeliveryRow] /\ created' \in Nat
    BY <1>4, <2>1 DEF DispatchOnceFails, TypeOK
  <2>3. left' \in [Call -> SUBSET Webhook]
    BY <1>4 DEF DispatchOnceFails, TypeOK
  <2>4. faults' \in 0..MaxFaults
    BY <1>4, FaultType DEF DispatchOnceFails
  <2>. QED  BY <1>4, <2>2, <2>3, <2>4 DEF DispatchOnceFails, TypeOK
<1>5. ASSUME NEW f \in Flight, Post(f) PROVE TypeOK'
  <2>. DEFINE d == flights[f].delivery
  <2>1. flights[f] \in Carried /\ d \in Delivery
    BY <1>5, FlightStep DEF Post
  <2>2. PICK answer \in Answer :
           /\ flights' = [flights EXCEPT ![f].at = "record", ![f].answer = answer]
           /\ posts' = [posts EXCEPT ![d] = IF @ < PostCap THEN @ + 1 ELSE @]
           /\ answers' = [answers EXCEPT ![d] = @ \cup ({answer} \ Transient)]
    BY <1>5 DEF Post
  <2>3. [flights[f] EXCEPT !.at = "record", !.answer = answer] \in Carried
    BY <2>1 DEF Carried
  <2>4. flights' \in [Flight -> Carried \cup {Idle}]
    BY <2>2, <2>3 DEF TypeOK
  <2>5. posts' \in [Delivery -> 0..PostCap]
    BY <2>1, <2>2 DEF TypeOK, PostCap
  <2>6. answers' \in [Delivery -> SUBSET {"2xx", "3xx", "4xx"}]
    BY <2>1, <2>2 DEF TypeOK, Transient, AnswerKind
  <2>. QED  BY <1>5, <2>4, <2>5, <2>6 DEF Post, TypeOK, callVars
<1>6. ASSUME NEW f \in Flight, Record(f) PROVE TypeOK'
  <2>. DEFINE d == flights[f].delivery
  <2>1. flights[f] \in Carried /\ d \in Delivery
    BY <1>6, FlightStep DEF Record
  <2>2. Recorded(rows[d], flights[f]) \in DeliveryRow
    BY <2>1, RecordedType DEF TypeOK
  <2>3. rows' \in [Delivery -> DeliveryRow]
    BY <1>6, <2>1, <2>2 DEF Record, TypeOK
  <2>. QED  BY <1>6, <2>3 DEF Record, TypeOK, callVars
<1>7. ASSUME NEW f \in Flight, RecordLost(f) PROVE TypeOK'
  BY <1>7, FaultType DEF RecordLost, TypeOK, callVars
<1>8. ASSUME NEW d \in Delivery, BecomesDue(d) PROVE TypeOK'
  <2>0. rows[d] \in DeliveryRow
    BY DEF TypeOK
  <2>1. [rows[d] EXCEPT !.due = TRUE] \in DeliveryRow
    BY <2>0 DEF DeliveryRow
  <2>. QED  BY <1>8, <2>1 DEF BecomesDue, TypeOK, callVars
<1>9. ASSUME NEW t \in Sweeper, SweepList(t) PROVE TypeOK'
  <2>1. \A d \in Page : d \in Delivery /\ CopyOf(t, d) \in Copy
    BY DEF Page, Due, CopyOf, Copy, TypeOK, DeliveryRow
  <2>. QED  BY <1>9, <2>1 DEF SweepList, TypeOK, callVars
<1>10. ASSUME NEW t \in Sweeper, NEW f \in Flight, SweepDispatch(t, f) PROVE TypeOK'
  <2>1. PICK s \in sweep : Dispatch(f, s.delivery, s.attempt) /\ sweep' = sweep \ {s}
    BY <1>10 DEF SweepDispatch
  <2>2. s.delivery \in Delivery /\ s.attempt \in Nat
    BY <2>1 DEF TypeOK, Copy
  <2>3. flights' \in [Flight -> Carried \cup {Idle}]
    BY <2>1, <2>2, DispatchType
  <2>. QED  BY <1>10, <2>1, <2>3 DEF SweepDispatch, TypeOK, callVars
<1>11. ASSUME NEW t \in Sweeper, SweepFails(t) PROVE TypeOK'
  BY <1>11, FaultType DEF SweepFails, TypeOK, callVars
<1>12. ASSUME NEW r \in Retrier, NEW d \in Delivery, RetryFind(r, d) PROVE TypeOK'
  <2>1. [at |-> "commit", delivery |-> d, attempt |-> rows[d].attempt] \in RetryCopy
    BY DEF RetryCopy, TypeOK, DeliveryRow
  <2>2. retriers' \in [Retrier -> RetryCopy \cup {Idle}]
    BY <1>12, <2>1 DEF RetryFind, TypeOK
  <2>3. retries' \in [Delivery -> 0..MaxRetries]
    BY <1>12 DEF RetryFind, TypeOK
  <2>. QED  BY <1>12, <2>2, <2>3 DEF RetryFind, TypeOK, callVars
<1>13. ASSUME NEW r \in Retrier, NEW f \in Flight, RetryCommit(r, f) PROVE TypeOK'
  <2>. DEFINE d == retriers[r].delivery
              n == retriers[r].attempt
  <2>1. d \in Delivery /\ n \in Nat
    BY <1>13, RetrierStep DEF RetryCommit
  <2>2. ScheduleRetry(rows[d], n, TRUE) \in DeliveryRow
    BY <2>1, RowUpdates DEF TypeOK
  <2>3. rows' \in [Delivery -> DeliveryRow]
    BY <1>13, <2>1, <2>2 DEF RetryCommit, TypeOK
  <2>4. flights' \in [Flight -> Carried \cup {Idle}]
    BY <1>13, <2>1, DispatchType DEF RetryCommit
  <2>. QED  BY <1>13, <2>3, <2>4 DEF RetryCommit, TypeOK, callVars
<1>14. ASSUME NEW r \in Retrier, RetryFails(r) PROVE TypeOK'
  <2>. DEFINE d == retriers[r].delivery
              n == retriers[r].attempt
  <2>1. d \in Delivery /\ n \in Nat
    BY <1>14, RetrierStep DEF RetryFails
  <2>2. ScheduleRetry(rows[d], n, TRUE) \in DeliveryRow
    BY <2>1, RowUpdates DEF TypeOK
  <2>3. rows' \in [Delivery -> DeliveryRow]
    BY <1>14, <2>1, <2>2 DEF RetryFails, TypeOK
  <2>. QED  BY <1>14, <2>3, FaultType DEF RetryFails, TypeOK, callVars
<1>15. CASE Crash
  <2>1. flights' \in [Flight -> Carried \cup {Idle}]
    BY <1>15 DEF Crash, TypeOK
  <2>2. retriers' \in [Retrier -> RetryCopy \cup {Idle}]
    BY <1>15 DEF Crash, TypeOK
  <2>3. left' \in [Call -> SUBSET Webhook]
    BY <1>15 DEF Crash, TypeOK
  <2>4. sweep' \subseteq sweep
    BY <1>15 DEF Crash, TypeOK
  <2>. QED  BY <1>15, <2>1, <2>2, <2>3, <2>4, FaultType DEF Crash, TypeOK
<1>16. CASE UNCHANGED vars
  BY <1>16 DEF vars, callVars, TypeOK
<1>17. CASE Quiet
  BY <1>16, <1>17 DEF Quiet
<1>. QED
  BY <1>1, <1>2, <1>3, <1>4, <1>5, <1>6, <1>7, <1>8, <1>9, <1>10, <1>11, <1>12,
     <1>13, <1>14, <1>15, <1>16, <1>17 DEF Next

\* The types hold in every behaviour of the deliveries.
THEOREM TypeCorrect == Spec => []TypeOK
  BY InitType, NextType, PTL DEF Spec

-----------------------------------------------------------------------------
(***************************************************************************)
(* A settled status is earned.  A count is backed when as many requests    *)
(* were sent, or MaxAttempts.  The count of the row is backed, hence every *)
(* copy of it, and once its request is sent also the count the goroutine   *)
(* is going to record; overlapping attempts only make it fall behind.      *)
(***************************************************************************)
Backed(n, d) == n <= posts[d] \/ posts[d] >= MaxAttempts

RowsBacked == \A d \in Delivery : Backed(rows[d].attempt, d)

CopiesBacked ==
    /\ \A s \in sweep : Backed(s.attempt, s.delivery)
    /\ \A r \in Retrier : retriers[r].at = "commit" =>
          Backed(retriers[r].attempt, retriers[r].delivery)

FlightsBacked ==
    \A f \in Flight :
       /\ flights[f].at = "post" => Backed(flights[f].attempt, flights[f].delivery)
       /\ flights[f].at = "record" =>
             /\ Backed(flights[f].attempt + 1, flights[f].delivery)
             /\ flights[f].answer \notin Transient =>
                   flights[f].answer \in answers[flights[f].delivery]

EarnedInv == RowsBacked /\ CopiesBacked /\ FlightsBacked /\ StatusEarned

\* Requests and answers are only added to, so what is backed stays backed.
LEMMA BackedGrows ==
    ASSUME TypeOK, TypeOK', NEW d \in Delivery, NEW n \in Nat, Backed(n, d),
           posts[d] <= posts'[d]
    PROVE  n <= posts'[d] \/ posts'[d] >= MaxAttempts
  BY WebhookAssumption DEF Backed, TypeOK, PostCap

\* At first no row is settled and nothing is counted.
LEMMA EarnedInit == Init => EarnedInv
<1>. SUFFICES ASSUME Init PROVE EarnedInv
  OBVIOUS
<1>. QED
  BY DEF Init, EarnedInv, RowsBacked, CopiesBacked, FlightsBacked, StatusEarned,
         Backed, AbsentRow, Idle

\* A row whose count is backed and whose status is earned.
RowEarned(row, d) ==
    /\ Backed(row.attempt, d)
    /\ row.status = "delivered" => answers[d] \cap Accepted # {}
    /\ row.status = "failed" => "4xx" \in answers[d] \/ posts[d] >= MaxAttempts

\* A step that adds nothing to the histories: the rows it writes are earned, the
\* copies it makes and the goroutines it starts are backed.
LEMMA EarnedStep ==
    ASSUME TypeOK, EarnedInv, UNCHANGED <<posts, answers>>,
           \A d \in Delivery : rows'[d] = rows[d] \/ RowEarned(rows'[d], d),
           \A s \in sweep' : s \in sweep \/ Backed(s.attempt, s.delivery),
           \A r \in Retrier : \/ retriers'[r] \in {Idle, retriers[r]}
                              \/ Backed(retriers'[r].attempt, retriers'[r].delivery),
           \A f \in Flight : \/ flights'[f] \in {Idle, flights[f]}
                             \/ /\ flights'[f].at = "post"
                                /\ Backed(flights'[f].attempt, flights'[f].delivery)
    PROVE  EarnedInv'
<1>1. RowsBacked' /\ StatusEarned'
  <2>1. ASSUME NEW d \in Delivery PROVE RowEarned(rows'[d], d)
    BY DEF EarnedInv, RowsBacked, StatusEarned, RowEarned
  <2>. QED  BY <2>1 DEF RowEarned, RowsBacked, StatusEarned, Backed
<1>2. CopiesBacked'
  BY DEF EarnedInv, CopiesBacked, Backed, Idle
<1>3. FlightsBacked'
  <2>. SUFFICES ASSUME NEW f \in Flight
                PROVE  /\ flights'[f].at = "post" =>
                             Backed(flights'[f].attempt, flights'[f].delivery)
                       /\ flights'[f].at = "record" =>
                             /\ Backed(flights'[f].attempt + 1, flights'[f].delivery)
                             /\ flights'[f].answer \notin Transient =>
                                   flights'[f].answer \in answers[flights'[f].delivery]
    BY DEF FlightsBacked, Backed
  <2>1. CASE flights'[f] = flights[f]
    BY <2>1 DEF EarnedInv, FlightsBacked
  <2>2. CASE flights'[f] = Idle
    BY <2>2 DEF Idle
  <2>3. CASE flights'[f].at = "post" /\ Backed(flights'[f].attempt, flights'[f].delivery)
    BY <2>3
  <2>. QED  BY <2>1, <2>2, <2>3
<1>. QED  BY <1>1, <1>2, <1>3 DEF EarnedInv

\* A goroutine that is started carries the count it was given.
LEMMA DispatchBacked ==
    ASSUME TypeOK, NEW f \in Flight, NEW d \in Delivery, NEW n \in Nat,
           Backed(n, d), Dispatch(f, d, n)
    PROVE  \A g \in Flight : \/ flights'[g] \in {Idle, flights[g]}
                             \/ /\ flights'[g].at = "post"
                                /\ Backed(flights'[g].attempt, flights'[g].delivery)
  BY DEF Dispatch, TypeOK

\* Every step keeps statuses earned and counts backed.
LEMMA EarnedNext == TypeOK /\ TypeOK' /\ EarnedInv /\ [Next]_vars => EarnedInv'
<1>. SUFFICES ASSUME TypeOK, TypeOK', EarnedInv, [Next]_vars PROVE EarnedInv'
  OBVIOUS
<1>. USE WebhookAssumption
<1>0. \A d \in Delivery : posts[d] \in Nat /\ Backed(0, d)
  BY DEF TypeOK, Backed, PostCap
<1>1. ASSUME NEW c \in Call, DispatchEvent(c) \/ Test(c) PROVE EarnedInv'
  BY <1>1, EarnedStep DEF DispatchEvent, Test
<1>3. ASSUME NEW c \in Call, NEW w \in Webhook, NEW f \in Flight, DispatchOnce(c, w, f)
      PROVE  EarnedInv'
  <2>1. <<c, w>> \in Delivery /\ InsertRow \in DeliveryRow
    BY DEF Delivery, InsertRow, DeliveryRow, TypeOK
  <2>2. InsertRow.attempt = 0 /\ InsertRow.status = "pending"
    BY DEF InsertRow
  <2>3. \A g \in Flight : \/ flights'[g] \in {Idle, flights[g]}
                          \/ /\ flights'[g].at = "post"
                             /\ Backed(flights'[g].attempt, flights'[g].delivery)
    BY <1>0, <1>3, <2>1, DispatchBacked DEF DispatchOnce
  <2>4. \A d \in Delivery : rows'[d] = rows[d] \/ RowEarned(rows'[d], d)
    BY <1>0, <1>3, <2>1, <2>2 DEF DispatchOnce, TypeOK, RowEarned
  <2>. QED  BY <1>3, <2>3, <2>4, EarnedStep DEF DispatchOnce
<1>4. ASSUME NEW c \in Call, NEW w \in Webhook, DispatchOnceFails(c, w) PROVE EarnedInv'
  <2>1. <<c, w>> \in Delivery /\ InsertRow \in DeliveryRow
    BY DEF Delivery, InsertRow, DeliveryRow, TypeOK
  <2>2. InsertRow.attempt = 0 /\ InsertRow.status = "pending"
    BY DEF InsertRow
  <2>4. \A d \in Delivery : rows'[d] = rows[d] \/ RowEarned(rows'[d], d)
    BY <1>0, <1>4, <2>1, <2>2 DEF DispatchOnceFails, TypeOK, RowEarned
  <2>. QED  BY <1>4, <2>4, EarnedStep DEF DispatchOnceFails
<1>5. ASSUME NEW f \in Flight, Post(f) PROVE EarnedInv'
  <2>. DEFINE d == flights[f].delivery
              n == flights[f].attempt
  <2>1. flights[f] \in Carried /\ d \in Delivery /\ n \in Nat
    BY <1>5, FlightStep DEF Post, Carried
  <2>2. PICK answer \in Answer :
           /\ flights' = [flights EXCEPT ![f].at = "record", ![f].answer = answer]
           /\ posts' = [posts EXCEPT ![d] = IF @ < PostCap THEN @ + 1 ELSE @]
           /\ answers' = [answers EXCEPT ![d] = @ \cup ({answer} \ Transient)]
    BY <1>5 DEF Post
  <2>3. \A e \in Delivery : posts[e] <= posts'[e] /\ answers[e] \subseteq answers'[e]
    BY <2>2 DEF TypeOK, PostCap
  <2>4. \A e \in Delivery, k \in Nat : Backed(k, e) => Backed(k, e)'
    BY <2>3, BackedGrows DEF Backed
  <2>5. RowsBacked' /\ StatusEarned'
    <3>1. RowsBacked'
      <4>. SUFFICES ASSUME NEW e \in Delivery PROVE Backed(rows[e].attempt, e)'
        BY <1>5 DEF Post, RowsBacked
      <4>. rows'[e].attempt = rows[e].attempt /\ rows[e].attempt \in Nat
        BY <1>5 DEF Post, TypeOK, DeliveryRow
      <4>. QED  BY <2>4 DEF EarnedInv, RowsBacked, Backed
    <3>2. StatusEarned'
      BY <1>5, <2>3 DEF Post, EarnedInv, StatusEarned, TypeOK, PostCap
    <3>. QED  BY <3>1, <3>2
  <2>6. CopiesBacked'
    <3>1. ASSUME NEW s \in sweep PROVE Backed(s.attempt, s.delivery)'
      BY <2>4 DEF EarnedInv, CopiesBacked, TypeOK, Copy, Backed
    <3>2. ASSUME NEW r \in Retrier, retriers[r].at = "commit"
          PROVE  Backed(retriers[r].attempt, retriers[r].delivery)'
      <4>. retriers[r].delivery \in Delivery /\ retriers[r].attempt \in Nat
        BY <3>2, RetrierStep
      <4>. retriers' = retriers
        BY <1>5 DEF Post
      <4>. QED  BY <2>4, <3>2 DEF EarnedInv, CopiesBacked, Backed
    <3>. QED  BY <1>5, <3>1, <3>2 DEF Post, CopiesBacked, Backed
  <2>7. FlightsBacked'
    <3>1. flights'[f] = [flights[f] EXCEPT !.at = "record", !.answer = answer]
      BY <2>2 DEF TypeOK
    <3>2. /\ flights'[f].at = "record" /\ flights'[f].answer = answer
          /\ flights'[f].delivery = d /\ flights'[f].attempt = n
      BY <2>1, <3>1 DEF Carried
    <3>3. n + 1 <= posts'[d] \/ posts'[d] >= MaxAttempts
      <4>1. Backed(n, d)
        BY <1>5 DEF Post, EarnedInv, FlightsBacked
      <4>. QED  BY <2>1, <2>2, <4>1 DEF Backed, TypeOK, PostCap
    <3>4. answer \notin Transient => answer \in answers'[d]
      BY <2>1, <2>2 DEF TypeOK
    <3>5. ASSUME NEW g \in Flight, g # f, flights[g].at # "idle"
          PROVE  /\ flights'[g] = flights[g]
                 /\ flights[g].delivery \in Delivery
                 /\ flights[g].attempt \in Nat /\ flights[g].attempt + 1 \in Nat
      <4>. flights[g] \in Carried
        BY <3>5, FlightStep
      <4>. QED  BY <2>2, <3>5 DEF Carried, TypeOK
    <3>6. \A g \in Flight : g # f => flights'[g] = flights[g]
      BY <2>2 DEF TypeOK
    <3>7. ASSUME NEW g \in Flight
          PROVE  /\ flights'[g].at = "post" =>
                       Backed(flights[g].attempt, flights[g].delivery)'
                 /\ flights'[g].at = "record" =>
                       /\ Backed(flights[g].attempt + 1, flights[g].delivery)'
                       /\ flights'[g].answer \notin Transient =>
                             flights'[g].answer \in answers'[flights'[g].delivery]
      <4>1. CASE g = f
        BY <3>2, <3>3, <3>4, <4>1 DEF Backed
      <4>2. CASE g # f /\ flights[g].at = "idle"
        BY <3>6, <4>2
      <4>3. CASE g # f /\ flights[g].at # "idle"
        BY <2>3, <2>4, <3>5, <4>3 DEF EarnedInv, FlightsBacked, Backed
      <4>. QED  BY <4>1, <4>2, <4>3
    <3>. QED  BY <3>7 DEF FlightsBacked
  <2>. QED  BY <2>5, <2>6, <2>7 DEF EarnedInv
<1>6. ASSUME NEW f \in Flight, Record(f) PROVE EarnedInv'
  <2>. DEFINE d == flights[f].delivery
              row == Recorded(rows[d], flights[f])
  <2>1. flights[f] \in Carried /\ d \in Delivery
    BY <1>6, FlightStep DEF Record
  <2>2. row \in DeliveryRow /\ rows[d] \in DeliveryRow
    BY <2>1, RecordedType DEF TypeOK
  <2>3. /\ Backed(flights[f].attempt + 1, d)
        /\ flights[f].answer \notin Transient => flights[f].answer \in answers[d]
    BY <1>6 DEF Record, EarnedInv, FlightsBacked
  <2>4. Backed(rows[d].attempt, d)
    BY <2>1 DEF EarnedInv, RowsBacked
  <2>5. Backed(row.attempt, d)
    BY <2>2, <2>3, <2>4
    DEF Recorded, MarkDelivered, MarkFailed, ScheduleRetry, DeliveryRow
  <2>6. row.status = "delivered" => answers[d] \cap Accepted # {}
    <3>1. row.status = "delivered" => flights[f].answer \in Accepted
      BY <2>2 DEF Recorded, MarkFailed, ScheduleRetry, DeliveryRow
    <3>. QED  BY <2>3, <3>1 DEF Accepted, Transient
  <2>7. row.status = "failed" => "4xx" \in answers[d] \/ posts[d] >= MaxAttempts
    <3>1. row.status = "failed" =>
             /\ flights[f].answer \notin Accepted
             /\ \/ flights[f].attempt + 1 >= MaxAttempts
                \/ flights[f].answer \notin Transient
      BY <2>2 DEF Recorded, MarkDelivered, ScheduleRetry, DeliveryRow
    <3>2. flights[f].answer \in AnswerKind /\ flights[f].attempt \in Nat
      BY <2>1 DEF Carried
    <3>3. flights[f].answer \notin Accepted /\ flights[f].answer \notin Transient
             => flights[f].answer = "4xx"
      BY <3>2 DEF Accepted, Transient, AnswerKind
    <3>4. flights[f].attempt + 1 >= MaxAttempts => posts[d] >= MaxAttempts
      BY <1>0, <2>1, <2>3, <3>2 DEF Backed
    <3>. QED  BY <2>3, <3>1, <3>3, <3>4
  <2>8. /\ rows' = [rows EXCEPT ![d] = row]
        /\ \A g \in Flight : flights'[g] \in {Idle, flights[g]}
    BY <1>6 DEF Record, TypeOK
  <2>9. UNCHANGED <<posts, answers, sweep, retriers>>
    BY <1>6 DEF Record
  <2>. HIDE DEF row, d
  <2>10. \A e \in Delivery : rows'[e] = rows[e] \/ RowEarned(rows'[e], e)
    BY <2>1, <2>5, <2>6, <2>7, <2>8 DEF TypeOK, RowEarned
  <2>. QED  BY <2>8, <2>9, <2>10, EarnedStep
<1>7. ASSUME NEW f \in Flight, RecordLost(f) PROVE EarnedInv'
  <2>. \A g \in Flight : flights'[g] \in {Idle, flights[g]}
    BY <1>7 DEF RecordLost, TypeOK
  <2>. QED  BY <1>7, EarnedStep DEF RecordLost
<1>8. ASSUME NEW d \in Delivery, BecomesDue(d) PROVE EarnedInv'
  <2>. DEFINE row == [rows[d] EXCEPT !.due = TRUE]
  <2>0. rows[d] \in DeliveryRow
    BY DEF TypeOK
  <2>1. row.attempt = rows[d].attempt /\ row.status = rows[d].status
    BY <2>0 DEF DeliveryRow
  <2>2. rows' = [rows EXCEPT ![d] = row]
    BY <1>8 DEF BecomesDue
  <2>3. UNCHANGED <<posts, answers, sweep, retriers, flights>>
    BY <1>8 DEF BecomesDue
  <2>4. RowEarned(row, d)
    BY <2>1 DEF EarnedInv, RowsBacked, StatusEarned, RowEarned
  <2>. HIDE DEF row
  <2>5. \A e \in Delivery : rows'[e] = rows[e] \/ RowEarned(rows'[e], e)
    BY <2>2, <2>4 DEF TypeOK
  <2>. QED  BY <2>3, <2>5, EarnedStep
<1>9. ASSUME NEW t \in Sweeper, SweepList(t) PROVE EarnedInv'
  <2>1. \A d \in Page : Backed(rows[d].attempt, d)
    BY DEF Page, Due, EarnedInv, RowsBacked
  <2>2. \A s \in sweep' : s \in sweep \/ Backed(s.attempt, s.delivery)
    BY <1>9, <2>1 DEF SweepList, CopyOf
  <2>. QED  BY <1>9, <2>2, EarnedStep DEF SweepList
<1>10. ASSUME NEW t \in Sweeper, NEW f \in Flight, SweepDispatch(t, f) PROVE EarnedInv'
  <2>1. PICK s \in sweep : Dispatch(f, s.delivery, s.attempt) /\ sweep' = sweep \ {s}
    BY <1>10 DEF SweepDispatch
  <2>2. s.delivery \in Delivery /\ s.attempt \in Nat /\ Backed(s.attempt, s.delivery)
    BY <2>1 DEF TypeOK, Copy, EarnedInv, CopiesBacked
  <2>3. \A g \in Flight : \/ flights'[g] \in {Idle, flights[g]}
                          \/ /\ flights'[g].at = "post"
                             /\ Backed(flights'[g].attempt, flights'[g].delivery)
    BY <2>1, <2>2, DispatchBacked
  <2>. QED  BY <1>10, <2>1, <2>3, EarnedStep DEF SweepDispatch
<1>11. ASSUME NEW t \in Sweeper, SweepFails(t) PROVE EarnedInv'
  BY <1>11, EarnedStep DEF SweepFails
<1>12. ASSUME NEW r \in Retrier, NEW d \in Delivery, RetryFind(r, d) PROVE EarnedInv'
  <2>1. Backed(rows[d].attempt, d)
    BY DEF EarnedInv, RowsBacked
  <2>2. \A q \in Retrier : \/ retriers'[q] \in {Idle, retriers[q]}
                           \/ Backed(retriers'[q].attempt, retriers'[q].delivery)
    BY <1>12, <2>1 DEF RetryFind, TypeOK
  <2>. QED  BY <1>12, <2>2, EarnedStep DEF RetryFind
<1>13. ASSUME NEW r \in Retrier, retriers[r].at = "commit"
       PROVE  LET d == retriers[r].delivery
                  row == ScheduleRetry(rows[d], retriers[r].attempt, TRUE)
              IN  /\ d \in Delivery /\ row \in DeliveryRow
                  /\ row.attempt = retriers[r].attempt /\ row.status = "pending"
                  /\ Backed(retriers[r].attempt, d)
  <2>. DEFINE d == retriers[r].delivery
              n == retriers[r].attempt
  <2>1. d \in Delivery /\ n \in Nat
    BY <1>13, RetrierStep
  <2>2. rows[d] \in DeliveryRow
    BY <2>1 DEF TypeOK
  <2>3. ScheduleRetry(rows[d], n, TRUE) \in DeliveryRow
    BY <2>1, <2>2, RowUpdates
  <2>4. Backed(n, d)
    BY <1>13 DEF EarnedInv, CopiesBacked
  <2>. QED  BY <2>1, <2>2, <2>3, <2>4 DEF ScheduleRetry, DeliveryRow
<1>14. ASSUME NEW r \in Retrier, NEW f \in Flight, RetryCommit(r, f) PROVE EarnedInv'
  <2>. DEFINE d == retriers[r].delivery
              n == retriers[r].attempt
              row == ScheduleRetry(rows[d], n, TRUE)
  <2>1. /\ d \in Delivery /\ row \in DeliveryRow /\ n \in Nat
        /\ row.attempt = n /\ row.status = "pending" /\ Backed(n, d)
    BY <1>13, <1>14, RetrierStep DEF RetryCommit
  <2>2. \A g \in Flight : \/ flights'[g] \in {Idle, flights[g]}
                          \/ /\ flights'[g].at = "post"
                             /\ Backed(flights'[g].attempt, flights'[g].delivery)
    BY <1>14, <2>1, DispatchBacked DEF RetryCommit
  <2>3. /\ rows' = [rows EXCEPT ![d] = row]
        /\ \A q \in Retrier : retriers'[q] \in {Idle, retriers[q]}
        /\ UNCHANGED <<posts, answers, sweep>>
    BY <1>14 DEF RetryCommit, TypeOK
  <2>. HIDE DEF row, d, n
  <2>4. \A e \in Delivery : rows'[e] = rows[e] \/ RowEarned(rows'[e], e)
    BY <2>1, <2>3 DEF TypeOK, RowEarned
  <2>. QED  BY <2>2, <2>3, <2>4, EarnedStep
<1>15. ASSUME NEW r \in Retrier, RetryFails(r) PROVE EarnedInv'
  <2>. DEFINE d == retriers[r].delivery
              n == retriers[r].attempt
              row == ScheduleRetry(rows[d], n, TRUE)
  <2>1. /\ d \in Delivery /\ row \in DeliveryRow
        /\ row.attempt = n /\ row.status = "pending" /\ Backed(n, d)
    BY <1>13, <1>15 DEF RetryFails
  <2>2. /\ rows' \in {rows, [rows EXCEPT ![d] = row]}
        /\ \A q \in Retrier : retriers'[q] \in {Idle, retriers[q]}
        /\ UNCHANGED <<posts, answers, sweep, flights>>
    BY <1>15 DEF RetryFails, TypeOK
  <2>. HIDE DEF row, d, n
  <2>4. \A e \in Delivery : rows'[e] = rows[e] \/ RowEarned(rows'[e], e)
    BY <2>1, <2>2 DEF TypeOK, RowEarned
  <2>. QED  BY <2>2, <2>4, EarnedStep
<1>16. CASE Crash
  <2>1. /\ \A f \in Flight : flights'[f] \in {Idle, flights[f]}
        /\ \A r \in Retrier : retriers'[r] \in {Idle, retriers[r]}
        /\ sweep' \subseteq sweep
    BY <1>16 DEF Crash
  <2>. QED  BY <1>16, <2>1, EarnedStep DEF Crash
<1>17. CASE UNCHANGED vars
  BY <1>17, EarnedStep DEF vars
<1>18. CASE Quiet
  BY <1>17, <1>18 DEF Quiet
<1>. QED
  BY <1>1, <1>3, <1>4, <1>5, <1>6, <1>7, <1>8, <1>9, <1>10, <1>11, <1>12, <1>14,
     <1>15, <1>16, <1>17, <1>18 DEF Next

(***************************************************************************)
(* A delivered row was accepted by its receiver, a failed row was refused  *)
(* or posted MaxAttempts times, in every behaviour.                        *)
(***************************************************************************)
THEOREM StatusIsEarned == Spec => []StatusEarned
<1>1. EarnedInv => StatusEarned
  BY DEF EarnedInv
<1>. QED  BY <1>1, EarnedInit, EarnedNext, TypeCorrect, PTL DEF Spec

-----------------------------------------------------------------------------
(***************************************************************************)
(* The attempt budget.  A copy in the hands of a goroutine, a sweep or a   *)
(* retry leaves room for one attempt more: it was read from a pending row, *)
(* or it was read by a retry that has been counted.                        *)
(***************************************************************************)
InBudget(n, d) == n < MaxAttempts + retries[d]

RowInBudget(row, d) ==
    /\ row.attempt <= MaxAttempts + retries[d]
    /\ row.status = "pending" => InBudget(row.attempt, d)

CopiesInBudget ==
    /\ \A s \in sweep : InBudget(s.attempt, s.delivery)
    /\ \A r \in Retrier : retriers[r].at = "commit" =>
          InBudget(retriers[r].attempt, retriers[r].delivery)
    /\ \A f \in Flight : flights[f].at # "idle" =>
          InBudget(flights[f].attempt, flights[f].delivery)

BudgetInv == AttemptBudget /\ CopiesInBudget

\* At first every count is zero.
LEMMA BudgetInit == Init => BudgetInv
<1>. SUFFICES ASSUME Init PROVE BudgetInv
  OBVIOUS
<1>. QED
  BY WebhookAssumption
  DEF Init, BudgetInv, AttemptBudget, CopiesInBudget, InBudget, AbsentRow, Idle

\* A step that counts no retry: the rows it writes, the copies it makes and the
\* goroutines it starts are in the budget.
LEMMA BudgetStep ==
    ASSUME TypeOK, BudgetInv, UNCHANGED retries,
           \A d \in Delivery : rows'[d] = rows[d] \/ RowInBudget(rows'[d], d),
           \A s \in sweep' : s \in sweep \/ InBudget(s.attempt, s.delivery),
           \A r \in Retrier : retriers'[r] \in {Idle, retriers[r]},
           \A f \in Flight : \/ flights'[f] \in {Idle, flights[f]}
                             \/ InBudget(flights'[f].attempt, flights'[f].delivery)
    PROVE  BudgetInv'
<1>1. AttemptBudget'
  <2>1. ASSUME NEW d \in Delivery PROVE RowInBudget(rows'[d], d)
    BY DEF BudgetInv, AttemptBudget, RowInBudget, InBudget
  <2>. QED  BY <2>1 DEF RowInBudget, InBudget, AttemptBudget
<1>2. CopiesInBudget'
  BY DEF BudgetInv, CopiesInBudget, InBudget, Idle
<1>. QED  BY <1>1, <1>2 DEF BudgetInv

\* A goroutine that is started carries a count in the budget.
LEMMA DispatchInBudget ==
    ASSUME TypeOK, NEW f \in Flight, NEW d \in Delivery, NEW n \in Nat,
           InBudget(n, d), Dispatch(f, d, n)
    PROVE  \A g \in Flight : \/ flights'[g] \in {Idle, flights[g]}
                             \/ InBudget(flights'[g].attempt, flights'[g].delivery)
  BY DEF Dispatch, TypeOK

\* The three outcomes deliver records.
LEMMA RecordedCases ==
    ASSUME NEW row, NEW flight \in Carried
    PROVE  \/ Recorded(row, flight) = MarkDelivered(row)
           \/ Recorded(row, flight) = MarkFailed(row, flight.attempt + 1)
           \/ /\ Recorded(row, flight) = ScheduleRetry(row, flight.attempt + 1, FALSE)
              /\ flight.attempt + 1 < MaxAttempts
<1>. DEFINE n == flight.attempt + 1
<1>0. n \in Nat /\ MaxAttempts \in Nat
  BY WebhookAssumption DEF Carried
<1>1. CASE flight.answer \in Accepted
  BY <1>1 DEF Recorded
<1>2. CASE /\ flight.answer \notin Accepted
           /\ n >= MaxAttempts \/ flight.answer \notin Transient
  BY <1>2 DEF Recorded
<1>3. CASE flight.answer \notin Accepted /\ n < MaxAttempts /\ flight.answer \in Transient
  <2>1. ~(n >= MaxAttempts \/ flight.answer \notin Transient)
    BY <1>0, <1>3
  <2>2. Recorded(row, flight) = ScheduleRetry(row, n, FALSE)
    BY <1>3, <2>1, Zenon DEF Recorded
  <2>. QED  BY <1>3, <2>2
<1>4. n >= MaxAttempts \/ n < MaxAttempts
  BY <1>0
<1>. HIDE DEF n
<1>. QED  BY <1>1, <1>2, <1>3, <1>4, Zenon

\* Every step stays in the budget.
LEMMA BudgetNext == TypeOK /\ BudgetInv /\ [Next]_vars => BudgetInv'
<1>. SUFFICES ASSUME TypeOK, BudgetInv, [Next]_vars PROVE BudgetInv'
  OBVIOUS
<1>. USE WebhookAssumption
<1>0. \A d \in Delivery : retries[d] \in Nat /\ InBudget(0, d)
  BY DEF TypeOK, InBudget
<1>1. ASSUME NEW c \in Call, DispatchEvent(c) \/ Test(c) PROVE BudgetInv'
  BY <1>1, BudgetStep DEF DispatchEvent, Test
<1>3. ASSUME NEW c \in Call, NEW w \in Webhook, NEW f \in Flight, DispatchOnce(c, w, f)
      PROVE  BudgetInv'
  <2>1. <<c, w>> \in Delivery /\ InsertRow.attempt = 0
    BY DEF Delivery, InsertRow
  <2>2. \A d \in Delivery : rows'[d] = rows[d] \/ RowInBudget(rows'[d], d)
    BY <1>0, <1>3, <2>1 DEF DispatchOnce, TypeOK, RowInBudget, InBudget
  <2>3. \A g \in Flight : \/ flights'[g] \in {Idle, flights[g]}
                          \/ InBudget(flights'[g].attempt, flights'[g].delivery)
    BY <1>0, <1>3, <2>1, DispatchInBudget DEF DispatchOnce
  <2>. QED  BY <1>3, <2>2, <2>3, BudgetStep DEF DispatchOnce
<1>4. ASSUME NEW c \in Call, NEW w \in Webhook, DispatchOnceFails(c, w) PROVE BudgetInv'
  <2>1. <<c, w>> \in Delivery /\ InsertRow.attempt = 0
    BY DEF Delivery, InsertRow
  <2>2. \A d \in Delivery : rows'[d] = rows[d] \/ RowInBudget(rows'[d], d)
    BY <1>0, <1>4, <2>1 DEF DispatchOnceFails, TypeOK, RowInBudget, InBudget
  <2>. QED  BY <1>4, <2>2, BudgetStep DEF DispatchOnceFails
<1>5. ASSUME NEW f \in Flight, Post(f) PROVE BudgetInv'
  <2>1. flights[f] \in Carried
    BY <1>5, FlightStep DEF Post
  <2>2. /\ flights'[f].attempt = flights[f].attempt
        /\ flights'[f].delivery = flights[f].delivery
        /\ \A g \in Flight : g # f => flights'[g] = flights[g]
    BY <1>5, <2>1 DEF Post, TypeOK, Carried
  <2>3. InBudget(flights[f].attempt, flights[f].delivery)
    BY <1>5 DEF Post, BudgetInv, CopiesInBudget
  <2>4. \A g \in Flight : \/ flights'[g] \in {Idle, flights[g]}
                          \/ InBudget(flights'[g].attempt, flights'[g].delivery)
    BY <2>2, <2>3
  <2>. QED  BY <1>5, <2>4, BudgetStep DEF Post
<1>6. ASSUME NEW f \in Flight, Record(f) PROVE BudgetInv'
  <2>. DEFINE d == flights[f].delivery
              n == flights[f].attempt
              row == Recorded(rows[d], flights[f])
  <2>1. flights[f] \in Carried /\ d \in Delivery /\ n \in Nat
    BY <1>6, FlightStep DEF Record, Carried
  <2>2. rows[d] \in DeliveryRow
    BY <2>1 DEF TypeOK
  <2>3. InBudget(n, d) /\ RowInBudget(rows[d], d)
    BY <1>6, <2>1 DEF Record, BudgetInv, CopiesInBudget, AttemptBudget, RowInBudget, InBudget
  <2>4. RowInBudget(row, d)
    <3>1. CASE row = MarkDelivered(rows[d])
      <4>. row.attempt = rows[d].attempt /\ row.status = "delivered"
        BY <2>2, <3>1 DEF MarkDelivered, DeliveryRow
      <4>. QED  BY <2>3 DEF RowInBudget
    <3>2. CASE row = MarkFailed(rows[d], n + 1)
      BY <1>0, <2>1, <2>2, <2>3, <3>2
      DEF MarkFailed, DeliveryRow, RowInBudget, InBudget
    <3>3. CASE row = ScheduleRetry(rows[d], n + 1, FALSE) /\ n + 1 < MaxAttempts
      BY <1>0, <2>1, <2>2, <3>3 DEF ScheduleRetry, DeliveryRow, RowInBudget, InBudget
    <3>. QED  BY <2>1, <3>1, <3>2, <3>3, RecordedCases
  <2>5. /\ rows' = [rows EXCEPT ![d] = row]
        /\ \A g \in Flight : flights'[g] \in {Idle, flights[g]}
        /\ UNCHANGED <<retries, sweep, retriers>>
    BY <1>6 DEF Record, TypeOK
  <2>. HIDE DEF row, d, n
  <2>6. \A e \in Delivery : rows'[e] = rows[e] \/ RowInBudget(rows'[e], e)
    BY <2>4, <2>5 DEF TypeOK
  <2>. QED  BY <2>5, <2>6, BudgetStep
<1>7. ASSUME NEW f \in Flight, RecordLost(f) PROVE BudgetInv'
  <2>. \A g \in Flight : flights'[g] \in {Idle, flights[g]}
    BY <1>7 DEF RecordLost, TypeOK
  <2>. QED  BY <1>7, BudgetStep DEF RecordLost
<1>8. ASSUME NEW d \in Delivery, BecomesDue(d) PROVE BudgetInv'
  <2>. DEFINE row == [rows[d] EXCEPT !.due = TRUE]
  <2>1. rows[d] \in DeliveryRow
    BY DEF TypeOK
  <2>2. row.attempt = rows[d].attempt /\ row.status = rows[d].status
    BY <2>1 DEF DeliveryRow
  <2>3. RowInBudget(row, d)
    BY <2>2 DEF BudgetInv, AttemptBudget, RowInBudget, InBudget
  <2>4. rows' = [rows EXCEPT ![d] = row]
    BY <1>8 DEF BecomesDue
  <2>. HIDE DEF row
  <2>5. \A e \in Delivery : rows'[e] = rows[e] \/ RowInBudget(rows'[e], e)
    BY <2>3, <2>4 DEF TypeOK
  <2>. QED  BY <1>8, <2>5, BudgetStep DEF BecomesDue
<1>9. ASSUME NEW t \in Sweeper, SweepList(t) PROVE BudgetInv'
  <2>1. \A d \in Page : InBudget(rows[d].attempt, d)
    BY DEF Page, Due, BudgetInv, AttemptBudget, InBudget
  <2>2. \A s \in sweep' : s \in sweep \/ InBudget(s.attempt, s.delivery)
    BY <1>9, <2>1 DEF SweepList, CopyOf
  <2>. QED  BY <1>9, <2>2, BudgetStep DEF SweepList
<1>10. ASSUME NEW t \in Sweeper, NEW f \in Flight, SweepDispatch(t, f) PROVE BudgetInv'
  <2>1. PICK s \in sweep : Dispatch(f, s.delivery, s.attempt) /\ sweep' = sweep \ {s}
    BY <1>10 DEF SweepDispatch
  <2>2. s.delivery \in Delivery /\ s.attempt \in Nat /\ InBudget(s.attempt, s.delivery)
    BY <2>1 DEF TypeOK, Copy, BudgetInv, CopiesInBudget
  <2>3. \A g \in Flight : \/ flights'[g] \in {Idle, flights[g]}
                          \/ InBudget(flights'[g].attempt, flights'[g].delivery)
    BY <2>1, <2>2, DispatchInBudget
  <2>. QED  BY <1>10, <2>1, <2>3, BudgetStep DEF SweepDispatch
<1>11. ASSUME NEW t \in Sweeper, SweepFails(t) PROVE BudgetInv'
  BY <1>11, BudgetStep DEF SweepFails
<1>12. ASSUME NEW r \in Retrier, NEW d \in Delivery, RetryFind(r, d) PROVE BudgetInv'
  <2>1. /\ retries'[d] = retries[d] + 1
        /\ \A e \in Delivery : retries[e] <= retries'[e] /\ retries'[e] \in Nat
    BY <1>12 DEF RetryFind, TypeOK
  <2>2. ASSUME NEW e \in Delivery, NEW n \in Nat, InBudget(n, e)
        PROVE  n < MaxAttempts + retries'[e]
    BY <1>0, <2>1, <2>2 DEF InBudget
  <2>3. AttemptBudget'
    <3>1. ASSUME NEW e \in Delivery
          PROVE  /\ rows[e].attempt <= MaxAttempts + retries'[e]
                 /\ rows[e].status = "pending" =>
                       rows[e].attempt < MaxAttempts + retries'[e]
      <4>. rows[e].attempt \in Nat
        BY DEF TypeOK, DeliveryRow
      <4>. QED  BY <1>0, <2>1 DEF BudgetInv, AttemptBudget
    <3>. QED  BY <1>12, <3>1 DEF RetryFind, AttemptBudget
  <2>4. ASSUME NEW s \in sweep
        PROVE  s.attempt < MaxAttempts + retries'[s.delivery]
    BY <2>2, <2>4 DEF BudgetInv, CopiesInBudget, TypeOK, Copy
  <2>5. ASSUME NEW q \in Retrier, retriers'[q].at = "commit"
        PROVE  retriers'[q].attempt < MaxAttempts + retries'[retriers'[q].delivery]
    <3>1. CASE q = r
      <4>1. retriers'[r].attempt = rows[d].attempt /\ retriers'[r].delivery = d
        BY <1>12 DEF RetryFind, TypeOK
      <4>2. rows[d].attempt \in Nat /\ rows[d].attempt <= MaxAttempts + retries[d]
        BY DEF BudgetInv, AttemptBudget, TypeOK, DeliveryRow
      <4>. QED  BY <1>0, <2>1, <3>1, <4>1, <4>2
    <3>2. CASE q # r
      <4>1. retriers'[q] = retriers[q]
        BY <1>12, <3>2 DEF RetryFind, TypeOK
      <4>2. retriers[q].delivery \in Delivery /\ retriers[q].attempt \in Nat
        BY <2>5, <4>1, RetrierStep
      <4>3. InBudget(retriers[q].attempt, retriers[q].delivery)
        BY <2>5, <4>1 DEF BudgetInv, CopiesInBudget
      <4>. QED  BY <2>2, <4>1, <4>2, <4>3
    <3>. QED  BY <3>1, <3>2
  <2>6. ASSUME NEW f \in Flight, flights[f].at # "idle"
        PROVE  flights[f].attempt < MaxAttempts + retries'[flights[f].delivery]
    <3>1. flights[f].delivery \in Delivery /\ flights[f].attempt \in Nat
      BY <2>6, FlightStep DEF Carried
    <3>2. InBudget(flights[f].attempt, flights[f].delivery)
      BY <2>6 DEF BudgetInv, CopiesInBudget
    <3>. QED  BY <2>2, <3>1, <3>2
  <2>7. CopiesInBudget'
    BY <1>12, <2>4, <2>5, <2>6 DEF RetryFind, CopiesInBudget, InBudget
  <2>. QED  BY <2>3, <2>7 DEF BudgetInv
<1>13. ASSUME NEW r \in Retrier, retriers[r].at = "commit"
       PROVE  LET d == retriers[r].delivery
                  row == ScheduleRetry(rows[d], retriers[r].attempt, TRUE)
              IN  /\ d \in Delivery /\ retriers[r].attempt \in Nat
                  /\ InBudget(retriers[r].attempt, d)
                  /\ RowInBudget(row, d)
  <2>. DEFINE d == retriers[r].delivery
              n == retriers[r].attempt
  <2>1. d \in Delivery /\ n \in Nat
    BY <1>13, RetrierStep
  <2>2. rows[d] \in DeliveryRow
    BY <2>1 DEF TypeOK
  <2>3. InBudget(n, d)
    BY <1>13 DEF BudgetInv, CopiesInBudget
  <2>. QED  BY <1>0, <2>1, <2>2, <2>3 DEF ScheduleRetry, DeliveryRow, RowInBudget, InBudget
<1>14. ASSUME NEW r \in Retrier, NEW f \in Flight, RetryCommit(r, f) PROVE BudgetInv'
  <2>. DEFINE d == retriers[r].delivery
              n == retriers[r].attempt
              row == ScheduleRetry(rows[d], n, TRUE)
  <2>1. d \in Delivery /\ n \in Nat /\ InBudget(n, d) /\ RowInBudget(row, d)
    BY <1>13, <1>14 DEF RetryCommit
  <2>2. \A g \in Flight : \/ flights'[g] \in {Idle, flights[g]}
                          \/ InBudget(flights'[g].attempt, flights'[g].delivery)
    BY <1>14, <2>1, DispatchInBudget DEF RetryCommit
  <2>3. /\ rows' = [rows EXCEPT ![d] = row]
        /\ \A q \in Retrier : retriers'[q] \in {Idle, retriers[q]}
        /\ UNCHANGED <<retries, sweep>>
    BY <1>14 DEF RetryCommit, TypeOK
  <2>. HIDE DEF row, d, n
  <2>4. \A e \in Delivery : rows'[e] = rows[e] \/ RowInBudget(rows'[e], e)
    BY <2>1, <2>3 DEF TypeOK
  <2>. QED  BY <2>2, <2>3, <2>4, BudgetStep
<1>15. ASSUME NEW r \in Retrier, RetryFails(r) PROVE BudgetInv'
  <2>. DEFINE d == retriers[r].delivery
              n == retriers[r].attempt
              row == ScheduleRetry(rows[d], n, TRUE)
  <2>1. d \in Delivery /\ RowInBudget(row, d)
    BY <1>13, <1>15 DEF RetryFails
  <2>2. /\ rows' \in {rows, [rows EXCEPT ![d] = row]}
        /\ \A q \in Retrier : retriers'[q] \in {Idle, retriers[q]}
        /\ UNCHANGED <<retries, sweep, flights>>
    BY <1>15 DEF RetryFails, TypeOK
  <2>. HIDE DEF row, d, n
  <2>3. \A e \in Delivery : rows'[e] = rows[e] \/ RowInBudget(rows'[e], e)
    BY <2>1, <2>2 DEF TypeOK
  <2>. QED  BY <2>2, <2>3, BudgetStep
<1>16. CASE Crash
  <2>1. /\ \A f \in Flight : flights'[f] \in {Idle, flights[f]}
        /\ \A r \in Retrier : retriers'[r] \in {Idle, retriers[r]}
        /\ sweep' \subseteq sweep
    BY <1>16 DEF Crash
  <2>. QED  BY <1>16, <2>1, BudgetStep DEF Crash
<1>17. CASE UNCHANGED vars
  BY <1>17, BudgetStep DEF vars
<1>18. CASE Quiet
  BY <1>17, <1>18 DEF Quiet
<1>. QED
  BY <1>1, <1>3, <1>4, <1>5, <1>6, <1>7, <1>8, <1>9, <1>10, <1>11, <1>12, <1>14,
     <1>15, <1>16, <1>17, <1>18 DEF Next

(***************************************************************************)
(* Nothing but an operator's retry lets a delivery be attempted beyond     *)
(* MaxAttempts, and each retry only once, in every behaviour.              *)
(***************************************************************************)
THEOREM AttemptsAreBudgeted == Spec => []AttemptBudget
<1>1. BudgetInv => AttemptBudget
  BY DEF BudgetInv
<1>. QED  BY <1>1, BudgetInit, BudgetNext, TypeCorrect, PTL DEF Spec

-----------------------------------------------------------------------------
(***************************************************************************)
(* Settled rows stay.  First what is known of every copy: the row it was   *)
(* read from exists, a retry that holds one was counted, and a subscriber  *)
(* that is still to be served has no row yet.                              *)
(***************************************************************************)
Stored(d) == rows[d].status # "absent"

UnservedHasNoRow ==
    \A c \in Call :
       /\ c \notin called => left[c] = {}
       /\ \A w \in Webhook : c \notin called \/ w \in left[c] => ~Stored(<<c, w>>)

CopiesHaveRows ==
    /\ \A s \in sweep : Stored(s.delivery)
    /\ \A f \in Flight : flights[f].at # "idle" => Stored(flights[f].delivery)
    /\ \A r \in Retrier : retriers[r].at = "commit" =>
          Stored(retriers[r].delivery) /\ retries[retriers[r].delivery] > 0

SettledIsDue == \A d \in Delivery : Settled(rows[d]) => rows[d].due

KnownInv == UnservedHasNoRow /\ CopiesHaveRows /\ SettledIsDue

\* At first there is no row and no copy.
LEMMA KnownInit == Init => KnownInv
<1>. SUFFICES ASSUME Init PROVE KnownInv
  OBVIOUS
<1>. \A d \in Delivery : rows[d].status = "absent"
  BY DEF Init, AbsentRow
<1>. QED
  BY DEF Init, KnownInv, UnservedHasNoRow, CopiesHaveRows, SettledIsDue, Settled,
         Stored, Idle, Delivery

\* The write of one row: it exists then, and it is due when it is settled.
LEMMA KnownWrite ==
    ASSUME KnownInv, TypeOK, NEW d \in Delivery, NEW row \in DeliveryRow,
           row.status # "absent", Settled(row) => row.due,
           rows' \in {rows, [rows EXCEPT ![d] = row]}
    PROVE  SettledIsDue' /\ \A e \in Delivery : Stored(e) => rows'[e].status # "absent"
<1>1. ASSUME NEW e \in Delivery
      PROVE  rows'[e] = rows[e] \/ (e = d /\ rows'[e] = row)
  BY DEF TypeOK
<1>. QED  BY <1>1 DEF KnownInv, SettledIsDue, Stored

\* A step that serves no subscriber and writes only rows that exist.
LEMMA KnownStep ==
    ASSUME TypeOK, TypeOK', KnownInv, called' = called, SettledIsDue',
           \A c \in Call : left'[c] \subseteq left[c],
           \A d \in Delivery : Stored(d) <=> rows'[d].status # "absent",
           \A d \in Delivery : retries[d] <= retries'[d],
           \A s \in sweep' : s \in sweep \/ Stored(s.delivery),
           \A r \in Retrier : \/ retriers'[r] \in {Idle, retriers[r]}
                              \/ /\ Stored(retriers'[r].delivery)
                                 /\ retries'[retriers'[r].delivery] > 0,
           \A f \in Flight : \/ flights'[f] \in {Idle, flights[f]}
                             \/ Stored(flights'[f].delivery)
    PROVE  KnownInv'
<1>1. UnservedHasNoRow'
  <2>. \A c \in Call, w \in Webhook : <<c, w>> \in Delivery
    BY DEF Delivery
  <2>. QED  BY DEF KnownInv, UnservedHasNoRow, Stored
<1>2. ASSUME NEW s \in sweep' PROVE rows'[s.delivery].status # "absent"
  <2>. s.delivery \in Delivery
    BY <1>2 DEF TypeOK, Copy
  <2>. QED  BY <1>2 DEF KnownInv, CopiesHaveRows
<1>3. ASSUME NEW f \in Flight, flights'[f].at # "idle"
      PROVE  rows'[flights'[f].delivery].status # "absent"
  <2>1. flights'[f].delivery \in Delivery
    BY <1>3 DEF TypeOK, Carried, Idle
  <2>2. Stored(flights'[f].delivery)
    BY <1>3 DEF KnownInv, CopiesHaveRows, Idle
  <2>. QED  BY <2>1, <2>2
<1>4. ASSUME NEW r \in Retrier, retriers'[r].at = "commit"
      PROVE  /\ rows'[retriers'[r].delivery].status # "absent"
             /\ retries'[retriers'[r].delivery] > 0
  <2>1. retriers'[r].delivery \in Delivery
    BY <1>4 DEF TypeOK, RetryCopy, Idle
  <2>2. CASE retriers'[r] = retriers[r]
    <3>1. Stored(retriers[r].delivery) /\ retries[retriers[r].delivery] > 0
      BY <1>4, <2>2 DEF KnownInv, CopiesHaveRows
    <3>2. \A d \in Delivery : retries[d] \in Nat /\ retries'[d] \in Nat
      BY WebhookAssumption DEF TypeOK
    <3>. QED  BY <2>1, <2>2, <3>1, <3>2
  <2>3. CASE Stored(retriers'[r].delivery) /\ retries'[retriers'[r].delivery] > 0
    BY <2>1, <2>3
  <2>. QED  BY <1>4, <2>2, <2>3 DEF Idle
<1>. QED
  BY <1>1, <1>2, <1>3, <1>4 DEF KnownInv, CopiesHaveRows, Stored

\* The rows a recording goroutine and a retry write.
LEMMA WrittenRow ==
    ASSUME NEW row \in DeliveryRow, NEW n \in Nat
    PROVE  /\ ScheduleRetry(row, n, TRUE).status = "pending"
           /\ ScheduleRetry(row, n, FALSE).status = "pending"
           /\ MarkFailed(row, n).status = "failed" /\ MarkFailed(row, n).due
           /\ MarkDelivered(row).status = "delivered" /\ MarkDelivered(row).due
  BY DEF ScheduleRetry, MarkFailed, MarkDelivered, DeliveryRow

\* What deliver records exists, and it is due when it is settled.
LEMMA RecordedRow ==
    ASSUME NEW row \in DeliveryRow, NEW flight \in Carried
    PROVE  /\ Recorded(row, flight).status # "absent"
           /\ Settled(Recorded(row, flight)) => Recorded(row, flight).due
<1>. flight.attempt + 1 \in Nat
  BY DEF Carried
<1>. QED  BY RecordedCases, WrittenRow DEF Settled

\* The goroutine Dispatch starts belongs to d.
LEMMA DispatchOf ==
    ASSUME TypeOK, NEW f \in Flight, NEW d \in Delivery, NEW n \in Nat, Dispatch(f, d, n)
    PROVE  /\ flights[f] = Idle
           /\ flights'[f].at = "post" /\ flights'[f].delivery = d
           /\ \A g \in Flight : g # f => flights'[g] = flights[g]
  BY DEF Dispatch, TypeOK

\* The write of a new row is the one step that serves a subscriber.
LEMMA KnownInsert ==
    ASSUME TypeOK, TypeOK', KnownInv, NEW c \in Call, NEW w \in Webhook, w \in left[c],
           UNCHANGED <<called, sweep, retriers, retries>>,
           rows' = [rows EXCEPT ![<<c, w>>] = InsertRow],
           \A e \in Call : left'[e] \subseteq left[e],
           w \notin left'[c],
           \A f \in Flight : \/ flights'[f] = flights[f]
                             \/ flights'[f].delivery = <<c, w>>
    PROVE  KnownInv'
<1>. DEFINE d == <<c, w>>
<1>1. d \in Delivery /\ InsertRow \in DeliveryRow /\ InsertRow.status = "pending"
  BY DEF Delivery, InsertRow, DeliveryRow, TypeOK
<1>2. rows'[d].status = "pending" /\ \A e \in Delivery : e # d => rows'[e] = rows[e]
  BY <1>1 DEF TypeOK
<1>3. c \in called
  BY DEF KnownInv, UnservedHasNoRow
<1>4. UnservedHasNoRow'
  <2>. SUFFICES ASSUME NEW e \in Call, NEW v \in Webhook, e \notin called \/ v \in left'[e]
                PROVE  rows'[<<e, v>>].status = "absent"
    BY DEF UnservedHasNoRow, KnownInv, Stored
  <2>1. <<e, v>> \in Delivery /\ <<e, v>> # d
    BY <1>3 DEF Delivery
  <2>2. rows[<<e, v>>].status = "absent"
    BY DEF KnownInv, UnservedHasNoRow, Stored
  <2>. QED  BY <1>2, <2>1, <2>2
<1>5. SettledIsDue'
  BY <1>2 DEF KnownInv, SettledIsDue, Settled
<1>6. ASSUME NEW e \in Delivery, Stored(e) PROVE rows'[e].status # "absent"
  BY <1>2, <1>6 DEF Stored
<1>7. ASSUME NEW f \in Flight, flights'[f].at # "idle"
      PROVE  rows'[flights'[f].delivery].status # "absent"
  <2>1. CASE flights'[f] = flights[f]
    BY <1>6, <1>7, <2>1, FlightStep DEF KnownInv, CopiesHaveRows
  <2>2. CASE flights'[f].delivery = d
    BY <1>2, <2>2
  <2>. QED  BY <2>1, <2>2
<1>8. ASSUME NEW s \in sweep PROVE rows'[s.delivery].status # "absent"
  BY <1>6, <1>8 DEF TypeOK, Copy, KnownInv, CopiesHaveRows
<1>9. ASSUME NEW r \in Retrier, retriers[r].at = "commit"
      PROVE  /\ rows'[retriers[r].delivery].status # "absent"
             /\ retries[retriers[r].delivery] > 0
  BY <1>6, <1>9, RetrierStep DEF KnownInv, CopiesHaveRows
<1>. QED
  BY <1>4, <1>5, <1>7, <1>8, <1>9 DEF KnownInv, CopiesHaveRows, Stored

\* A step that leaves the rows, the calls and the counts of retries alone.
LEMMA KnownQuiet ==
    ASSUME TypeOK, TypeOK', KnownInv, UNCHANGED <<rows, called, retries>>,
           \A c \in Call : left'[c] \subseteq left[c],
           \A s \in sweep' : s \in sweep \/ Stored(s.delivery),
           \A r \in Retrier : retriers'[r] \in {Idle, retriers[r]},
           \A f \in Flight : \/ flights'[f] \in {Idle, flights[f]}
                             \/ Stored(flights'[f].delivery)
    PROVE  KnownInv'
<1>1. SettledIsDue' /\ \A d \in Delivery : Stored(d) <=> rows'[d].status # "absent"
  BY DEF KnownInv, SettledIsDue, Stored
<1>2. \A d \in Delivery : retries[d] <= retries'[d]
  BY DEF TypeOK
<1>. QED  BY <1>1, <1>2, KnownStep

\* Every step keeps what is known of the copies.
LEMMA KnownNext == TypeOK /\ TypeOK' /\ KnownInv /\ [Next]_vars => KnownInv'
<1>. SUFFICES ASSUME TypeOK, TypeOK', KnownInv, [Next]_vars PROVE KnownInv'
  OBVIOUS
<1>1. ASSUME NEW c \in Call, DispatchEvent(c) \/ Test(c) PROVE KnownInv'
  <2>1. /\ c \notin called /\ called' = called \cup {c}
        /\ \A e \in Call : e # c => left'[e] = left[e]
        /\ UNCHANGED <<rows, flights, sweep, retriers, retries>>
    BY <1>1 DEF DispatchEvent, Test, TypeOK
  <2>2. UnservedHasNoRow'
    BY <2>1 DEF KnownInv, UnservedHasNoRow, Stored
  <2>. QED  BY <2>1, <2>2 DEF KnownInv, CopiesHaveRows, SettledIsDue, Stored
<1>3. ASSUME NEW c \in Call, NEW w \in Webhook, NEW f \in Flight, DispatchOnce(c, w, f)
      PROVE  KnownInv'
  <2>1. <<c, w>> \in Delivery
    BY DEF Delivery
  <2>2. \A g \in Flight : flights'[g] = flights[g] \/ flights'[g].delivery = <<c, w>>
    BY <1>3, <2>1, DispatchOf DEF DispatchOnce
  <2>3. w \notin left'[c] /\ \A e \in Call : left'[e] \subseteq left[e]
    BY <1>3 DEF DispatchOnce, TypeOK
  <2>. QED  BY <1>3, <2>2, <2>3, KnownInsert DEF DispatchOnce
<1>4. ASSUME NEW c \in Call, NEW w \in Webhook, DispatchOnceFails(c, w) PROVE KnownInv'
  <2>1. w \in left[c] /\ w \notin left'[c] /\ \A e \in Call : left'[e] \subseteq left[e]
    BY <1>4 DEF DispatchOnceFails, TypeOK
  <2>2. CASE rows' = rows
    BY <1>4, <2>1, <2>2, KnownQuiet DEF DispatchOnceFails
  <2>3. CASE rows' = [rows EXCEPT ![<<c, w>>] = InsertRow]
    BY <1>4, <2>1, <2>3, KnownInsert DEF DispatchOnceFails
  <2>. QED  BY <1>4, <2>2, <2>3 DEF DispatchOnceFails
<1>5. ASSUME NEW f \in Flight, Post(f) PROVE KnownInv'
  <2>1. flights[f] \in Carried /\ flights[f].at # "idle"
    BY <1>5, FlightStep DEF Post
  <2>2. /\ flights'[f].delivery = flights[f].delivery
        /\ \A g \in Flight : g # f => flights'[g] = flights[g]
    BY <1>5, <2>1 DEF Post, TypeOK, Carried
  <2>3. \A g \in Flight : flights'[g] \in {Idle, flights[g]} \/ Stored(flights'[g].delivery)
    BY <2>1, <2>2 DEF KnownInv, CopiesHaveRows
  <2>. QED  BY <1>5, <2>3, KnownQuiet DEF Post, callVars
<1>6. ASSUME NEW f \in Flight, Record(f) PROVE KnownInv'
  <2>. DEFINE d == flights[f].delivery
              row == Recorded(rows[d], flights[f])
  <2>1. flights[f] \in Carried /\ d \in Delivery /\ Stored(d)
    BY <1>6, FlightStep DEF Record, KnownInv, CopiesHaveRows
  <2>2. row \in DeliveryRow /\ row.status # "absent" /\ (Settled(row) => row.due)
    <3>. rows[d] \in DeliveryRow
      BY <2>1 DEF TypeOK
    <3>. QED  BY <2>1, RecordedType, RecordedRow
  <2>3. rows' = [rows EXCEPT ![d] = row]
    BY <1>6 DEF Record
  <2>. HIDE DEF row
  <2>4. SettledIsDue' /\ \A e \in Delivery : Stored(e) => rows'[e].status # "absent"
    BY <2>1, <2>2, <2>3, KnownWrite
  <2>5. \A e \in Delivery : Stored(e) <=> rows'[e].status # "absent"
    BY <2>1, <2>3, <2>4 DEF TypeOK, Stored
  <2>6. /\ \A g \in Flight : flights'[g] \in {Idle, flights[g]}
        /\ UNCHANGED <<called, left, sweep, retriers, retries>>
    BY <1>6 DEF Record, TypeOK, callVars
  <2>7. \A e \in Delivery : retries[e] <= retries'[e]
    BY <2>6 DEF TypeOK
  <2>. QED  BY <2>4, <2>5, <2>6, <2>7, KnownStep
<1>7. ASSUME NEW f \in Flight, RecordLost(f) PROVE KnownInv'
  <2>. \A g \in Flight : flights'[g] \in {Idle, flights[g]}
    BY <1>7 DEF RecordLost, TypeOK
  <2>. QED  BY <1>7, KnownQuiet DEF RecordLost, callVars
<1>8. ASSUME NEW d \in Delivery, BecomesDue(d) PROVE KnownInv'
  <2>. DEFINE row == [rows[d] EXCEPT !.due = TRUE]
  <2>1. rows[d] \in DeliveryRow
    BY DEF TypeOK
  <2>2. row.status = rows[d].status /\ row.due
    BY <2>1 DEF DeliveryRow
  <2>3. rows' = [rows EXCEPT ![d] = row]
    BY <1>8 DEF BecomesDue
  <2>. HIDE DEF row
  <2>4. \A e \in Delivery : rows'[e] = rows[e] \/ (e = d /\ rows'[e] = row)
    BY <2>3 DEF TypeOK
  <2>5. SettledIsDue'
    BY <2>2, <2>4 DEF KnownInv, SettledIsDue
  <2>6. \A e \in Delivery : Stored(e) <=> rows'[e].status # "absent"
    BY <2>2, <2>4 DEF Stored
  <2>7. /\ UNCHANGED <<called, left, sweep, retriers, retries, flights>>
        /\ \A e \in Delivery : retries[e] <= retries'[e]
    BY <1>8 DEF BecomesDue, callVars, TypeOK
  <2>. QED  BY <2>5, <2>6, <2>7, KnownStep
<1>9. ASSUME NEW t \in Sweeper, SweepList(t) PROVE KnownInv'
  <2>1. \A s \in sweep' : s \in sweep \/ Stored(s.delivery)
    BY <1>9 DEF SweepList, CopyOf, Page, Due, Stored
  <2>. QED  BY <1>9, <2>1, KnownQuiet DEF SweepList, callVars
<1>10. ASSUME NEW t \in Sweeper, NEW f \in Flight, SweepDispatch(t, f) PROVE KnownInv'
  <2>1. PICK s \in sweep : Dispatch(f, s.delivery, s.attempt) /\ sweep' = sweep \ {s}
    BY <1>10 DEF SweepDispatch
  <2>2. s.delivery \in Delivery /\ s.attempt \in Nat /\ Stored(s.delivery)
    BY <2>1 DEF TypeOK, Copy, KnownInv, CopiesHaveRows
  <2>3. \A g \in Flight : flights'[g] \in {Idle, flights[g]} \/ Stored(flights'[g].delivery)
    BY <2>1, <2>2, DispatchOf
  <2>. QED  BY <1>10, <2>1, <2>3, KnownQuiet DEF SweepDispatch, callVars
<1>11. ASSUME NEW t \in Sweeper, SweepFails(t) PROVE KnownInv'
  BY <1>11, KnownQuiet DEF SweepFails, callVars
<1>12. ASSUME NEW r \in Retrier, NEW d \in Delivery, RetryFind(r, d) PROVE KnownInv'
  <2>1. /\ retries'[d] > 0
        /\ \A e \in Delivery : retries[e] <= retries'[e]
    BY <1>12 DEF RetryFind, TypeOK
  <2>2. retriers'[r].delivery = d /\ Stored(d)
        /\ \A q \in Retrier : q # r => retriers'[q] = retriers[q]
    BY <1>12 DEF RetryFind, TypeOK, Stored
  <2>3. \A q \in Retrier : \/ retriers'[q] \in {Idle, retriers[q]}
                           \/ /\ Stored(retriers'[q].delivery)
                              /\ retries'[retriers'[q].delivery] > 0
    BY <2>1, <2>2
  <2>4. /\ SettledIsDue'
        /\ \A e \in Delivery : Stored(e) <=> rows'[e].status # "absent"
        /\ UNCHANGED <<called, left, sweep, flights>>
    BY <1>12 DEF RetryFind, KnownInv, SettledIsDue, Stored, callVars
  <2>. QED  BY <2>1, <2>3, <2>4, KnownStep
<1>13. ASSUME NEW r \in Retrier, retriers[r].at = "commit",
              rows' \in {rows, [rows EXCEPT ![retriers[r].delivery] =
                 ScheduleRetry(rows[retriers[r].delivery], retriers[r].attempt, TRUE)]}
       PROVE  /\ Stored(retriers[r].delivery) /\ SettledIsDue'
              /\ \A e \in Delivery : Stored(e) <=> rows'[e].status # "absent"
  <2>. DEFINE d == retriers[r].delivery
              row == ScheduleRetry(rows[d], retriers[r].attempt, TRUE)
  <2>1. d \in Delivery /\ retriers[r].attempt \in Nat /\ Stored(d)
    BY <1>13, RetrierStep DEF KnownInv, CopiesHaveRows
  <2>2. row \in DeliveryRow /\ row.status = "pending"
    <3>. rows[d] \in DeliveryRow
      BY <2>1 DEF TypeOK
    <3>. QED  BY <2>1, RowUpdates, WrittenRow
  <2>3. rows' \in {rows, [rows EXCEPT ![d] = row]}
    BY <1>13
  <2>. HIDE DEF row, d
  <2>4. SettledIsDue' /\ \A e \in Delivery : Stored(e) => rows'[e].status # "absent"
    BY <2>1, <2>2, <2>3, KnownWrite DEF Settled
  <2>5. \A e \in Delivery : Stored(e) <=> rows'[e].status # "absent"
    BY <2>1, <2>3, <2>4 DEF TypeOK, Stored
  <2>. QED  BY <2>1, <2>4, <2>5 DEF d
<1>14. ASSUME NEW r \in Retrier, NEW f \in Flight, RetryCommit(r, f) PROVE KnownInv'
  <2>1. retriers[r].delivery \in Delivery /\ retriers[r].attempt \in Nat
    BY <1>14, RetrierStep DEF RetryCommit
  <2>2. /\ Stored(retriers[r].delivery) /\ SettledIsDue'
        /\ \A e \in Delivery : Stored(e) <=> rows'[e].status # "absent"
    BY <1>13, <1>14 DEF RetryCommit
  <2>3. \A g \in Flight : flights'[g] \in {Idle, flights[g]} \/ Stored(flights'[g].delivery)
    BY <1>14, <2>1, <2>2, DispatchOf DEF RetryCommit
  <2>4. /\ \A q \in Retrier : retriers'[q] \in {Idle, retriers[q]}
        /\ UNCHANGED <<called, left, sweep, retries>>
        /\ \A e \in Delivery : retries[e] <= retries'[e]
    BY <1>14 DEF RetryCommit, TypeOK, callVars
  <2>. QED  BY <2>2, <2>3, <2>4, KnownStep
<1>15. ASSUME NEW r \in Retrier, RetryFails(r) PROVE KnownInv'
  <2>1. /\ SettledIsDue'
        /\ \A e \in Delivery : Stored(e) <=> rows'[e].status # "absent"
    BY <1>13, <1>15 DEF RetryFails
  <2>2. /\ \A q \in Retrier : retriers'[q] \in {Idle, retriers[q]}
        /\ UNCHANGED <<called, left, sweep, retries, flights>>
        /\ \A e \in Delivery : retries[e] <= retries'[e]
    BY <1>15 DEF RetryFails, TypeOK, callVars
  <2>. QED  BY <2>1, <2>2, KnownStep
<1>16. CASE Crash
  <2>1. /\ \A f \in Flight : flights'[f] \in {Idle, flights[f]}
        /\ \A r \in Retrier : retriers'[r] \in {Idle, retriers[r]}
        /\ \A c \in Call : left'[c] \subseteq left[c]
        /\ sweep' \subseteq sweep
    BY <1>16 DEF Crash
  <2>. QED  BY <1>16, <2>1, KnownQuiet DEF Crash
<1>17. CASE UNCHANGED vars
  BY <1>17, KnownQuiet DEF vars, callVars
<1>18. CASE Quiet
  BY <1>17, <1>18 DEF Quiet
<1>. QED
  BY <1>1, <1>3, <1>4, <1>5, <1>6, <1>7, <1>8, <1>9, <1>10, <1>11, <1>12, <1>14,
     <1>15, <1>16, <1>17, <1>18 DEF Next

(***************************************************************************)
(* A delivery is calm as long as no sweep listed it while a goroutine or   *)
(* another sweep had a copy of it, and nobody retried it.  A calm delivery *)
(* has one copy at most that can still be recorded, in a goroutine or in a *)
(* sweep, and while it has one its row is pending.                         *)
(***************************************************************************)
Calm(d) == d \notin overlap /\ retries[d] = 0

Up(f) == flights[f].at # "idle"

OneFlight ==
    \A f, g \in Flight :
       Up(f) /\ Up(g) /\ flights[f].delivery = flights[g].delivery
       /\ Calm(flights[f].delivery) => f = g

NoFlightBehindSweep ==
    \A s \in sweep, f \in Flight :
       Up(f) /\ flights[f].delivery = s.delivery => ~Calm(s.delivery)

CalmCopyIsPending ==
    /\ \A f \in Flight : Up(f) /\ Calm(flights[f].delivery) =>
          rows[flights[f].delivery].status = "pending"
    /\ \A s \in sweep : Calm(s.delivery) => rows[s.delivery].status = "pending"

OneListing ==
    \A s, t \in sweep : s.delivery = t.delivery /\ Calm(s.delivery) => s = t

CalmInv == OneFlight /\ NoFlightBehindSweep /\ CalmCopyIsPending /\ OneListing

\* At first there is no copy.
LEMMA CalmInit == Init => CalmInv
  BY DEF Init, CalmInv, OneFlight, NoFlightBehindSweep, CalmCopyIsPending,
         OneListing, Up, Idle

\* What is calm after a step was calm before it.
LEMMA CalmShrinks ==
    ASSUME TypeOK, TypeOK', overlap \subseteq overlap',
           \A d \in Delivery : retries[d] <= retries'[d],
           NEW d \in Delivery, d \notin overlap', retries'[d] = 0
    PROVE  Calm(d)
<1>. retries[d] \in Nat /\ retries[d] <= 0
  BY WebhookAssumption DEF TypeOK
<1>. QED  BY DEF Calm

\* A step that starts no goroutine and lists no row.  It writes the status of no
\* row that has a copy left, unless the delivery is not calm.
LEMMA CalmStep ==
    ASSUME TypeOK, TypeOK', CalmInv, overlap \subseteq overlap', sweep' \subseteq sweep,
           \A d \in Delivery : retries[d] <= retries'[d],
           \A f \in Flight :
              \/ flights'[f] = Idle
              \/ Up(f) /\ flights'[f].delivery = flights[f].delivery,
           \A d \in Delivery :
              \/ rows'[d].status = rows[d].status
              \/ retries[d] > 0
              \/ /\ \A f \in Flight : flights'[f].at # "idle" => flights'[f].delivery # d
                 /\ \A s \in sweep' : s.delivery # d
    PROVE  CalmInv'
<1>1. ASSUME NEW f \in Flight, flights'[f].at # "idle"
      PROVE  /\ Up(f) /\ flights'[f].delivery = flights[f].delivery
             /\ flights[f].delivery \in Delivery
  <2>1. Up(f) /\ flights'[f].delivery = flights[f].delivery
    BY <1>1 DEF Idle
  <2>. QED  BY <2>1, FlightStep DEF Up
<1>2. ASSUME NEW d \in Delivery, Calm(d)' PROVE Calm(d)
  BY <1>2, CalmShrinks DEF Calm
<1>3. ASSUME NEW d \in Delivery, retries[d] > 0 PROVE ~Calm(d)'
  <2>. retries[d] \in Nat /\ retries'[d] \in Nat
    BY WebhookAssumption DEF TypeOK
  <2>. QED  BY <1>3 DEF Calm
<1>4. OneFlight'
  BY <1>1, <1>2 DEF OneFlight, CalmInv, Up
<1>5. \A s \in sweep' : s \in sweep /\ s.delivery \in Delivery
  BY DEF TypeOK, Copy
<1>6. NoFlightBehindSweep'
  BY <1>1, <1>2, <1>5 DEF NoFlightBehindSweep, CalmInv, Up
<1>7. CalmCopyIsPending'
  <2>1. ASSUME NEW f \in Flight, flights'[f].at # "idle",
               NEW d \in Delivery, d = flights'[f].delivery, Calm(d)'
        PROVE  rows'[d].status = "pending"
    <3>1. Calm(d) /\ ~(retries[d] > 0)
      BY <1>2, <1>3, <2>1
    <3>2. rows'[d].status = rows[d].status
      BY <2>1, <3>1
    <3>. QED  BY <1>1, <2>1, <3>1, <3>2 DEF CalmInv, CalmCopyIsPending
  <2>2. ASSUME NEW s \in sweep', NEW d \in Delivery, d = s.delivery, Calm(d)'
        PROVE  rows'[d].status = "pending"
    <3>1. Calm(d) /\ ~(retries[d] > 0)
      BY <1>2, <1>3, <2>2
    <3>2. rows'[d].status = rows[d].status
      BY <2>2, <3>1
    <3>. QED  BY <1>5, <2>2, <3>1, <3>2 DEF CalmInv, CalmCopyIsPending
  <2>3. \A f \in Flight : flights'[f].at # "idle" => flights'[f].delivery \in Delivery
    BY <1>1
  <2>. QED  BY <1>5, <2>1, <2>2, <2>3 DEF CalmCopyIsPending, Up, Calm
<1>8. OneListing'
  BY <1>2, <1>5 DEF OneListing, CalmInv
<1>. QED  BY <1>4, <1>6, <1>7, <1>8 DEF CalmInv

\* A goroutine is started for d: if d is calm its row is pending and no other copy
\* of it is left.
LEMMA CalmStart ==
    ASSUME TypeOK, TypeOK', CalmInv, UNCHANGED <<overlap, retries>>, sweep' \subseteq sweep,
           NEW f \in Flight, NEW d \in Delivery,
           flights'[f].delivery = d,
           \A g \in Flight : g # f => flights'[g] = flights[g],
           \A e \in Delivery : e # d => rows'[e].status = rows[e].status,
           Calm(d) => /\ rows'[d].status = "pending"
                      /\ \A g \in Flight : Up(g) => flights[g].delivery # d
                      /\ \A s \in sweep' : s.delivery # d,
           ~Calm(d) => rows'[d].status = rows[d].status \/ retries[d] > 0
    PROVE  CalmInv'
<1>1. \A e : Calm(e)' <=> Calm(e)
  BY DEF Calm
<1>2. \A s \in sweep' : s \in sweep /\ s.delivery \in Delivery
  BY DEF TypeOK, Copy
<1>3. ASSUME NEW g \in Flight, g # f
      PROVE  /\ flights'[g] = flights[g]
             /\ Up(g) => flights[g].delivery \in Delivery
  BY <1>3, FlightStep DEF Up
<1>4. OneFlight'
  BY <1>1, <1>3 DEF OneFlight, CalmInv, Up
<1>5. NoFlightBehindSweep'
  BY <1>1, <1>2, <1>3 DEF NoFlightBehindSweep, CalmInv, Up
<1>6. CalmCopyIsPending'
  <2>1. ASSUME NEW g \in Flight, flights'[g].at # "idle", Calm(flights'[g].delivery)
        PROVE  rows'[flights'[g].delivery].status = "pending"
    <3>1. CASE g = f
      BY <2>1, <3>1
    <3>2. CASE g # f
      BY <1>3, <2>1, <3>2 DEF CalmInv, CalmCopyIsPending, Up
    <3>. QED  BY <3>1, <3>2
  <2>2. ASSUME NEW s \in sweep', Calm(s.delivery)
        PROVE  rows'[s.delivery].status = "pending"
    BY <1>2, <2>2 DEF CalmInv, CalmCopyIsPending
  <2>. QED  BY <1>1, <2>1, <2>2 DEF CalmCopyIsPending, Up
<1>7. OneListing'
  BY <1>1, <1>2 DEF OneListing, CalmInv
<1>. QED  BY <1>4, <1>5, <1>6, <1>7 DEF CalmInv

\* A delivery without a row has no copy.
LEMMA NoCopyWithoutRow ==
    ASSUME KnownInv, NEW c \in Call, NEW w \in Webhook, w \in left[c]
    PROVE  /\ rows[<<c, w>>].status = "absent"
           /\ \A f \in Flight : Up(f) => flights[f].delivery # <<c, w>>
           /\ \A s \in sweep : s.delivery # <<c, w>>
  BY DEF KnownInv, UnservedHasNoRow, CopiesHaveRows, Stored, Up

\* Every step keeps the calm deliveries to one copy.
LEMMA CalmNext ==
    TypeOK /\ TypeOK' /\ KnownInv /\ CalmInv /\ [Next]_vars => CalmInv'
<1>. SUFFICES ASSUME TypeOK, TypeOK', KnownInv, CalmInv, [Next]_vars PROVE CalmInv'
  OBVIOUS
<1>0. /\ \A d \in Delivery : retries[d] \in Nat /\ retries[d] <= retries[d]
      /\ \A f \in Flight : flights[f] = Idle \/ Up(f)
  <2>1. \A d \in Delivery : retries[d] \in Nat
    BY WebhookAssumption DEF TypeOK
  <2>2. \A f \in Flight : flights[f] = Idle \/ Up(f)
    BY DEF TypeOK, Up, Carried
  <2>. QED  BY <2>1, <2>2
<1>1. ASSUME NEW c \in Call, DispatchEvent(c) \/ Test(c) PROVE CalmInv'
  BY <1>0, <1>1, CalmStep DEF DispatchEvent, Test
<1>3. ASSUME NEW c \in Call, NEW w \in Webhook, NEW f \in Flight, DispatchOnce(c, w, f)
      PROVE  CalmInv'
  <2>. DEFINE d == <<c, w>>
  <2>1. /\ d \in Delivery /\ rows'[d].status = "pending"
        /\ \A e \in Delivery : e # d => rows'[e].status = rows[e].status
    BY <1>3 DEF Delivery, DispatchOnce, TypeOK, InsertRow
  <2>2. /\ \A g \in Flight : Up(g) => flights[g].delivery # d
        /\ \A s \in sweep : s.delivery # d
    BY <1>3, NoCopyWithoutRow DEF DispatchOnce
  <2>3. /\ flights'[f].delivery = d
        /\ \A g \in Flight : g # f => flights'[g] = flights[g]
    BY <1>3, <2>1, DispatchOf DEF DispatchOnce
  <2>4. /\ OneFlight' /\ NoFlightBehindSweep' /\ OneListing'
    <3>. \A e : Calm(e)' <=> Calm(e)
      BY <1>3 DEF DispatchOnce, Calm
    <3>. QED  BY <1>3, <2>2, <2>3
          DEF DispatchOnce, CalmInv, OneFlight, NoFlightBehindSweep, OneListing, Up
  <2>5. CalmCopyIsPending'
    <3>1. \A e : Calm(e)' <=> Calm(e)
      BY <1>3 DEF DispatchOnce, Calm
    <3>2. ASSUME NEW g \in Flight, flights'[g].at # "idle", Calm(flights'[g].delivery)
          PROVE  rows'[flights'[g].delivery].status = "pending"
      <4>1. CASE g = f
        BY <2>1, <2>3, <4>1
      <4>2. CASE g # f
        <5>. Up(g) /\ flights'[g] = flights[g] /\ flights[g].delivery \in Delivery
          BY <2>3, <3>2, <4>2, FlightStep DEF Up
        <5>. QED  BY <2>1, <2>2, <3>2 DEF CalmInv, CalmCopyIsPending
      <4>. QED  BY <4>1, <4>2
    <3>3. ASSUME NEW s \in sweep, Calm(s.delivery)
          PROVE  rows'[s.delivery].status = "pending"
      BY <2>1, <2>2, <3>3 DEF CalmInv, CalmCopyIsPending, TypeOK, Copy
    <3>. QED  BY <1>3, <3>1, <3>2, <3>3 DEF DispatchOnce, CalmCopyIsPending, Up
  <2>. QED  BY <2>4, <2>5 DEF CalmInv
<1>4. ASSUME NEW c \in Call, NEW w \in Webhook, DispatchOnceFails(c, w) PROVE CalmInv'
  <2>. DEFINE d == <<c, w>>
  <2>1. UNCHANGED <<flights, sweep, overlap, retries>>
    BY <1>4 DEF DispatchOnceFails
  <2>2. d \in Delivery /\ \A e \in Delivery : e # d => rows'[e].status = rows[e].status
    BY <1>4 DEF Delivery, DispatchOnceFails, TypeOK
  <2>3. /\ \A g \in Flight : Up(g) => flights[g].delivery # d
        /\ \A s \in sweep : s.delivery # d
    BY <1>4, NoCopyWithoutRow DEF DispatchOnceFails
  <2>4. \A e \in Delivery :
           \/ rows'[e].status = rows[e].status
           \/ /\ \A g \in Flight : flights'[g].at # "idle" => flights'[g].delivery # e
              /\ \A s \in sweep' : s.delivery # e
    BY <2>1, <2>2, <2>3 DEF Up
  <2>. QED  BY <1>0, <2>1, <2>4, CalmStep
<1>5. ASSUME NEW f \in Flight, Post(f) PROVE CalmInv'
  <2>1. flights[f] \in Carried
    BY <1>5, FlightStep DEF Post
  <2>2. /\ Up(f) /\ flights'[f].delivery = flights[f].delivery
        /\ \A g \in Flight : g # f => flights'[g] = flights[g]
    BY <1>5, <2>1 DEF Post, TypeOK, Carried, Up
  <2>3. UNCHANGED <<rows, sweep, overlap, retries>>
    BY <1>5 DEF Post
  <2>4. \A g \in Flight : \/ flights'[g] = Idle
                          \/ Up(g) /\ flights'[g].delivery = flights[g].delivery
    BY <1>0, <2>2
  <2>. QED  BY <1>0, <2>3, <2>4, CalmStep
<1>6. ASSUME NEW f \in Flight, Record(f) PROVE CalmInv'
  <2>. DEFINE d == flights[f].delivery
  <2>1. flights[f] \in Carried /\ d \in Delivery /\ Up(f)
    BY <1>6, FlightStep DEF Record, Up
  <2>2. /\ \A e \in Delivery : e # d => rows'[e] = rows[e]
        /\ flights'[f] = Idle /\ \A g \in Flight : g # f => flights'[g] = flights[g]
        /\ UNCHANGED <<sweep, overlap, retries>>
    BY <1>6, <2>1 DEF Record, TypeOK
  <2>3. CASE Calm(d)
    <3>1. \A g \in Flight : flights'[g].at # "idle" => flights'[g].delivery # d
      BY <2>1, <2>2, <2>3 DEF CalmInv, OneFlight, Up, Idle
    <3>2. \A s \in sweep' : s.delivery # d
      BY <2>1, <2>2, <2>3 DEF CalmInv, NoFlightBehindSweep
    <3>. QED  BY <1>0, <2>2, <3>1, <3>2, CalmStep
  <2>4. CASE ~Calm(d)
    <3>1. \A e : Calm(e)' <=> Calm(e)
      BY <2>2 DEF Calm
    <3>2. OneFlight' /\ NoFlightBehindSweep' /\ OneListing'
      BY <2>2, <3>1
      DEF CalmInv, OneFlight, NoFlightBehindSweep, OneListing, Up, Idle
    <3>3. ASSUME NEW g \in Flight, flights'[g].at # "idle", Calm(flights'[g].delivery)
          PROVE  rows'[flights'[g].delivery].status = "pending"
      <4>. g # f /\ Up(g) /\ flights'[g] = flights[g] /\ flights[g].delivery \in Delivery
        BY <2>2, <3>3, FlightStep DEF Up, Idle
      <4>. QED  BY <2>2, <2>4, <3>3 DEF CalmInv, CalmCopyIsPending
    <3>4. ASSUME NEW s \in sweep, Calm(s.delivery)
          PROVE  rows'[s.delivery].status = "pending"
      BY <2>2, <2>4, <3>4 DEF CalmInv, CalmCopyIsPending, TypeOK, Copy
    <3>5. CalmCopyIsPending'
      BY <2>2, <3>1, <3>3, <3>4 DEF CalmCopyIsPending, Up
    <3>. QED  BY <3>2, <3>5 DEF CalmInv
  <2>. QED  BY <2>3, <2>4
<1>7. ASSUME NEW f \in Flight, RecordLost(f) PROVE CalmInv'
  <2>1. /\ flights'[f] = Idle /\ \A g \in Flight : g # f => flights'[g] = flights[g]
        /\ UNCHANGED <<rows, sweep, overlap, retries>>
    BY <1>7 DEF RecordLost, TypeOK
  <2>2. \A g \in Flight : \/ flights'[g] = Idle
                          \/ Up(g) /\ flights'[g].delivery = flights[g].delivery
    BY <1>0, <2>1
  <2>. QED  BY <1>0, <2>1, <2>2, CalmStep
<1>8. ASSUME NEW d \in Delivery, BecomesDue(d) PROVE CalmInv'
  <2>1. \A e \in Delivery : rows'[e].status = rows[e].status
    BY <1>8 DEF BecomesDue, TypeOK, DeliveryRow
  <2>2. UNCHANGED <<flights, sweep, overlap, retries>>
    BY <1>8 DEF BecomesDue
  <2>. QED  BY <1>0, <2>1, <2>2, CalmStep
<1>9. ASSUME NEW t \in Sweeper, SweepList(t) PROVE CalmInv'
  <2>. DEFINE new == {CopyOf(t, e) : e \in Page}
  <2>1. /\ UNCHANGED <<rows, flights, retries>> /\ overlap \subseteq overlap'
        /\ sweep' = sweep \cup new
        /\ \A e \in Page : Attempting(e) => e \in overlap'
    BY <1>9 DEF SweepList
  <2>2. \A e : Calm(e)' => Calm(e)
    BY <2>1 DEF Calm
  <2>3. \A s \in new : /\ s.delivery \in Page /\ s = CopyOf(t, s.delivery)
                       /\ rows[s.delivery].status = "pending"
    BY DEF CopyOf, Page, Due
  <2>4. ASSUME NEW s \in new, NEW f \in Flight, Up(f), flights[f].delivery = s.delivery
        PROVE  ~Calm(s.delivery)'
    <3>1. flights[f] # Idle
      BY <2>4 DEF Up, Idle
    <3>2. Attempting(s.delivery)
      BY <2>4, <3>1 DEF Attempting
    <3>. QED  BY <2>1, <2>3, <3>2 DEF Calm
  <2>5. ASSUME NEW s \in new, NEW u \in sweep, u.delivery = s.delivery
        PROVE  ~Calm(s.delivery)'
    <3>1. Attempting(s.delivery)
      BY <2>5 DEF Attempting
    <3>. QED  BY <2>1, <2>3, <3>1 DEF Calm
  <2>6. ASSUME NEW s \in new, NEW u \in new, u.delivery = s.delivery PROVE s = u
    BY <2>3, <2>6
  <2>. HIDE DEF new
  <2>7. OneFlight'
    BY <2>1, <2>2 DEF CalmInv, OneFlight, Up
  <2>8. OneListing'
    BY <2>1, <2>2, <2>5, <2>6 DEF CalmInv, OneListing
  <2>9. NoFlightBehindSweep'
    BY <2>1, <2>2, <2>4 DEF CalmInv, NoFlightBehindSweep, Up
  <2>10. CalmCopyIsPending'
    BY <2>1, <2>2, <2>3 DEF CalmInv, CalmCopyIsPending, Up
  <2>. QED  BY <2>7, <2>8, <2>9, <2>10 DEF CalmInv
<1>10. ASSUME NEW t \in Sweeper, NEW f \in Flight, SweepDispatch(t, f) PROVE CalmInv'
  <2>1. PICK s \in sweep : Dispatch(f, s.delivery, s.attempt) /\ sweep' = sweep \ {s}
    BY <1>10 DEF SweepDispatch
  <2>2. s.delivery \in Delivery /\ s.attempt \in Nat
    BY <2>1 DEF TypeOK, Copy
  <2>3. /\ flights'[f].delivery = s.delivery
        /\ \A g \in Flight : g # f => flights'[g] = flights[g]
    BY <2>1, <2>2, DispatchOf
  <2>4. UNCHANGED <<rows, overlap, retries>>
    BY <1>10 DEF SweepDispatch
  <2>5. Calm(s.delivery) =>
           /\ rows'[s.delivery].status = "pending"
           /\ \A g \in Flight : Up(g) => flights[g].delivery # s.delivery
           /\ \A c \in sweep' : c.delivery # s.delivery
    BY <2>1, <2>4
    DEF CalmInv, NoFlightBehindSweep, CalmCopyIsPending, OneListing, Calm
  <2>. QED  BY <2>1, <2>2, <2>3, <2>4, <2>5, CalmStart
<1>11. ASSUME NEW t \in Sweeper, SweepFails(t) PROVE CalmInv'
  BY <1>0, <1>11, CalmStep DEF SweepFails
<1>12. ASSUME NEW r \in Retrier, NEW d \in Delivery, RetryFind(r, d) PROVE CalmInv'
  <2>1. /\ \A e \in Delivery : retries[e] <= retries'[e]
        /\ UNCHANGED <<rows, flights, sweep, overlap>>
    BY <1>12 DEF RetryFind, TypeOK
  <2>. QED  BY <1>0, <2>1, CalmStep
<1>13. ASSUME NEW r \in Retrier, retriers[r].at = "commit"
       PROVE  /\ retriers[r].delivery \in Delivery /\ retriers[r].attempt \in Nat
              /\ retries[retriers[r].delivery] > 0
  BY <1>13, RetrierStep DEF KnownInv, CopiesHaveRows
<1>14. ASSUME NEW r \in Retrier, NEW f \in Flight, RetryCommit(r, f) PROVE CalmInv'
  <2>. DEFINE d == retriers[r].delivery
  <2>1. d \in Delivery /\ retriers[r].attempt \in Nat /\ retries[d] > 0 /\ ~Calm(d)
    <3>. d \in Delivery /\ retriers[r].attempt \in Nat /\ retries[d] > 0
      BY <1>13, <1>14 DEF RetryCommit
    <3>. QED  BY <1>0 DEF Calm
  <2>2. /\ flights'[f].delivery = d
        /\ \A g \in Flight : g # f => flights'[g] = flights[g]
    BY <1>14, <2>1, DispatchOf DEF RetryCommit
  <2>3. /\ \A e \in Delivery : e # d => rows'[e].status = rows[e].status
        /\ UNCHANGED <<sweep, overlap, retries>>
    BY <1>14 DEF RetryCommit, TypeOK
  <2>. QED  BY <2>1, <2>2, <2>3, CalmStart
<1>15. ASSUME NEW r \in Retrier, RetryFails(r) PROVE CalmInv'
  <2>. DEFINE d == retriers[r].delivery
  <2>1. d \in Delivery /\ retries[d] > 0
    BY <1>13, <1>15 DEF RetryFails
  <2>2. /\ \A e \in Delivery : e # d => rows'[e].status = rows[e].status
        /\ UNCHANGED <<flights, sweep, overlap, retries>>
    BY <1>15 DEF RetryFails, TypeOK
  <2>. QED  BY <1>0, <2>1, <2>2, CalmStep
<1>16. CASE Crash
  <2>1. /\ \A f \in Flight : flights'[f] \in {Idle, flights[f]}
        /\ sweep' \subseteq sweep
        /\ UNCHANGED <<rows, overlap, retries>>
    BY <1>16 DEF Crash
  <2>2. \A g \in Flight : \/ flights'[g] = Idle
                          \/ Up(g) /\ flights'[g].delivery = flights[g].delivery
    BY <1>0, <2>1
  <2>. QED  BY <1>0, <2>1, <2>2, CalmStep
<1>17. CASE UNCHANGED vars
  BY <1>0, <1>17, CalmStep DEF vars
<1>18. CASE Quiet
  BY <1>17, <1>18 DEF Quiet
<1>. QED
  BY <1>1, <1>3, <1>4, <1>5, <1>6, <1>7, <1>8, <1>9, <1>10, <1>11, <1>12, <1>14,
     <1>15, <1>16, <1>17, <1>18 DEF Next

\* The row of a settled calm delivery is written by no step.
LEMMA SettledNext ==
    ASSUME TypeOK, KnownInv, CalmInv, Next,
           NEW d \in Delivery, Settled(rows[d]), d \notin overlap, retries'[d] = 0
    PROVE  rows'[d] = rows[d]
<1>1. ASSUME NEW c \in Call, NEW w \in Webhook, w \in left[c] PROVE d # <<c, w>>
  BY <1>1, NoCopyWithoutRow DEF Settled
<1>2. ASSUME NEW c \in Call, NEW w \in Webhook, NEW f \in Flight, DispatchOnce(c, w, f)
      PROVE  rows'[d] = rows[d]
  BY <1>1, <1>2 DEF DispatchOnce, TypeOK
<1>3. ASSUME NEW c \in Call, NEW w \in Webhook, DispatchOnceFails(c, w)
      PROVE  rows'[d] = rows[d]
  BY <1>1, <1>3 DEF DispatchOnceFails, TypeOK
<1>4. ASSUME NEW f \in Flight, Record(f) PROVE rows'[d] = rows[d]
  <2>1. Up(f) /\ UNCHANGED <<retries, overlap>>
        /\ rows' = [rows EXCEPT ![flights[f].delivery] =
                      Recorded(rows[flights[f].delivery], flights[f])]
    BY <1>4 DEF Record, Up
  <2>2. Calm(d)
    BY <2>1 DEF Calm
  <2>3. flights[f].delivery # d
    BY <2>1, <2>2 DEF CalmInv, CalmCopyIsPending, Settled
  <2>. QED  BY <2>1, <2>3 DEF TypeOK
<1>5. ASSUME NEW e \in Delivery, BecomesDue(e) PROVE rows'[d] = rows[d]
  <2>. e # d
    BY <1>5 DEF BecomesDue, KnownInv, SettledIsDue
  <2>. QED  BY <1>5 DEF BecomesDue, TypeOK
<1>6. ASSUME NEW r \in Retrier, retriers[r].at = "commit", UNCHANGED retries
      PROVE  retriers[r].delivery # d
  BY <1>6 DEF KnownInv, CopiesHaveRows
<1>7. ASSUME NEW r \in Retrier, NEW f \in Flight, RetryCommit(r, f) PROVE rows'[d] = rows[d]
  <2>. retriers[r].delivery # d
    BY <1>6, <1>7 DEF RetryCommit
  <2>. QED  BY <1>7 DEF RetryCommit, TypeOK
<1>8. ASSUME NEW r \in Retrier, RetryFails(r) PROVE rows'[d] = rows[d]
  <2>. retriers[r].delivery # d
    BY <1>6, <1>8 DEF RetryFails
  <2>. QED  BY <1>8 DEF RetryFails, TypeOK
<1>9. ASSUME UNCHANGED rows PROVE rows'[d] = rows[d]
  BY <1>9
<1>. QED
  BY <1>2, <1>3, <1>4, <1>5, <1>7, <1>8, <1>9
  DEF Next, DispatchEvent, Test, Post, RecordLost, SweepList, SweepDispatch, SweepFails,
      RetryFind, Crash, Quiet, vars

(***************************************************************************)
(* A settled row that nobody retried by hand and that no sweep listed      *)
(* while a goroutine or another sweep had a copy never changes again, in   *)
(* every behaviour and with any number of sweeps at once.                  *)
(***************************************************************************)
THEOREM SettledRowsStay == Spec => SettledStays
<1>1. TypeOK /\ KnownInv /\ CalmInv /\ [Next]_vars
         => [\A d \in Delivery :
                Settled(rows[d]) /\ d \notin overlap /\ retries'[d] = 0
                   => rows'[d] = rows[d]]_vars
  BY SettledNext
<1>. QED
  BY <1>1, KnownInit, KnownNext, CalmInit, CalmNext, TypeCorrect, PTL
  DEF Spec, SettledStays
=============================================================================
