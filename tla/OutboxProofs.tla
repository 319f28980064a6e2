---------------------------- MODULE OutboxProofs ----------------------------
(***************************************************************************)
(* The safety of the outbox for any number of events and workers, any      *)
(* batch size, any limit of attempts and any number of failures.           *)
(***************************************************************************)
EXTENDS Outbox, FiniteSetTheorems, TLAPS

\* A worker that is to mark an event still holds it, and one that is to mark
\* it PUBLISHED has published it.
MarkInv ==
  /\ \A d \in Dispatcher :
       IF pc[d] = "publish" THEN current[d] = None ELSE current[d] \in batch[d]
  /\ \A d \in Dispatcher : pc[d] = "mark_published" => copies[current[d]] > 0

\* The workers that may still add a copy of m under the claim they hold.
Owing(m) == {d \in Dispatcher : m \in batch[d] /\ current[d] # m}

\* Every claim of m is spent on at most one copy.
PaidInv == \A m \in Event : copies[m] + Cardinality(Owing(m)) <= attempts[m]

IInv ==
  /\ TypeOK /\ MarkInv /\ PaidInv
  /\ PublishedIsOnTopic /\ ClaimsAreExclusive

LEMMA OwingFinite ==
  ASSUME NEW m
  PROVE  /\ IsFiniteSet(Owing(m)) /\ Cardinality(Owing(m)) \in Nat
         /\ Cardinality(Owing(m)') \in Nat
  <1>1. Owing(m) \subseteq Dispatcher /\ Owing(m)' \subseteq Dispatcher
    BY DEF Owing
  <1>2. IsFiniteSet(Owing(m)) /\ IsFiniteSet(Owing(m)')
    BY <1>1, OutboxAssumption, FS_Subset
  <1>3. QED
    BY <1>2, FS_CardinalityType

\* Finite sets of workers, the ways Owing changes.
LEMMA CardinalityBounds ==
  ASSUME NEW S, IsFiniteSet(S), NEW T, NEW x
  PROVE  /\ T \subseteq S => Cardinality(T) <= Cardinality(S)
         /\ T \subseteq S \cup {x} => Cardinality(T) <= Cardinality(S) + 1
         /\ x \in S /\ T \subseteq S \ {x} => Cardinality(T) + 1 <= Cardinality(S)
  <1>1. Cardinality(S) \in Nat
    BY FS_CardinalityType
  <1>2. T \subseteq S => Cardinality(T) <= Cardinality(S)
    BY FS_Subset
  <1>3. IsFiniteSet(S \cup {x}) /\ Cardinality(S \cup {x}) <= Cardinality(S) + 1
        /\ Cardinality(S \cup {x}) \in Nat
    BY <1>1, FS_AddElement, FS_CardinalityType
  <1>4. T \subseteq S \cup {x} =>
          Cardinality(T) <= Cardinality(S \cup {x}) /\ Cardinality(T) \in Nat
    BY <1>3, FS_Subset, FS_CardinalityType
  <1>5. T \subseteq S \cup {x} => Cardinality(T) <= Cardinality(S) + 1
    BY <1>1, <1>3, <1>4
  <1>6. ASSUME x \in S, T \subseteq S \ {x}
        PROVE  Cardinality(T) + 1 <= Cardinality(S)
    <2>1. IsFiniteSet(S \ {x}) /\ Cardinality(S \ {x}) = Cardinality(S) - 1
      BY <1>6, FS_RemoveElement
    <2>2. Cardinality(T) <= Cardinality(S \ {x}) /\ Cardinality(T) \in Nat
      BY <1>6, <2>1, FS_Subset, FS_CardinalityType
    <2>3. QED
      BY <1>1, <2>1, <2>2
  <1>7. QED
    BY <1>2, <1>5, <1>6

LEMMA Initially == Init => IInv
  <1> SUFFICES ASSUME Init PROVE IInv
    OBVIOUS
  <1>1. TypeOK /\ MarkInv /\ PublishedIsOnTopic /\ ClaimsAreExclusive
    BY OutboxAssumption DEF Init, TypeOK, MarkInv, PublishedIsOnTopic, ClaimsAreExclusive
  <1>2. PaidInv
    <2> SUFFICES ASSUME NEW m \in Event PROVE copies[m] + Cardinality(Owing(m)) <= attempts[m]
      BY DEF PaidInv
    <2>1. Owing(m) = {}
      BY DEF Init, Owing
    <2>2. QED
      BY <2>1, FS_EmptySet DEF Init
  <1>3. QED
    BY <1>1, <1>2 DEF IInv

LEMMA EnqueueStep == ASSUME IInv, NEW E \in SUBSET Event, Enqueue(E) PROVE IInv'
  <1>1. /\ \A m \in E : status[m] = "NONE"
        /\ status' = [m \in Event |-> IF m \in E THEN "PENDING" ELSE status[m]]
        /\ created_at' = [m \in Event |-> IF m \in E THEN now ELSE created_at[m]]
        /\ now' = now + 1
        /\ UNCHANGED <<attempts, expired, copies, batch, pc, current, late, failures>>
    BY DEF Enqueue
  <1>2. TypeOK'
    BY <1>1 DEF IInv, TypeOK
  <1>3. MarkInv' /\ PaidInv'
    BY <1>1 DEF IInv, MarkInv, PaidInv, Owing
  <1>4. PublishedIsOnTopic'
    BY <1>1 DEF IInv, TypeOK, PublishedIsOnTopic
  <1>5. ClaimsAreExclusive'
    BY <1>1 DEF IInv, TypeOK, ClaimsAreExclusive
  <1>6. QED
    BY <1>2, <1>3, <1>4, <1>5 DEF IInv

(***************************************************************************)
(* A claim takes only events that nobody holds, unless one of them is      *)
(* late; each of them gets one more attempt and one more worker owing it.  *)
(***************************************************************************)
LEMMA ClaimStep ==
  ASSUME IInv, NEW d \in Dispatcher, NEW S \in SUBSET Event, Claim(d, S)
  PROVE  IInv'
  <1>1. /\ batch[d] = {}
        /\ \A m \in S : Claimable(m)
        /\ batch' = [batch EXCEPT ![d] = S]
        /\ status' = [m \in Event |-> IF m \in S THEN "PROCESSING" ELSE status[m]]
        /\ attempts' = [m \in Event |-> IF m \in S THEN attempts[m] + 1 ELSE attempts[m]]
        /\ expired' = [m \in Event |-> IF m \in S THEN FALSE ELSE expired[m]]
        /\ UNCHANGED <<created_at, now, copies, pc, current, late, failures>>
    BY DEF Claim, IsPending
  <1>2. \A m \in S : /\ m \in Event /\ attempts[m] < MaxAttempts
                     /\ status[m] # "PROCESSING" \/ expired[m]
    BY <1>1 DEF Claimable
  <1>3. TypeOK'
    <2>1. attempts' \in [Event -> 0 .. MaxAttempts]
      BY <1>1, <1>2, OutboxAssumption DEF IInv, TypeOK
    <2>2. QED
      BY <1>1, <2>1 DEF IInv, TypeOK
  <1>4. /\ batch'[d] = S /\ current[d] = None
        /\ \A f \in Dispatcher : f # d => batch'[f] = batch[f]
    BY <1>1 DEF IInv, TypeOK, MarkInv
  <1>5. MarkInv'
    BY <1>1, <1>4 DEF IInv, MarkInv
  <1>6. PaidInv'
    <2> SUFFICES ASSUME NEW m \in Event
                 PROVE  copies'[m] + Cardinality(Owing(m)') <= attempts'[m]
      BY DEF PaidInv
    <2>1. /\ IsFiniteSet(Owing(m)) /\ Cardinality(Owing(m)) \in Nat
          /\ Cardinality(Owing(m)') \in Nat
          /\ copies[m] \in Nat /\ attempts[m] \in Nat
          /\ copies[m] + Cardinality(Owing(m)) <= attempts[m]
      BY OwingFinite DEF IInv, TypeOK, PaidInv
    <2>2. CASE m \in S
      <3>1. Owing(m)' \subseteq Owing(m) \cup {d}
        BY <1>1, <1>4 DEF Owing
      <3>2. Cardinality(Owing(m)') <= Cardinality(Owing(m)) + 1
        BY <2>1, <3>1, CardinalityBounds
      <3>3. copies'[m] = copies[m] /\ attempts'[m] = attempts[m] + 1
        BY <1>1, <2>2
      <3>4. QED
        BY <2>1, <3>2, <3>3
    <2>3. CASE m \notin S
      <3>1. Owing(m)' \subseteq Owing(m)
        BY <1>1, <1>4, <2>3 DEF Owing
      <3>2. Cardinality(Owing(m)') <= Cardinality(Owing(m))
        BY <2>1, <3>1, CardinalityBounds
      <3>3. copies'[m] = copies[m] /\ attempts'[m] = attempts[m]
        BY <1>1, <2>3
      <3>4. QED
        BY <2>1, <3>2, <3>3
    <2>4. QED
      BY <2>2, <2>3
  <1>7. PublishedIsOnTopic'
    BY <1>1 DEF IInv, PublishedIsOnTopic
  <1>8. ClaimsAreExclusive'
    <2> SUFFICES ASSUME NEW m \in Event \ late, NEW f \in Dispatcher, m \in batch'[f]
                 PROVE  /\ status'[m] = "PROCESSING" /\ ~expired'[m]
                        /\ \A g \in Dispatcher : m \in batch'[g] => g = f
      BY <1>1 DEF ClaimsAreExclusive
    <2>1. CASE m \in S
      <3>1. \A g \in Dispatcher : m \notin batch[g]
        BY <1>2, <2>1 DEF IInv, ClaimsAreExclusive
      <3>2. QED
        BY <1>1, <1>4, <2>1, <3>1
    <2>2. CASE m \notin S
      <3>1. f # d /\ m \in batch[f]
        BY <1>4, <2>2
      <3>2. QED
        BY <1>1, <1>4, <2>2, <3>1 DEF IInv, ClaimsAreExclusive
    <2>3. QED
      BY <2>1, <2>2
  <1>9. QED
    BY <1>3, <1>5, <1>6, <1>7, <1>8 DEF IInv

(***************************************************************************)
(* A publication, successful or not: d is no longer owing m, and there is  *)
(* at most one copy more.                                                  *)
(***************************************************************************)
LEMMA PublishStep ==
  ASSUME IInv, NEW d \in Dispatcher, NEW m \in Event, NEW n \in {0, 1},
         NextInBatch(d, m),
         copies' = [copies EXCEPT ![m] = @ + n],
         current' = [current EXCEPT ![d] = m],
         \/ pc' = [pc EXCEPT ![d] = "mark_published"] /\ n = 1
         \/ pc' = [pc EXCEPT ![d] = "mark_failed"],
         failures' \in 0 .. MaxFailures,
         UNCHANGED <<rows, batch, late>>
  PROVE  IInv'
  <1>1. /\ pc[d] = "publish" /\ m \in batch[d] /\ current[d] = None /\ None # m
        /\ UNCHANGED <<status, attempts, created_at, now, expired, batch, late>>
    BY OutboxAssumption DEF NextInBatch, IInv, MarkInv, rows
  <1>2. /\ copies \in [Event -> Nat] /\ copies' \in [Event -> Nat]
        /\ copies'[m] = copies[m] + n
        /\ \A k \in Event : k # m => copies'[k] = copies[k]
    BY DEF IInv, TypeOK
  <1>3. TypeOK'
    BY <1>1, <1>2 DEF IInv, TypeOK
  <1>4. /\ current'[d] = m /\ pc'[d] # "publish" /\ (pc'[d] = "mark_published" => n = 1)
        /\ \A f \in Dispatcher : f # d => current'[f] = current[f] /\ pc'[f] = pc[f]
    BY DEF IInv, TypeOK
  <1>5. MarkInv'
    <2>1. \A k \in Event : copies[k] > 0 => copies'[k] > 0
      BY <1>2
    <2>2. \A f \in Dispatcher : current[f] # None => current[f] \in Event
      BY DEF IInv, TypeOK
    <2>3. \A f \in Dispatcher : pc'[f] = "mark_published" => copies'[current'[f]] > 0
      <3> SUFFICES ASSUME NEW f \in Dispatcher, pc'[f] = "mark_published"
                   PROVE  copies'[current'[f]] > 0
        OBVIOUS
      <3>1. CASE f = d
        BY <1>2, <1>4, <3>1
      <3>2. CASE f # d
        <4>1. pc[f] = "mark_published" /\ current'[f] = current[f] /\ current[f] \in batch[f]
          BY <1>4, <3>2 DEF IInv, MarkInv
        <4>2. current[f] \in Event /\ copies[current[f]] > 0
          BY <4>1 DEF IInv, MarkInv, TypeOK
        <4>3. QED
          BY <2>1, <4>1, <4>2
      <3>3. QED
        BY <3>1, <3>2
    <2>4. QED
      BY <1>1, <1>4, <2>3 DEF IInv, MarkInv
  <1>6. PaidInv'
    <2> SUFFICES ASSUME NEW k \in Event
                 PROVE  copies'[k] + Cardinality(Owing(k)') <= attempts'[k]
      BY DEF PaidInv
    <2>1. /\ IsFiniteSet(Owing(k)) /\ Cardinality(Owing(k)) \in Nat
          /\ copies[k] \in Nat /\ attempts[k] \in Nat
          /\ copies[k] + Cardinality(Owing(k)) <= attempts[k]
      BY OwingFinite DEF IInv, TypeOK, PaidInv
    <2>2. Cardinality(Owing(k)') \in Nat
      BY OwingFinite
    <2>3. CASE k = m
      <3>1. d \in Owing(k) /\ Owing(k)' \subseteq Owing(k) \ {d}
        BY <1>1, <1>4, <2>3 DEF Owing
      <3>2. Cardinality(Owing(k)') + 1 <= Cardinality(Owing(k))
        BY <2>1, <3>1, CardinalityBounds
      <3>3. QED
        BY <1>1, <1>2, <2>1, <2>2, <2>3, <3>2
    <2>4. CASE k # m
      <3>1. Owing(k)' \subseteq Owing(k)
        <4> SUFFICES ASSUME NEW f \in Dispatcher, k \in batch'[f], current'[f] # k
                     PROVE  k \in batch[f] /\ current[f] # k
          BY DEF Owing
        <4>1. current[d] # k
          BY <1>1, OutboxAssumption
        <4>2. QED
          BY <1>1, <1>4, <4>1
      <3>2. Cardinality(Owing(k)') <= Cardinality(Owing(k))
        BY <2>1, <3>1, CardinalityBounds
      <3>3. QED
        BY <1>1, <1>2, <2>1, <2>2, <2>4, <3>2
    <2>5. QED
      BY <2>3, <2>4
  <1>7. PublishedIsOnTopic'
    <2>1. \A k \in Event : copies[k] > 0 => copies'[k] > 0
      BY <1>2
    <2>2. QED
      BY <1>1, <2>1 DEF IInv, PublishedIsOnTopic
  <1>8. ClaimsAreExclusive'
    BY <1>1 DEF IInv, ClaimsAreExclusive
  <1>9. QED
    BY <1>3, <1>5, <1>6, <1>7, <1>8 DEF IInv

LEMMA MarkStep ==
  ASSUME IInv, NEW d \in Dispatcher, NEW new \in {"PUBLISHED", "FAILED"}, Mark(d, new),
         pc[d] = IF new = "PUBLISHED" THEN "mark_published" ELSE "mark_failed"
  PROVE  IInv'
  <1> DEFINE m == current[d]
  <1>1. /\ m \in batch[d] /\ m \in Event
        /\ new = "PUBLISHED" => copies[m] > 0
    BY DEF IInv, MarkInv, TypeOK
  <1>2. /\ status' = [status EXCEPT ![m] = new]
        /\ batch' = [batch EXCEPT ![d] = @ \ {m}]
        /\ pc' = [pc EXCEPT ![d] = "publish"]
        /\ current' = [current EXCEPT ![d] = None]
        /\ UNCHANGED <<attempts, created_at, now, expired, copies, late, failures>>
    BY DEF Mark
  <1>3. TypeOK'
    BY <1>1, <1>2 DEF IInv, TypeOK
  <1>4. /\ batch'[d] = batch[d] \ {m} /\ pc'[d] = "publish" /\ current'[d] = None
        /\ \A f \in Dispatcher : f # d => /\ batch'[f] = batch[f] /\ pc'[f] = pc[f]
                                          /\ current'[f] = current[f]
    BY <1>2 DEF IInv, TypeOK
  <1> HIDE DEF m
  <1>5. MarkInv'
    BY <1>2, <1>4 DEF IInv, MarkInv
  <1>6. PaidInv'
    <2> SUFFICES ASSUME NEW k \in Event
                 PROVE  copies'[k] + Cardinality(Owing(k)') <= attempts'[k]
      BY DEF PaidInv
    <2>1. /\ IsFiniteSet(Owing(k)) /\ Cardinality(Owing(k)) \in Nat
          /\ copies[k] \in Nat /\ attempts[k] \in Nat
          /\ copies[k] + Cardinality(Owing(k)) <= attempts[k]
      BY OwingFinite DEF IInv, TypeOK, PaidInv
    <2>2. Cardinality(Owing(k)') \in Nat
      BY OwingFinite
    <2>3. Owing(k)' \subseteq Owing(k)
      <3> SUFFICES ASSUME NEW f \in Dispatcher, k \in batch'[f], current'[f] # k
                   PROVE  k \in batch[f] /\ current[f] # k
        BY DEF Owing
      <3>1. CASE f = d
        BY <1>4, <3>1 DEF m
      <3>2. CASE f # d
        BY <1>4, <3>2
      <3>3. QED
        BY <3>1, <3>2
    <2>4. Cardinality(Owing(k)') <= Cardinality(Owing(k))
      BY <2>1, <2>3, CardinalityBounds
    <2>5. QED
      BY <1>2, <2>1, <2>2, <2>4
  <1>7. PublishedIsOnTopic'
    BY <1>1, <1>2 DEF IInv, TypeOK, PublishedIsOnTopic
  <1>8. ClaimsAreExclusive'
    <2> SUFFICES ASSUME NEW k \in Event \ late, NEW f \in Dispatcher, k \in batch'[f]
                 PROVE  /\ status'[k] = "PROCESSING" /\ ~expired'[k]
                        /\ \A g \in Dispatcher : k \in batch'[g] => g = f
      BY <1>2 DEF ClaimsAreExclusive
    <2>1. k \in batch[f] /\ \A g \in Dispatcher : k \in batch'[g] => k \in batch[g]
      BY <1>4
    <2>2. k # m
      BY <1>1, <1>4, <2>1 DEF IInv, ClaimsAreExclusive
    <2>3. QED
      BY <1>1, <1>2, <2>1, <2>2 DEF IInv, TypeOK, ClaimsAreExclusive
  <1>9. QED
    BY <1>3, <1>5, <1>6, <1>7, <1>8 DEF IInv

LEMMA CrashStep == ASSUME IInv, NEW d \in Dispatcher, Crash(d) PROVE IInv'
  <1>1. /\ batch' = [batch EXCEPT ![d] = {}]
        /\ pc' = [pc EXCEPT ![d] = "publish"]
        /\ current' = [current EXCEPT ![d] = None]
        /\ failures < MaxFailures /\ failures' = failures + 1
        /\ UNCHANGED <<status, attempts, created_at, now, expired, copies, late>>
    BY DEF Crash, rows
  <1>2. TypeOK'
    <2>1. failures' \in 0 .. MaxFailures
      BY <1>1, OutboxAssumption DEF IInv, TypeOK
    <2>2. QED
      BY <1>1, <2>1 DEF IInv, TypeOK
  <1>3. /\ batch'[d] = {} /\ pc'[d] = "publish" /\ current'[d] = None
        /\ \A f \in Dispatcher : f # d => /\ batch'[f] = batch[f] /\ pc'[f] = pc[f]
                                          /\ current'[f] = current[f]
    BY <1>1 DEF IInv, TypeOK
  <1>4. MarkInv'
    BY <1>1, <1>3 DEF IInv, MarkInv
  <1>5. PaidInv'
    <2> SUFFICES ASSUME NEW k \in Event
                 PROVE  copies'[k] + Cardinality(Owing(k)') <= attempts'[k]
      BY DEF PaidInv
    <2>1. /\ IsFiniteSet(Owing(k)) /\ Cardinality(Owing(k)) \in Nat
          /\ copies[k] \in Nat /\ attempts[k] \in Nat
          /\ copies[k] + Cardinality(Owing(k)) <= attempts[k]
      BY OwingFinite DEF IInv, TypeOK, PaidInv
    <2>2. Cardinality(Owing(k)') \in Nat
      BY OwingFinite
    <2>3. Owing(k)' \subseteq Owing(k)
      BY <1>3 DEF Owing
    <2>4. Cardinality(Owing(k)') <= Cardinality(Owing(k))
      BY <2>1, <2>3, CardinalityBounds
    <2>5. QED
      BY <1>1, <2>1, <2>2, <2>4
  <1>6. PublishedIsOnTopic'
    BY <1>1 DEF IInv, PublishedIsOnTopic
  <1>7. ClaimsAreExclusive'
    BY <1>1, <1>3 DEF IInv, ClaimsAreExclusive
  <1>8. QED
    BY <1>2, <1>4, <1>5, <1>6, <1>7 DEF IInv

LEMMA ClaimExpiresStep == ASSUME IInv, NEW m \in Event, ClaimExpires(m) PROVE IInv'
  <1>1. /\ expired' = [expired EXCEPT ![m] = TRUE]
        /\ late' = IF Held(m) THEN late \cup {m} ELSE late
        /\ failures' = IF Held(m) THEN failures + 1 ELSE failures
        /\ Held(m) => failures < MaxFailures
        /\ UNCHANGED <<status, attempts, created_at, now, copies, batch, pc, current>>
    BY DEF ClaimExpires
  <1>2. TypeOK'
    <2>1. failures' \in 0 .. MaxFailures
      BY <1>1, OutboxAssumption DEF IInv, TypeOK
    <2>2. QED
      BY <1>1, <2>1 DEF IInv, TypeOK
  <1>3. MarkInv' /\ PaidInv' /\ PublishedIsOnTopic'
    BY <1>1 DEF IInv, MarkInv, PaidInv, Owing, PublishedIsOnTopic
  <1>4. ClaimsAreExclusive'
    <2> SUFFICES ASSUME NEW k \in Event \ late', NEW d \in Dispatcher, k \in batch'[d]
                 PROVE  /\ status'[k] = "PROCESSING" /\ ~expired'[k]
                        /\ \A f \in Dispatcher : k \in batch'[f] => f = d
      BY DEF ClaimsAreExclusive
    <2>1. k \notin late /\ k \in batch[d]
      BY <1>1
    <2>2. k # m
      BY <1>1, <2>1 DEF Held
    <2>3. QED
      BY <1>1, <2>1, <2>2 DEF IInv, TypeOK, ClaimsAreExclusive
  <1>5. QED
    BY <1>2, <1>3, <1>4 DEF IInv

LEMMA OutboxInvariant == Spec => []IInv
  <1>1. IInv /\ [Next]_vars => IInv'
    <2> SUFFICES ASSUME IInv, [Next]_vars PROVE IInv'
      OBVIOUS
    <2>1. ASSUME NEW E \in SUBSET Event, Enqueue(E) PROVE IInv'
      BY <2>1, EnqueueStep
    <2>2. ASSUME NEW d \in Dispatcher, Step(d) PROVE IInv'
      <3>1. ASSUME NEW S \in SUBSET Event, Claim(d, S) PROVE IInv'
        BY <3>1, ClaimStep
      <3>2. ASSUME NEW m \in Event, Publish(d, m) PROVE IInv'
        <4>1. failures' \in 0 .. MaxFailures
          BY <3>2 DEF Publish, IInv, TypeOK
        <4>2. QED
          BY <3>2, <4>1, PublishStep DEF Publish
      <3>3. CASE MarkPublished(d)
        BY <3>3, MarkStep DEF MarkPublished
      <3>4. CASE MarkFailed(d)
        BY <3>4, MarkStep DEF MarkFailed
      <3>5. QED
        BY <2>2, <3>1, <3>2, <3>3, <3>4 DEF Step
    <2>3. ASSUME NEW d \in Dispatcher, NEW m \in Event, PublishFails(d, m) PROVE IInv'
      <3>1. failures' \in 0 .. MaxFailures
        BY <2>3, OutboxAssumption DEF PublishFails, IInv, TypeOK
      <3>2. PICK n \in {0, 1} : copies' = [copies EXCEPT ![m] = @ + n]
        BY <2>3 DEF PublishFails
      <3>3. QED
        BY <2>3, <3>1, <3>2, PublishStep DEF PublishFails
    <2>4. ASSUME NEW d \in Dispatcher, Crash(d) PROVE IInv'
      BY <2>4, CrashStep
    <2>5. ASSUME NEW m \in Event, ClaimExpires(m) PROVE IInv'
      BY <2>5, ClaimExpiresStep
    <2>6. CASE UNCHANGED vars
      BY <2>6 DEF vars, rows, IInv, TypeOK, MarkInv, PaidInv, Owing, PublishedIsOnTopic,
                  ClaimsAreExclusive
    <2>7. QED
      BY <2>1, <2>2, <2>3, <2>4, <2>5, <2>6 DEF Next
  <1>2. QED
    BY <1>1, Initially, PTL DEF Spec

-----------------------------------------------------------------------------
(***************************************************************************)
(* Type correctness.                                                       *)
(***************************************************************************)
THEOREM TypeOKTheorem == Spec => []TypeOK
  <1>1. IInv => TypeOK
    BY DEF IInv
  <1>2. QED
    BY <1>1, OutboxInvariant, PTL

(***************************************************************************)
(* A row that dispatch_batch marked PUBLISHED has its event on the topic.  *)
(***************************************************************************)
THEOREM PublishedIsOnTopicTheorem == Spec => []PublishedIsOnTopic
  <1>1. IInv => PublishedIsOnTopic
    BY DEF IInv
  <1>2. QED
    BY <1>1, OutboxInvariant, PTL

(***************************************************************************)
(* Claims that are finished within five minutes are exclusive.             *)
(***************************************************************************)
THEOREM ClaimsAreExclusiveTheorem == Spec => []ClaimsAreExclusive
  <1>1. IInv => ClaimsAreExclusive
    BY DEF IInv
  <1>2. QED
    BY <1>1, OutboxInvariant, PTL

(***************************************************************************)
(* No event is published more often than its row was claimed, however the  *)
(* workers crash, fail and overtake each other.                            *)
(***************************************************************************)
THEOREM CopiesArePaidTheorem == Spec => []CopiesArePaid
  <1>1. IInv => CopiesArePaid
    <2> SUFFICES ASSUME IInv, NEW m \in Event PROVE copies[m] <= attempts[m]
      BY DEF CopiesArePaid
    <2>1. Cardinality(Owing(m)) \in Nat
      BY OwingFinite
    <2>2. QED
      BY <2>1 DEF IInv, TypeOK, PaidInv
  <1>2. QED
    BY <1>1, OutboxInvariant, PTL

(***************************************************************************)
(* Table and topic agree, for any number of events and workers: the three  *)
(* results together, which is the invariant the run checks.                *)
(***************************************************************************)
THEOREM OutboxInvTheorem == Spec => []OutboxInv
  BY PublishedIsOnTopicTheorem, CopiesArePaidTheorem, ClaimsAreExclusiveTheorem, PTL
     DEF OutboxInv
=============================================================================
