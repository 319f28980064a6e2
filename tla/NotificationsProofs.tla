------------------------ MODULE NotificationsProofs ------------------------
(***************************************************************************)
(* The safety of the notification worker for any number of events,         *)
(* subscriptions, workers, attempts, failures and crashes.                 *)
(***************************************************************************)
EXTENDS Notifications, TLAPS

\* The claims: a worker between a send and its outcome holds the delivery;
\* claims are disjoint, and the row of a claimed delivery is PROCESSING until
\* its outcome is written.
ClaimInv ==
  /\ \A w \in Worker : IF pc[w] = "send" THEN current[w] = None
                       ELSE current[w] \in claims[w]
  /\ OneSender
  /\ \A w \in Worker : \A x \in claims[w] :
       deliveries[x].status \in {"PROCESSING", "DELIVERED"}

\* The attempts: a claimed delivery that is not being sent has an attempt
\* left over, and only a delivery that can be claimed again has one to come.
AttemptInv ==
  /\ LedgerIsTrue
  /\ \A w \in Worker : \A x \in claims[w] :
       x # current[w] => sent[x] < deliveries[x].attempts
  /\ \A w \in Worker : pc[w] = "delivered" => sent[current[w]] > 0
  /\ \A x \in Delivery :
       /\ deliveries[x].status \in {"NONE", "PENDING"} => deliveries[x].attempts = 0
       /\ deliveries[x].status = "RETRY" => deliveries[x].attempts < MaxAttempts

\* Every channel that should hear of e has a delivery.
Enqueued(e) ==
  \A s \in since[e] : Matches(s, e) => deliveries[<<s.channel, e>>].status # "NONE"

ConsumerInv ==
  /\ \A e \in AlertEvent : /\ since[e] # None => since[e] \subseteq subscriptions
                           /\ e \in unread => since[e] # None
  /\ \A w \in Worker : handled[w] # None => since[handled[w]] # None /\ Enqueued(handled[w])
  /\ CommittedIsEnqueued

IInv == TypeOK /\ ClaimInv /\ AttemptInv /\ ConsumerInv

LEMMA Initially == Init => IInv
  <1> SUFFICES ASSUME Init PROVE IInv
    OBVIOUS
  <1>1. TypeOK
    BY NotificationsAssumption DEF Init, TypeOK, NoDelivery, Status
  <1>2. ClaimInv
    BY DEF Init, ClaimInv, OneSender
  <1>3. AttemptInv
    BY NotificationsAssumption DEF Init, AttemptInv, LedgerIsTrue, NoDelivery
  <1>4. ConsumerInv
    BY DEF Init, ConsumerInv, CommittedIsEnqueued
  <1>5. QED
    BY <1>1, <1>2, <1>3, <1>4 DEF IInv

-----------------------------------------------------------------------------
(***************************************************************************)
(* Steps of the delivering task: what they leave to show once the consumer *)
(* is untouched and no delivery disappears.                                *)
(***************************************************************************)
LEMMA DeliveriesStay ==
  ASSUME IInv, UNCHANGED consumer, TypeOK',
         \A x \in Delivery : deliveries[x].status # "NONE" => deliveries'[x].status # "NONE"
  PROVE  ConsumerInv'
  <1>1. UNCHANGED <<subscriptions, unread, since, handled>>
    BY DEF consumer
  <1>2. \A e \in AlertEvent : \A s \in since[e] : since[e] # None => <<s.channel, e>> \in Delivery
    <2> SUFFICES ASSUME NEW e \in AlertEvent, NEW s \in since[e], since[e] # None
                 PROVE  <<s.channel, e>> \in Delivery
      OBVIOUS
    <2>1. s \in Subscription
      BY DEF IInv, TypeOK
    <2>2. QED
      BY <2>1 DEF Delivery, Channel
  <1>3. ASSUME NEW e \in AlertEvent, since[e] # None, Enqueued(e) PROVE Enqueued(e)'
    BY <1>1, <1>2, <1>3 DEF Enqueued, Matches
  <1>4. \A w \in Worker : handled[w] # None => handled[w] \in AlertEvent
    BY DEF IInv, TypeOK
  <1>5. CommittedIsEnqueued <=>
          \A e \in AlertEvent : since[e] # None /\ e \notin unread => Enqueued(e)
    BY DEF CommittedIsEnqueued, Enqueued
  <1>6. CommittedIsEnqueued'
    <2> SUFFICES ASSUME NEW e \in AlertEvent, since[e] # None, e \notin unread
                 PROVE  Enqueued(e)'
      BY <1>1 DEF CommittedIsEnqueued, Enqueued
    <2>1. QED
      BY <1>3, <1>5 DEF IInv, ConsumerInv
  <1>7. QED
    BY <1>1, <1>3, <1>4, <1>6 DEF IInv, ConsumerInv, Enqueued

LEMMA ClaimDueStep ==
  ASSUME IInv, NEW w \in Worker, NEW S \in SUBSET Delivery, ClaimDue(w, S)
  PROVE  IInv'
  <1>1. /\ pc[w] = "send" /\ claims[w] = {} /\ \A x \in S : Due(x)
        /\ claims' = [claims EXCEPT ![w] = S]
        /\ deliveries' = [x \in Delivery |->
             IF x \in S
             THEN [deliveries[x] EXCEPT !.status = "PROCESSING", !.attempts = @ + 1]
             ELSE deliveries[x]]
        /\ UNCHANGED <<subscriptions, unread, since, handled, sent, pc, current, failures,
                       crashes>>
    BY DEF ClaimDue, consumer
  <1>2. \A x \in Delivery : /\ deliveries[x].attempts \in 0 .. MaxAttempts
                            /\ deliveries[x] \in [status : Status, attempts : 0 .. MaxAttempts,
                                                  due : BOOLEAN]
    BY DEF IInv, TypeOK
  <1>3. \A x \in S : /\ deliveries[x].status \in {"PENDING", "RETRY"}
                     /\ deliveries[x].attempts + 1 \in 0 .. MaxAttempts
                     /\ \A v \in Worker : x \notin claims[v]
    <2> SUFFICES ASSUME NEW x \in S
                 PROVE  /\ deliveries[x].status \in {"PENDING", "RETRY"}
                        /\ deliveries[x].attempts + 1 \in 0 .. MaxAttempts
                        /\ \A v \in Worker : x \notin claims[v]
      OBVIOUS
    <2>1. deliveries[x].status \in {"PENDING", "RETRY"}
      BY <1>1 DEF Due
    <2>2. deliveries[x].attempts < MaxAttempts
      BY <2>1, NotificationsAssumption DEF IInv, AttemptInv
    <2>3. QED
      BY <1>2, <2>1, <2>2, NotificationsAssumption DEF IInv, ClaimInv
  <1>4. \A x \in Delivery :
          IF x \in S THEN /\ deliveries'[x].status = "PROCESSING"
                          /\ deliveries'[x].attempts = deliveries[x].attempts + 1
                          /\ deliveries'[x].due = deliveries[x].due
                          /\ deliveries'[x] \in [status : Status, attempts : 0 .. MaxAttempts,
                                                 due : BOOLEAN]
          ELSE deliveries'[x] = deliveries[x]
    BY <1>1, <1>2, <1>3 DEF Status
  <1>5. TypeOK'
    <2>1. deliveries' \in [Delivery -> [status : Status, attempts : 0 .. MaxAttempts,
                                        due : BOOLEAN]]
      BY <1>1, <1>2, <1>4
    <2>2. QED
      BY <1>1, <2>1 DEF IInv, TypeOK
  <1>6. claims'[w] = S /\ \A v \in Worker : v # w => claims'[v] = claims[v]
    BY <1>1 DEF IInv, TypeOK
  <1>7. ASSUME NEW v \in Worker, NEW x \in claims[v] PROVE x \in Delivery /\ x \notin S
    BY <1>3 DEF IInv, TypeOK
  <1>8. ClaimInv'
    <2>1. OneSender'
      <3> SUFFICES ASSUME NEW u \in Worker, NEW v \in Worker, NEW x \in claims'[u]
                   PROVE  /\ x \in claims'[v] => u = v
                          /\ deliveries'[x].status = "PROCESSING"
                             \/ (x = current'[u] /\ pc'[u] = "error")
        BY DEF OneSender
      <3>1. CASE u = w
        BY <1>4, <1>6, <1>7, <3>1
      <3>2. CASE u # w
        <4>1. x \in claims[u] /\ x \in Delivery /\ x \notin S /\ deliveries'[x] = deliveries[x]
          BY <1>4, <1>6, <1>7, <3>2
        <4>2. x \in claims'[v] => x \in claims[v]
          BY <1>6, <4>1
        <4>3. UNCHANGED <<pc, current>>
          BY <1>1
        <4>4. /\ x \in claims[v] => u = v
              /\ deliveries[x].status = "PROCESSING" \/ (x = current[u] /\ pc[u] = "error")
          BY <4>1 DEF IInv, ClaimInv, OneSender
        <4>5. QED
          BY <4>1, <4>2, <4>3, <4>4
      <3>3. QED
        BY <3>1, <3>2
    <2>2. QED
      BY <1>1, <1>4, <1>6, <1>7, <2>1 DEF IInv, ClaimInv
  <1>9. AttemptInv'
    <2>1. \A x \in Delivery : /\ sent[x] \in Nat /\ sent[x] <= deliveries[x].attempts
                              /\ deliveries[x].attempts \in Nat
      BY <1>2, NotificationsAssumption DEF IInv, TypeOK, AttemptInv, LedgerIsTrue
    <2>2. LedgerIsTrue'
      <3> SUFFICES ASSUME NEW x \in Delivery
                   PROVE  /\ sent'[x] <= deliveries'[x].attempts
                          /\ deliveries'[x].status = "DELIVERED" => sent'[x] > 0
                          /\ deliveries'[x].status = "FAILED" =>
                               deliveries'[x].attempts = MaxAttempts
        BY DEF LedgerIsTrue
      <3>1. CASE x \in S
        <4>1. /\ deliveries'[x].status = "PROCESSING" /\ sent'[x] = sent[x]
              /\ deliveries'[x].attempts = deliveries[x].attempts + 1
          BY <1>1, <1>4, <3>1
        <4>2. QED
          BY <2>1, <4>1
      <3>2. CASE x \notin S
        BY <1>1, <1>4, <3>2 DEF IInv, AttemptInv, LedgerIsTrue
      <3>3. QED
        BY <3>1, <3>2
    <2>3. \A v \in Worker : \A x \in claims'[v] :
            x # current'[v] => sent'[x] < deliveries'[x].attempts
      <3> SUFFICES ASSUME NEW v \in Worker, NEW x \in claims'[v], x # current'[v]
                   PROVE  sent'[x] < deliveries'[x].attempts
        OBVIOUS
      <3>1. CASE v = w
        <4>1. x \in S /\ x \in Delivery
          BY <1>6, <3>1
        <4>2. sent'[x] = sent[x] /\ deliveries'[x].attempts = deliveries[x].attempts + 1
          BY <1>1, <1>4, <4>1
        <4>3. QED
          BY <2>1, <4>1, <4>2
      <3>2. CASE v # w
        BY <1>1, <1>4, <1>6, <1>7, <3>2 DEF IInv, AttemptInv
      <3>3. QED
        BY <3>1, <3>2
    <2>4. QED
      BY <1>1, <1>4, <2>2, <2>3 DEF IInv, AttemptInv
  <1>10. \A x \in Delivery : deliveries[x].status # "NONE" => deliveries'[x].status # "NONE"
    BY <1>4
  <1>11. ConsumerInv'
    BY <1>1, <1>5, <1>10, DeliveriesStay DEF consumer
  <1>12. QED
    BY <1>5, <1>8, <1>9, <1>11 DEF IInv

LEMMA SendStep ==
  ASSUME IInv, NEW w \in Worker, NEW x \in Delivery, NEW n \in {0, 1},
         pc[w] = "send", x \in claims[w],
         sent' = [sent EXCEPT ![x] = @ + n],
         current' = [current EXCEPT ![w] = x],
         \/ pc' = [pc EXCEPT ![w] = "delivered"] /\ n = 1
         \/ pc' = [pc EXCEPT ![w] = "error"],
         failures' \in 0 .. MaxFailures,
         UNCHANGED <<consumer, deliveries, claims, crashes>>
  PROVE  IInv'
  <1>1. UNCHANGED <<subscriptions, unread, since, handled>>
    BY DEF consumer
  <1>2. /\ sent \in [Delivery -> Nat] /\ sent' \in [Delivery -> Nat]
        /\ sent'[x] = sent[x] + n
        /\ \A y \in Delivery : y # x => sent'[y] = sent[y]
        /\ \A y \in Delivery : deliveries[y].attempts \in Nat
    BY DEF IInv, TypeOK
  <1>3. TypeOK'
    BY <1>1, <1>2 DEF IInv, TypeOK
  <1>4. /\ current[w] = None /\ x # None
        /\ current'[w] = x /\ pc'[w] \in {"delivered", "error"}
        /\ pc'[w] = "delivered" => n = 1
        /\ \A v \in Worker : v # w => current'[v] = current[v] /\ pc'[v] = pc[v]
    BY NotificationsAssumption DEF IInv, TypeOK, ClaimInv
  <1>5. deliveries[x].status = "PROCESSING" /\ sent[x] < deliveries[x].attempts
        /\ \A v \in Worker : x \in claims[v] => v = w
    BY <1>4 DEF IInv, ClaimInv, OneSender, AttemptInv
  <1>6. ClaimInv'
    <2>1. OneSender'
      BY <1>4 DEF IInv, ClaimInv, OneSender
    <2>2. QED
      BY <1>4, <2>1 DEF IInv, ClaimInv
  <1>7. AttemptInv'
    <2>1. LedgerIsTrue'
      BY <1>2, <1>5 DEF IInv, AttemptInv, LedgerIsTrue
    <2>2. \A v \in Worker : \A y \in claims'[v] :
            y # current'[v] => sent'[y] < deliveries'[y].attempts
      <3> SUFFICES ASSUME NEW v \in Worker, NEW y \in claims[v], y # current'[v]
                   PROVE  sent'[y] < deliveries[y].attempts
        OBVIOUS
      <3>1. y \in Delivery /\ y # x
        BY <1>4, <1>5 DEF IInv, TypeOK
      <3>2. y # current[v]
        BY <1>4, <3>1, NotificationsAssumption
      <3>3. QED
        BY <1>2, <3>1, <3>2 DEF IInv, AttemptInv
    <2>3. \A v \in Worker : pc'[v] = "delivered" => sent'[current'[v]] > 0
      <3> SUFFICES ASSUME NEW v \in Worker, pc'[v] = "delivered" PROVE sent'[current'[v]] > 0
        OBVIOUS
      <3>1. CASE v = w
        BY <1>2, <1>4, <3>1
      <3>2. CASE v # w
        <4>1. pc[v] = "delivered" /\ current[v] \in claims[v] /\ current'[v] = current[v]
          BY <1>4, <3>2 DEF IInv, ClaimInv
        <4>2. current[v] \in Delivery /\ sent[current[v]] > 0 /\ current[v] # x
          BY <1>5, <3>2, <4>1 DEF IInv, TypeOK, AttemptInv
        <4>3. QED
          BY <1>2, <4>1, <4>2
      <3>3. QED
        BY <3>1, <3>2
    <2>4. QED
      BY <2>1, <2>2, <2>3 DEF IInv, AttemptInv
  <1>8. ConsumerInv'
    BY <1>3, DeliveriesStay
  <1>9. QED
    BY <1>3, <1>6, <1>7, <1>8 DEF IInv

\* What _finalize makes of a row in any state it can find it in.
LEMMA OutcomeProperties ==
  ASSUME NEW d \in [status : Status, attempts : 0 .. MaxAttempts, due : BOOLEAN],
         NEW delivered \in BOOLEAN
  PROVE  /\ Outcome(d, delivered) \in [status : Status, attempts : 0 .. MaxAttempts,
                                       due : BOOLEAN]
         /\ Outcome(d, delivered).attempts = d.attempts
         /\ d.status # "PROCESSING" => Outcome(d, delivered) = d
         /\ d.status = "PROCESSING" /\ delivered => Outcome(d, delivered).status = "DELIVERED"
         /\ d.status = "PROCESSING" /\ ~delivered =>
              \/ Outcome(d, delivered).status = "FAILED" /\ d.attempts = MaxAttempts
              \/ Outcome(d, delivered).status = "RETRY" /\ d.attempts < MaxAttempts
  <1>1. MaxAttempts \in Nat
    BY NotificationsAssumption
  <1> DEFINE new == IF delivered THEN "DELIVERED"
                    ELSE IF d.attempts >= MaxAttempts THEN "FAILED" ELSE "RETRY"
  <1>2. CASE d.status # "PROCESSING"
    BY <1>2 DEF Outcome
  <1>3. CASE d.status = "PROCESSING"
    <2>1. Outcome(d, delivered) = [d EXCEPT !.status = new, !.due = FALSE]
      BY <1>3 DEF Outcome
    <2>2. new \in Status
      BY DEF Status
    <2>3. Outcome(d, delivered) = [status |-> new, attempts |-> d.attempts, due |-> FALSE]
      BY <2>1
    <2>4. /\ delivered => new = "DELIVERED"
          /\ \/ new = "FAILED" /\ d.attempts = MaxAttempts
             \/ new = "RETRY" /\ d.attempts < MaxAttempts
             \/ delivered
      BY <1>1
    <2> HIDE DEF new
    <2>5. /\ Outcome(d, delivered).status = new /\ Outcome(d, delivered).attempts = d.attempts
          /\ Outcome(d, delivered) \in [status : Status, attempts : 0 .. MaxAttempts,
                                        due : BOOLEAN]
      BY <2>2, <2>3
    <2>6. QED
      BY <1>3, <2>4, <2>5
  <1>4. QED
    BY <1>2, <1>3

LEMMA FinalizeStep == ASSUME IInv, NEW w \in Worker, Finalize(w) PROVE IInv'
  <1> DEFINE x == current[w]
             new == Outcome(deliveries[x], pc[w] = "delivered")
  <1>1. /\ pc[w] # "send" /\ x \in claims[w] /\ x \in Delivery
        /\ deliveries' = [deliveries EXCEPT ![x] = new]
        /\ claims' = [claims EXCEPT ![w] = @ \ {x}]
        /\ pc' = [pc EXCEPT ![w] = "send"]
        /\ current' = [current EXCEPT ![w] = None]
        /\ UNCHANGED <<subscriptions, unread, since, handled, sent, failures, crashes>>
    BY DEF Finalize, consumer, IInv, ClaimInv, TypeOK
  <1>2. deliveries[x] \in [status : Status, attempts : 0 .. MaxAttempts, due : BOOLEAN]
    BY <1>1 DEF IInv, TypeOK
  <1>3. /\ new \in [status : Status, attempts : 0 .. MaxAttempts, due : BOOLEAN]
        /\ new.attempts = deliveries[x].attempts
        /\ deliveries[x].status # "PROCESSING" => new = deliveries[x]
        /\ deliveries[x].status = "PROCESSING" /\ pc[w] = "delivered" => new.status = "DELIVERED"
        /\ deliveries[x].status = "PROCESSING" /\ pc[w] # "delivered" =>
             \/ new.status = "FAILED" /\ deliveries[x].attempts = MaxAttempts
             \/ new.status = "RETRY" /\ deliveries[x].attempts < MaxAttempts
    BY <1>2, OutcomeProperties
  <1>4. /\ deliveries[x].status \in {"PROCESSING", "DELIVERED"}
        /\ \A v \in Worker : x \in claims[v] => v = w
        /\ pc[w] = "delivered" => sent[x] > 0
    BY <1>1 DEF IInv, ClaimInv, OneSender, AttemptInv
  <1> HIDE DEF x, new
  <1>5. TypeOK'
    BY <1>1, <1>3 DEF IInv, TypeOK
  <1>6. /\ deliveries'[x] = new
        /\ \A y \in Delivery : y # x => deliveries'[y] = deliveries[y]
        /\ claims'[w] = claims[w] \ {x} /\ pc'[w] = "send" /\ current'[w] = None
        /\ \A v \in Worker : v # w => /\ claims'[v] = claims[v] /\ pc'[v] = pc[v]
                                      /\ current'[v] = current[v]
    BY <1>1 DEF IInv, TypeOK
  <1>7. \A v \in Worker : \A y \in claims'[v] : y \in claims[v] /\ y \in Delivery /\ y # x
    BY <1>4, <1>6 DEF IInv, TypeOK
  <1>8. ClaimInv'
    <2>1. \A y \in claims'[w] : y # current[w]
      BY <1>6 DEF x
    <2>2. OneSender'
      BY <1>6, <1>7, <2>1 DEF IInv, ClaimInv, OneSender
    <2>3. QED
      BY <1>6, <1>7, <2>2 DEF IInv, ClaimInv
  <1>9. AttemptInv'
    <2>1. LedgerIsTrue'
      BY <1>1, <1>3, <1>4, <1>6 DEF IInv, AttemptInv, LedgerIsTrue
    <2>2. \A v \in Worker : \A y \in claims'[v] :
            y # current'[v] => sent'[y] < deliveries'[y].attempts
      <3>1. \A y \in claims'[w] : y # current[w]
        BY <1>6 DEF x
      <3>2. QED
        BY <1>1, <1>6, <1>7, <3>1 DEF IInv, AttemptInv
    <2>3. \A v \in Worker : pc'[v] = "delivered" => sent'[current'[v]] > 0
      BY <1>1, <1>6 DEF IInv, AttemptInv
    <2>4. \A y \in Delivery :
            /\ deliveries'[y].status \in {"NONE", "PENDING"} => deliveries'[y].attempts = 0
            /\ deliveries'[y].status = "RETRY" => deliveries'[y].attempts < MaxAttempts
      BY <1>3, <1>4, <1>6 DEF IInv, AttemptInv
    <2>5. QED
      BY <2>1, <2>2, <2>3, <2>4 DEF AttemptInv
  <1>10. ConsumerInv'
    <2>1. \A y \in Delivery : deliveries[y].status # "NONE" => deliveries'[y].status # "NONE"
      BY <1>3, <1>4, <1>6
    <2>2. QED
      BY <1>1, <1>5, <2>1, DeliveriesStay DEF consumer
  <1>11. QED
    BY <1>5, <1>8, <1>9, <1>10 DEF IInv

\* The outcome was committed, or not, before the exception.
LEMMA FinalizeRaisesStep == ASSUME IInv, NEW w \in Worker, FinalizeRaises(w) PROVE IInv'
  <1> DEFINE x == current[w]
             new == Outcome(deliveries[x], TRUE)
  <1>1. /\ pc[w] = "delivered" /\ x \in claims[w] /\ x \in Delivery
        /\ deliveries' = deliveries \/ deliveries' = [deliveries EXCEPT ![x] = new]
        /\ pc' = [pc EXCEPT ![w] = "error"]
        /\ failures < MaxFailures /\ failures' = failures + 1
        /\ UNCHANGED <<subscriptions, unread, since, handled, sent, claims, current, crashes>>
    BY DEF FinalizeRaises, consumer, IInv, ClaimInv, TypeOK
  <1>2. deliveries[x] \in [status : Status, attempts : 0 .. MaxAttempts, due : BOOLEAN]
    BY <1>1 DEF IInv, TypeOK
  <1>3. /\ deliveries[x].status = "PROCESSING" /\ sent[x] > 0
        /\ \A v \in Worker : x \in claims[v] => v = w
    BY <1>1 DEF IInv, ClaimInv, OneSender, AttemptInv
  <1>4. /\ new \in [status : Status, attempts : 0 .. MaxAttempts, due : BOOLEAN]
        /\ new.attempts = deliveries[x].attempts /\ new.status = "DELIVERED"
    BY <1>2, <1>3, OutcomeProperties
  <1> HIDE DEF x, new
  <1>5. TypeOK'
    <2>1. failures' \in 0 .. MaxFailures
      BY <1>1, NotificationsAssumption DEF IInv, TypeOK
    <2>2. deliveries \in [Delivery -> [status : Status, attempts : 0 .. MaxAttempts,
                                       due : BOOLEAN]]
      BY DEF IInv, TypeOK
    <2>3. deliveries' \in [Delivery -> [status : Status, attempts : 0 .. MaxAttempts,
                                        due : BOOLEAN]]
      <3>1. CASE deliveries' = deliveries
        BY <2>2, <3>1
      <3>2. CASE deliveries' = [deliveries EXCEPT ![x] = new]
        BY <1>1, <1>4, <2>2, <3>2
      <3>3. QED
        BY <1>1, <3>1, <3>2
    <2>4. pc' \in [Worker -> {"send", "delivered", "error"}]
      BY <1>1 DEF IInv, TypeOK
    <2>5. QED
      BY <1>1, <2>1, <2>3, <2>4 DEF IInv, TypeOK
  <1>6. /\ deliveries'[x].status \in {"PROCESSING", "DELIVERED"}
        /\ deliveries'[x].attempts = deliveries[x].attempts
        /\ \A y \in Delivery : y # x => deliveries'[y] = deliveries[y]
    BY <1>1, <1>3, <1>4 DEF IInv, TypeOK
  <1>7. pc'[w] = "error" /\ \A v \in Worker : v # w => pc'[v] = pc[v]
    BY <1>1 DEF IInv, TypeOK
  <1>8. \A v \in Worker : \A y \in claims[v] : y \in Delivery
    BY DEF IInv, TypeOK
  <1>9. ClaimInv'
    <2>1. OneSender'
      <3> SUFFICES ASSUME NEW u \in Worker, NEW v \in Worker, NEW y \in claims[u]
                   PROVE  /\ y \in claims[v] => u = v
                          /\ deliveries'[y].status = "PROCESSING"
                             \/ (y = current[u] /\ pc'[u] = "error")
        BY <1>1 DEF OneSender
      <3>1. /\ y \in claims[v] => u = v
            /\ deliveries[y].status = "PROCESSING" \/ (y = current[u] /\ pc[u] = "error")
        BY DEF IInv, ClaimInv, OneSender
      <3>2. CASE y = x
        BY <1>3, <1>7, <3>1, <3>2 DEF x
      <3>3. CASE y # x
        BY <1>6, <1>7, <1>8, <3>1, <3>3
      <3>4. QED
        BY <3>2, <3>3
    <2>2. QED
      BY <1>1, <1>6, <1>7, <1>8, <2>1 DEF IInv, ClaimInv
  <1>10. AttemptInv'
    <2>1. LedgerIsTrue'
      BY <1>1, <1>3, <1>6 DEF IInv, AttemptInv, LedgerIsTrue
    <2>2. QED
      BY <1>1, <1>6, <1>7, <1>8, <2>1 DEF IInv, AttemptInv
  <1>11. ConsumerInv'
    <2>1. \A y \in Delivery : deliveries[y].status # "NONE" => deliveries'[y].status # "NONE"
      BY <1>6
    <2>2. QED
      BY <1>1, <1>5, <2>1, DeliveriesStay DEF consumer
  <1>12. QED
    BY <1>5, <1>9, <1>10, <1>11 DEF IInv

LEMMA BackoffElapsesStep == ASSUME IInv, NEW x \in Delivery, BackoffElapses(x) PROVE IInv'
  <1>1. /\ deliveries[x].status = "RETRY"
        /\ deliveries' = [deliveries EXCEPT ![x].due = TRUE]
        /\ UNCHANGED <<subscriptions, unread, since, handled, sent, claims, pc, current,
                       failures, crashes>>
    BY DEF BackoffElapses, consumer
  <1>2. deliveries \in [Delivery -> [status : Status, attempts : 0 .. MaxAttempts, due : BOOLEAN]]
    BY DEF IInv, TypeOK
  <1>3. /\ \A y \in Delivery : /\ deliveries'[y].status = deliveries[y].status
                               /\ deliveries'[y].attempts = deliveries[y].attempts
        /\ deliveries' \in [Delivery -> [status : Status, attempts : 0 .. MaxAttempts,
                                         due : BOOLEAN]]
    BY <1>1, <1>2
  <1>4. TypeOK'
    BY <1>1, <1>3 DEF IInv, TypeOK
  <1>5. \A v \in Worker : \A y \in claims[v] : y \in Delivery
    BY DEF IInv, TypeOK
  <1>6. ClaimInv'
    <2>1. OneSender'
      BY <1>1, <1>3, <1>5 DEF IInv, ClaimInv, OneSender
    <2>2. QED
      BY <1>1, <1>3, <1>5, <2>1 DEF IInv, ClaimInv
  <1>7. AttemptInv'
    BY <1>1, <1>3, <1>5 DEF IInv, AttemptInv, LedgerIsTrue
  <1>8. ConsumerInv'
    BY <1>1, <1>3, <1>4, DeliveriesStay DEF consumer
  <1>9. QED
    BY <1>4, <1>6, <1>7, <1>8 DEF IInv

LEMMA CrashStep == ASSUME IInv, NEW w \in Worker, Crash(w) PROVE IInv'
  <1>1. /\ handled' = [handled EXCEPT ![w] = None]
        /\ claims' = [claims EXCEPT ![w] = {}]
        /\ pc' = [pc EXCEPT ![w] = "send"]
        /\ current' = [current EXCEPT ![w] = None]
        /\ crashes < MaxCrashes /\ crashes' = crashes + 1
        /\ UNCHANGED <<subscriptions, unread, since, deliveries, sent, failures>>
    BY DEF Crash
  <1>2. TypeOK'
    <2>1. crashes' \in 0 .. MaxCrashes
      BY <1>1, NotificationsAssumption DEF IInv, TypeOK
    <2>2. QED
      BY <1>1, <2>1 DEF IInv, TypeOK
  <1>3. /\ handled'[w] = None /\ claims'[w] = {} /\ pc'[w] = "send" /\ current'[w] = None
        /\ \A v \in Worker : v # w => /\ handled'[v] = handled[v] /\ claims'[v] = claims[v]
                                      /\ pc'[v] = pc[v] /\ current'[v] = current[v]
    BY <1>1 DEF IInv, TypeOK
  <1>4. ClaimInv'
    <2>1. OneSender'
      BY <1>1, <1>3 DEF IInv, ClaimInv, OneSender
    <2>2. QED
      BY <1>1, <1>3, <2>1 DEF IInv, ClaimInv
  <1>5. AttemptInv'
    BY <1>1, <1>3 DEF IInv, AttemptInv, LedgerIsTrue
  <1>6. ConsumerInv'
    BY <1>1, <1>3 DEF IInv, ConsumerInv, CommittedIsEnqueued, Enqueued, Matches
  <1>7. QED
    BY <1>2, <1>4, <1>5, <1>6 DEF IInv

-----------------------------------------------------------------------------
(***************************************************************************)
(* Steps of the consuming task and of its surroundings.                    *)
(***************************************************************************)
LEMMA EnqueueStep == ASSUME IInv, NEW w \in Worker, NEW e \in AlertEvent, Enqueue(w, e) PROVE IInv'
  <1> DEFINE new == [status |-> "PENDING", attempts |-> 0, due |-> TRUE]
             insert(x) == /\ x[2] = e /\ deliveries[x].status = "NONE"
                          /\ \E s \in subscriptions : s.channel = x[1] /\ Matches(s, e)
  <1>1. /\ e \in unread
        /\ deliveries' = [x \in Delivery |-> IF insert(x) THEN new ELSE deliveries[x]]
        /\ handled' = [handled EXCEPT ![w] = e]
        /\ UNCHANGED <<subscriptions, unread, since, sent, claims, pc, current, failures,
                       crashes>>
    BY DEF Enqueue
  <1>2. new \in [status : Status, attempts : 0 .. MaxAttempts, due : BOOLEAN]
    BY NotificationsAssumption DEF Status
  <1>3. TypeOK'
    <2>1. deliveries' \in [Delivery -> [status : Status, attempts : 0 .. MaxAttempts,
                                        due : BOOLEAN]]
      BY <1>1, <1>2 DEF IInv, TypeOK
    <2>2. QED
      BY <1>1, <2>1 DEF IInv, TypeOK
  <1>4. \A x \in Delivery :
          \/ deliveries'[x] = deliveries[x]
          \/ /\ deliveries[x].status = "NONE" /\ deliveries'[x].status = "PENDING"
             /\ deliveries[x].attempts = 0 /\ deliveries'[x].attempts = 0
    BY <1>1 DEF IInv, AttemptInv
  <1>5. \A x \in Delivery : x[2] = e /\ (\E s \in subscriptions : s.channel = x[1] /\ Matches(s, e))
          => deliveries'[x].status # "NONE"
    BY <1>1
  <1> HIDE DEF insert, new
  <1>6. \A v \in Worker : \A x \in claims[v] : x \in Delivery /\ deliveries'[x] = deliveries[x]
    BY <1>4 DEF IInv, TypeOK, ClaimInv
  <1>7. ClaimInv'
    <2>1. OneSender'
      BY <1>1, <1>6 DEF IInv, ClaimInv, OneSender
    <2>2. QED
      BY <1>1, <1>6, <2>1 DEF IInv, ClaimInv
  <1>8. AttemptInv'
    <2>1. LedgerIsTrue'
      BY <1>1, <1>4 DEF IInv, AttemptInv, LedgerIsTrue
    <2>2. \A x \in Delivery :
            /\ deliveries'[x].status \in {"NONE", "PENDING"} => deliveries'[x].attempts = 0
            /\ deliveries'[x].status = "RETRY" => deliveries'[x].attempts < MaxAttempts
      BY <1>4 DEF IInv, AttemptInv
    <2>3. QED
      BY <1>1, <1>6, <2>1, <2>2 DEF IInv, AttemptInv
  <1>9. \A f \in AlertEvent : \A s \in since[f] :
          since[f] # None => s \in Subscription /\ <<s.channel, f>> \in Delivery
    <2> SUFFICES ASSUME NEW f \in AlertEvent, NEW s \in since[f], since[f] # None
                 PROVE  s \in Subscription /\ <<s.channel, f>> \in Delivery
      OBVIOUS
    <2>1. s \in Subscription
      BY DEF IInv, TypeOK
    <2>2. QED
      BY <2>1 DEF Delivery, Channel
  <1>10. ASSUME NEW f \in AlertEvent, since[f] # None, Enqueued(f) PROVE Enqueued(f)'
    BY <1>1, <1>4, <1>9, <1>10 DEF Enqueued, Matches
  <1>11. since[e] # None /\ Enqueued(e)'
    <2>1. since[e] # None /\ since[e] \subseteq subscriptions
      BY <1>1 DEF IInv, ConsumerInv
    <2>2. ASSUME NEW s \in since[e], Matches(s, e) PROVE deliveries'[<<s.channel, e>>].status # "NONE"
      <3>1. <<s.channel, e>> \in Delivery /\ s \in subscriptions
        BY <1>9, <2>1
      <3>2. <<s.channel, e>>[1] = s.channel /\ <<s.channel, e>>[2] = e
        OBVIOUS
      <3>3. QED
        BY <1>5, <2>2, <3>1, <3>2
    <2>3. QED
      BY <1>1, <2>1, <2>2 DEF Enqueued, Matches
  <1>12. ConsumerInv'
    <2>1. \A v \in Worker : v # w => handled'[v] = handled[v] /\ handled[v] \in AlertEvent \cup {None}
      BY <1>1 DEF IInv, TypeOK
    <2>2. handled'[w] = e
      BY <1>1 DEF IInv, TypeOK
    <2>3. ASSUME NEW v \in Worker, handled'[v] # None
          PROVE  since'[handled'[v]] # None /\ Enqueued(handled[v])'
      <3>1. CASE v = w
        BY <1>1, <1>11, <2>2, <3>1 DEF Enqueued
      <3>2. CASE v # w
        <4>1. handled[v] \in AlertEvent /\ since[handled[v]] # None /\ Enqueued(handled[v])
          BY <2>1, <2>3, <3>2 DEF IInv, ConsumerInv
        <4>2. QED
          BY <1>1, <1>10, <2>1, <3>2, <4>1 DEF Enqueued
      <3>3. QED
        BY <3>1, <3>2
    <2>4. CommittedIsEnqueued'
      <3> SUFFICES ASSUME NEW f \in AlertEvent, since[f] # None, f \notin unread
                   PROVE  Enqueued(f)'
        BY <1>1 DEF CommittedIsEnqueued, Enqueued
      <3>1. Enqueued(f)
        BY DEF IInv, ConsumerInv, CommittedIsEnqueued, Enqueued
      <3>2. QED
        BY <1>10, <3>1
    <2>5. QED
      BY <1>1, <2>3, <2>4 DEF IInv, ConsumerInv
  <1>13. QED
    BY <1>3, <1>7, <1>8, <1>12 DEF IInv

\* Steps that leave the deliveries and the delivering task alone.
LEMMA ConsumerStep ==
  ASSUME IInv, TypeOK', ConsumerInv', UNCHANGED <<deliveries, sent, claims, pc, current>>
  PROVE  IInv'
  BY DEF IInv, ClaimInv, OneSender, AttemptInv, LedgerIsTrue

LEMMA CommitOffsetStep == ASSUME IInv, NEW w \in Worker, CommitOffset(w) PROVE IInv'
  <1>1. /\ handled[w] # None
        /\ unread' = unread \ {handled[w]}
        /\ handled' = [handled EXCEPT ![w] = None]
        /\ UNCHANGED <<subscriptions, since, deliveries, sent, claims, pc, current, failures,
                       crashes>>
    BY DEF CommitOffset
  <1>2. TypeOK'
    BY <1>1 DEF IInv, TypeOK
  <1>3. handled'[w] = None /\ \A v \in Worker : v # w => handled'[v] = handled[v]
    BY <1>1 DEF IInv, TypeOK
  <1>4. CommittedIsEnqueued'
    <2> SUFFICES ASSUME NEW e \in AlertEvent, since[e] # None, e \notin unread'
                 PROVE  Enqueued(e)
      BY <1>1 DEF CommittedIsEnqueued, Enqueued, Matches
    <2>1. CASE e = handled[w]
      BY <1>1, <2>1 DEF IInv, ConsumerInv
    <2>2. CASE e # handled[w]
      BY <1>1, <2>2 DEF IInv, ConsumerInv, CommittedIsEnqueued, Enqueued
    <2>3. QED
      BY <2>1, <2>2
  <1>5. ConsumerInv'
    BY <1>1, <1>3, <1>4 DEF IInv, ConsumerInv, Enqueued, Matches
  <1>6. QED
    BY <1>1, <1>2, <1>5, ConsumerStep

LEMMA CreateSubscriptionStep ==
  ASSUME IInv, NEW s \in Subscription, CreateSubscription(s)
  PROVE  IInv'
  <1>1. /\ subscriptions' = subscriptions \cup {s}
        /\ UNCHANGED <<unread, since, handled, deliveries, sent, claims, pc, current, failures,
                       crashes>>
    BY DEF CreateSubscription
  <1>2. TypeOK'
    BY <1>1 DEF IInv, TypeOK
  <1>3. ConsumerInv'
    BY <1>1 DEF IInv, ConsumerInv, CommittedIsEnqueued, Enqueued, Matches
  <1>4. QED
    BY <1>1, <1>2, <1>3, ConsumerStep

LEMMA AlertPublishedStep ==
  ASSUME IInv, NEW e \in AlertEvent, AlertPublished(e)
  PROVE  IInv'
  <1>1. /\ unread' = unread \cup {e}
        /\ since' = [since EXCEPT ![e] = IF since[e] = None THEN subscriptions ELSE since[e]]
        /\ failures' = IF since[e] = None THEN failures ELSE failures + 1
        /\ since[e] # None => failures < MaxFailures
        /\ UNCHANGED <<subscriptions, handled, deliveries, sent, claims, pc, current, crashes>>
    BY DEF AlertPublished
  <1>2. subscriptions # None /\ subscriptions \in SUBSET Subscription
    BY NotificationsAssumption DEF IInv, TypeOK
  <1>3. TypeOK'
    <2>1. failures' \in 0 .. MaxFailures
      BY <1>1, NotificationsAssumption DEF IInv, TypeOK
    <2>2. since' \in [AlertEvent -> (SUBSET Subscription) \cup {None}]
      BY <1>1, <1>2 DEF IInv, TypeOK
    <2>3. QED
      BY <1>1, <2>1, <2>2 DEF IInv, TypeOK
  <1>4. /\ \A f \in AlertEvent : since[f] # None => since'[f] = since[f]
        /\ \A f \in AlertEvent : f # e => since'[f] = since[f]
        /\ since'[e] # None /\ since'[e] \subseteq subscriptions
    <2>1. since[e] # None => since[e] \subseteq subscriptions
      BY DEF IInv, ConsumerInv
    <2>2. QED
      BY <1>1, <1>2, <2>1 DEF IInv, TypeOK
  <1>5. ConsumerInv'
    <2>1. \A v \in Worker : handled[v] # None => since'[handled[v]] = since[handled[v]]
      BY <1>4 DEF IInv, ConsumerInv, TypeOK
    <2>2. CommittedIsEnqueued'
      BY <1>1, <1>4 DEF IInv, ConsumerInv, CommittedIsEnqueued, Matches
    <2>3. QED
      BY <1>1, <1>4, <2>1, <2>2 DEF IInv, ConsumerInv, Enqueued, Matches
  <1>6. QED
    BY <1>1, <1>3, <1>5, ConsumerStep

LEMMA NotificationsStep == IInv /\ [Next]_vars => IInv'
  <1> SUFFICES ASSUME IInv, [Next]_vars PROVE IInv'
    OBVIOUS
  <1>1. ASSUME NEW s \in Subscription, CreateSubscription(s) PROVE IInv'
    BY <1>1, CreateSubscriptionStep
  <1>2. ASSUME NEW e \in AlertEvent, AlertPublished(e) PROVE IInv'
    BY <1>2, AlertPublishedStep
  <1>3. ASSUME NEW w \in Worker, Consume(w) PROVE IInv'
    BY <1>3, EnqueueStep, CommitOffsetStep DEF Consume
  <1>4. ASSUME NEW w \in Worker, Deliver(w) PROVE IInv'
    <2>1. ASSUME NEW S \in SUBSET Delivery, ClaimDue(w, S) PROVE IInv'
      BY <2>1, ClaimDueStep
    <2>2. ASSUME NEW x \in Delivery, Send(w, x) PROVE IInv'
      <3>1. failures' \in 0 .. MaxFailures
        BY <2>2 DEF Send, IInv, TypeOK
      <3>2. QED
        BY <2>2, <3>1, SendStep DEF Send
    <2>3. CASE Finalize(w)
      BY <2>3, FinalizeStep
    <2>4. QED
      BY <1>4, <2>1, <2>2, <2>3 DEF Deliver
  <1>5. ASSUME NEW w \in Worker, NEW x \in Delivery, SendFails(w, x) PROVE IInv'
    <2>1. failures' \in 0 .. MaxFailures
      BY <1>5, NotificationsAssumption DEF SendFails, IInv, TypeOK
    <2>2. PICK n \in {0, 1} : sent' = [sent EXCEPT ![x] = @ + n]
      BY <1>5 DEF SendFails
    <2>3. QED
      BY <1>5, <2>1, <2>2, SendStep DEF SendFails
  <1>6. ASSUME NEW w \in Worker, FinalizeRaises(w) PROVE IInv'
    BY <1>6, FinalizeRaisesStep
  <1>7. ASSUME NEW x \in Delivery, BackoffElapses(x) PROVE IInv'
    BY <1>7, BackoffElapsesStep
  <1>8. ASSUME NEW w \in Worker, Crash(w) PROVE IInv'
    BY <1>8, CrashStep
  <1>9. CASE UNCHANGED vars
    <2>1. TypeOK' /\ ConsumerInv'
      BY <1>9 DEF vars, consumer, IInv, TypeOK, ConsumerInv, CommittedIsEnqueued, Enqueued, Matches
    <2>2. QED
      BY <1>9, <2>1, ConsumerStep DEF vars
  <1>10. QED
    BY <1>1, <1>2, <1>3, <1>4, <1>5, <1>6, <1>7, <1>8, <1>9 DEF Next

LEMMA NotificationsInvariant == Spec => []IInv
  BY Initially, NotificationsStep, PTL DEF Spec

-----------------------------------------------------------------------------
(***************************************************************************)
(* Type correctness.                                                       *)
(***************************************************************************)
THEOREM TypeOKTheorem == Spec => []TypeOK
  <1>1. IInv => TypeOK
    BY DEF IInv
  <1>2. QED
    BY <1>1, NotificationsInvariant, PTL

(***************************************************************************)
(* No two workers send the same delivery.                                  *)
(***************************************************************************)
THEOREM OneSenderTheorem == Spec => []OneSender
  <1>1. IInv => OneSender
    BY DEF IInv, ClaimInv
  <1>2. QED
    BY <1>1, NotificationsInvariant, PTL

(***************************************************************************)
(* notification_deliveries tells the truth about attempts and outcomes.    *)
(***************************************************************************)
THEOREM LedgerIsTrueTheorem == Spec => []LedgerIsTrue
  <1>1. IInv => LedgerIsTrue
    BY DEF IInv, AttemptInv
  <1>2. QED
    BY <1>1, NotificationsInvariant, PTL

(***************************************************************************)
(* An alert event whose offset is committed has all its deliveries.        *)
(***************************************************************************)
THEOREM CommittedIsEnqueuedTheorem == Spec => []CommittedIsEnqueued
  <1>1. IInv => CommittedIsEnqueued
    BY DEF IInv, ConsumerInv
  <1>2. QED
    BY <1>1, NotificationsInvariant, PTL

(***************************************************************************)
(* A delivery that was DELIVERED or FAILED stays as it is.                 *)
(***************************************************************************)
THEOREM OutcomeIsFinalTheorem == Spec => OutcomeIsFinal
  <1>1. IInv /\ [Next]_vars =>
          [\A x \in Delivery : deliveries[x].status \in {"DELIVERED", "FAILED"} =>
             deliveries'[x] = deliveries[x]]_deliveries
    <2> SUFFICES ASSUME IInv, [Next]_vars, NEW x \in Delivery,
                        deliveries[x].status \in {"DELIVERED", "FAILED"}
                 PROVE  deliveries'[x] = deliveries[x]
      OBVIOUS
    <2>1. deliveries \in [Delivery -> [status : Status, attempts : 0 .. MaxAttempts,
                                       due : BOOLEAN]]
      BY DEF IInv, TypeOK
    <2>2. ASSUME NEW w \in Worker, NEW e \in AlertEvent, Enqueue(w, e)
          PROVE  deliveries'[x] = deliveries[x]
      BY <2>2 DEF Enqueue
    <2>3. ASSUME NEW w \in Worker, NEW S \in SUBSET Delivery, ClaimDue(w, S)
          PROVE  deliveries'[x] = deliveries[x]
      <3>1. x \notin S
        BY <2>3 DEF ClaimDue, Due
      <3>2. QED
        BY <2>3, <3>1 DEF ClaimDue
    <2>4. ASSUME NEW w \in Worker, NEW b \in BOOLEAN,
                 deliveries' = [deliveries EXCEPT ![current[w]] = Outcome(deliveries[current[w]], b)]
          PROVE  deliveries'[x] = deliveries[x]
      <3>1. deliveries[x].status # "PROCESSING" => Outcome(deliveries[x], b) = deliveries[x]
        BY DEF Outcome
      <3>2. QED
        BY <2>1, <2>4, <3>1
    <2>5. ASSUME NEW y \in Delivery, BackoffElapses(y) PROVE deliveries'[x] = deliveries[x]
      BY <2>1, <2>5 DEF BackoffElapses
    <2>6. ASSUME NEW w \in Worker, Finalize(w) PROVE deliveries'[x] = deliveries[x]
      BY <2>4, <2>6 DEF Finalize
    <2>7. ASSUME NEW w \in Worker, FinalizeRaises(w) PROVE deliveries'[x] = deliveries[x]
      BY <2>4, <2>7 DEF FinalizeRaises
    <2>8. QED
      BY <2>2, <2>3, <2>5, <2>6, <2>7
      DEF Next, Consume, Deliver, CreateSubscription, AlertPublished, CommitOffset, Send,
          SendFails, Crash, vars
  <1>2. QED
    BY <1>1, NotificationsInvariant, PTL DEF Spec, OutcomeIsFinal
============================================================================
