---------------------------- MODULE Notifications ----------------------------
(***************************************************************************)
(* The notification worker.  Each worker process runs two tasks: one reads *)
(* alert events and inserts a delivery for every channel with a matching   *)
(* subscription; the other claims due deliveries, sends them and records   *)
(* the outcome.  A process that dies takes both tasks with it.             *)
(*                                                                         *)
(*   subscriptions  enabled subscriptions                                  *)
(*   unread         alert events above the committed offset                *)
(*   since          the subscriptions there were when an event was         *)
(*                  published                                              *)
(*   handled        the event a worker has enqueued and not yet committed  *)
(*   deliveries     notification_deliveries, by channel and event          *)
(*   sent           how often a notification reached its channel           *)
(*   claims         what a worker has claimed and not yet finalized        *)
(*   pc, current    a worker's place in deliver_due                        *)
(***************************************************************************)
EXTENDS Integers, FiniteSets

CONSTANTS AlertEvent,     \* events: [id, severity, asset_id, alert_type]
          Subscription,   \* subscriptions an administrator may create
          Worker,
          Limit,          \* deliveries claimed at once (50)
          MaxAttempts,    \* terminal after this many attempts (5)
          MaxFailures,    \* bound on failed sends, database errors, redeliveries
          MaxCrashes,     \* bound on crashes
          None

Channel == {s.channel : s \in Subscription}
Delivery == Channel \X AlertEvent

ASSUME NotificationsAssumption ==
  /\ Limit \in Nat \ {0}
  /\ MaxAttempts \in Nat \ {0}
  /\ MaxFailures \in Nat
  /\ MaxCrashes \in Nat
  /\ None \notin AlertEvent /\ None \notin Delivery
  /\ \A S \in SUBSET Subscription : S # None

VARIABLES subscriptions, unread, since, handled, deliveries, sent,
          claims, pc, current, failures, crashes

consumer == <<subscriptions, unread, since, handled>>
vars == <<consumer, deliveries, sent, claims, pc, current, failures, crashes>>

NoDelivery == [status |-> "NONE", attempts |-> 0, due |-> FALSE]

Init ==
  /\ subscriptions = {}
  /\ unread = {}
  /\ since = [e \in AlertEvent |-> None]
  /\ handled = [w \in Worker |-> None]
  /\ deliveries = [x \in Delivery |-> NoDelivery]
  /\ sent = [x \in Delivery |-> 0]
  /\ claims = [w \in Worker |-> {}]
  /\ pc = [w \in Worker |-> "send"]
  /\ current = [w \in Worker |-> None]
  /\ failures = 0
  /\ crashes = 0

(***************************************************************************)
(* _matches.  Severities are ranks; an empty list of assets or types means *)
(* all.  Alert events carry no tenant, so enqueue looks only at the        *)
(* subscriptions of the tenant "default".                                  *)
(***************************************************************************)
Matches(s, e) ==
  /\ s.tenant_id = "default"
  /\ e.severity >= s.minimum_severity
  /\ s.asset_ids = {} \/ e.asset_id \in s.asset_ids
  /\ s.alert_types = {} \/ e.alert_type \in s.alert_types

-----------------------------------------------------------------------------
CreateSubscription(s) ==
  /\ s \notin subscriptions
  /\ subscriptions' = subscriptions \cup {s}
  /\ UNCHANGED <<unread, since, handled, deliveries, sent, claims, pc, current, failures,
                 crashes>>

\* The outbox worker publishes an alert event, for the first time or again.
AlertPublished(e) ==
  /\ e \notin unread
  /\ since[e] # None => failures < MaxFailures
  /\ unread' = unread \cup {e}
  /\ since' = [since EXCEPT ![e] = IF @ = None THEN subscriptions ELSE @]
  /\ failures' = IF since[e] = None THEN failures ELSE failures + 1
  /\ UNCHANGED <<subscriptions, handled, deliveries, sent, claims, pc, current, crashes>>

\* enqueue(): one transaction.  Two workers with the same event are kept
\* apart by the unique index: the loser's transaction fails and it crashes.
Enqueue(w, e) ==
  /\ handled[w] = None /\ e \in unread
  /\ deliveries' = [x \in Delivery |->
       IF /\ x[2] = e /\ deliveries[x].status = "NONE"
          /\ \E s \in subscriptions : s.channel = x[1] /\ Matches(s, e)
       THEN [status |-> "PENDING", attempts |-> 0, due |-> TRUE]
       ELSE deliveries[x]]
  /\ handled' = [handled EXCEPT ![w] = e]
  /\ UNCHANGED <<subscriptions, unread, since, sent, claims, pc, current, failures, crashes>>

CommitOffset_First(w) ==  \* mutant: the offset is committed before enqueue()
  /\ handled[w] = None
  /\ \E e \in unread : unread' = unread \ {e}
  /\ UNCHANGED <<subscriptions, since, handled, deliveries, sent, claims, pc, current, failures,
                 crashes>>
CommitOffset(w) ==
  /\ handled[w] # None
  /\ unread' = unread \ {handled[w]}
  /\ handled' = [handled EXCEPT ![w] = None]
  /\ UNCHANGED <<subscriptions, since, deliveries, sent, claims, pc, current, failures, crashes>>

-----------------------------------------------------------------------------
Due_Processing(x) ==  \* mutant: claimed deliveries are claimed again
  deliveries[x].status \in {"PENDING", "RETRY", "PROCESSING"} /\ deliveries[x].due
Due_FirstAttempt(x) ==  \* mutant: retries are not looked at
  deliveries[x].status = "PENDING" /\ deliveries[x].due
Due(x) == deliveries[x].status \in {"PENDING", "RETRY"} /\ deliveries[x].due

\* _claim_due: as many due deliveries as the limit allows.
ClaimDue(w, S) ==
  /\ pc[w] = "send" /\ claims[w] = {}
  /\ S # {} /\ S \subseteq {x \in Delivery : Due(x)}
  /\ \/ S = {x \in Delivery : Due(x)} /\ Cardinality(S) <= Limit
     \/ Cardinality(S) = Limit
  /\ claims' = [claims EXCEPT ![w] = S]
  /\ deliveries' = [x \in Delivery |->
       IF x \in S
       THEN [deliveries[x] EXCEPT !.status = "PROCESSING", !.attempts = @ + 1]
       ELSE deliveries[x]]
  /\ UNCHANGED <<consumer, sent, pc, current, failures, crashes>>

Send(w, x) ==
  /\ pc[w] = "send" /\ x \in claims[w]
  /\ sent' = [sent EXCEPT ![x] = @ + 1]
  /\ current' = [current EXCEPT ![w] = x]
  /\ pc' = [pc EXCEPT ![w] = "delivered"]
  /\ UNCHANGED <<consumer, deliveries, claims, failures, crashes>>

\* _send raises; the channel may have received the notification all the same.
SendFails(w, x) ==
  /\ failures < MaxFailures
  /\ pc[w] = "send" /\ x \in claims[w]
  /\ \E n \in {0, 1} : sent' = [sent EXCEPT ![x] = @ + n]
  /\ current' = [current EXCEPT ![w] = x]
  /\ pc' = [pc EXCEPT ![w] = "error"]
  /\ failures' = failures + 1
  /\ UNCHANGED <<consumer, deliveries, claims, crashes>>

Outcome_OneLess(d, delivered) ==  \* mutant: terminal one attempt too early
  [d EXCEPT !.status = IF delivered THEN "DELIVERED"
                       ELSE IF d.attempts >= MaxAttempts - 1 THEN "FAILED" ELSE "RETRY",
            !.due = FALSE]

\* _finalize: what becomes of the row; a row that is not PROCESSING is left
\* alone, and a retry is due only after its backoff.
Outcome(d, delivered) ==
  IF d.status # "PROCESSING" THEN d
  ELSE [d EXCEPT !.status = IF delivered THEN "DELIVERED"
                            ELSE IF d.attempts >= MaxAttempts THEN "FAILED"
                            ELSE "RETRY",
                 !.due = FALSE]

Finalize(w) ==
  /\ pc[w] # "send"
  /\ deliveries' = [deliveries EXCEPT ![current[w]] = Outcome(@, pc[w] = "delivered")]
  /\ claims' = [claims EXCEPT ![w] = @ \ {current[w]}]
  /\ pc' = [pc EXCEPT ![w] = "send"]
  /\ current' = [current EXCEPT ![w] = None]
  /\ UNCHANGED <<consumer, sent, failures, crashes>>

\* Recording a delivery raises, before or after its commit: the exception
\* handler records an error for it.
FinalizeRaises(w) ==
  /\ failures < MaxFailures
  /\ pc[w] = "delivered"
  /\ \/ UNCHANGED deliveries
     \/ deliveries' = [deliveries EXCEPT ![current[w]] = Outcome(@, TRUE)]
  /\ pc' = [pc EXCEPT ![w] = "error"]
  /\ failures' = failures + 1
  /\ UNCHANGED <<consumer, sent, claims, current, crashes>>

\* next_attempt_at of a retry comes.
BackoffElapses(x) ==
  /\ deliveries[x].status = "RETRY" /\ ~deliveries[x].due
  /\ deliveries' = [deliveries EXCEPT ![x].due = TRUE]
  /\ UNCHANGED <<consumer, sent, claims, pc, current, failures, crashes>>

\* The process dies or is cancelled; nothing it claimed is given back.
Crash(w) ==
  /\ crashes < MaxCrashes
  /\ handled[w] # None \/ claims[w] # {}
  /\ handled' = [handled EXCEPT ![w] = None]
  /\ claims' = [claims EXCEPT ![w] = {}]
  /\ pc' = [pc EXCEPT ![w] = "send"]
  /\ current' = [current EXCEPT ![w] = None]
  /\ crashes' = crashes + 1
  /\ UNCHANGED <<subscriptions, unread, since, deliveries, sent, failures>>

Consume(w) == (\E e \in AlertEvent : Enqueue(w, e)) \/ CommitOffset(w)

Deliver(w) ==
  \/ \E S \in SUBSET Delivery : ClaimDue(w, S)
  \/ \E x \in Delivery : Send(w, x)
  \/ Finalize(w)

Next ==
  \/ \E s \in Subscription : CreateSubscription(s)
  \/ \E e \in AlertEvent : AlertPublished(e)
  \/ \E w \in Worker : Consume(w)
  \/ \E w \in Worker : Deliver(w)
  \/ \E w \in Worker, x \in Delivery : SendFails(w, x)
  \/ \E w \in Worker : FinalizeRaises(w)
  \/ \E x \in Delivery : BackoffElapses(x)
  \/ \E w \in Worker : Crash(w)

Spec == Init /\ [][Next]_vars

\* Both tasks of a worker keep running, and time passes.
Fairness ==
  /\ \A w \in Worker : WF_vars(Consume(w)) /\ WF_vars(Deliver(w))
  /\ \A x \in Delivery : WF_vars(BackoffElapses(x))
FairSpec == Spec /\ Fairness

-----------------------------------------------------------------------------
Status == {"NONE", "PENDING", "PROCESSING", "RETRY", "DELIVERED", "FAILED"}

TypeOK ==
  /\ subscriptions \subseteq Subscription
  /\ unread \subseteq AlertEvent
  /\ since \in [AlertEvent -> (SUBSET Subscription) \cup {None}]
  /\ handled \in [Worker -> AlertEvent \cup {None}]
  /\ deliveries \in [Delivery -> [status : Status, attempts : 0 .. MaxAttempts, due : BOOLEAN]]
  /\ sent \in [Delivery -> Nat]
  /\ claims \in [Worker -> SUBSET Delivery]
  /\ pc \in [Worker -> {"send", "delivered", "error"}]
  /\ current \in [Worker -> Delivery \cup {None}]
  /\ failures \in 0 .. MaxFailures
  /\ crashes \in 0 .. MaxCrashes

(***************************************************************************)
(* The offset of an alert event is committed only after every channel that *)
(* had a matching subscription when the event was published has a          *)
(* delivery, through crashes between the two.                              *)
(***************************************************************************)
CommittedIsEnqueued ==
  \A e \in AlertEvent : since[e] # None /\ e \notin unread =>
    \A s \in since[e] : Matches(s, e) => deliveries[<<s.channel, e>>].status # "NONE"

(***************************************************************************)
(* Two workers never send the same delivery: what one has claimed no other *)
(* one has, and its row stays PROCESSING (unless its own outcome was       *)
(* committed by a call that raised and is about to be recorded again).     *)
(***************************************************************************)
OneSender ==
  \A v, w \in Worker : \A x \in claims[v] :
    /\ x \in claims[w] => v = w
    /\ deliveries[x].status = "PROCESSING" \/ (x = current[v] /\ pc[v] = "error")

(***************************************************************************)
(* The delivery ledger tells the truth: a notification reaches its channel *)
(* at most once per recorded attempt, DELIVERED means it did, and FAILED   *)
(* means that all attempts were made.                                      *)
(***************************************************************************)
LedgerIsTrue ==
  \A x \in Delivery :
    /\ sent[x] <= deliveries[x].attempts
    /\ deliveries[x].status = "DELIVERED" => sent[x] > 0
    /\ deliveries[x].status = "FAILED" => deliveries[x].attempts = MaxAttempts

(***************************************************************************)
(* An outcome is final: redelivered alert events, late exception handlers  *)
(* and other workers never reopen a delivery that was DELIVERED or FAILED. *)
(***************************************************************************)
OutcomeIsFinal ==
  [][\A x \in Delivery : deliveries[x].status \in {"DELIVERED", "FAILED"} =>
       deliveries'[x] = deliveries[x]]_deliveries

(***************************************************************************)
(* Every delivery ends: it is delivered, or fails for good after five      *)
(* attempts.                                                               *)
(***************************************************************************)
EveryDeliveryEnds ==
  \A x \in Delivery : deliveries[x].status # "NONE" ~>
    deliveries[x].status \in {"DELIVERED", "FAILED"}

(***************************************************************************)
(* A delivery that does not end was claimed by a worker that died with it: *)
(* failed sends, retries and other workers never make one wait for ever.   *)
(***************************************************************************)
Stranded(x) == deliveries[x].status = "PROCESSING" /\ \A w \in Worker : x \notin claims[w]
OnlyTheStrandedWait ==
  \A x \in Delivery : deliveries[x].status # "NONE" ~>
    deliveries[x].status \in {"DELIVERED", "FAILED"} \/ Stranded(x)
=============================================================================
