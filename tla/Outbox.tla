------------------------------- MODULE Outbox -------------------------------
(***************************************************************************)
(* The transactional outbox.  Transactions insert events into              *)
(* outbox_events; outbox workers claim the oldest rows in batches, publish *)
(* them one by one to Redpanda and mark each row.  A claim that is older   *)
(* than five minutes may be taken over by another worker, and a row is     *)
(* claimed at most ten times.                                              *)
(*                                                                         *)
(*   status, attempts   the row of an event; status "NONE": no row         *)
(*   created_at, now    when a row was inserted; the clock that says so    *)
(*   expired            claimed_at is older than five minutes              *)
(*   copies             how often the event is on its topic                *)
(*   batch              what a worker has claimed and not yet marked       *)
(*   pc, current        a worker's place in dispatch_batch                 *)
(*   late               events whose claim ran out while a worker held it  *)
(*   failures           crashes, failed publications and late workers      *)
(***************************************************************************)
EXTENDS Integers, FiniteSets

CONSTANTS Event,        \* events the transactions enqueue
          Dispatcher,   \* outbox workers
          Limit,        \* rows claimed at once (100)
          MaxAttempts,  \* claims of one row (10)
          MaxFailures,  \* bound on failures
          None

ASSUME OutboxAssumption ==
  /\ IsFiniteSet(Dispatcher)
  /\ Limit \in Nat \ {0}
  /\ MaxAttempts \in Nat \ {0}
  /\ MaxFailures \in Nat
  /\ None \notin Event

VARIABLES status, attempts, created_at, now, expired, copies,
          batch, pc, current, late, failures

rows == <<status, attempts, created_at, now, expired>>
vars == <<rows, copies, batch, pc, current, late, failures>>

Init ==
  /\ status = [m \in Event |-> "NONE"]
  /\ attempts = [m \in Event |-> 0]
  /\ created_at = [m \in Event |-> 0]
  /\ now = 0
  /\ expired = [m \in Event |-> FALSE]
  /\ copies = [m \in Event |-> 0]
  /\ batch = [d \in Dispatcher |-> {}]
  /\ pc = [d \in Dispatcher |-> "publish"]
  /\ current = [d \in Dispatcher |-> None]
  /\ late = {}
  /\ failures = 0

Held(m) == \E d \in Dispatcher : m \in batch[d]

-----------------------------------------------------------------------------
\* A transaction commits with the events in E; they share the time now().
Enqueue(E) ==
  /\ E # {}
  /\ \A m \in E : status[m] = "NONE"
  /\ status' = [m \in Event |-> IF m \in E THEN "PENDING" ELSE status[m]]
  /\ created_at' = [m \in Event |-> IF m \in E THEN now ELSE created_at[m]]
  /\ now' = now + 1
  /\ UNCHANGED <<attempts, expired, copies, batch, pc, current, late, failures>>

Claimable_Unexpired(m) ==  \* mutant: a claim is taken over at once
  /\ status[m] \in {"PENDING", "FAILED", "PROCESSING"}
  /\ attempts[m] < MaxAttempts
Claimable_NoTakeover(m) ==  \* mutant: rows of a crashed worker are not looked at
  status[m] \in {"PENDING", "FAILED"} /\ attempts[m] < MaxAttempts
Claimable(m) ==
  /\ status[m] \in {"PENDING", "FAILED"} \/ (status[m] = "PROCESSING" /\ expired[m])
  /\ attempts[m] < MaxAttempts

\* The oldest Limit claimable rows.
IsPending(S) ==
  /\ S \subseteq {m \in Event : Claimable(m)}
  /\ Cardinality(S) <= Limit
  /\ \A m \in {n \in Event : Claimable(n)} \ S :
       Cardinality(S) = Limit /\ \A n \in S : created_at[n] <= created_at[m]

\* pending(): one transaction; SKIP LOCKED keeps two of them apart.
Claim(d, S) ==
  /\ batch[d] = {}
  /\ S # {} /\ IsPending(S)
  /\ batch' = [batch EXCEPT ![d] = S]
  /\ status' = [m \in Event |-> IF m \in S THEN "PROCESSING" ELSE status[m]]
  /\ attempts' = [m \in Event |-> IF m \in S THEN attempts[m] + 1 ELSE attempts[m]]
  /\ expired' = [m \in Event |-> IF m \in S THEN FALSE ELSE expired[m]]
  /\ UNCHANGED <<created_at, now, copies, pc, current, late, failures>>

\* The batch is worked off in the order of the query.
NextInBatch(d, m) ==
  /\ pc[d] = "publish"
  /\ m \in batch[d]
  /\ \A n \in batch[d] : created_at[m] <= created_at[n]

\* publish() returns after the Kafka transaction is committed.
Publish(d, m) ==
  /\ NextInBatch(d, m)
  /\ copies' = [copies EXCEPT ![m] = @ + 1]
  /\ current' = [current EXCEPT ![d] = m]
  /\ pc' = [pc EXCEPT ![d] = "mark_published"]
  /\ UNCHANGED <<rows, batch, late, failures>>

\* publish() raises: the transaction was aborted, or it was committed and the
\* answer was lost.
PublishFails(d, m) ==
  /\ failures < MaxFailures
  /\ NextInBatch(d, m)
  /\ \E n \in {0, 1} : copies' = [copies EXCEPT ![m] = @ + n]
  /\ current' = [current EXCEPT ![d] = m]
  /\ pc' = [pc EXCEPT ![d] = "mark_failed"]
  /\ failures' = failures + 1
  /\ UNCHANGED <<rows, batch, late>>

\* mark_published and mark_failed write the row whoever holds it now.
Mark(d, new) ==
  /\ status' = [status EXCEPT ![current[d]] = new]
  /\ batch' = [batch EXCEPT ![d] = @ \ {current[d]}]
  /\ pc' = [pc EXCEPT ![d] = "publish"]
  /\ current' = [current EXCEPT ![d] = None]
  /\ UNCHANGED <<attempts, created_at, now, expired, copies, late, failures>>

MarkPublished(d) == pc[d] = "mark_published" /\ Mark(d, "PUBLISHED")

MarkFailed(d) == pc[d] = "mark_failed" /\ Mark(d, "FAILED")

\* The worker dies, or the database call of a mark raises and ends it.
Crash(d) ==
  /\ failures < MaxFailures
  /\ batch[d] # {}
  /\ batch' = [batch EXCEPT ![d] = {}]
  /\ pc' = [pc EXCEPT ![d] = "publish"]
  /\ current' = [current EXCEPT ![d] = None]
  /\ failures' = failures + 1
  /\ UNCHANGED <<rows, copies, late>>

\* Five minutes pass since the claim of m: nobody is left to mark it, or its
\* worker is late.
ClaimExpires(m) ==
  /\ status[m] = "PROCESSING" /\ ~expired[m]
  /\ Held(m) => failures < MaxFailures
  /\ expired' = [expired EXCEPT ![m] = TRUE]
  /\ late' = IF Held(m) THEN late \cup {m} ELSE late
  /\ failures' = IF Held(m) THEN failures + 1 ELSE failures
  /\ UNCHANGED <<status, attempts, created_at, now, copies, batch, pc, current>>

Step(d) ==
  \/ \E S \in SUBSET Event : Claim(d, S)
  \/ \E m \in Event : Publish(d, m)
  \/ MarkPublished(d)
  \/ MarkFailed(d)

Next ==
  \/ \E E \in SUBSET Event : Enqueue(E)
  \/ \E d \in Dispatcher : Step(d)
  \/ \E d \in Dispatcher, m \in Event : PublishFails(d, m)
  \/ \E d \in Dispatcher : Crash(d)
  \/ \E m \in Event : ClaimExpires(m)

Spec == Init /\ [][Next]_vars

\* A worker that runs goes on, and time passes: a claim nobody holds expires.
Abandoned(m) == ~Held(m) /\ ClaimExpires(m)
Fairness ==
  /\ \A d \in Dispatcher : WF_vars(Step(d))
  /\ \A m \in Event : WF_vars(Abandoned(m))
FairSpec == Spec /\ Fairness

-----------------------------------------------------------------------------
TypeOK ==
  /\ status \in [Event -> {"NONE", "PENDING", "PROCESSING", "FAILED", "PUBLISHED"}]
  /\ attempts \in [Event -> 0 .. MaxAttempts]
  /\ created_at \in [Event -> Nat]
  /\ now \in Nat
  /\ expired \in [Event -> BOOLEAN]
  /\ copies \in [Event -> Nat]
  /\ batch \in [Dispatcher -> SUBSET Event]
  /\ pc \in [Dispatcher -> {"publish", "mark_published", "mark_failed"}]
  /\ current \in [Dispatcher -> Event \cup {None}]
  /\ late \subseteq Event
  /\ failures \in 0 .. MaxFailures

(***************************************************************************)
(* An event that is marked PUBLISHED is on its topic: no mix of crashes,   *)
(* failed publications and late workers loses an event silently.           *)
(***************************************************************************)
PublishedIsOnTopic == \A m \in Event : status[m] = "PUBLISHED" => copies[m] > 0

(***************************************************************************)
(* Every copy on the topic was paid for by a claim, so an event is         *)
(* published at most MaxAttempts times, and an event whose row was never   *)
(* claimed is not on the topic.                                            *)
(***************************************************************************)
CopiesArePaid == \A m \in Event : copies[m] <= attempts[m]

(***************************************************************************)
(* A worker that finishes its batch in time has its claims to itself: only *)
(* after a claim ran out under a worker do two of them hold one event, or  *)
(* does a worker hold an event that somebody marked.                       *)
(***************************************************************************)
ClaimsAreExclusive ==
  \A m \in Event \ late : \A d \in Dispatcher : m \in batch[d] =>
    /\ status[m] = "PROCESSING" /\ ~expired[m]
    /\ \A f \in Dispatcher : m \in batch[f] => f = d

(***************************************************************************)
(* What the table and the topic say of each other, in any interleaving of  *)
(* pending(), publish() and the two marks of several workers.              *)
(***************************************************************************)
OutboxInv == PublishedIsOnTopic /\ CopiesArePaid /\ ClaimsAreExclusive

(***************************************************************************)
(* Every enqueued event reaches its topic as long as there are fewer       *)
(* failures than attempts.                                                 *)
(***************************************************************************)
EventuallyOnTopic == \A m \in Event : status[m] # "NONE" ~> copies[m] > 0
=============================================================================
