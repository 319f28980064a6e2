--------------------------- MODULE CampaignEngine ---------------------------
(***************************************************************************)
(* The campaign worker: several worker processes of one consumer group     *)
(* read fusion scores, run SqlCampaignRepository.apply under the advisory  *)
(* lock of the campaign key, and commit the offset after the transaction.  *)
(* A worker that raises or crashes is restarted by its supervisor and      *)
(* reads again from the committed offset.  A partition may be given to     *)
(* another worker while a record of it is still being processed, so two    *)
(* workers can be inside apply() for the same key.                         *)
(*                                                                         *)
(* Beyond the tables of CampaignLedger:                                    *)
(*   topic      the records of each partition of model.fusion.score.v1     *)
(*   committed  the committed offset of each partition                     *)
(*   position   the next offset its current owner will read                *)
(*   owner      the worker a partition is assigned to                      *)
(*   lock       the transaction advisory lock of each campaign key         *)
(*   pc, record, attempt, active   a worker's place in apply(), the        *)
(*              partition and offset it works on, its failed lock attempts *)
(*              and the campaign it selected                               *)
(*   failures   crashes and rebalances so far                              *)
(***************************************************************************)
EXTENDS CampaignLedger

CONSTANTS Worker,          \* worker processes
          Partition,       \* partitions of model.fusion.score.v1
          PartitionOf,     \* the partition of a key (the asset is hashed)
          LockRetryCount,  \* campaign_lock_retry_count
          MaxFailures      \* bound on crashes and rebalances

ASSUME EngineAssumption ==
  /\ None \notin Worker
  /\ PartitionOf \in [Key -> Partition]
  /\ LockRetryCount \in Nat
  /\ MaxFailures \in Nat

VARIABLES topic, committed, position, owner, lock,
          pc, record, attempt, active, failures

kafka == <<topic, committed, position, owner>>
worker == <<pc, record, attempt, active>>
engineVars == <<ledgerVars, kafka, lock, worker, failures>>

NoRecord == <<None, 0>>

EngineInit ==
  /\ Init
  /\ topic = [p \in Partition |-> <<>>]
  /\ committed = [p \in Partition |-> 0]
  /\ position = [p \in Partition |-> 0]
  /\ owner \in [Partition -> Worker]
  /\ lock = [k \in Key |-> None]
  /\ pc = [w \in Worker |-> "poll"]
  /\ record = [w \in Worker |-> NoRecord]
  /\ attempt = [w \in Worker |-> 0]
  /\ active = [w \in Worker |-> None]
  /\ failures = 0

EventOf(w) == published[topic[record[w][1]][record[w][2]]]
KeyOf(w) == EventOf(w).key

-----------------------------------------------------------------------------
Publish(e) ==
  /\ PublishScore(e)
  /\ topic' = [topic EXCEPT ![PartitionOf[e.key]] = Append(@, e.id)]
  /\ UNCHANGED <<db, committed, position, owner, lock, worker, failures>>

\* The worker process ends and is restarted: its transaction is rolled back
\* (which frees the advisory lock) and its partitions are read again from the
\* committed offset.
Restart_PositionKept(w) ==  \* mutant: reading goes on where it stopped
  /\ pc' = [pc EXCEPT ![w] = "poll"]
  /\ record' = [record EXCEPT ![w] = NoRecord]
  /\ attempt' = [attempt EXCEPT ![w] = 0]
  /\ active' = [active EXCEPT ![w] = None]
  /\ lock' = [k \in Key |-> IF lock[k] = w THEN None ELSE lock[k]]
  /\ UNCHANGED <<ledgerVars, kafka>>
Restart(w) ==
  /\ pc' = [pc EXCEPT ![w] = "poll"]
  /\ record' = [record EXCEPT ![w] = NoRecord]
  /\ attempt' = [attempt EXCEPT ![w] = 0]
  /\ active' = [active EXCEPT ![w] = None]
  /\ lock' = [k \in Key |-> IF lock[k] = w THEN None ELSE lock[k]]
  /\ position' = [p \in Partition |->
                    IF owner[p] = w THEN committed[p] ELSE position[p]]
  /\ UNCHANGED <<ledgerVars, topic, committed, owner>>

Poll_AutoCommit(w, p) ==  \* mutant: a record is committed when it is read
  /\ pc[w] = "poll" /\ owner[p] = w /\ position[p] < Len(topic[p])
  /\ position' = [position EXCEPT ![p] = @ + 1]
  /\ committed' = [committed EXCEPT ![p] = position[p] + 1]
  /\ record' = [record EXCEPT ![w] = <<p, position[p] + 1>>]
  /\ pc' = [pc EXCEPT ![w] = "lock"]
  /\ UNCHANGED <<ledgerVars, topic, owner, lock, attempt, active, failures>>
Poll(w, p) ==
  /\ pc[w] = "poll"
  /\ owner[p] = w
  /\ position[p] < Len(topic[p])
  /\ position' = [position EXCEPT ![p] = @ + 1]
  /\ record' = [record EXCEPT ![w] = <<p, position[p] + 1>>]
  /\ pc' = [pc EXCEPT ![w] = "lock"]
  /\ UNCHANGED <<ledgerVars, topic, committed, owner, lock, attempt, active, failures>>

TryLock_Unlocked(w) ==  \* mutant: the result of the lock call is ignored
  /\ pc[w] = "lock"
  /\ lock' = [lock EXCEPT ![KeyOf(w)] = w]
  /\ pc' = [pc EXCEPT ![w] = "select"]
  /\ UNCHANGED <<ledgerVars, kafka, record, attempt, active, failures>>

\* pg_try_advisory_xact_lock succeeds.
TryLock(w) ==
  /\ pc[w] = "lock"
  /\ lock[KeyOf(w)] = None
  /\ lock' = [lock EXCEPT ![KeyOf(w)] = w]
  /\ attempt' = [attempt EXCEPT ![w] = 0]
  /\ pc' = [pc EXCEPT ![w] = "select"]
  /\ UNCHANGED <<ledgerVars, kafka, record, active, failures>>

\* The lock is taken: sleep and try again, LockRetryCount times.
LockBusy(w) ==
  /\ pc[w] = "lock"
  /\ lock[KeyOf(w)] # None
  /\ attempt[w] < LockRetryCount
  /\ attempt' = [attempt EXCEPT ![w] = @ + 1]
  /\ UNCHANGED <<ledgerVars, kafka, lock, pc, record, active, failures>>

\* TimeoutError: the worker logs and re-raises, which ends the process.
LockTimeout(w) ==
  /\ pc[w] = "lock"
  /\ lock[KeyOf(w)] # None
  /\ attempt[w] = LockRetryCount
  /\ Restart(w)
  /\ UNCHANGED failures

\* The evidence was applied before: the transaction ends without a change.
SelectDuplicate(w) ==
  /\ pc[w] = "select"
  /\ evidence[EventOf(w).id] # None
  /\ lock' = [lock EXCEPT ![KeyOf(w)] = None]
  /\ pc' = [pc EXCEPT ![w] = "commit"]
  /\ UNCHANGED <<ledgerVars, kafka, record, attempt, active, failures>>

\* SELECT ... FOR UPDATE of the active campaign.
SelectCampaign(w) ==
  /\ pc[w] = "select"
  /\ evidence[EventOf(w).id] = None
  /\ active' = [active EXCEPT ![w] = SelectActive(KeyOf(w))]
  /\ pc' = [pc EXCEPT ![w] = "apply"]
  /\ UNCHANGED <<ledgerVars, kafka, lock, record, attempt, failures>>

\* The rest of the transaction and its commit, which frees the lock.
CommitTransaction(w) ==
  /\ pc[w] = "apply"
  /\ ApplyEvidence(EventOf(w), active[w])
  /\ lock' = [lock EXCEPT ![KeyOf(w)] = None]
  /\ active' = [active EXCEPT ![w] = None]
  /\ pc' = [pc EXCEPT ![w] = "commit"]
  /\ UNCHANGED <<published, kafka, record, attempt, failures>>

\* The group coordinator accepts the commit of the partition's owner only.
CommitOffset(w) ==
  /\ pc[w] = "commit"
  /\ owner[record[w][1]] = w
  /\ committed' = [committed EXCEPT ![record[w][1]] = record[w][2]]
  /\ pc' = [pc EXCEPT ![w] = "poll"]
  /\ record' = [record EXCEPT ![w] = NoRecord]
  /\ UNCHANGED <<ledgerVars, topic, position, owner, lock, attempt, active, failures>>

CommitRejected(w) ==
  /\ pc[w] = "commit"
  /\ owner[record[w][1]] # w
  /\ Restart(w)
  /\ UNCHANGED failures

Crash(w) ==
  /\ failures < MaxFailures
  /\ pc[w] # "poll"
  /\ Restart(w)
  /\ failures' = failures + 1

\* The group gives a partition to another worker, which starts at the
\* committed offset; the old owner goes on with the record it holds.
Rebalance(p, w) ==
  /\ failures < MaxFailures
  /\ owner[p] # w
  /\ owner' = [owner EXCEPT ![p] = w]
  /\ position' = [position EXCEPT ![p] = committed[p]]
  /\ failures' = failures + 1
  /\ UNCHANGED <<ledgerVars, topic, committed, lock, worker>>

Acknowledge(a) ==
  /\ AcknowledgeAlert(a)
  /\ UNCHANGED <<kafka, lock, worker, failures>>

Step(w) ==
  \/ \E p \in Partition : Poll(w, p)
  \/ TryLock(w)
  \/ LockBusy(w)
  \/ LockTimeout(w)
  \/ SelectDuplicate(w)
  \/ SelectCampaign(w)
  \/ CommitTransaction(w)
  \/ CommitOffset(w)
  \/ CommitRejected(w)

EngineNext ==
  \/ \E e \in Evidence : Publish(e)
  \/ \E w \in Worker : Step(w)
  \/ \E w \in Worker : Crash(w)
  \/ \E p \in Partition, w \in Worker : Rebalance(p, w)
  \/ \E a \in EventId \X AlertType : Acknowledge(a)

EngineSpec == EngineInit /\ [][EngineNext]_engineVars

\* A running worker keeps taking steps; nothing forces scores to be
\* published, alerts to be acknowledged or workers to fail.
Fairness == \A w \in Worker : WF_engineVars(Step(w))
FairEngineSpec == EngineSpec /\ Fairness

-----------------------------------------------------------------------------
EngineTypeOK ==
  /\ published \in [EventId -> Optional(Evidence)]
  /\ DOMAIN campaigns = EventId
  /\ evidence \in [EventId -> Optional(EventId)]
  /\ topic \in [Partition -> Seq(EventId)]
  /\ committed \in [Partition -> Nat]
  /\ position \in [Partition -> Nat]
  /\ owner \in [Partition -> Worker]
  /\ lock \in [Key -> Optional(Worker)]
  /\ pc \in [Worker -> {"poll", "lock", "select", "apply", "commit"}]
  /\ record \in [Worker -> Optional(Partition) \X Nat]
  /\ active \in [Worker -> Optional(EventId)]

(***************************************************************************)
(* At-least-once: every record below the committed offset of its partition *)
(* has its row in campaign_evidence, through crashes, lock timeouts and    *)
(* rebalances, and through the late commit of a worker that lost its       *)
(* partition and got it back.                                              *)
(***************************************************************************)
CommittedIsRecorded ==
  \A p \in Partition : \A n \in 1 .. committed[p] :
    evidence[topic[p][n]] # None

(***************************************************************************)
(* The campaign a worker is about to write is still the active campaign of *)
(* its key: nothing another worker committed since the SELECT has made the *)
(* row it read stale, and its evidence is still unapplied.                 *)
(***************************************************************************)
SelectionIsFresh ==
  \A w \in Worker : pc[w] = "apply" =>
    /\ active[w] = SelectActive(KeyOf(w))
    /\ evidence[EventOf(w).id] = None

(***************************************************************************)
(* The workers together implement the ledger: every behaviour of the       *)
(* engine is, on the tables, a behaviour in which evidence is applied by   *)
(* one atomic step at a time.                                              *)
(***************************************************************************)
ImplementsLedger == LedgerSpec

(***************************************************************************)
(* Every published score is eventually applied or recorded, although       *)
(* workers crash, lose partitions and give up on a busy lock.              *)
(***************************************************************************)
EveryScoreRecorded ==
  \A i \in EventId : published[i] # None ~> evidence[i] # None
=============================================================================
