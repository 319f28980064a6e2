--------------------------- MODULE FeatureWorker ----------------------------
(***************************************************************************)
(* The feature worker: batches from several partitions, signals from the   *)
(* records, the snapshots of each signal persisted, cached and published   *)
(* one by one, then one checkpoint and one commit per partition.  The      *)
(* worker may crash anywhere and starts again from the last checkpoint.    *)
(*                                                                         *)
(*   position, committed the consumer's next offset and the committed one  *)
(*   batch, partitions   records still to process; offsets to checkpoint   *)
(*   signals, pending    signals and snapshots still to process            *)
(*   pc                  the worker's place in run() and process()         *)
(*   engine              the in-memory engine (FeatureWindows)             *)
(*   join                Redis: halves of social pairs                     *)
(*   reported            Redis: domains with a source-health entry         *)
(*   latest              Redis: latest:features per interval; <<>>: none   *)
(*   stored              feature_revisions rows of each window             *)
(*   published           the feature events on the topics                  *)
(*   checkpoint          state_json of the newest worker_checkpoints row   *)
(*   crashes             crashes so far                                    *)
(***************************************************************************)
EXTENDS FeatureWindows, FiniteSets

CONSTANTS Records,     \* the records of each partition, in offset order
          Health,      \* what the health of a source may be when it is read
          Reporting,   \* domains whose health is in Redis from the start
          BatchSize,   \* stream_batch_size
          MaxCrashes   \* bound on crashes

Partition == DOMAIN Records
AllRecords == UNION {{Records[p][k] : k \in DOMAIN Records[p]} : p \in Partition}

ASSUME WorkerAssumption ==
  /\ Health \subseteq SourceState
  /\ Reporting \subseteq Domain
  /\ BatchSize \in Nat \ {0}
  /\ MaxCrashes \in Nat

VARIABLES position, committed, batch, partitions, signals, pending,
          pc, join, reported, latest, stored, published, checkpoint, crashes

consumer == <<position, batch, partitions, signals, pending, pc, engine>>
stores == <<join, reported, latest, stored, published>>
durable == <<committed, checkpoint>>
vars == <<consumer, stores, durable, crashes>>

Init ==
  /\ position = [p \in Partition |-> 0]
  /\ committed = [p \in Partition |-> 0]
  /\ batch = <<>> /\ partitions = <<>> /\ signals = <<>> /\ pending = <<>>
  /\ pc = "fetch"
  /\ engine = EmptyEngine
  /\ join = {}
  /\ reported = Reporting
  /\ latest = [i \in Interval |-> <<>>]
  /\ stored = [w \in Window |-> <<>>]
  /\ published = {}
  /\ checkpoint = <<>>
  /\ crashes = 0

-----------------------------------------------------------------------------
\* market_signal, social_signals and the data_quality signals after them.
NewSignal(id, r, kind, health) ==
  [id |-> <<r.key, id>>, time |-> r.time, domain |-> r.domain, kind |-> kind,
   health |-> health]
QualitySignals(r, report) ==
  [k \in DOMAIN report |-> NewSignal("quality", r, "quality", report[k])]
SignalsOf(r, report) ==
  (IF r.domain = "market" THEN <<NewSignal("datum", r, "data", FirstObserved)>>
   ELSE <<NewSignal("post", r, "data", FirstObserved),
          NewSignal("mention", r, "data", FirstObserved)>>)
    \o QualitySignals(r, report)

ASSUME RecordsAssumption ==
  /\ Records \in Seq(Seq(AllRecords))
  /\ \A r \in AllRecords :
       /\ r \in [key : {r.key}, time : Time, domain : Domain,
                 half : IF r.domain = "market" THEN {"datum"} ELSE {"post", "mention"}]
       /\ \A report \in {<<>>} \cup {<<h>> : h \in Health} :
            SignalsOf(r, report) \in Seq(Signal)

\* The other half of a social pair has been seen.
Paired(r, halves) ==
  \A half \in {"post", "mention"} : <<r.key, half>> \in halves

-----------------------------------------------------------------------------
\* Records of a batch by event time, then topic and offset.
Before(a, b) ==
  LET ra == Records[a[1]][a[2]]  rb == Records[b[1]][b[2]] IN
    \/ ra.time < rb.time
    \/ ra.time = rb.time /\ (a[1] < b[1] \/ (a[1] = b[1] /\ a[2] < b[2]))

Sorted(chosen) ==
  {q \in SetToSeqs(chosen) : \A j, k \in DOMAIN q : j < k => Before(q[j], q[k])}

\* latest_by_partition: per partition the record that comes last in the order
\* of the batch, which need not have the highest offset; the partitions in the
\* order in which they come in the batch.
LatestByPartition(sorted) ==
  LET First(a) == CHOOSE k \in DOMAIN sorted :
                    /\ sorted[k][1] = a[1]
                    /\ \A j \in 1 .. k - 1 : sorted[j][1] # a[1]
      last == {k \in DOMAIN sorted :
                 \A j \in DOMAIN sorted : j > k => sorted[j][1] # sorted[k][1]}
  IN  {q \in SetToSeqs({sorted[k] : k \in last}) :
         \A j, k \in DOMAIN q : j < k => First(q[j]) < First(q[k])}

\* batches(): getmany returns some of the next records of some partitions,
\* whatever has been produced by then.
Fetch(upto) ==
  LET chosen == UNION {{<<p, k>> : k \in position[p] + 1 .. upto[p]} : p \in Partition}
  IN /\ pc = "fetch"
     /\ \A p \in Partition : upto[p] \in position[p] .. Len(Records[p])
     /\ chosen # {} /\ Cardinality(chosen) <= BatchSize
     /\ position' = upto
     /\ batch' \in Sorted(chosen)
     /\ partitions' \in LatestByPartition(batch')
     /\ pc' = "process"
     /\ UNCHANGED <<signals, pending, engine, stores, durable, crashes>>

\* The health that _process_event reads: it changes between two readings, and
\* an entry that is there stays.
Reports(d) == (IF d \in reported THEN {} ELSE {<<>>}) \cup {<<h>> : h \in Health}

\* _process_event of the next record up to its signals.
ProcessEvent(report) ==
  LET r == Records[batch[1][1]][batch[1][2]] IN
  /\ pc = "process" /\ signals = <<>> /\ batch # <<>>
  /\ report \in Reports(r.domain)
  /\ batch' = Tail(batch)
  /\ reported' = IF report = <<>> THEN reported ELSE reported \cup {r.domain}
  /\ IF r.domain = "market"
     THEN /\ signals' = SignalsOf(r, report)
          /\ UNCHANGED join
     ELSE /\ join' = join \cup {<<r.key, r.half>>}
          /\ signals' = IF Paired(r, join') THEN SignalsOf(r, report) ELSE <<>>
  /\ UNCHANGED <<position, partitions, pending, pc, engine, latest, stored,
                 published, durable, crashes>>

\* FeatureWindowService.process: the engine, then snapshot by snapshot.
ProcessSignal ==
  /\ pc = "process" /\ signals # <<>>
  /\ engine' = IngestNew(engine, Head(signals))
  /\ pending' \in IF Seen(engine.log, Head(signals)) THEN {<<>>}
                  ELSE Returned(engine, Head(signals))
  /\ signals' = Tail(signals)
  /\ pc' = IF pending' = <<>> THEN "process" ELSE "persist"
  /\ UNCHANGED <<position, batch, partitions, stores, durable, crashes>>

Persist_Always ==  \* mutant: the revision number is not compared
  /\ pc = "persist"
  /\ stored' = [stored EXCEPT ![Head(pending).window] = Append(@, Head(pending))]
  /\ pc' = "cache"
  /\ UNCHANGED <<position, batch, partitions, signals, pending, engine,
                 join, reported, latest, published, durable, crashes>>
Persist ==
  LET snapshot == Head(pending)
      rows == stored[snapshot.window]
      current == IF rows = <<>> THEN 0 ELSE rows[Len(rows)].revision
  IN /\ pc = "persist"
     /\ stored' = IF current >= snapshot.revision THEN stored
                  ELSE [stored EXCEPT ![snapshot.window] = Append(@, snapshot)]
     /\ pc' = "cache"
     /\ UNCHANGED <<position, batch, partitions, signals, pending, engine,
                    join, reported, latest, published, durable, crashes>>

Cache_NewRows ==  \* mutant: a snapshot whose number is stored already is not cached
  /\ pc = "cache"
  /\ latest' = IF Head(pending) \in Range(stored[Head(pending).window])
               THEN [latest EXCEPT ![Head(pending).window.interval] = <<Head(pending)>>]
               ELSE latest
  /\ pc' = "publish"
  /\ UNCHANGED <<position, batch, partitions, signals, pending, engine,
                 join, reported, stored, published, durable, crashes>>
Cache ==
  /\ pc = "cache"
  /\ latest' = [latest EXCEPT ![Head(pending).window.interval] = <<Head(pending)>>]
  /\ pc' = "publish"
  /\ UNCHANGED <<position, batch, partitions, signals, pending, engine,
                 join, reported, stored, published, durable, crashes>>

Publish ==
  /\ pc = "publish"
  /\ published' = published \cup {Head(pending)}
  /\ pending' = Tail(pending)
  /\ pc' = IF Tail(pending) = <<>> THEN "process" ELSE "persist"
  /\ UNCHANGED <<position, batch, partitions, signals, engine,
                 join, reported, latest, stored, durable, crashes>>

BatchDone ==
  /\ pc = "process" /\ batch = <<>> /\ signals = <<>>
  /\ pc' = "save"
  /\ UNCHANGED <<position, batch, partitions, signals, pending, engine,
                 stores, durable, crashes>>

SaveCheckpoint_Commits ==  \* mutant: the offset is committed before the checkpoint
  /\ pc = "save"
  /\ committed' = [committed EXCEPT ![partitions[1][1]] = partitions[1][2]]
  /\ pc' = "commit"
  /\ UNCHANGED <<position, batch, partitions, signals, pending, engine,
                 stores, checkpoint, crashes>>
SaveCheckpoint ==
  /\ pc = "save"
  /\ checkpoint' = engine.log
  /\ pc' = "commit"
  /\ UNCHANGED <<position, batch, partitions, signals, pending, engine,
                 stores, committed, crashes>>

CommitOffset ==
  /\ pc = "commit"
  /\ committed' = [committed EXCEPT ![partitions[1][1]] = partitions[1][2]]
  /\ partitions' = Tail(partitions)
  /\ pc' = IF Tail(partitions) = <<>> THEN "fetch" ELSE "save"
  /\ UNCHANGED <<position, batch, signals, pending, engine,
                 stores, checkpoint, crashes>>

\* The process dies and starts again: restore_state, then the committed offsets.
Crash ==
  /\ crashes < MaxCrashes
  /\ crashes' = crashes + 1
  /\ engine' = RestoredEngine(checkpoint)
  /\ position' = committed
  /\ batch' = <<>> /\ partitions' = <<>> /\ signals' = <<>> /\ pending' = <<>>
  /\ pc' = "fetch"
  /\ UNCHANGED <<stores, durable>>

\* The worker has caught up with all the records.
Quiescent == pc = "fetch" /\ position = [p \in Partition |-> Len(Records[p])]
Done == Quiescent /\ UNCHANGED vars

\* How far a fetch may read on each partition.
Offsets == [Partition -> 0 .. Max({Len(Records[p]) : p \in Partition})]
Step ==
  \/ \E upto \in Offsets : Fetch(upto)
  \/ \E report \in {<<>>} \cup {<<h>> : h \in Health} : ProcessEvent(report)
  \/ ProcessSignal \/ Persist \/ Cache \/ Publish \/ BatchDone
  \/ SaveCheckpoint \/ CommitOffset
Next == Step \/ Crash \/ Done

Spec == Init /\ [][Next]_vars

-----------------------------------------------------------------------------
\* The variables have their types.
WorkerTypeOK ==
  /\ position \in [Partition -> Nat]
  /\ committed \in [Partition -> Nat]
  /\ pc \in {"fetch", "process", "persist", "cache", "publish", "save", "commit"}
  /\ engine \in Engine
  /\ stored \in [Window -> Seq(Snapshot)]
  /\ published \subseteq Snapshot
  /\ checkpoint \in Seq(Signal)

\* The records that the first n[p] offsets of each partition p contribute
\* signals for: those of the market and the complete social pairs.
Contributing(n) ==
  LET read == UNION {{Records[p][k] : k \in 1 .. n[p]} : p \in Partition}
  IN  {r \in read : r.domain = "market"
                    \/ \A half \in {"post", "mention"} : [r EXCEPT !.half = half] \in read}
Checkpointed(r) == \E s \in Logged(checkpoint) : s.id = SignalsOf(r, <<>>)[1].id

\* No signal is lost: what a committed record (or both halves of a committed
\* social pair) contributes is in the newest checkpoint, wherever the worker
\* crashes between the checkpoints and the commits of a batch, and although
\* the batch is not in the order of its offsets.  Before the next batch is
\* fetched this is true of every record read so far.
CommittedIsCheckpointed ==
  \A r \in Contributing(IF pc = "fetch" THEN position ELSE committed) : Checkpointed(r)

\* The durable history of a window has no gap and no duplicate: the engine
\* restored from a checkpoint never runs ahead of the rows that were written.
StoredHasNoGaps ==
  \A w \in Window : \A k \in 1 .. Len(stored[w]) :
    stored[w][k].revision = k /\ stored[w][k].window = w

\* A feature event never announces a revision number that is not durable,
\* not even when the process dies between persist, cache and publish.
PublishedIsStored ==
  /\ \A e \in published : e.revision <= Len(stored[e.window])
  /\ \A i \in Interval : \A k \in DOMAIN latest[i] :
       latest[i][k].revision <= Len(stored[latest[i][k].window])

IdsOf(S) == {s.id : s \in S}

\* What the caught-up properties assume of the inputs. A key names one event of
\* one domain: a mention and its post share it, and nothing else does.
KeysIdentifyEvents ==
  \A a, b \in AllRecords : a.key = b.key => a.time = b.time /\ a.domain = b.domain

\* Every domain has reported to the worker's health tracker.
EverySourceReports == Reporting = Domain

\* Once the worker has caught up, the newest durable revision of every window
\* covers every signal of the window: although a crash makes the engine count
\* revisions again that Persist then ignores, it ends ahead of the rows.
DurableCatchesUp ==
  Quiescent => \A w \in Window : engine.revisions[w] # <<>> =>
    IdsOf(stored[w][Len(stored[w])].features.own) = IdsOf(Own(engine.log, w))

\* Processing a record again is idempotent: two feature events with the same
\* identity (window and revision) are the same event.
RevisionIdentityIsStable ==
  \A a, b \in published : a.window = b.window /\ a.revision = b.revision => a = b

\* Once the worker has caught up, Redis shows, for each interval, a window as
\* the engine last revised it, and a window that is not the newest only if it is
\* final, whatever the sources reported and wherever the worker crashed:
\* finalized and late windows are written to the same key, but the later windows
\* follow the window of a late signal, and what a crash interrupts is read again.
\* (A signal that lifts a degradation makes older windows final after it has
\* shown the newest one: then a final older window is what Redis shows.)
ShownIsCurrent ==
  Quiescent => \A w \in Window : engine.revisions[w] # <<>> =>
    \E v \in Window :
      /\ v.interval = w.interval /\ engine.revisions[v] # <<>>
      /\ latest[w.interval] = <<LastRevision(engine, v)>>
      /\ w.start <= v.start \/ LastRevision(engine, v).revision_state = "FINAL"

\* What is stored and what is published belong together, wherever the worker
\* dies: the types; rows without a gap; announcements of rows that are stored.
StoreInv == WorkerTypeOK /\ StoredHasNoGaps /\ PublishedIsStored

\* What a reader finds once the worker has caught up, after any crashes: rows
\* that cover every signal, and in Redis what the engine last computed.
CaughtUpInv == DurableCatchesUp /\ ShownIsCurrent
=============================================================================
