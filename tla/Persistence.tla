----------------------------- MODULE Persistence -----------------------------
(***************************************************************************)
(* The two consumers that make telemetry durable.  The persistence workers *)
(* store market records as they come, and a social post when both halves   *)
(* of it (the normalized post and its mentions, on topics of their own)    *)
(* have reached Redis.  The archive worker writes one Parquet file per     *)
(* record.  Each saves its checkpoint and commits after the record is      *)
(* durable.  Record i of a topic is the i-th of one partition; the halves  *)
(* of a post have the same key, so the same place in both topics.          *)
(*                                                                         *)
(*   feed        the topics a behaviour publishes to: the two halves of a  *)
(*               post, or a market topic, which share no state             *)
(*   produced    how many records a topic has                              *)
(*   position    the record a worker has polled last                       *)
(*   committed, checkpoint   group offset; worker_checkpoints row          *)
(*   halves      halves of posts kept in Redis                             *)
(*   rows        records stored in PostgreSQL                              *)
(*   file        the archived file of a market record                      *)
(*   phase       where a worker is with its record                         *)
(***************************************************************************)
EXTENDS Naturals, FiniteSets

CONSTANTS MaxRecord,        \* bound on the records of a topic
          MaxWorkerCrashes  \* bound on crashes

Half == {"normalized", "mentions"}
Worker == Half \union {"market", "archive"}

ASSUME PersistenceAssumption == MaxRecord \in Nat /\ MaxWorkerCrashes \in Nat

VARIABLES feed, produced, position, committed, checkpoint, halves, rows, file, phase,
          workerCrashes

durable == <<committed, checkpoint, halves, rows, file>>
persistenceVars == <<feed, produced, position, phase, durable, workerCrashes>>

PersistenceInit ==
  /\ feed \in {Half, {"market", "archive"}}
  /\ produced = [w \in Worker |-> 0]
  /\ position = [w \in Worker |-> 0]
  /\ committed = [w \in Worker |-> 0]
  /\ checkpoint = [w \in Worker |-> 0]
  /\ halves = [h \in Half |-> {}]
  /\ rows = [w \in {"market", "post"} |-> {}]
  /\ file = [i \in 1..MaxRecord |-> "none"]
  /\ phase = [w \in Worker |-> "poll"]
  /\ workerCrashes = 0

(* The halves of a post are published in one transaction; the archive      *)
(* worker reads the market topic in a group of its own.                    *)
Produce ==
  /\ \A w \in feed : produced[w] < MaxRecord
  /\ produced' = [w \in Worker |-> IF w \in feed THEN produced[w] + 1 ELSE 0]
  /\ UNCHANGED <<feed, position, phase, durable, workerCrashes>>

Other(h) == CHOOSE o \in Half : o # h
Goto(w, p) == phase' = [phase EXCEPT ![w] = p]
First(w) == CASE w \in Half -> "cache" [] w = "market" -> "persist" [] w = "archive" -> "open"

PollRecord(w) ==
  /\ phase[w] = "poll" /\ position[w] < produced[w]
  /\ position' = [position EXCEPT ![w] = @ + 1]
  /\ Goto(w, First(w))
  /\ UNCHANGED <<feed, produced, durable, workerCrashes>>

CacheHalf(w) ==
  /\ phase[w] = "cache"
  /\ halves' = [halves EXCEPT ![w] = @ \union {position[w]}]
  /\ Goto(w, "read")
  /\ UNCHANGED <<feed, produced, position, committed, checkpoint, rows, file, workerCrashes>>

(* Without its other half the record is left neither saved nor committed.  *)
ReadPairAlwaysDurable(w) ==  \* mutant: a half without the other is committed
  /\ phase[w] = "read"
  /\ Goto(w, IF position[w] \in halves[Other(w)] THEN "persist" ELSE "save")
  /\ UNCHANGED <<feed, produced, position, durable, workerCrashes>>
ReadPair(w) ==
  /\ phase[w] = "read"
  /\ Goto(w, IF position[w] \in halves[Other(w)] THEN "persist" ELSE "poll")
  /\ UNCHANGED <<feed, produced, position, durable, workerCrashes>>

(* A second insertion is a unique violation, and as good as the first.     *)
PersistRecord(w) ==
  /\ phase[w] = "persist"
  /\ LET table == IF w \in Half THEN "post" ELSE "market"
     IN  rows' = [rows EXCEPT ![table] = @ \union {position[w]}]
  /\ Goto(w, "save")
  /\ UNCHANGED <<feed, produced, position, committed, checkpoint, halves, file, workerCrashes>>

(* A file that exists is not written again.                                *)
OpenFile(w) ==
  /\ phase[w] = "open"
  /\ LET i == position[w]
     IN  IF file[i] = "none"
         THEN file' = [file EXCEPT ![i] = "partial"] /\ Goto(w, "write")
         ELSE UNCHANGED file /\ Goto(w, "save")
  /\ UNCHANGED <<feed, produced, position, committed, checkpoint, halves, rows, workerCrashes>>

WriteFile(w) ==
  /\ phase[w] = "write"
  /\ file' = [file EXCEPT ![position[w]] = "whole"]
  /\ Goto(w, "save")
  /\ UNCHANGED <<feed, produced, position, committed, checkpoint, halves, rows, workerCrashes>>

AtLeast(old, new) == IF new > old THEN new ELSE old
SaveOffset(w) ==
  /\ phase[w] = "save"
  /\ checkpoint' = [checkpoint EXCEPT ![w] = AtLeast(@, position[w])]
  /\ Goto(w, "commit")
  /\ UNCHANGED <<feed, produced, position, committed, halves, rows, file, workerCrashes>>

CommitRecord(w) ==
  /\ phase[w] = "commit"
  /\ committed' = [committed EXCEPT ![w] = position[w]]
  /\ Goto(w, "poll")
  /\ UNCHANGED <<feed, produced, position, checkpoint, halves, rows, file, workerCrashes>>

(* The process dies; its successor reads on from the committed offset.     *)
WorkerCrashes(w) ==
  /\ workerCrashes < MaxWorkerCrashes /\ w \in feed
  /\ workerCrashes' = workerCrashes + 1
  /\ position' = [position EXCEPT ![w] = committed[w]]
  /\ Goto(w, "poll")
  /\ UNCHANGED <<feed, produced, durable>>

Work(w) == \/ PollRecord(w) \/ CacheHalf(w) \/ ReadPair(w) \/ PersistRecord(w)
           \/ OpenFile(w) \/ WriteFile(w) \/ SaveOffset(w) \/ CommitRecord(w)
PersistenceNext == Produce \/ \E w \in Worker : Work(w) \/ WorkerCrashes(w)

PersistenceSpec == PersistenceInit /\ [][PersistenceNext]_persistenceVars
-----------------------------------------------------------------------------
(* A checkpoint of a worker claims that everything up to it is durable,    *)
(* although a half of a post that came first was passed by unsaved and     *)
(* only the worker of the other topic stores it.  The archive is written   *)
(* in place and an existing file is never written again: a checkpointed    *)
(* record has its whole file, but for one record per crash.                *)
CheckpointedIsStored ==
  /\ \A h \in Half : 1..checkpoint[h] \subseteq rows["post"]
  /\ 1..checkpoint["market"] \subseteq rows["market"]
  /\ Cardinality({i \in 1..checkpoint["archive"] : file[i] # "whole"}) <= workerCrashes
=============================================================================
