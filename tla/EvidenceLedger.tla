---------------------------- MODULE EvidenceLedger ----------------------------
(***************************************************************************)
(* The evidence ledger of one alert.  Scores change the alert and raise    *)
(* alert events; evidence workers turn each event into an immutable        *)
(* snapshot of the alert, linked to the snapshot before it.  The snapshot  *)
(* pairs the evidence the event names with the alert as it is when it is   *)
(* captured, which may be several versions later.                          *)
(*                                                                         *)
(*   alert        version and status of the row in alerts                  *)
(*   event_versions  the alert version each alert event was raised with    *)
(*   alertTopic   alert events in the order the outbox published them      *)
(*   captured     evidence_snapshots                                       *)
(*   readTo, owns committed offset and owner of the alert's partition      *)
(*   worker       an evidence worker in capture_alert                      *)
(*   overlap      a partition changed hands during a capture               *)
(***************************************************************************)
EXTENDS Naturals, Sequences, FiniteSets

CONSTANTS EvidenceWorker,
          MaxVersion,      \* bound on the versions of the alert
          MaxUpsets        \* bound on crashes, rebalances, republications

ASSUME EvidenceAssumption == MaxVersion \in Nat \ {0} /\ MaxUpsets \in Nat

VARIABLES alert, event_versions, alertTopic, captured, readTo, owns, worker, overlap, upsets

alerting == <<alert, event_versions, alertTopic>>
evidenceVars == <<alerting, captured, readTo, owns, worker, overlap, upsets>>

Resting == [at |-> "poll", offset |-> 0, version |-> 0, previous |-> 0]

EvidenceInit ==
  /\ alert = [version |-> 0, status |-> "ACTIVE"]
  /\ event_versions = <<>> /\ alertTopic = <<>>
  /\ captured = {} /\ readTo = 0
  /\ owns \in EvidenceWorker
  /\ worker = [w \in EvidenceWorker |-> Resting]
  /\ overlap = FALSE /\ upsets = 0
-----------------------------------------------------------------------------
(* A score triggers the alert: a new version, and an event unless it is    *)
(* suppressed; the first trigger creates the alert.                        *)
AlertTriggered(suppressed) ==
  /\ alert.version < MaxVersion
  /\ suppressed => alert.version > 0 /\ alert.status = "ACTIVE"
  /\ alert' = [version |-> alert.version + 1, status |-> "ACTIVE"]
  /\ event_versions' = IF suppressed THEN event_versions ELSE Append(event_versions, alert'.version)
  /\ UNCHANGED <<alertTopic, captured, readTo, owns, worker, overlap, upsets>>

Acknowledged ==
  /\ alert.version \in 1..(MaxVersion - 1) /\ alert.status # "ACKNOWLEDGED"
  /\ alert' = [version |-> alert.version + 1, status |-> "ACKNOWLEDGED"]
  /\ UNCHANGED <<event_versions, alertTopic, captured, readTo, owns, worker, overlap, upsets>>

OnTopic == {alertTopic[n] : n \in DOMAIN alertTopic}

(* The outbox publishes an event, in any order once retries are involved,  *)
(* and perhaps twice.                                                      *)
EventPublished ==
  \E e \in DOMAIN event_versions :
    LET upset == e \in OnTopic \/ \E f \in 1..(e - 1) : f \notin OnTopic
    IN  /\ upset => upsets < MaxUpsets
        /\ upsets' = IF upset THEN upsets + 1 ELSE upsets
        /\ alertTopic' = Append(alertTopic, e)
        /\ UNCHANGED <<alert, event_versions, captured, readTo, owns, worker, overlap>>
-----------------------------------------------------------------------------
Becomes(w, state) == worker' = [worker EXCEPT ![w] = state]

(* capture_alert reads the alert, and returns if this version is captured. *)
ReadAlertCapturedOnce(w) ==  \* mutant: an alert is captured once
  /\ worker[w].at = "poll" /\ owns = w
  /\ readTo < Len(alertTopic)
  /\ Becomes(w, [Resting EXCEPT !.offset = readTo + 1, !.version = alert.version,
                                !.at = IF captured # {} THEN "commit" ELSE "link"])
  /\ UNCHANGED <<alerting, captured, readTo, owns, overlap, upsets>>
ReadAlert(w) ==
  /\ worker[w].at = "poll" /\ owns = w
  /\ readTo < Len(alertTopic)
  /\ LET version == alert.version
         state == [Resting EXCEPT !.offset = readTo + 1, !.version = version]
     IN  Becomes(w, [state EXCEPT !.at = IF \E s \in captured : s.version = version
                                         THEN "commit" ELSE "link"])
  /\ UNCHANGED <<alerting, captured, readTo, owns, overlap, upsets>>

(* The chain hash to link to: that of the newest snapshot.                 *)
OldestCaptured ==  \* mutant: the chain links to its first snapshot
  IF captured = {} THEN 0
  ELSE (CHOOSE s \in captured : \A o \in captured : o.version >= s.version).version
NewestCaptured ==
  IF captured = {} THEN 0
  ELSE (CHOOSE s \in captured : \A o \in captured : o.version <= s.version).version
LinkSnapshot(w) ==
  /\ worker[w].at = "link"
  /\ Becomes(w, [worker[w] EXCEPT !.at = "store", !.previous = NewestCaptured])
  /\ UNCHANGED <<alerting, captured, readTo, owns, overlap, upsets>>

(* One snapshot per alert and version: the loser of two fails and its      *)
(* worker ends; what it had is read again.                                 *)
StoreSnapshot(w) ==
  /\ worker[w].at = "store"
  /\ LET state == worker[w]
     IN  IF \E s \in captured : s.version = state.version
         THEN Becomes(w, Resting) /\ UNCHANGED captured
         ELSE /\ captured' = captured \union
                   {[version |-> state.version, previous |-> state.previous,
                     event |-> alertTopic[state.offset]]}
              /\ Becomes(w, [state EXCEPT !.at = "commit"])
  /\ UNCHANGED <<alerting, readTo, owns, overlap, upsets>>

(* A commit by a worker that no longer owns the partition is refused and   *)
(* ends the worker.                                                        *)
CommitEvent(w) ==
  /\ worker[w].at = "commit"
  /\ readTo' = IF owns = w THEN worker[w].offset ELSE readTo
  /\ Becomes(w, Resting)
  /\ UNCHANGED <<alerting, captured, owns, overlap, upsets>>

EvidenceWorkerCrashes(w) ==
  /\ upsets < MaxUpsets /\ worker[w].at # "poll"
  /\ upsets' = upsets + 1
  /\ Becomes(w, Resting)
  /\ UNCHANGED <<alerting, captured, readTo, owns, overlap>>

(* The group moves the partition; the old owner goes on with its event.    *)
PartitionMoves(w) ==
  /\ upsets < MaxUpsets /\ owns # w
  /\ upsets' = upsets + 1
  /\ owns' = w
  /\ overlap' = (overlap \/ \E v \in EvidenceWorker : worker[v].at # "poll")
  /\ UNCHANGED <<alerting, captured, readTo, worker>>

Capture(w) == ReadAlert(w) \/ LinkSnapshot(w) \/ StoreSnapshot(w) \/ CommitEvent(w)
EvidenceNext ==
  \/ \E suppressed \in BOOLEAN : AlertTriggered(suppressed)
  \/ Acknowledged
  \/ EventPublished
  \/ \E w \in EvidenceWorker : Capture(w) \/ EvidenceWorkerCrashes(w) \/ PartitionMoves(w)

EvidenceSpec == EvidenceInit /\ [][EvidenceNext]_evidenceVars
-----------------------------------------------------------------------------
(* An event whose offset is committed is evidenced: there is a snapshot of *)
(* the alert as it was raised or of a later version, although an event     *)
(* whose version was captured under an earlier event gets no snapshot of   *)
(* its own, and workers die, are rebalanced and get events in any order.   *)
EventsAreEvidenced ==
  \A n \in 1..readTo : \E s \in captured : s.version >= event_versions[alertTopic[n]]

(* The snapshots form one chain in the order of the versions they capture  *)
(* unless a partition changed hands during a capture: then a slow worker   *)
(* may link an older version to a newer one.                               *)
ChainIsInOrder ==
  ~overlap => \A s \in captured :
    /\ s.previous = 0 \/ \E p \in captured : p.version = s.previous
    /\ s.previous < s.version
    /\ ~\E between \in captured : s.previous < between.version /\ between.version < s.version
=============================================================================
