--------------------------- MODULE CampaignLedger ---------------------------
(***************************************************************************)
(* What the campaign and alert engine promises: the database it keeps when *)
(* every piece of evidence is applied by one atomic step                   *)
(* (SqlCampaignRepository.apply as a single transaction, run by nobody     *)
(* else at the same time) and analysts acknowledge alerts in between.      *)
(* CampaignEngine runs the same transaction from several workers.          *)
(*                                                                         *)
(* Rows of a table are values of a function from the row's identity, None  *)
(* when there is no such row:                                              *)
(*   published     fusion score events on the topic, by event id           *)
(*   campaigns     by campaign id, which is derived from the id of the     *)
(*                 evidence that created the campaign                      *)
(*   evidence      campaign_evidence: the campaign of an evidence event    *)
(*   stage_history campaign_stage_history of a campaign, oldest first      *)
(*   alerts        by campaign and alert type                              *)
(*   outbox        outbox_events: one batch of events per transaction      *)
(***************************************************************************)
EXTENDS CampaignPolicy, Sequences, FiniteSets

CONSTANTS EventId,      \* ids of fusion score events
          Key,          \* scope_id:asset_id
          Score,        \* the fusion results considered, a set of FusionResult
          Time,         \* event times (window ends), a set of naturals
          Revision,     \* feature revisions of a window, a set of naturals
          Profile,      \* enrichment profiles by priority: 0 base, 1 graph,
                        \* 2 verification, 3 graph and verification
          MergeGap,     \* campaign_merge_gap_seconds
          Suppression   \* alert_suppression_seconds

ASSUME LedgerAssumption ==
  /\ None \notin EventId
  /\ Score \subseteq FusionResult
  /\ Time \subseteq Nat
  /\ Revision \subseteq Nat
  /\ Profile \subseteq 0 .. 3
  /\ MergeGap \in Nat \ {0}
  /\ Suppression \in Nat

VARIABLES published, campaigns, evidence, stage_history, alerts, outbox

db == <<campaigns, evidence, stage_history, alerts, outbox>>
ledgerVars == <<published, db>>

(***************************************************************************)
(* A fusion score event.  Its event time and its evidence cutoff are both  *)
(* the end of the feature window.                                          *)
(***************************************************************************)
fusion_revision(profile) ==
  CASE profile = 0 -> 1 [] profile = 3 -> 3 [] OTHER -> 2

Evidence == [id : EventId, key : Key, event_time : Time,
             feature_revision : Revision, profile : Profile, score : Score]


EvaluationOrder(e) ==
  <<e.event_time, e.feature_revision, fusion_revision(e.profile), e.profile>>

\* Python's <= on tuples.
LexLE(a, b) ==
  \/ a[1] < b[1]
  \/ a[1] = b[1] /\ a[2] < b[2]
  \/ a[1] = b[1] /\ a[2] = b[2] /\ a[3] < b[3]
  \/ a[1] = b[1] /\ a[2] = b[2] /\ a[3] = b[3] /\ a[4] <= b[4]

Campaign == [key : Key, stage : Stage, status : {"ACTIVE", "CLOSED"},
             max_severity : RiskLevel, last_evidence_at : Time,
             last_applied : Time \X Revision \X (1 .. 3) \X Profile,
             version : Nat \ {0}]

Alert == [severity : RiskLevel, status : {"ACTIVE", "ACKNOWLEDGED"},
          last_triggered_at : Time, last_notified_at : Time,
          occurrence_count : Nat \ {0}, version : Nat \ {0}]

ASSUME NoneNotRow == None \notin Evidence /\ None \notin Campaign /\ None \notin Alert

CampaignEvent ==
  [type : {"campaign.created", "campaign.stage_changed", "campaign.closed"},
   campaign : EventId, evidence : EventId, stage : Optional(Stage)]
AlertEvent ==
  [type : {"alert.created", "alert.severity_changed", "alert.refreshed"},
   campaign : EventId, alert : AlertType, evidence : EventId,
   severity : RiskLevel, version : Nat \ {0}, event_time : Time]
StageChange == [from : Optional(Stage), to : Stage, evidence : EventId]

Init ==
  /\ published = [i \in EventId |-> None]
  /\ campaigns = [c \in EventId |-> None]
  /\ evidence = [i \in EventId |-> None]
  /\ stage_history = [c \in EventId |-> <<>>]
  /\ alerts = [a \in EventId \X AlertType |-> None]
  /\ outbox = <<>>

-----------------------------------------------------------------------------
IsStale_TimeOnly(campaign, e) ==  \* mutant: only the event times are compared
  e.event_time < campaign.last_applied[1]
IsStale(campaign, e) == LexLE(EvaluationOrder(e), campaign.last_applied)

GapElapsed(campaign, e) == e.event_time - campaign.last_evidence_at > MergeGap

\* The row apply() selects: the active campaign of the key, or None.
ActiveCampaigns(key) ==
  {c \in EventId : /\ campaigns[c] # None
                   /\ campaigns[c].key = key
                   /\ campaigns[c].status = "ACTIVE"}
SelectActive(key) ==
  IF ActiveCampaigns(key) = {} THEN None
  ELSE CHOOSE c \in ActiveCampaigns(key) : TRUE

NewCampaign(e, stage) ==
  [key |-> e.key, stage |-> stage, status |-> "ACTIVE",
   max_severity |-> e.score.severity, last_evidence_at |-> e.event_time,
   last_applied |-> EvaluationOrder(e), version |-> 1]

UpdatedCampaign(campaign, e, stage) ==
  [campaign EXCEPT
     !.stage = stage,
     !.last_evidence_at = IF e.event_time > @ THEN e.event_time ELSE @,
     !.max_severity = max_risk(@, e.score.severity),
     !.last_applied = EvaluationOrder(e),
     !.version = @ + 1]

ClosedCampaign_StatusKept(campaign) ==  \* mutant: only the event is written
  [campaign EXCEPT !.version = @ + 1]
ClosedCampaign(campaign) ==
  [campaign EXCEPT !.status = "CLOSED", !.version = @ + 1]

-----------------------------------------------------------------------------
(***************************************************************************)
(* _upsert_alert: the row after a trigger, and whether the trigger is      *)
(* suppressed (recorded, not notified).                                    *)
(***************************************************************************)
NewAlert(e, severity) ==
  [severity |-> severity, status |-> "ACTIVE",
   last_triggered_at |-> e.event_time, last_notified_at |-> e.event_time,
   occurrence_count |-> 1, version |-> 1]

SeverityChanged(alert, severity) ==
  max_risk(alert.severity, severity) # alert.severity \/ alert.status # "ACTIVE"

Suppressed_ByTimeOnly(alert, e, severity) ==  \* mutant: severity changes suppressed
  e.event_time - alert.last_notified_at < Suppression
Suppressed(alert, e, severity) ==
  /\ ~SeverityChanged(alert, severity)
  /\ e.event_time - alert.last_notified_at < Suppression

\* Mutant: the time of the notification is left alone.
UpdatedAlert_NotifiedKept(alert, e, severity) ==
  [alert EXCEPT !.status = "ACTIVE", !.severity = max_risk(@, severity),
                !.occurrence_count = @ + 1, !.version = @ + 1]
UpdatedAlert(alert, e, severity) ==
  [alert EXCEPT
     !.last_triggered_at = IF e.event_time > @ THEN e.event_time ELSE @,
     !.occurrence_count = @ + 1,
     !.status = "ACTIVE",
     !.severity = max_risk(@, severity),
     !.version = @ + 1,
     !.last_notified_at = IF Suppressed(alert, e, severity)
                          THEN @ ELSE e.event_time]

UpsertAlert(alert, e, severity) ==
  IF alert = None THEN NewAlert(e, severity) ELSE UpdatedAlert(alert, e, severity)

AlertEventType(alert, severity) ==
  CASE alert = None -> "alert.created"
    [] alert # None /\ SeverityChanged(alert, severity) -> "alert.severity_changed"
    [] OTHER -> "alert.refreshed"

\* The alert events of one transaction on campaign c: one per trigger that
\* is not suppressed.
AlertEvents(c, e) ==
  {[type |-> AlertEventType(alerts[<<c, t>>], TriggerSeverity(t, e.score)),
    campaign |-> c, alert |-> t, evidence |-> e.id,
    severity |-> UpsertAlert(alerts[<<c, t>>], e, TriggerSeverity(t, e.score)).severity,
    version |-> UpsertAlert(alerts[<<c, t>>], e, TriggerSeverity(t, e.score)).version,
    event_time |-> e.event_time] :
   t \in {u \in AlertType :
            /\ Triggered(u, e.score)
            /\ \/ alerts[<<c, u>>] = None
               \/ ~Suppressed(alerts[<<c, u>>], e, TriggerSeverity(u, e.score))}}

\* What the transaction does to the alerts of campaign c.
UpsertAlerts(c, e) ==
  alerts' = [a \in EventId \X AlertType |->
               IF a[1] = c /\ Triggered(a[2], e.score)
               THEN UpsertAlert(alerts[a], e, TriggerSeverity(a[2], e.score))
               ELSE alerts[a]]

Enqueue(batch) ==
  outbox' = IF batch = {} THEN outbox ELSE Append(outbox, batch)

CampaignEventOf(type, c, e, stage) ==
  [type |-> type, campaign |-> c, evidence |-> e.id, stage |-> stage]

RecordStage(c, from, to, e) ==
  stage_history' = [stage_history EXCEPT ![c] =
                      Append(@, [from |-> from, to |-> to, evidence |-> e.id])]

-----------------------------------------------------------------------------
(***************************************************************************)
(* The branches of apply() once it holds the lock and has selected the     *)
(* active campaign of the key (None if there is none).                     *)
(***************************************************************************)
RecordStale(e, active) ==
  /\ active # None
  /\ IsStale(campaigns[active], e)
  /\ evidence' = [evidence EXCEPT ![e.id] = active]
  /\ UNCHANGED <<campaigns, stage_history, alerts, outbox>>

UpdateCampaign(e, active) ==
  LET old   == campaigns[active]
      stage == NextStage(old.stage, e.score)
      moved == IF stage = old.stage THEN {}
               ELSE {CampaignEventOf("campaign.stage_changed", active, e, stage)}
  IN /\ active # None
     /\ ~IsStale(old, e)
     /\ ~GapElapsed(old, e)
     /\ campaigns' = [campaigns EXCEPT ![active] = UpdatedCampaign(old, e, stage)]
     /\ evidence' = [evidence EXCEPT ![e.id] = active]
     /\ IF stage = old.stage THEN UNCHANGED stage_history
        ELSE RecordStage(active, old.stage, stage, e)
     /\ UpsertAlerts(active, e)
     /\ Enqueue(moved \cup AlertEvents(active, e))

CreateCampaign(e, active) ==
  LET stage   == NextStage("NORMAL", e.score)
      created == CampaignEventOf("campaign.created", e.id, e, stage)
      closed  == IF active = None THEN {}
                 ELSE {CampaignEventOf("campaign.closed", active, e, None)}
  IN /\ active # None => /\ ~IsStale(campaigns[active], e)
                         /\ GapElapsed(campaigns[active], e)
     /\ campaigns' =
          [c \in EventId |->
             IF c = e.id THEN NewCampaign(e, stage)
             ELSE IF c = active THEN ClosedCampaign(campaigns[c])
             ELSE campaigns[c]]
     /\ evidence' = [evidence EXCEPT ![e.id] = e.id]
     /\ RecordStage(e.id, None, stage, e)
     /\ UpsertAlerts(e.id, e)
     /\ Enqueue({created} \cup closed \cup AlertEvents(e.id, e))

ApplyEvidence(e, active) ==
  \/ RecordStale(e, active)
  \/ UpdateCampaign(e, active)
  \/ CreateCampaign(e, active)

-----------------------------------------------------------------------------
(***************************************************************************)
(* The detection service publishes a fusion score event.                   *)
(***************************************************************************)
PublishScore(e) ==
  /\ published[e.id] = None
  /\ published' = [published EXCEPT ![e.id] = e]

\* Duplicate evidence leaves the database alone, so only a first
\* application is a step.
Apply(i) ==
  /\ published[i] # None
  /\ evidence[i] = None
  /\ ApplyEvidence(published[i], SelectActive(published[i].key))
  /\ UNCHANGED published

\* An analyst acknowledges an alert; no event is enqueued.
AcknowledgeAlert(a) ==
  /\ alerts[a] # None
  /\ alerts[a].status # "ACKNOWLEDGED"
  /\ alerts' = [alerts EXCEPT ![a].status = "ACKNOWLEDGED", ![a].version = @ + 1]
  /\ UNCHANGED <<published, campaigns, evidence, stage_history, outbox>>

LedgerNext ==
  \/ \E e \in Evidence : PublishScore(e) /\ UNCHANGED db
  \/ \E i \in EventId : Apply(i)
  \/ \E a \in EventId \X AlertType : AcknowledgeAlert(a)

LedgerSpec == Init /\ [][LedgerNext]_ledgerVars

-----------------------------------------------------------------------------
(***************************************************************************)
(* Every table holds rows of its schema.                                   *)
(***************************************************************************)
LedgerTypeOK ==
  /\ published \in [EventId -> Optional(Evidence)]
  /\ campaigns \in [EventId -> Optional(Campaign)]
  /\ evidence \in [EventId -> Optional(EventId)]
  /\ stage_history \in [EventId -> Seq(StageChange)]
  /\ alerts \in [EventId \X AlertType -> Optional(Alert)]
  /\ outbox \in Seq(SUBSET (CampaignEvent \cup AlertEvent))

(***************************************************************************)
(* One active campaign per scope and asset: the transaction's lock, not    *)
(* the partial unique index behind it, is what keeps a second one out.     *)
(***************************************************************************)
OneActiveCampaign ==
  \A c, d \in EventId :
    /\ campaigns[c] # None /\ campaigns[c].status = "ACTIVE"
    /\ campaigns[d] # None /\ campaigns[d].status = "ACTIVE"
    /\ campaigns[c].key = campaigns[d].key
    => c = d

(***************************************************************************)
(* Two campaigns of one key never overlap in event time: more than the     *)
(* merge gap lies between the last evidence of one and the evidence that   *)
(* opened the other, whatever order the evidence arrived in.               *)
(***************************************************************************)
CampaignsSeparated ==
  \A c, d \in EventId :
    /\ campaigns[c] # None /\ campaigns[d] # None
    /\ c # d /\ campaigns[c].key = campaigns[d].key
    => \/ published[d].event_time - campaigns[c].last_evidence_at > MergeGap
       \/ published[c].event_time - campaigns[d].last_evidence_at > MergeGap

(***************************************************************************)
(* campaign_stage_history is an audit trail: for every campaign it is a    *)
(* chain of transitions the table of the state machine allows, it starts   *)
(* where a campaign can start, and it ends at the campaign's stage.        *)
(***************************************************************************)
StageHistoryIsPath ==
  \A c \in EventId :
    LET h == stage_history[c]
    IN IF campaigns[c] = None THEN h = <<>>
       ELSE /\ h # <<>>
            /\ h[1].from = None /\ h[1].to \in Transitions("NORMAL")
            /\ h[Len(h)].to = campaigns[c].stage
            /\ \A n \in 2 .. Len(h) :
                 /\ h[n].from = h[n - 1].to
                 /\ h[n].to \in Transitions(h[n].from) \ {h[n].from}

(***************************************************************************)
(* A consumer of alerts.events.v1 that reads every event knows the current *)
(* severity of every alert: the newest event of an alert carries the       *)
(* severity of its row, so suppression never hides a severity change.      *)
(***************************************************************************)
AlertEventsOf(a) ==
  {n \in DOMAIN outbox :
     \E x \in outbox[n] \cap AlertEvent : <<x.campaign, x.alert>> = a}
NotifiedSeverityIsCurrent ==
  \A a \in EventId \X AlertType :
    alerts[a] # None =>
      \E n \in AlertEventsOf(a) :
        /\ \A m \in AlertEventsOf(a) : m <= n
        /\ \A x \in outbox[n] \cap AlertEvent :
             <<x.campaign, x.alert>> = a => x.severity = alerts[a].severity

(***************************************************************************)
(* An unchanged alert is not notified again inside the suppression window: *)
(* a refresh follows every earlier event of the alert by at least          *)
(* alert_suppression_seconds of event time.                                *)
(***************************************************************************)
CooldownRespected ==
  \A m, n \in DOMAIN outbox : m < n =>
    \A x \in outbox[m] \cap AlertEvent, y \in outbox[n] \cap AlertEvent :
      /\ <<x.campaign, x.alert>> = <<y.campaign, y.alert>>
      /\ y.type = "alert.refreshed"
      => y.event_time - x.event_time >= Suppression

(***************************************************************************)
(* The events of one alert carry increasing versions in the order they are *)
(* enqueued, so no two events of an alert name the same version.           *)
(***************************************************************************)
AlertVersionsIncrease ==
  \A m, n \in DOMAIN outbox : m < n =>
    \A x \in outbox[m] \cap AlertEvent, y \in outbox[n] \cap AlertEvent :
      <<x.campaign, x.alert>> = <<y.campaign, y.alert>> => x.version < y.version

(***************************************************************************)
(* The evidence order of a key only moves forward: a campaign is updated,  *)
(* or replaced by a new one, only by evidence that is strictly later in    *)
(* the evaluation order than all evidence applied to the key before.       *)
(***************************************************************************)
AppliedForward ==
  [][\A c, d \in EventId :
       /\ campaigns[c] # None
       /\ campaigns'[d] # None /\ campaigns'[d] # campaigns[d]
       /\ campaigns'[d].key = campaigns[c].key
       /\ campaigns'[d].status = "ACTIVE"
       => ~LexLE(campaigns'[d].last_applied, campaigns[c].last_applied)]_campaigns

(***************************************************************************)
(* A row of campaign_evidence is written once: redelivered evidence never  *)
(* inserts a second row (the insert would violate the primary key and stop *)
(* the worker for good) or moves to another campaign.                      *)
(***************************************************************************)
EvidenceRowsAreFinal ==
  [][\A i \in EventId : evidence[i] # None => evidence'[i] = evidence[i]]_evidence

(***************************************************************************)
(* The tables agree with one another: the types; campaigns of a key apart  *)
(* by the merge gap; stage histories that are paths of the state machine;  *)
(* and the events of an alert rationed by its cooldown and in the order of *)
(* its versions.                                                           *)
(***************************************************************************)
LedgerInv ==
  LedgerTypeOK /\ CampaignsSeparated /\ StageHistoryIsPath /\ CooldownRespected
    /\ AlertVersionsIncrease
=============================================================================
