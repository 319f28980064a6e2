--------------------------- MODULE CampaignProofs ---------------------------
(***************************************************************************)
(* The campaign engine: what holds of the tables of CampaignLedger, and    *)
(* that the workers of CampaignEngine implement CampaignLedger, so that    *)
(* it holds of the tables they share.                                      *)
(***************************************************************************)
EXTENDS CampaignEngine, TLAPS

-----------------------------------------------------------------------------
(***************************************************************************)
(* The tables of CampaignLedger agree with one another, for any events,    *)
(* keys, scores, times and gaps.  The proof follows the evidence of one    *)
(* campaign: it is applied in the order of its event times, so the alerts  *)
(* of a campaign are notified in that order too, and a campaign is closed  *)
(* only by evidence that is later than all of its own.                     *)
(***************************************************************************)

\* A row of a campaign is younger than the evidence that created it, and its
\* two clocks, which the code keeps apart, show the same time.
RowInv ==
  /\ \A i \in EventId : published[i] # None => published[i].id = i
  /\ \A c \in EventId : campaigns[c] # None =>
       /\ evidence[c] # None /\ published[c] # None
       /\ published[c].key = campaigns[c].key
       /\ published[c].event_time <= campaigns[c].last_evidence_at
       /\ campaigns[c].last_applied[1] = campaigns[c].last_evidence_at

\* Of the campaigns of a key one is active, and it began more than the merge
\* gap after the last evidence of every closed one.
ActiveInv ==
  /\ OneActiveCampaign
  /\ \A c \in EventId : campaigns[c] # None =>
       \E d \in EventId : /\ campaigns[d] # None /\ campaigns[d].status = "ACTIVE"
                          /\ campaigns[d].key = campaigns[c].key
  /\ \A c, d \in EventId :
       /\ campaigns[c] # None /\ campaigns[c].status = "CLOSED"
       /\ campaigns[d] # None /\ campaigns[d].status = "ACTIVE"
       /\ campaigns[c].key = campaigns[d].key
       => published[d].event_time - campaigns[c].last_evidence_at > MergeGap

\* An alert belongs to a campaign and was notified by evidence applied to it.
AlertRowInv ==
  \A c \in EventId, t \in AlertType : alerts[<<c, t>>] # None =>
    /\ campaigns[c] # None
    /\ alerts[<<c, t>>].last_notified_at <= campaigns[c].last_applied[1]

\* An event of an alert is no newer than the alert's row.
EventInv ==
  \A n \in DOMAIN outbox : \A x \in outbox[n] \cap AlertEvent :
    LET row == alerts[<<x.campaign, x.alert>>]
    IN  row # None /\ x.version <= row.version /\ x.event_time <= row.last_notified_at

AlertInv ==
  EventInv /\ CooldownRespected /\ AlertVersionsIncrease /\ NotifiedSeverityIsCurrent

LInv ==
  /\ LedgerTypeOK /\ RowInv /\ ActiveInv /\ CampaignsSeparated /\ StageHistoryIsPath
  /\ AlertRowInv /\ AlertInv

-----------------------------------------------------------------------------
LEMMA EvidenceFields ==
  ASSUME NEW e \in Evidence
  PROVE  /\ e # None /\ e.id \in EventId /\ e.key \in Key /\ e.event_time \in Time
         /\ e.event_time \in Nat /\ e.score \in FusionResult
         /\ e.feature_revision \in Revision /\ e.profile \in Profile
  BY LedgerAssumption, NoneNotRow DEF Evidence

LEMMA SeverityIsRisk ==
  ASSUME NEW score \in FusionResult, NEW t
  PROVE  TriggerSeverity(t, score) \in RiskLevel
  <1>1. score.severity \in RiskLevel
    BY DEF FusionResult
  <1>2. \A risk : Severity(risk) \in RiskLevel
    BY DEF Severity, RiskLevel, RiskNormal, RiskWatch, RiskHigh, RiskCritical
  <1>3. \A a, b \in RiskLevel : max_risk(a, b) \in RiskLevel
    BY DEF max_risk
  <1>4. RiskWatch \in RiskLevel
    BY DEF RiskWatch, RiskLevel
  <1>5. QED
    BY <1>1, <1>2, <1>3, <1>4 DEF TriggerSeverity, SocialSeverity, MarketSeverity

(***************************************************************************)
(* What a trigger does to the row of an alert.                             *)
(***************************************************************************)
LEMMA UpsertedRow ==
  ASSUME NEW old \in Optional(Alert), NEW e \in Evidence, NEW s \in RiskLevel,
         old # None => old.last_notified_at <= e.event_time
  PROVE  LET new == UpsertAlert(old, e, s)
             quiet == old # None /\ Suppressed(old, e, s)
         IN  /\ new \in Alert
             /\ new.last_notified_at <= e.event_time
             /\ ~quiet => new.last_notified_at = e.event_time
             /\ quiet => new.severity = old.severity
             /\ old # None => /\ new.version > old.version
                              /\ old.last_notified_at <= new.last_notified_at
             /\ AlertEventType(old, s) \in
                  {"alert.created", "alert.severity_changed", "alert.refreshed"}
             /\ (~quiet /\ AlertEventType(old, s) = "alert.refreshed") =>
                  /\ old # None
                  /\ e.event_time - old.last_notified_at >= Suppression
  <1>1. e.event_time \in Time /\ e.event_time \in Nat /\ Time \subseteq Nat
    BY EvidenceFields, LedgerAssumption
  <1>2. CASE old = None
    BY <1>1, <1>2 DEF UpsertAlert, NewAlert, Alert, AlertEventType
  <1>3. CASE old # None
    <2> DEFINE new == UpdatedAlert(old, e, s)
    <2>1. old \in Alert
      BY <1>3 DEF Optional
    <2>2. /\ old.severity \in RiskLevel /\ max_risk(old.severity, s) \in RiskLevel
          /\ old.last_triggered_at \in Time /\ old.last_notified_at \in Time
          /\ old.last_notified_at \in Nat /\ old.version \in Nat \ {0}
          /\ old.occurrence_count \in Nat \ {0}
      BY <1>1, <2>1 DEF Alert, max_risk
    <2>3. /\ new.version = old.version + 1
          /\ new.severity = max_risk(old.severity, s)
          /\ new.last_notified_at =
               IF Suppressed(old, e, s) THEN old.last_notified_at ELSE e.event_time
      BY <2>1 DEF UpdatedAlert, Alert
    <2>4. new \in Alert
      <3> DEFINE triggered == IF e.event_time > old.last_triggered_at
                              THEN e.event_time ELSE old.last_triggered_at
                 notified == IF Suppressed(old, e, s)
                             THEN old.last_notified_at ELSE e.event_time
                 r1 == [old EXCEPT !.last_triggered_at = triggered]
                 r2 == [r1 EXCEPT !.occurrence_count = old.occurrence_count + 1]
                 r3 == [r2 EXCEPT !.status = "ACTIVE"]
                 r4 == [r3 EXCEPT !.severity = max_risk(old.severity, s)]
                 r5 == [r4 EXCEPT !.version = old.version + 1]
                 r6 == [r5 EXCEPT !.last_notified_at = notified]
      <3>1. triggered \in Time /\ notified \in Time
        BY <1>1, <2>2
      <3>2. old.occurrence_count + 1 \in Nat \ {0} /\ old.version + 1 \in Nat \ {0}
        BY <2>2
      <3>3. new = r6
        BY DEF UpdatedAlert
      <3> HIDE DEF new, triggered, notified
      <3>4. r1 \in Alert
        BY <2>1, <3>1 DEF Alert
      <3> HIDE DEF r1
      <3>5. r2 \in Alert
        BY <3>2, <3>4 DEF Alert
      <3> HIDE DEF r2
      <3>6. r3 \in Alert
        BY <3>5 DEF Alert
      <3> HIDE DEF r3
      <3>7. r4 \in Alert
        BY <2>2, <3>6 DEF Alert
      <3> HIDE DEF r4
      <3>8. r5 \in Alert
        BY <3>2, <3>7 DEF Alert
      <3> HIDE DEF r5
      <3>9. QED
        BY <3>1, <3>3, <3>8 DEF Alert
    <2>5. Suppressed(old, e, s) => new.severity = old.severity
      BY <2>3 DEF Suppressed, SeverityChanged
    <2>6. AlertEventType(old, s) = "alert.refreshed" =>
            (~Suppressed(old, e, s) => e.event_time - old.last_notified_at >= Suppression)
      BY <1>1, <1>3, <2>2, LedgerAssumption DEF AlertEventType, Suppressed
    <2>7. UpsertAlert(old, e, s) = new
      BY <1>3 DEF UpsertAlert
    <2> HIDE DEF new
    <2>8. AlertEventType(old, s) \in
            {"alert.created", "alert.severity_changed", "alert.refreshed"}
      BY DEF AlertEventType
    <2>9. QED
      BY <1>1, <1>3, <2>2, <2>3, <2>4, <2>5, <2>6, <2>7, <2>8
  <1>4. QED
    BY <1>2, <1>3

\* The row of alert a after evidence e was applied to campaign c.
RowAfter(c, e, a) ==
  IF a[1] = c /\ Triggered(a[2], e.score)
  THEN UpsertAlert(alerts[a], e, TriggerSeverity(a[2], e.score)) ELSE alerts[a]

LEMMA EventOfTrigger ==
  ASSUME NEW c, NEW e \in Evidence, NEW x \in AlertEvents(c, e)
  PROVE  LET old == alerts[<<c, x.alert>>]
             s == TriggerSeverity(x.alert, e.score)
         IN  /\ x.alert \in AlertType /\ Triggered(x.alert, e.score)
             /\ old = None \/ ~Suppressed(old, e, s)
             /\ x = [type |-> AlertEventType(old, s), campaign |-> c, alert |-> x.alert,
                     evidence |-> e.id, severity |-> UpsertAlert(old, e, s).severity,
                     version |-> UpsertAlert(old, e, s).version,
                     event_time |-> e.event_time]
  <1> DEFINE old(t) == alerts[<<c, t>>]
             s(t) == TriggerSeverity(t, e.score)
             event(t) == [type |-> AlertEventType(old(t), s(t)), campaign |-> c,
                          alert |-> t, evidence |-> e.id,
                          severity |-> UpsertAlert(old(t), e, s(t)).severity,
                          version |-> UpsertAlert(old(t), e, s(t)).version,
                          event_time |-> e.event_time]
             notified(t) == /\ Triggered(t, e.score)
                            /\ old(t) = None \/ ~Suppressed(old(t), e, s(t))
  <1>1. AlertEvents(c, e) = {event(t) : t \in {u \in AlertType : notified(u)}}
    BY Zenon DEF AlertEvents
  <1>2. \A t : event(t).alert = t
    OBVIOUS
  <1> HIDE DEF notified, event
  <1>3. PICK t \in {u \in AlertType : notified(u)} : x = event(t)
    BY <1>1, Zenon
  <1>4. t \in AlertType /\ notified(t) /\ x.alert = t
    BY <1>2, <1>3
  <1>5. x = event(x.alert) /\ x.alert \in AlertType /\ notified(x.alert)
    BY <1>3, <1>4
  <1>6. QED
    BY <1>5 DEF event, notified

LEMMA TriggerIsNotified ==
  ASSUME NEW c, NEW e \in Evidence, NEW t \in AlertType, Triggered(t, e.score),
         \/ alerts[<<c, t>>] = None
         \/ ~Suppressed(alerts[<<c, t>>], e, TriggerSeverity(t, e.score))
  PROVE  \E x \in AlertEvents(c, e) : x.campaign = c /\ x.alert = t
  <1> DEFINE old(u) == alerts[<<c, u>>]
             s(u) == TriggerSeverity(u, e.score)
             event(u) == [type |-> AlertEventType(old(u), s(u)), campaign |-> c,
                          alert |-> u, evidence |-> e.id,
                          severity |-> UpsertAlert(old(u), e, s(u)).severity,
                          version |-> UpsertAlert(old(u), e, s(u)).version,
                          event_time |-> e.event_time]
             notified(u) == /\ Triggered(u, e.score)
                            /\ old(u) = None \/ ~Suppressed(old(u), e, s(u))
  <1>1. AlertEvents(c, e) = {event(u) : u \in {v \in AlertType : notified(v)}}
    BY Zenon DEF AlertEvents
  <1>2. event(t).campaign = c /\ event(t).alert = t
    OBVIOUS
  <1>3. notified(t)
    OBVIOUS
  <1> HIDE DEF notified, event
  <1>4. event(t) \in AlertEvents(c, e)
    BY <1>1, <1>3, Zenon
  <1>5. QED
    BY <1>2, <1>4

(***************************************************************************)
(* What one transaction does to the alerts of the campaign it writes, whose*)
(* rows were notified no later than the evidence.                          *)
(***************************************************************************)
LEMMA RowsAfter ==
  ASSUME LedgerTypeOK, NEW c \in EventId, NEW e \in Evidence,
         \A t \in AlertType : alerts[<<c, t>>] # None =>
           alerts[<<c, t>>].last_notified_at <= e.event_time,
         NEW a \in EventId \X AlertType
  PROVE  LET new == RowAfter(c, e, a)
         IN  /\ new \in Optional(Alert)
             /\ a[1] # c => new = alerts[a]
             /\ a[1] = c /\ new # None => new.last_notified_at <= e.event_time
             /\ alerts[a] # None =>
                  /\ new # None /\ alerts[a].version <= new.version
                  /\ alerts[a].last_notified_at <= new.last_notified_at
             /\ new # None =>
                  \/ \E x \in AlertEvents(c, e) : <<x.campaign, x.alert>> = a
                  \/ alerts[a] # None /\ new.severity = alerts[a].severity
  <1> DEFINE old == alerts[a]
             s == TriggerSeverity(a[2], e.score)
  <1>1. /\ old \in Optional(Alert) /\ a = <<a[1], a[2]>> /\ a[1] \in EventId
        /\ a[2] \in AlertType
    BY DEF LedgerTypeOK
  <1>2. old # None => /\ old.version \in Nat /\ old.last_notified_at \in Nat
    BY <1>1, LedgerAssumption DEF Optional, Alert
  <1>3. e.score \in FusionResult /\ e.event_time \in Nat
    BY EvidenceFields
  <1>4. CASE a[1] = c /\ Triggered(a[2], e.score)
    <2>1. s \in RiskLevel
      BY <1>3, SeverityIsRisk
    <2>2. old # None => old.last_notified_at <= e.event_time
      BY <1>1, <1>4
    <2> DEFINE new == UpsertAlert(old, e, s)
    <2>3. /\ new \in Alert
          /\ new.last_notified_at <= e.event_time
          /\ (old # None /\ Suppressed(old, e, s)) => new.severity = old.severity
          /\ old # None => /\ new.version > old.version
                           /\ old.last_notified_at <= new.last_notified_at
      BY <1>1, <2>1, <2>2, UpsertedRow
    <2>4. new.version \in Nat
      BY <2>3 DEF Alert
    <2>5. old = None \/ ~Suppressed(old, e, s) =>
            \E x \in AlertEvents(c, e) : <<x.campaign, x.alert>> = a
      BY <1>1, <1>4, TriggerIsNotified
    <2>6. RowAfter(c, e, a) = new
      BY <1>4 DEF RowAfter
    <2> HIDE DEF new, old, s
    <2>7. old # None => old.version <= new.version
      BY <1>2, <2>3, <2>4
    <2>8. new \in Optional(Alert) /\ new # None
      BY <2>3, NoneNotRow DEF Optional
    <2>9. QED
      BY <1>4, <2>3, <2>5, <2>6, <2>7, <2>8 DEF old
  <1>5. CASE ~(a[1] = c /\ Triggered(a[2], e.score))
    <2>1. RowAfter(c, e, a) = old
      BY <1>5 DEF RowAfter
    <2>2. old # None => /\ old.version <= old.version
                        /\ old.last_notified_at <= old.last_notified_at
      BY <1>2
    <2>3. a[1] = c /\ old # None => old.last_notified_at <= e.event_time
      BY <1>1
    <2>4. QED
      BY <1>1, <2>1, <2>2, <2>3
  <1>6. QED
    BY <1>4, <1>5

(***************************************************************************)
(* An event of the transaction describes the row it leaves behind, and a   *)
(* refresh comes after the cooldown.                                       *)
(***************************************************************************)
LEMMA EventsAfter ==
  ASSUME LedgerTypeOK, NEW c \in EventId, NEW e \in Evidence,
         \A t \in AlertType : alerts[<<c, t>>] # None =>
           alerts[<<c, t>>].last_notified_at <= e.event_time,
         NEW x \in AlertEvents(c, e)
  PROVE  LET old == alerts[<<c, x.alert>>]
             new == RowAfter(c, e, <<c, x.alert>>)
         IN  /\ x \in AlertEvent /\ x.campaign = c
             /\ new # None /\ x.version = new.version /\ x.severity = new.severity
             /\ x.event_time = new.last_notified_at
             /\ old # None => x.version > old.version
             /\ x.type = "alert.refreshed" =>
                  old # None /\ x.event_time - old.last_notified_at >= Suppression
  <1> DEFINE old == alerts[<<c, x.alert>>]
             s == TriggerSeverity(x.alert, e.score)
             new == UpsertAlert(old, e, s)
  <1>1. /\ x.alert \in AlertType /\ Triggered(x.alert, e.score)
        /\ old = None \/ ~Suppressed(old, e, s)
        /\ x = [type |-> AlertEventType(old, s), campaign |-> c, alert |-> x.alert,
                evidence |-> e.id, severity |-> new.severity, version |-> new.version,
                event_time |-> e.event_time]
    BY EventOfTrigger
  <1>2. /\ old \in Optional(Alert)
        /\ old # None => old.last_notified_at <= e.event_time
    BY <1>1 DEF LedgerTypeOK
  <1>3. /\ e.score \in FusionResult /\ e.event_time \in Time /\ e.id \in EventId
        /\ s \in RiskLevel
    BY EvidenceFields, SeverityIsRisk
  <1>4. /\ new \in Alert
        /\ new.last_notified_at = e.event_time
        /\ old # None => new.version > old.version
        /\ AlertEventType(old, s) \in
             {"alert.created", "alert.severity_changed", "alert.refreshed"}
        /\ AlertEventType(old, s) = "alert.refreshed" =>
             old # None /\ e.event_time - old.last_notified_at >= Suppression
    <2> HIDE DEF old, s
    <2>1. ~(old # None /\ Suppressed(old, e, s))
      BY <1>1
    <2>2. old \in Optional(Alert) /\ s \in RiskLevel
          /\ (old # None => old.last_notified_at <= e.event_time)
      BY <1>2, <1>3
    <2>3. /\ new \in Alert
          /\ ~(old # None /\ Suppressed(old, e, s)) =>
               new.last_notified_at = e.event_time
          /\ old # None => new.version > old.version
      BY <2>2, UpsertedRow
    <2>4. AlertEventType(old, s) \in
            {"alert.created", "alert.severity_changed", "alert.refreshed"}
      BY <2>2, UpsertedRow
    <2>5. AlertEventType(old, s) = "alert.refreshed" =>
            old # None /\ e.event_time - old.last_notified_at >= Suppression
      BY <2>1, <2>2, UpsertedRow
    <2>6. QED
      BY <2>1, <2>3, <2>4, <2>5
  <1>5. RowAfter(c, e, <<c, x.alert>>) = new
    BY <1>1 DEF RowAfter
  <1>6. new # None /\ new.severity \in RiskLevel /\ new.version \in Nat \ {0}
    BY <1>4, NoneNotRow DEF Alert
  <1> HIDE DEF new, old, s
  <1>7. x \in AlertEvent
    BY <1>1, <1>3, <1>4, <1>6 DEF AlertEvent
  <1>8. /\ x.campaign = c /\ x.type = AlertEventType(old, s)
        /\ x.severity = new.severity /\ x.version = new.version
        /\ x.event_time = e.event_time
    BY <1>1
  <1>9. QED
    BY <1>4, <1>5, <1>6, <1>7, <1>8 DEF old

LEMMA CampaignEventsAreNotAlertEvents == CampaignEvent \cap AlertEvent = {}
  <1>1. \A x \in CampaignEvent :
          x.type \in {"campaign.created", "campaign.stage_changed", "campaign.closed"}
    BY DEF CampaignEvent
  <1>2. \A x \in AlertEvent :
          x.type \in {"alert.created", "alert.severity_changed", "alert.refreshed"}
    BY DEF AlertEvent
  <1>3. QED
    BY <1>1, <1>2

\* The batches of the outbox after one more of them, which may be empty.
LEMMA OutboxAfter ==
  ASSUME outbox \in Seq(SUBSET (CampaignEvent \cup AlertEvent)),
         NEW batch \in SUBSET (CampaignEvent \cup AlertEvent), Enqueue(batch)
  PROVE  /\ outbox' \in Seq(SUBSET (CampaignEvent \cup AlertEvent))
         /\ Len(outbox) \in Nat /\ DOMAIN outbox = 1 .. Len(outbox)
         /\ \A n \in DOMAIN outbox : n \in DOMAIN outbox' /\ outbox'[n] = outbox[n]
         /\ \A n \in DOMAIN outbox' :
              n \in DOMAIN outbox \/ (n = Len(outbox) + 1 /\ outbox'[n] = batch)
         /\ batch # {} => /\ Len(outbox) + 1 \in DOMAIN outbox'
                          /\ outbox'[Len(outbox) + 1] = batch
  <1>1. CASE batch = {}
    <2>1. outbox' = outbox
      BY <1>1 DEF Enqueue
    <2>2. Len(outbox) \in Nat /\ DOMAIN outbox = 1 .. Len(outbox)
      OBVIOUS
    <2>3. QED
      BY <1>1, <2>1, <2>2
  <1>2. CASE batch # {}
    <2>1. outbox' = Append(outbox, batch)
      BY <1>2 DEF Enqueue
    <2>2. QED
      BY <2>1
  <1>3. QED
    BY <1>1, <1>2

(***************************************************************************)
(* A transaction keeps what the outbox says about the alerts: it writes    *)
(* the rows of one campaign, notified no later than its evidence, and      *)
(* enqueues their events in one batch.                                     *)
(***************************************************************************)
LEMMA AlertsStep ==
  ASSUME LedgerTypeOK, AlertInv, NEW c \in EventId, NEW e \in Evidence,
         NEW other \in SUBSET CampaignEvent,
         \A t \in AlertType : alerts[<<c, t>>] # None =>
           alerts[<<c, t>>].last_notified_at <= e.event_time,
         UpsertAlerts(c, e), Enqueue(other \cup AlertEvents(c, e))
  PROVE  /\ alerts' \in [EventId \X AlertType -> Optional(Alert)]
         /\ outbox' \in Seq(SUBSET (CampaignEvent \cup AlertEvent))
         /\ \A t \in AlertType : alerts'[<<c, t>>] # None =>
              alerts'[<<c, t>>].last_notified_at <= e.event_time
         /\ \A a \in EventId \X AlertType : a[1] # c => alerts'[a] = alerts[a]
         /\ AlertInv'
  <1> DEFINE batch == other \cup AlertEvents(c, e)
             last == Len(outbox) + 1
  <1>1. \A a \in EventId \X AlertType : alerts'[a] = RowAfter(c, e, a)
    BY DEF UpsertAlerts, RowAfter
  <1>2. \A a \in EventId \X AlertType :
          /\ alerts'[a] \in Optional(Alert)
          /\ a[1] # c => alerts'[a] = alerts[a]
          /\ a[1] = c /\ alerts'[a] # None =>
               alerts'[a].last_notified_at <= e.event_time
          /\ alerts[a] # None =>
               /\ alerts'[a] # None /\ alerts[a].version <= alerts'[a].version
               /\ alerts[a].last_notified_at <= alerts'[a].last_notified_at
          /\ alerts'[a] # None =>
               \/ \E x \in AlertEvents(c, e) : <<x.campaign, x.alert>> = a
               \/ alerts[a] # None /\ alerts'[a].severity = alerts[a].severity
    BY <1>1, RowsAfter
  <1>3. \A x \in AlertEvents(c, e) :
          LET a == <<x.campaign, x.alert>>
          IN  /\ x \in AlertEvent /\ x.campaign = c /\ a \in EventId \X AlertType
              /\ alerts'[a] # None /\ x.version = alerts'[a].version
              /\ x.severity = alerts'[a].severity
              /\ x.event_time = alerts'[a].last_notified_at
              /\ alerts[a] # None => x.version > alerts[a].version
              /\ x.type = "alert.refreshed" =>
                   /\ alerts[a] # None
                   /\ x.event_time - alerts[a].last_notified_at >= Suppression
    <2> SUFFICES ASSUME NEW x \in AlertEvents(c, e)
                 PROVE  LET a == <<x.campaign, x.alert>>
                        IN  /\ x \in AlertEvent /\ x.campaign = c
                            /\ a \in EventId \X AlertType
                            /\ alerts'[a] # None /\ x.version = alerts'[a].version
                            /\ x.severity = alerts'[a].severity
                            /\ x.event_time = alerts'[a].last_notified_at
                            /\ alerts[a] # None => x.version > alerts[a].version
                            /\ x.type = "alert.refreshed" =>
                                 /\ alerts[a] # None
                                 /\ x.event_time - alerts[a].last_notified_at >= Suppression
      OBVIOUS
    <2>1. x \in AlertEvent /\ x.campaign = c
      BY EventsAfter
    <2>2. x.alert \in AlertType
      BY <2>1 DEF AlertEvent
    <2>3. RowAfter(c, e, <<c, x.alert>>) = alerts'[<<c, x.alert>>]
      BY <1>1, <2>2
    <2>4. QED
      BY <2>1, <2>2, <2>3, EventsAfter
  <1>4. alerts' \in [EventId \X AlertType -> Optional(Alert)]
    BY <1>2 DEF UpsertAlerts
  <1>5. batch \in SUBSET (CampaignEvent \cup AlertEvent)
    BY <1>3
  <1>6. /\ outbox' \in Seq(SUBSET (CampaignEvent \cup AlertEvent))
        /\ Len(outbox) \in Nat /\ DOMAIN outbox = 1 .. Len(outbox)
        /\ \A n \in DOMAIN outbox : n \in DOMAIN outbox' /\ outbox'[n] = outbox[n]
        /\ \A n \in DOMAIN outbox' :
             n \in DOMAIN outbox \/ (n = last /\ outbox'[n] = batch)
        /\ batch # {} => last \in DOMAIN outbox' /\ outbox'[last] = batch
    BY <1>5, OutboxAfter DEF LedgerTypeOK
  <1>7. batch \cap AlertEvent = AlertEvents(c, e)
    BY <1>3, CampaignEventsAreNotAlertEvents
  <1>8. \A x \in AlertEvent : /\ <<x.campaign, x.alert>> \in EventId \X AlertType
                              /\ x.version \in Nat /\ x.event_time \in Nat
    BY LedgerAssumption DEF AlertEvent
  <1>9. \A a \in EventId \X AlertType :
          /\ alerts[a] # None => /\ alerts[a].version \in Nat
                                 /\ alerts[a].last_notified_at \in Nat
          /\ alerts'[a] # None => /\ alerts'[a].version \in Nat
                                  /\ alerts'[a].last_notified_at \in Nat
    BY <1>2, LedgerAssumption DEF LedgerTypeOK, Optional, Alert
  <1> HIDE DEF batch, last
  <1>10. ASSUME NEW n \in DOMAIN outbox, NEW x \in outbox[n] \cap AlertEvent
         PROVE  LET a == <<x.campaign, x.alert>>
                IN  /\ a \in EventId \X AlertType /\ alerts[a] # None
                    /\ x.version <= alerts[a].version
                    /\ x.event_time <= alerts[a].last_notified_at
    BY <1>8, <1>10 DEF AlertInv, EventInv
  <1>11. EventInv'
    <2> SUFFICES ASSUME NEW n \in DOMAIN outbox', NEW x \in outbox'[n] \cap AlertEvent
                 PROVE  LET row == alerts'[<<x.campaign, x.alert>>]
                        IN  /\ row # None /\ x.version <= row.version
                            /\ x.event_time <= row.last_notified_at
      BY DEF EventInv
    <2> DEFINE a == <<x.campaign, x.alert>>
    <2>1. CASE n \in DOMAIN outbox
      <3>1. /\ a \in EventId \X AlertType /\ alerts[a] # None
            /\ x.version <= alerts[a].version
            /\ x.event_time <= alerts[a].last_notified_at
        BY <1>6, <1>10, <2>1
      <3>2. x.version \in Nat /\ x.event_time \in Nat
        BY <1>8
      <3> HIDE DEF a
      <3>3. QED
        BY <1>2, <1>9, <3>1, <3>2 DEF a
    <2>2. CASE n = last /\ outbox'[n] = batch
      <3>1. x \in AlertEvents(c, e)
        BY <1>7, <2>2
      <3>2. x.version \in Nat /\ x.event_time \in Nat
        BY <1>8
      <3>3. QED
        BY <1>3, <3>1, <3>2
    <2>3. QED
      BY <1>6, <2>1, <2>2
  <1>12. ASSUME NEW m \in DOMAIN outbox', NEW n \in DOMAIN outbox', m < n,
                NEW x \in outbox'[m] \cap AlertEvent, NEW y \in outbox'[n] \cap AlertEvent,
                <<x.campaign, x.alert>> = <<y.campaign, y.alert>>
         PROVE  /\ x.version < y.version
                /\ y.type = "alert.refreshed" => y.event_time - x.event_time >= Suppression
    <2> DEFINE a == <<x.campaign, x.alert>>
    <2>1. m \in DOMAIN outbox /\ outbox'[m] = outbox[m]
      BY <1>6, <1>12 DEF last
    <2>2. CASE n \in DOMAIN outbox
      BY <1>6, <1>12, <2>1, <2>2 DEF AlertInv, CooldownRespected, AlertVersionsIncrease
    <2>3. CASE n = last /\ outbox'[n] = batch
      <3>1. y \in AlertEvents(c, e)
        BY <1>7, <2>3
      <3>2. /\ a \in EventId \X AlertType /\ alerts[a] # None
            /\ x.version <= alerts[a].version
            /\ x.event_time <= alerts[a].last_notified_at
        BY <1>10, <2>1
      <3>3. /\ y.version > alerts[a].version
            /\ y.type = "alert.refreshed" =>
                 y.event_time - alerts[a].last_notified_at >= Suppression
        BY <1>3, <1>12, <3>1, <3>2
      <3>4. /\ x.version \in Nat /\ x.event_time \in Nat
            /\ y.version \in Nat /\ y.event_time \in Nat
            /\ alerts[a].version \in Nat /\ alerts[a].last_notified_at \in Nat
        BY <1>8, <1>9, <3>2
      <3> HIDE DEF a
      <3>5. QED
        BY <3>2, <3>3, <3>4, LedgerAssumption
    <2>4. QED
      BY <1>6, <2>2, <2>3
  <1>13. NotifiedSeverityIsCurrent'
    <2> SUFFICES ASSUME NEW a \in EventId \X AlertType, alerts'[a] # None
                 PROVE  \E n \in AlertEventsOf(a)' :
                          /\ \A m \in AlertEventsOf(a)' : m <= n
                          /\ \A x \in outbox'[n] \cap AlertEvent :
                               <<x.campaign, x.alert>> = a =>
                                 x.severity = alerts'[a].severity
      BY Zenon DEF NotifiedSeverityIsCurrent
    <2>1. AlertEventsOf(a)' = {n \in DOMAIN outbox' :
                                \E x \in outbox'[n] \cap AlertEvent :
                                  <<x.campaign, x.alert>> = a}
      BY DEF AlertEventsOf
    <2>2. CASE \E x \in AlertEvents(c, e) : <<x.campaign, x.alert>> = a
      <3>1. batch # {}
        BY <2>2 DEF batch
      <3>2. last \in AlertEventsOf(a)'
        BY <1>3, <1>6, <1>7, <2>1, <2>2, <3>1
      <3>3. \A m \in AlertEventsOf(a)' : m <= last
        BY <1>6, <2>1 DEF last
      <3>4. \A x \in outbox'[last] \cap AlertEvent :
              <<x.campaign, x.alert>> = a => x.severity = alerts'[a].severity
        BY <1>3, <1>6, <1>7, <3>1
      <3>5. QED
        BY <3>2, <3>3, <3>4
    <2>3. CASE ~ \E x \in AlertEvents(c, e) : <<x.campaign, x.alert>> = a
      <3>1. alerts[a] # None /\ alerts'[a].severity = alerts[a].severity
        BY <1>2, <2>3
      <3>2. AlertEventsOf(a)' = AlertEventsOf(a)
        <4>1. AlertEventsOf(a) = {n \in DOMAIN outbox :
                                   \E x \in outbox[n] \cap AlertEvent :
                                     <<x.campaign, x.alert>> = a}
          BY DEF AlertEventsOf
        <4>2. QED
          BY <1>6, <1>7, <2>1, <2>3, <4>1
      <3>3. PICK n \in AlertEventsOf(a) :
              /\ \A m \in AlertEventsOf(a) : m <= n
              /\ \A x \in outbox[n] \cap AlertEvent :
                   <<x.campaign, x.alert>> = a => x.severity = alerts[a].severity
        BY <3>1, Zenon DEF AlertInv, NotifiedSeverityIsCurrent
      <3>4. n \in DOMAIN outbox
        BY DEF AlertEventsOf
      <3>5. outbox'[n] = outbox[n]
        BY <1>6, <3>4
      <3>6. QED
        BY <3>1, <3>2, <3>3, <3>5
    <2>4. QED
      BY <2>2, <2>3
  <1>14. AlertInv'
    BY <1>11, <1>12, <1>13 DEF AlertInv, CooldownRespected, AlertVersionsIncrease
  <1>15. \A t \in AlertType : alerts'[<<c, t>>] # None =>
           alerts'[<<c, t>>].last_notified_at <= e.event_time
    BY <1>2
  <1>16. QED
    BY <1>2, <1>4, <1>6, <1>14, <1>15

-----------------------------------------------------------------------------
LEMMA NaturalConstants ==
  Time \subseteq Nat /\ Revision \subseteq Nat /\ Profile \subseteq Nat /\ 1 .. 3 \subseteq Nat
  <1>1. 1 .. 3 \subseteq Nat /\ 0 .. 3 \subseteq Nat
    OBVIOUS
  <1>2. Profile \subseteq 0 .. 3
    BY LedgerAssumption, Zenon
  <1>3. QED
    BY <1>1, <1>2, LedgerAssumption, Zenon

LEMMA CampaignFields ==
  ASSUME NEW r \in Campaign
  PROVE  /\ r # None /\ r.key \in Key /\ r.stage \in Stage
         /\ r.status \in {"ACTIVE", "CLOSED"} /\ r.max_severity \in RiskLevel
         /\ r.last_evidence_at \in Time /\ r.last_evidence_at \in Nat
         /\ r.last_applied \in Time \X Revision \X (1 .. 3) \X Profile
         /\ r.last_applied[1] \in Nat /\ r.last_applied[2] \in Nat
         /\ r.last_applied[3] \in Nat /\ r.last_applied[4] \in Nat
         /\ r.version \in Nat \ {0}
  <1> DEFINE o == r.last_applied
  <1>1. /\ r # None /\ r.key \in Key /\ r.stage \in Stage
        /\ r.status \in {"ACTIVE", "CLOSED"} /\ r.max_severity \in RiskLevel
        /\ r.last_evidence_at \in Time /\ r.version \in Nat \ {0}
        /\ o \in Time \X Revision \X (1 .. 3) \X Profile
    BY NoneNotRow DEF Campaign
  <1> HIDE DEF o
  <1>2. o[1] \in Time /\ o[2] \in Revision /\ o[3] \in 1 .. 3 /\ o[4] \in Profile
    BY <1>1
  <1>3. o[1] \in Nat /\ o[2] \in Nat /\ o[3] \in Nat /\ o[4] \in Nat
    BY <1>2, NaturalConstants, Zenon
  <1>4. r.last_evidence_at \in Nat
    BY <1>1, NaturalConstants
  <1>5. QED
    BY <1>1, <1>3, <1>4 DEF o

LEMMA OrderOfEvidence ==
  ASSUME NEW e \in Evidence
  PROVE  /\ EvaluationOrder(e) \in Time \X Revision \X (1 .. 3) \X Profile
         /\ EvaluationOrder(e)[1] = e.event_time
         /\ EvaluationOrder(e)[1] \in Nat /\ EvaluationOrder(e)[2] \in Nat
         /\ EvaluationOrder(e)[3] \in Nat /\ EvaluationOrder(e)[4] \in Nat
  <1>1. fusion_revision(e.profile) \in 1 .. 3
    BY DEF fusion_revision
  <1>2. /\ e.event_time \in Time /\ e.feature_revision \in Revision
        /\ e.profile \in Profile
    BY EvidenceFields
  <1>3. /\ e.event_time \in Nat /\ e.feature_revision \in Nat /\ e.profile \in Nat
        /\ fusion_revision(e.profile) \in Nat
    BY <1>1, <1>2, NaturalConstants, Zenon
  <1>4. QED
    BY <1>1, <1>2, <1>3 DEF EvaluationOrder

LEMMA NextStageInTable ==
  ASSUME NEW s \in Stage, NEW score
  PROVE  /\ NextStage(s, score) \in Transitions(s)
         /\ NextStage(s, score) \in Stage
  BY DEF NextStage, Transitions, Stage

\* Evidence that is not stale moves the clocks of the campaign to its time.
LEMMA UpdatedRow ==
  ASSUME NEW r \in Campaign, NEW e \in Evidence, NEW stage \in Stage, ~IsStale(r, e),
         r.last_applied[1] = r.last_evidence_at
  PROVE  LET new == UpdatedCampaign(r, e, stage)
         IN  /\ new \in Campaign /\ new.key = r.key /\ new.status = r.status
             /\ new.stage = stage
             /\ new.last_evidence_at = e.event_time
             /\ new.last_applied = EvaluationOrder(e)
             /\ r.last_evidence_at <= e.event_time
  <1>1. /\ r.last_evidence_at \in Nat /\ e.event_time \in Nat /\ e.event_time \in Time
        /\ e.score.severity \in RiskLevel
    BY CampaignFields, EvidenceFields DEF FusionResult
  <1>2. r.last_evidence_at <= e.event_time
    BY <1>1, CampaignFields, OrderOfEvidence DEF IsStale, LexLE
  <1> DEFINE latest == IF e.event_time > r.last_evidence_at
                       THEN e.event_time ELSE r.last_evidence_at
             worst == max_risk(r.max_severity, e.score.severity)
             r1 == [r EXCEPT !.stage = stage]
             r2 == [r1 EXCEPT !.last_evidence_at = latest]
             r3 == [r2 EXCEPT !.max_severity = worst]
             r4 == [r3 EXCEPT !.last_applied = EvaluationOrder(e)]
             r5 == [r4 EXCEPT !.version = r.version + 1]
  <1>3. latest = e.event_time /\ worst \in RiskLevel /\ r.version + 1 \in Nat \ {0}
    BY <1>1, <1>2, CampaignFields DEF max_risk
  <1>4. UpdatedCampaign(r, e, stage) = r5
    BY DEF UpdatedCampaign, Campaign
  <1>5. /\ r5.key = r.key /\ r5.status = r.status /\ r5.stage = stage
        /\ r5.last_evidence_at = latest /\ r5.last_applied = EvaluationOrder(e)
    BY DEF Campaign
  <1> HIDE DEF latest, worst
  <1>6. r1 \in Campaign
    BY DEF Campaign
  <1> HIDE DEF r1
  <1>7. r2 \in Campaign
    BY <1>1, <1>3, <1>6 DEF Campaign
  <1> HIDE DEF r2
  <1>8. r3 \in Campaign
    BY <1>3, <1>7 DEF Campaign
  <1> HIDE DEF r3
  <1>9. r4 \in Campaign
    BY <1>8, OrderOfEvidence DEF Campaign
  <1> HIDE DEF r4
  <1>10. r5 \in Campaign
    BY <1>3, <1>9 DEF Campaign
  <1> HIDE DEF r5
  <1>11. QED
    BY <1>2, <1>3, <1>4, <1>5, <1>10

LEMMA ClosedRow ==
  ASSUME NEW r \in Campaign
  PROVE  LET new == ClosedCampaign(r)
         IN  /\ new \in Campaign /\ new.key = r.key /\ new.status = "CLOSED"
             /\ new.stage = r.stage /\ new.last_evidence_at = r.last_evidence_at
             /\ new.last_applied = r.last_applied
  <1> DEFINE r1 == [r EXCEPT !.status = "CLOSED"]
  <1>1. r.version + 1 \in Nat \ {0}
    BY CampaignFields
  <1>2. r1 \in Campaign
    BY DEF Campaign
  <1>3. ClosedCampaign(r) = [r1 EXCEPT !.version = r.version + 1]
    BY DEF ClosedCampaign, Campaign
  <1>4. [r1 EXCEPT !.version = r.version + 1] \in Campaign
    <2> HIDE DEF r1
    <2>1. QED
      BY <1>1, <1>2 DEF Campaign
  <1>5. QED
    BY <1>3, <1>4 DEF Campaign

LEMMA NewRow ==
  ASSUME NEW e \in Evidence, NEW stage \in Stage
  PROVE  LET new == NewCampaign(e, stage)
         IN  /\ new \in Campaign /\ new.key = e.key /\ new.status = "ACTIVE"
             /\ new.stage = stage /\ new.last_evidence_at = e.event_time
             /\ new.last_applied = EvaluationOrder(e)
  BY EvidenceFields, OrderOfEvidence DEF NewCampaign, Campaign, FusionResult

LEMMA SelectActiveProperties ==
  ASSUME NEW k
  PROVE  /\ SelectActive(k) = None => ActiveCampaigns(k) = {}
         /\ SelectActive(k) # None => SelectActive(k) \in ActiveCampaigns(k)
  <1>1. ActiveCampaigns(k) \subseteq EventId
    BY DEF ActiveCampaigns
  <1>2. CASE ActiveCampaigns(k) = {}
    BY <1>2 DEF SelectActive
  <1>3. CASE ActiveCampaigns(k) # {}
    <2>1. SelectActive(k) \in ActiveCampaigns(k)
      BY <1>3 DEF SelectActive
    <2>2. QED
      BY <1>1, <2>1, <1>3, LedgerAssumption
  <1>4. QED
    BY <1>2, <1>3

\* The selected campaign is the only active one of its key, and every other
\* campaign of the key ended more than the merge gap before it began.
LEMMA SelectedCampaign ==
  ASSUME LInv, NEW k
  PROVE  LET act == SelectActive(k)
         IN  /\ act # None => /\ act \in EventId /\ campaigns[act] \in Campaign
                              /\ campaigns[act].key = k
                              /\ campaigns[act].status = "ACTIVE"
             /\ \A c \in EventId : campaigns[c] # None /\ campaigns[c].key = k =>
                  /\ act # None
                  /\ c # act =>
                       /\ campaigns[c].status = "CLOSED"
                       /\ published[act].event_time - campaigns[c].last_evidence_at
                            > MergeGap
  <1> DEFINE act == SelectActive(k)
  <1>1. /\ act = None => ActiveCampaigns(k) = {}
        /\ act # None => act \in ActiveCampaigns(k)
    BY SelectActiveProperties
  <1>2. \A c \in EventId : campaigns[c] # None => campaigns[c] \in Campaign
    BY DEF LInv, LedgerTypeOK, Optional
  <1> HIDE DEF act
  <1>3. act # None => /\ act \in EventId /\ campaigns[act] \in Campaign
                      /\ campaigns[act].key = k /\ campaigns[act].status = "ACTIVE"
    BY <1>1, <1>2 DEF ActiveCampaigns
  <1>4. ASSUME NEW c \in EventId, campaigns[c] # None, campaigns[c].key = k
        PROVE  /\ act # None
               /\ c # act =>
                    /\ campaigns[c].status = "CLOSED"
                    /\ published[act].event_time - campaigns[c].last_evidence_at > MergeGap
    <2>1. act # None
      <3>1. PICK d \in EventId : /\ campaigns[d] # None /\ campaigns[d].key = k
                                 /\ campaigns[d].status = "ACTIVE"
        BY <1>4 DEF LInv, ActiveInv
      <3>2. d \in ActiveCampaigns(k)
        BY <3>1 DEF ActiveCampaigns
      <3>3. QED
        BY <1>1, <3>2
    <2>2. CASE c # act
      <3>1. campaigns[c].status # "ACTIVE"
        BY <1>2, <1>3, <1>4, <2>1, <2>2, NoneNotRow DEF LInv, ActiveInv, OneActiveCampaign
      <3>2. campaigns[c].status = "CLOSED"
        BY <1>2, <1>4, <3>1, CampaignFields
      <3>3. QED
        BY <1>2, <1>3, <1>4, <2>1, <3>2, NoneNotRow DEF LInv, ActiveInv
    <2>3. QED
      BY <2>1, <2>2
  <1>5. QED
    BY <1>3, <1>4 DEF act

-----------------------------------------------------------------------------
\* The step that AppliedForward allows.
AppliedStep ==
  \A c, d \in EventId :
    /\ campaigns[c] # None
    /\ campaigns'[d] # None /\ campaigns'[d] # campaigns[d]
    /\ campaigns'[d].key = campaigns[c].key
    /\ campaigns'[d].status = "ACTIVE"
    => ~LexLE(campaigns'[d].last_applied, campaigns[c].last_applied)

\* What the three branches of apply() know about the evidence.
LEMMA AppliedEvidence ==
  ASSUME LInv, NEW i \in EventId, published[i] # None, evidence[i] = None
  PROVE  /\ published[i] \in Evidence /\ published[i].id = i /\ campaigns[i] = None
         /\ \A t \in AlertType : alerts[<<i, t>>] = None
  BY DEF LInv, LedgerTypeOK, RowInv, AlertRowInv, Optional

\* Every campaign of the key was last updated by evidence that is earlier in
\* the order than evidence which is not stale.
LEMMA LaterThanAll ==
  ASSUME LInv, NEW e \in Evidence, NEW c \in EventId,
         campaigns[c] # None, campaigns[c].key = e.key,
         ~IsStale(campaigns[SelectActive(e.key)], e)
  PROVE  ~LexLE(EvaluationOrder(e), campaigns[c].last_applied)
  <1> DEFINE act == SelectActive(e.key)
             o == EvaluationOrder(e)
  <1>1. CASE c = act
    BY <1>1 DEF IsStale
  <1>2. CASE c # act
    <2>1. /\ act \in EventId /\ campaigns[act] \in Campaign /\ campaigns[act] # None
          /\ published[act].event_time - campaigns[c].last_evidence_at > MergeGap
      BY <1>2, SelectedCampaign, CampaignFields
    <2>2. campaigns[c] \in Campaign
      BY DEF LInv, LedgerTypeOK, Optional
    <2>3. /\ published[act].event_time <= campaigns[act].last_evidence_at
          /\ campaigns[act].last_applied[1] = campaigns[act].last_evidence_at
          /\ campaigns[c].last_applied[1] = campaigns[c].last_evidence_at
          /\ published[act].event_time \in Nat
      BY <2>1, EvidenceFields DEF LInv, RowInv, LedgerTypeOK, Optional
    <2>4. campaigns[act].last_applied[1] <= o[1]
      BY <2>1, CampaignFields, OrderOfEvidence DEF IsStale, LexLE
    <2>5. /\ campaigns[c].last_evidence_at \in Nat
          /\ campaigns[act].last_evidence_at \in Nat /\ o[1] \in Nat
      BY <2>1, <2>2, CampaignFields, OrderOfEvidence
    <2>6. campaigns[c].last_applied[1] < o[1]
      BY <2>1, <2>3, <2>4, <2>5, LedgerAssumption
    <2>7. QED
      BY <2>3, <2>5, <2>6 DEF LexLE
  <1>3. QED
    BY <1>1, <1>2

LEMMA StaleStep ==
  ASSUME LInv, NEW i \in EventId, published[i] # None, evidence[i] = None,
         RecordStale(published[i], SelectActive(published[i].key)), UNCHANGED published
  PROVE  LInv' /\ AppliedStep
  <1> DEFINE act == SelectActive(published[i].key)
  <1>1. published[i].id = i /\ act \in EventId /\ act # None
    BY AppliedEvidence, SelectedCampaign DEF RecordStale
  <1>2. /\ UNCHANGED <<published, campaigns, stage_history, alerts, outbox>>
        /\ evidence' = [evidence EXCEPT ![i] = act]
    BY <1>1 DEF RecordStale
  <1> HIDE DEF act
  <1>3. /\ evidence' \in [EventId -> Optional(EventId)]
        /\ \A c \in EventId : evidence[c] # None => evidence'[c] # None
    BY <1>1, <1>2 DEF LInv, LedgerTypeOK, Optional
  <1>4. LedgerTypeOK' /\ RowInv'
    BY <1>2, <1>3 DEF LInv, LedgerTypeOK, RowInv
  <1>5. ActiveInv' /\ CampaignsSeparated' /\ StageHistoryIsPath' /\ AlertRowInv'
    BY <1>2 DEF LInv, ActiveInv, OneActiveCampaign, CampaignsSeparated,
                StageHistoryIsPath, AlertRowInv
  <1>6. AlertInv'
    BY <1>2 DEF LInv, AlertInv, EventInv, CooldownRespected, AlertVersionsIncrease,
                NotifiedSeverityIsCurrent, AlertEventsOf
  <1>7. AppliedStep
    BY <1>2 DEF AppliedStep
  <1>8. QED
    BY <1>4, <1>5, <1>6, <1>7 DEF LInv

\* A transition of the table extends the path of a campaign's history.
LEMMA HistoryExtended ==
  ASSUME NEW h \in Seq(StageChange), h # <<>>, NEW from \in Stage, NEW to, NEW id \in EventId,
         h[1].from = None, h[1].to \in Transitions("NORMAL"), h[Len(h)].to = from,
         \A n \in 2 .. Len(h) : /\ h[n].from = h[n - 1].to
                                /\ h[n].to \in Transitions(h[n].from) \ {h[n].from},
         to \in Transitions(from) \ {from}, to \in Stage
  PROVE  LET g == Append(h, [from |-> from, to |-> to, evidence |-> id])
         IN  /\ g \in Seq(StageChange) /\ g # <<>>
             /\ g[1].from = None /\ g[1].to \in Transitions("NORMAL")
             /\ g[Len(g)].to = to
             /\ \A n \in 2 .. Len(g) :
                  /\ g[n].from = g[n - 1].to
                  /\ g[n].to \in Transitions(g[n].from) \ {g[n].from}
  <1> DEFINE x == [from |-> from, to |-> to, evidence |-> id]
             g == Append(h, x)
  <1>1. x \in StageChange /\ x.from = from /\ x.to = to
    BY DEF StageChange, Optional
  <1> HIDE DEF x
  <1>2. /\ g \in Seq(StageChange) /\ Len(g) = Len(h) + 1 /\ Len(h) \in Nat /\ Len(h) >= 1
        /\ g[Len(g)] = x /\ \A n \in 1 .. Len(h) : g[n] = h[n]
    BY <1>1
  <1> HIDE DEF g
  <1>3. ASSUME NEW n \in 2 .. Len(g)
        PROVE  /\ g[n].from = g[n - 1].to
               /\ g[n].to \in Transitions(g[n].from) \ {g[n].from}
    <2>1. CASE n = Len(g)
      BY <1>1, <1>2, <2>1
    <2>2. CASE n # Len(g)
      <3>1. n \in 2 .. Len(h) /\ n - 1 \in 1 .. Len(h) /\ n \in 1 .. Len(h)
        BY <1>2, <2>2
      <3>2. QED
        BY <1>2, <3>1
    <2>3. QED
      BY <2>1, <2>2
  <1>4. g # <<>>
    BY <1>2
  <1>5. QED
    BY <1>1, <1>2, <1>3, <1>4 DEF g, x

LEMMA UpdateStep ==
  ASSUME LInv, NEW i \in EventId, published[i] # None, evidence[i] = None,
         UpdateCampaign(published[i], SelectActive(published[i].key)), UNCHANGED published
  PROVE  LInv' /\ AppliedStep
  <1> DEFINE e == published[i]
             act == SelectActive(e.key)
             old == campaigns[act]
             stage == NextStage(old.stage, e.score)
             new == UpdatedCampaign(old, e, stage)
             moved == IF stage = old.stage THEN {}
                      ELSE {CampaignEventOf("campaign.stage_changed", act, e, stage)}
  <1>1. e \in Evidence /\ e.id = i /\ e.event_time \in Nat
    BY AppliedEvidence, EvidenceFields
  <1>2. /\ act \in EventId /\ act # None /\ old \in Campaign /\ old # None
        /\ old.key = e.key /\ old.status = "ACTIVE" /\ ~IsStale(old, e)
    BY SelectedCampaign, CampaignFields DEF UpdateCampaign
  <1>3. /\ UNCHANGED published
        /\ campaigns' = [campaigns EXCEPT ![act] = new]
        /\ evidence' = [evidence EXCEPT ![i] = act]
        /\ IF stage = old.stage THEN UNCHANGED stage_history
           ELSE RecordStage(act, old.stage, stage, e)
        /\ UpsertAlerts(act, e)
        /\ Enqueue(moved \cup AlertEvents(act, e))
    BY <1>1 DEF UpdateCampaign
  <1>4. stage \in Transitions(old.stage) /\ stage \in Stage
    BY <1>2, CampaignFields, NextStageInTable
  <1>5. old.last_applied[1] = old.last_evidence_at
    BY <1>2 DEF LInv, RowInv
  <1> HIDE DEF e, act, old, stage
  <1>6. /\ new \in Campaign /\ new # None /\ new.key = e.key /\ new.status = "ACTIVE"
        /\ new.stage = stage /\ new.last_evidence_at = e.event_time
        /\ new.last_applied = EvaluationOrder(e) /\ new.last_applied[1] = e.event_time
        /\ old.last_evidence_at <= e.event_time /\ old.last_evidence_at \in Nat
    BY <1>1, <1>2, <1>4, <1>5, UpdatedRow, OrderOfEvidence, CampaignFields
  <1> HIDE DEF new, moved
  <1>7. /\ campaigns \in [EventId -> Optional(Campaign)]
        /\ evidence \in [EventId -> Optional(EventId)]
        /\ stage_history \in [EventId -> Seq(StageChange)]
        /\ published \in [EventId -> Optional(Evidence)]
    BY DEF LInv, LedgerTypeOK
  <1>8. /\ campaigns'[act] = new
        /\ \A c \in EventId : c # act => campaigns'[c] = campaigns[c]
        /\ campaigns' \in [EventId -> Optional(Campaign)]
        /\ evidence' \in [EventId -> Optional(EventId)]
        /\ \A c \in EventId : evidence[c] # None => evidence'[c] # None
        /\ \A c \in EventId : campaigns'[c] # None <=> campaigns[c] # None
    BY <1>1, <1>2, <1>3, <1>6, <1>7, i \in EventId DEF Optional, old
  <1>9. \A c \in EventId : campaigns[c] # None =>
          /\ campaigns'[c].key = campaigns[c].key
          /\ campaigns'[c].status = campaigns[c].status
    BY <1>2, <1>6, <1>8 DEF old
  <1>10. /\ published[act].event_time <= old.last_evidence_at
         /\ published[act].event_time \in Nat /\ published[act].key = e.key
    <2>1. /\ published[act] # None /\ published[act].event_time <= old.last_evidence_at
          /\ published[act].key = old.key
      BY <1>2 DEF LInv, RowInv, old
    <2>2. published[act] \in Evidence
      BY <1>2, <1>7, <2>1 DEF Optional
    <2>3. QED
      BY <1>2, <2>1, <2>2, EvidenceFields
  <1>11. RowInv'
    <2>1. published[act].event_time <= new.last_evidence_at
      BY <1>1, <1>6, <1>10
    <2>2. ASSUME NEW c \in EventId, campaigns'[c] # None
          PROVE  /\ evidence'[c] # None /\ published[c] # None
                 /\ published[c].key = campaigns'[c].key
                 /\ published[c].event_time <= campaigns'[c].last_evidence_at
                 /\ campaigns'[c].last_applied[1] = campaigns'[c].last_evidence_at
      BY <1>6, <1>8, <1>10, <2>1, <2>2 DEF LInv, RowInv
    <2>3. \A j \in EventId : published[j] # None => published[j].id = j
      BY DEF LInv, RowInv
    <2>4. QED
      BY <1>3, <2>2, <2>3 DEF RowInv
  <1>12. \A c \in EventId : /\ campaigns[c] # None /\ campaigns[c].key = e.key /\ c # act
          => /\ campaigns[c].status = "CLOSED"
             /\ published[act].event_time - campaigns[c].last_evidence_at > MergeGap
    BY SelectedCampaign DEF act
  <1>13. OneActiveCampaign'
    BY <1>8, <1>9 DEF LInv, ActiveInv, OneActiveCampaign
  <1>14. ActiveInv'
    <2>1. ASSUME NEW c \in EventId, campaigns'[c] # None
          PROVE  \E d \in EventId : /\ campaigns'[d] # None /\ campaigns'[d].status = "ACTIVE"
                                    /\ campaigns'[d].key = campaigns'[c].key
      BY <1>8, <1>9, <2>1 DEF LInv, ActiveInv
    <2>2. ASSUME NEW c \in EventId, NEW d \in EventId,
                 campaigns'[c] # None, campaigns'[c].status = "CLOSED",
                 campaigns'[d] # None, campaigns'[d].status = "ACTIVE",
                 campaigns'[c].key = campaigns'[d].key
          PROVE  published[d].event_time - campaigns'[c].last_evidence_at > MergeGap
      <3>1. c # act
        BY <1>6, <1>8, <2>2
      <3>2. /\ campaigns[c] # None /\ campaigns[c].status = "CLOSED"
            /\ campaigns[d] # None /\ campaigns[d].status = "ACTIVE"
            /\ campaigns[c].key = campaigns[d].key
        BY <1>8, <1>9, <2>2
      <3>3. QED
        BY <1>8, <3>1, <3>2 DEF LInv, ActiveInv
    <2>3. QED
      BY <1>3, <1>13, <2>1, <2>2 DEF ActiveInv
  <1>15. CampaignsSeparated'
    <2> SUFFICES ASSUME NEW c \in EventId, NEW d \in EventId,
                        campaigns'[c] # None, campaigns'[d] # None, c # d,
                        campaigns'[c].key = campaigns'[d].key
                 PROVE  \/ published[d].event_time - campaigns'[c].last_evidence_at > MergeGap
                        \/ published[c].event_time - campaigns'[d].last_evidence_at > MergeGap
      BY <1>3 DEF CampaignsSeparated
    <2>1. campaigns[c] # None /\ campaigns[d] # None /\ campaigns[c].key = campaigns[d].key
      BY <1>8, <1>9
    <2>2. CASE c = act
      BY <1>2, <1>8, <1>12, <2>1, <2>2 DEF old
    <2>3. CASE d = act
      BY <1>2, <1>8, <1>12, <2>1, <2>3 DEF old
    <2>4. CASE c # act /\ d # act
      BY <1>8, <2>1, <2>4 DEF LInv, CampaignsSeparated
    <2>5. QED
      BY <2>2, <2>3, <2>4
  <1>16. StageHistoryIsPath' /\ stage_history' \in [EventId -> Seq(StageChange)]
    <2>1. LET h == stage_history[act]
          IN  /\ h # <<>>
              /\ h[1].from = None /\ h[1].to \in Transitions("NORMAL")
              /\ h[Len(h)].to = old.stage
              /\ \A n \in 2 .. Len(h) :
                   /\ h[n].from = h[n - 1].to
                   /\ h[n].to \in Transitions(h[n].from) \ {h[n].from}
      BY <1>2 DEF LInv, StageHistoryIsPath, old
    <2>2. CASE stage = old.stage
      <3>1. UNCHANGED stage_history
        BY <1>3, <2>2
      <3>2. ASSUME NEW c \in EventId, campaigns[c] # None
            PROVE  campaigns'[c].stage = campaigns[c].stage
        BY <1>6, <1>8, <2>2, <3>2 DEF old
      <3>3. QED
        BY <1>7, <1>8, <3>1, <3>2 DEF LInv, StageHistoryIsPath
    <2>3. CASE stage # old.stage
      <3> DEFINE g == Append(stage_history[act],
                             [from |-> old.stage, to |-> stage, evidence |-> i])
      <3>1. stage_history' = [stage_history EXCEPT ![act] = g]
        BY <1>1, <1>3, <2>3 DEF RecordStage
      <3>2. old.stage \in Stage /\ stage_history[act] \in Seq(StageChange)
        BY <1>2, <1>7, CampaignFields
      <3>3. /\ g \in Seq(StageChange) /\ g # <<>>
            /\ g[1].from = None /\ g[1].to \in Transitions("NORMAL")
            /\ g[Len(g)].to = stage
            /\ \A n \in 2 .. Len(g) :
                 /\ g[n].from = g[n - 1].to
                 /\ g[n].to \in Transitions(g[n].from) \ {g[n].from}
        BY <1>4, <2>1, <2>3, <3>2, HistoryExtended, i \in EventId
      <3> HIDE DEF g
      <3>4. /\ stage_history'[act] = g
            /\ \A c \in EventId : c # act => stage_history'[c] = stage_history[c]
            /\ stage_history' \in [EventId -> Seq(StageChange)]
        BY <1>2, <1>7, <3>1, <3>3
      <3>5. ASSUME NEW c \in EventId
            PROVE  LET h == stage_history'[c]
                   IN IF campaigns'[c] = None THEN h = <<>>
                      ELSE /\ h # <<>>
                           /\ h[1].from = None /\ h[1].to \in Transitions("NORMAL")
                           /\ h[Len(h)].to = campaigns'[c].stage
                           /\ \A n \in 2 .. Len(h) :
                                /\ h[n].from = h[n - 1].to
                                /\ h[n].to \in Transitions(h[n].from) \ {h[n].from}
        <4>1. CASE c = act
          BY <1>6, <1>8, <3>3, <3>4, <4>1
        <4>2. CASE c # act
          BY <1>8, <3>4, <4>2 DEF LInv, StageHistoryIsPath
        <4>3. QED
          BY <4>1, <4>2
      <3>6. QED
        BY <3>4, <3>5 DEF StageHistoryIsPath
    <2>4. QED
      BY <2>2, <2>3
  <1>17. \A t \in AlertType : alerts[<<act, t>>] # None =>
           alerts[<<act, t>>].last_notified_at <= e.event_time
    <2> SUFFICES ASSUME NEW t \in AlertType, alerts[<<act, t>>] # None
                 PROVE  alerts[<<act, t>>].last_notified_at <= e.event_time
      OBVIOUS
    <2>1. alerts[<<act, t>>].last_notified_at <= old.last_evidence_at
      BY <1>2, <1>5 DEF LInv, AlertRowInv, old
    <2>2. alerts[<<act, t>>] \in Alert
      BY <1>2 DEF LInv, LedgerTypeOK, Optional
    <2>3. alerts[<<act, t>>].last_notified_at \in Nat
      BY <2>2, LedgerAssumption DEF Alert
    <2>4. QED
      BY <1>1, <1>6, <2>1, <2>3
  <1>18. moved \in SUBSET CampaignEvent
    BY <1>1, <1>2, <1>4, i \in EventId DEF moved, CampaignEventOf, CampaignEvent, Optional
  <1>19. /\ alerts' \in [EventId \X AlertType -> Optional(Alert)]
         /\ outbox' \in Seq(SUBSET (CampaignEvent \cup AlertEvent))
         /\ \A t \in AlertType : alerts'[<<act, t>>] # None =>
              alerts'[<<act, t>>].last_notified_at <= e.event_time
         /\ \A a \in EventId \X AlertType : a[1] # act => alerts'[a] = alerts[a]
         /\ AlertInv'
    BY <1>1, <1>2, <1>3, <1>17, <1>18, AlertsStep DEF LInv
  <1>20. AlertRowInv'
    <2> SUFFICES ASSUME NEW c \in EventId, NEW t \in AlertType, alerts'[<<c, t>>] # None
                 PROVE  /\ campaigns'[c] # None
                        /\ alerts'[<<c, t>>].last_notified_at
                             <= campaigns'[c].last_applied[1]
      BY DEF AlertRowInv
    <2>1. CASE c = act
      BY <1>6, <1>8, <1>19, <2>1
    <2>2. CASE c # act
      <3>1. alerts'[<<c, t>>] = alerts[<<c, t>>]
        BY <1>19, <2>2
      <3>2. QED
        BY <1>8, <2>2, <3>1 DEF LInv, AlertRowInv
    <2>3. QED
      BY <2>1, <2>2
  <1>21. LedgerTypeOK'
    BY <1>3, <1>7, <1>8, <1>16, <1>19 DEF LedgerTypeOK
  <1>22. AppliedStep
    <2> SUFFICES ASSUME NEW c \in EventId, NEW d \in EventId, campaigns[c] # None,
                        campaigns'[d] # None, campaigns'[d] # campaigns[d],
                        campaigns'[d].key = campaigns[c].key
                 PROVE  ~LexLE(campaigns'[d].last_applied, campaigns[c].last_applied)
      BY DEF AppliedStep
    <2>1. d = act
      BY <1>8
    <2>2. campaigns[c].key = e.key /\ campaigns'[d].last_applied = EvaluationOrder(e)
      BY <1>6, <1>8, <2>1
    <2>3. ~IsStale(campaigns[SelectActive(e.key)], e)
      BY <1>2 DEF act, old
    <2>4. QED
      BY <1>1, <2>2, <2>3, LaterThanAll
  <1>23. QED
    BY <1>11, <1>14, <1>15, <1>16, <1>19, <1>20, <1>21, <1>22 DEF LInv

LEMMA CreateStep ==
  ASSUME LInv, NEW i \in EventId, published[i] # None, evidence[i] = None,
         CreateCampaign(published[i], SelectActive(published[i].key)), UNCHANGED published
  PROVE  LInv' /\ AppliedStep
  <1> DEFINE e == published[i]
             act == SelectActive(e.key)
             stage == NextStage("NORMAL", e.score)
             new == NewCampaign(e, stage)
             closed == ClosedCampaign(campaigns[act])
             created == CampaignEventOf("campaign.created", i, e, stage)
             closedEvent == IF act = None THEN {}
                            ELSE {CampaignEventOf("campaign.closed", act, e, None)}
             other == {created} \cup closedEvent
  <1>1. /\ e \in Evidence /\ e.id = i /\ e.event_time \in Nat /\ e.key \in Key
        /\ campaigns[i] = None /\ None \notin EventId
        /\ \A t \in AlertType : alerts[<<i, t>>] = None
    BY AppliedEvidence, EvidenceFields, LedgerAssumption
  <1>2. act # None => /\ act \in EventId /\ act # i
                      /\ campaigns[act] \in Campaign /\ campaigns[act] # None
                      /\ campaigns[act].key = e.key /\ campaigns[act].status = "ACTIVE"
                      /\ ~IsStale(campaigns[act], e)
                      /\ e.event_time - campaigns[act].last_evidence_at > MergeGap
    BY <1>1, SelectedCampaign, CampaignFields DEF CreateCampaign, GapElapsed
  <1>3. /\ UNCHANGED published
        /\ campaigns' = [c \in EventId |-> IF c = i THEN new
                                           ELSE IF c = act THEN ClosedCampaign(campaigns[c])
                                           ELSE campaigns[c]]
        /\ evidence' = [evidence EXCEPT ![i] = i]
        /\ RecordStage(i, None, stage, e)
        /\ UpsertAlerts(i, e)
        /\ Enqueue(other \cup AlertEvents(i, e))
    BY <1>1 DEF CreateCampaign
  <1>4. stage \in Transitions("NORMAL") /\ stage \in Stage
    BY NextStageInTable DEF Stage
  <1>5. /\ new \in Campaign /\ new # None /\ new.key = e.key /\ new.status = "ACTIVE"
        /\ new.stage = stage /\ new.last_evidence_at = e.event_time
        /\ new.last_applied = EvaluationOrder(e) /\ new.last_applied[1] = e.event_time
    BY <1>1, <1>4, NewRow, OrderOfEvidence, CampaignFields
  <1>6. act # None =>
          /\ closed \in Campaign /\ closed # None /\ closed.key = e.key
          /\ closed.status = "CLOSED" /\ closed.stage = campaigns[act].stage
          /\ closed.last_evidence_at = campaigns[act].last_evidence_at
          /\ closed.last_applied = campaigns[act].last_applied
    BY <1>2, ClosedRow, CampaignFields
  <1>7. /\ campaigns \in [EventId -> Optional(Campaign)]
        /\ evidence \in [EventId -> Optional(EventId)]
        /\ stage_history \in [EventId -> Seq(StageChange)]
        /\ published \in [EventId -> Optional(Evidence)]
    BY DEF LInv, LedgerTypeOK
  <1>8. other \in SUBSET CampaignEvent
    <2>1. created \in CampaignEvent
      BY <1>1, <1>4, i \in EventId DEF CampaignEventOf, CampaignEvent, Optional
    <2>2. closedEvent \subseteq CampaignEvent
      BY <1>1, <1>2, i \in EventId DEF CampaignEventOf, CampaignEvent, Optional
    <2>3. QED
      BY <2>1, <2>2
  <1> HIDE DEF e, act, stage, new, closed, other
  <1>9. /\ campaigns'[i] = new
        /\ act # None => campaigns'[act] = closed
        /\ \A c \in EventId : c # i /\ c # act => campaigns'[c] = campaigns[c]
        /\ campaigns' \in [EventId -> Optional(Campaign)]
    <2>1. \A c \in EventId : campaigns'[c] = IF c = i THEN new
                                             ELSE IF c = act THEN closed ELSE campaigns[c]
      BY <1>3 DEF closed
    <2>2. \A c \in EventId : campaigns'[c] \in Optional(Campaign)
      BY <1>1, <1>5, <1>6, <1>7, <2>1 DEF Optional
    <2>3. campaigns' \in [EventId -> Optional(Campaign)]
      BY <1>3, <2>2
    <2>4. QED
      BY <1>1, <1>2, <2>1, <2>3, i \in EventId
  \* What is left of the campaigns there were.
  <1>10. \A c \in EventId : c # i /\ campaigns'[c] # None =>
           /\ campaigns[c] # None /\ campaigns'[c] \in Campaign
           /\ campaigns'[c].key = campaigns[c].key
           /\ campaigns'[c].stage = campaigns[c].stage
           /\ campaigns'[c].last_evidence_at = campaigns[c].last_evidence_at
           /\ campaigns'[c].last_applied = campaigns[c].last_applied
           /\ campaigns'[c].status = "ACTIVE" => /\ campaigns[c].status = "ACTIVE"
                                                /\ campaigns[c].key # e.key
                                                /\ campaigns'[c] = campaigns[c]
           /\ c # act => campaigns'[c] = campaigns[c]
    <2> SUFFICES ASSUME NEW c \in EventId, c # i, campaigns'[c] # None
                 PROVE  /\ campaigns[c] # None /\ campaigns'[c] \in Campaign
                        /\ campaigns'[c].key = campaigns[c].key
                        /\ campaigns'[c].stage = campaigns[c].stage
                        /\ campaigns'[c].last_evidence_at = campaigns[c].last_evidence_at
                        /\ campaigns'[c].last_applied = campaigns[c].last_applied
                        /\ campaigns'[c].status = "ACTIVE" =>
                             /\ campaigns[c].status = "ACTIVE"
                             /\ campaigns[c].key # e.key
                             /\ campaigns'[c] = campaigns[c]
                        /\ c # act => campaigns'[c] = campaigns[c]
      OBVIOUS
    <2>1. CASE c = act
      <3>1. act # None
        BY <1>1, <2>1
      <3>2. QED
        BY <1>2, <1>6, <1>9, <2>1, <3>1
    <2>2. CASE c # act
      <3>1. campaigns'[c] = campaigns[c] /\ campaigns[c] \in Campaign
        BY <1>7, <1>9, <2>2 DEF Optional
      <3>2. campaigns[c].status = "ACTIVE" => campaigns[c].key # e.key
        <4>1. campaigns[c].key = e.key => campaigns[c].status = "CLOSED"
          BY <2>2, <3>1, SelectedCampaign DEF act
        <4>2. QED
          BY <4>1
      <3>3. QED
        BY <3>1, <3>2
    <2>3. QED
      BY <2>1, <2>2
  <1>11. \A c \in EventId : c # i =>
           (campaigns'[c] # None <=> campaigns[c] # None)
    BY <1>1, <1>2, <1>6, <1>9, <1>10
  \* Every older campaign of the key ended before the evidence.
  <1>12. \A c \in EventId : campaigns[c] # None /\ campaigns[c].key = e.key =>
           /\ act # None
           /\ e.event_time - campaigns[c].last_evidence_at > MergeGap
    <2> SUFFICES ASSUME NEW c \in EventId, campaigns[c] # None, campaigns[c].key = e.key
                 PROVE  /\ act # None
                        /\ e.event_time - campaigns[c].last_evidence_at > MergeGap
      OBVIOUS
    <2>1. /\ act # None
          /\ c # act =>
               published[act].event_time - campaigns[c].last_evidence_at > MergeGap
      BY SelectedCampaign DEF act
    <2>2. CASE c = act
      BY <1>2, <2>1, <2>2
    <2>3. CASE c # act
      <3>1. published[act] # None /\ published[act].event_time <= campaigns[act].last_evidence_at
        BY <1>2, <2>1 DEF LInv, RowInv
      <3>2. published[act] \in Evidence
        BY <1>2, <1>7, <2>1, <3>1 DEF Optional
      <3>3. campaigns[c] \in Campaign
        BY <1>7 DEF Optional
      <3>4. /\ published[act].event_time \in Nat /\ campaigns[act].last_evidence_at \in Nat
            /\ campaigns[c].last_evidence_at \in Nat
        BY <1>2, <2>1, <3>2, <3>3, EvidenceFields, CampaignFields
      <3>5. QED
        BY <1>1, <1>2, <2>1, <2>3, <3>1, <3>4, LedgerAssumption
    <2>4. QED
      BY <2>1, <2>2, <2>3
  <1>13. /\ evidence' \in [EventId -> Optional(EventId)] /\ evidence'[i] # None
         /\ \A c \in EventId : evidence[c] # None => evidence'[c] # None
    BY <1>1, <1>3, <1>7, i \in EventId DEF Optional
  <1>14. RowInv'
    <2>1. ASSUME NEW c \in EventId, campaigns'[c] # None
          PROVE  /\ evidence'[c] # None /\ published[c] # None
                 /\ published[c].key = campaigns'[c].key
                 /\ published[c].event_time <= campaigns'[c].last_evidence_at
                 /\ campaigns'[c].last_applied[1] = campaigns'[c].last_evidence_at
      <3>1. CASE c = i
        BY <1>1, <1>5, <1>9, <1>13, <3>1 DEF e
      <3>2. CASE c # i
        BY <1>10, <1>13, <2>1, <3>2 DEF LInv, RowInv
      <3>3. QED
        BY <3>1, <3>2
    <2>2. \A j \in EventId : published[j] # None => published[j].id = j
      BY DEF LInv, RowInv
    <2>3. QED
      BY <1>3, <2>1, <2>2 DEF RowInv
  <1>15. ActiveInv'
    <2>1. OneActiveCampaign'
      <3> SUFFICES ASSUME NEW c \in EventId, NEW d \in EventId,
                          campaigns'[c] # None, campaigns'[c].status = "ACTIVE",
                          campaigns'[d] # None, campaigns'[d].status = "ACTIVE",
                          campaigns'[c].key = campaigns'[d].key
                   PROVE  c = d
        BY DEF OneActiveCampaign
      <3>1. CASE c = i \/ d = i
        BY <1>5, <1>9, <1>10, <3>1
      <3>2. CASE c # i /\ d # i
        BY <1>10, <3>2 DEF LInv, ActiveInv, OneActiveCampaign
      <3>3. QED
        BY <3>1, <3>2
    <2>2. ASSUME NEW c \in EventId, campaigns'[c] # None
          PROVE  \E d \in EventId : /\ campaigns'[d] # None /\ campaigns'[d].status = "ACTIVE"
                                    /\ campaigns'[d].key = campaigns'[c].key
      <3>1. CASE campaigns'[c].key = e.key
        BY <1>5, <1>9, <3>1, i \in EventId
      <3>2. CASE campaigns'[c].key # e.key
        <4>1. c # i
          BY <1>5, <1>9, <3>2
        <4>2. campaigns[c] # None /\ campaigns'[c].key = campaigns[c].key
          BY <1>10, <2>2, <4>1
        <4>3. PICK d \in EventId : /\ campaigns[d] # None /\ campaigns[d].status = "ACTIVE"
                                   /\ campaigns[d].key = campaigns[c].key
          BY <4>2 DEF LInv, ActiveInv
        <4>4. d # i /\ d # act
          BY <1>1, <1>2, <3>2, <4>2, <4>3
        <4>5. QED
          BY <1>9, <4>2, <4>3, <4>4
      <3>3. QED
        BY <3>1, <3>2
    <2>3. ASSUME NEW c \in EventId, NEW d \in EventId,
                 campaigns'[c] # None, campaigns'[c].status = "CLOSED",
                 campaigns'[d] # None, campaigns'[d].status = "ACTIVE",
                 campaigns'[c].key = campaigns'[d].key
          PROVE  published[d].event_time - campaigns'[c].last_evidence_at > MergeGap
      <3>1. c # i
        BY <1>5, <1>9, <2>3
      <3>2. /\ campaigns[c] # None /\ campaigns'[c].key = campaigns[c].key
            /\ campaigns'[c].last_evidence_at = campaigns[c].last_evidence_at
        BY <1>10, <2>3, <3>1
      <3>3. CASE d = i
        BY <1>5, <1>9, <1>12, <2>3, <3>2, <3>3 DEF e
      <3>4. CASE d # i
        <4>1. /\ campaigns[d] # None /\ campaigns[d].status = "ACTIVE"
              /\ campaigns[d].key # e.key /\ campaigns'[d] = campaigns[d]
          BY <1>10, <2>3, <3>4
        <4>2. c # act
          BY <1>1, <1>2, <2>3, <3>2, <4>1
        <4>3. campaigns'[c] = campaigns[c]
          BY <1>9, <3>1, <4>2
        <4>4. QED
          BY <2>3, <3>2, <4>1, <4>3 DEF LInv, ActiveInv
      <3>5. QED
        BY <3>3, <3>4
    <2>4. QED
      BY <1>3, <2>1, <2>2, <2>3 DEF ActiveInv
  <1>16. CampaignsSeparated'
    <2> SUFFICES ASSUME NEW c \in EventId, NEW d \in EventId,
                        campaigns'[c] # None, campaigns'[d] # None, c # d,
                        campaigns'[c].key = campaigns'[d].key
                 PROVE  \/ published[d].event_time - campaigns'[c].last_evidence_at > MergeGap
                        \/ published[c].event_time - campaigns'[d].last_evidence_at > MergeGap
      BY <1>3 DEF CampaignsSeparated
    <2>1. CASE c = i
      BY <1>5, <1>9, <1>10, <1>12, <2>1 DEF e
    <2>2. CASE d = i
      BY <1>5, <1>9, <1>10, <1>12, <2>2 DEF e
    <2>3. CASE c # i /\ d # i
      BY <1>10, <2>3 DEF LInv, CampaignsSeparated
    <2>4. QED
      BY <2>1, <2>2, <2>3
  <1>17. StageHistoryIsPath' /\ stage_history' \in [EventId -> Seq(StageChange)]
    <2> DEFINE x == [from |-> None, to |-> stage, evidence |-> i]
    <2>1. stage_history[i] = <<>>
      BY <1>1 DEF LInv, StageHistoryIsPath
    <2>2. x \in StageChange /\ x.from = None /\ x.to = stage
      BY <1>4, i \in EventId DEF StageChange, Optional
    <2>3. stage_history' = [stage_history EXCEPT ![i] = Append(@, x)]
      BY <1>1, <1>3 DEF RecordStage
    <2> HIDE DEF x
    <2>4. /\ stage_history'[i] = <<x>>
          /\ \A c \in EventId : c # i => stage_history'[c] = stage_history[c]
          /\ stage_history' \in [EventId -> Seq(StageChange)]
      BY <1>7, <2>1, <2>2, <2>3
    <2>5. ASSUME NEW c \in EventId
          PROVE  LET h == stage_history'[c]
                 IN IF campaigns'[c] = None THEN h = <<>>
                    ELSE /\ h # <<>>
                         /\ h[1].from = None /\ h[1].to \in Transitions("NORMAL")
                         /\ h[Len(h)].to = campaigns'[c].stage
                         /\ \A n \in 2 .. Len(h) :
                              /\ h[n].from = h[n - 1].to
                              /\ h[n].to \in Transitions(h[n].from) \ {h[n].from}
      <3>1. CASE c = i
        <4> DEFINE h == stage_history'[i]
        <4>1. h = <<x>>
          BY <2>4
        <4> HIDE DEF h
        <4>2. h # <<>> /\ Len(h) = 1 /\ h[1] = x
          BY <4>1
        <4>3. campaigns'[i] # None /\ campaigns'[i].stage = stage
          BY <1>5, <1>9
        <4>4. QED
          BY <1>4, <2>2, <3>1, <4>2, <4>3 DEF h
      <3>2. CASE c # i
        <4>1. CASE campaigns'[c] = None
          BY <1>11, <2>4, <3>2, <4>1 DEF LInv, StageHistoryIsPath
        <4>2. CASE campaigns'[c] # None
          BY <1>10, <2>4, <3>2, <4>2 DEF LInv, StageHistoryIsPath
        <4>3. QED
          BY <4>1, <4>2
      <3>3. QED
        BY <3>1, <3>2
    <2>6. QED
      BY <2>4, <2>5 DEF StageHistoryIsPath
  <1>18. /\ alerts' \in [EventId \X AlertType -> Optional(Alert)]
         /\ outbox' \in Seq(SUBSET (CampaignEvent \cup AlertEvent))
         /\ \A t \in AlertType : alerts'[<<i, t>>] # None =>
              alerts'[<<i, t>>].last_notified_at <= e.event_time
         /\ \A a \in EventId \X AlertType : a[1] # i => alerts'[a] = alerts[a]
         /\ AlertInv'
    BY <1>1, <1>3, <1>8, AlertsStep, i \in EventId DEF LInv
  <1>19. AlertRowInv'
    <2> SUFFICES ASSUME NEW c \in EventId, NEW t \in AlertType, alerts'[<<c, t>>] # None
                 PROVE  /\ campaigns'[c] # None
                        /\ alerts'[<<c, t>>].last_notified_at
                             <= campaigns'[c].last_applied[1]
      BY DEF AlertRowInv
    <2>1. CASE c = i
      BY <1>5, <1>9, <1>18, <2>1
    <2>2. CASE c # i
      <3>1. alerts'[<<c, t>>] = alerts[<<c, t>>]
        BY <1>18, <2>2
      <3>2. /\ campaigns[c] # None
            /\ alerts[<<c, t>>].last_notified_at <= campaigns[c].last_applied[1]
        BY <3>1 DEF LInv, AlertRowInv
      <3>3. QED
        BY <1>10, <1>11, <2>2, <3>1, <3>2
    <2>3. QED
      BY <2>1, <2>2
  <1>20. LedgerTypeOK'
    BY <1>3, <1>7, <1>9, <1>13, <1>17, <1>18 DEF LedgerTypeOK
  <1>21. AppliedStep
    <2> SUFFICES ASSUME NEW c \in EventId, NEW d \in EventId, campaigns[c] # None,
                        campaigns'[d] # None, campaigns'[d] # campaigns[d],
                        campaigns'[d].key = campaigns[c].key,
                        campaigns'[d].status = "ACTIVE"
                 PROVE  ~LexLE(campaigns'[d].last_applied, campaigns[c].last_applied)
      BY DEF AppliedStep
    <2>1. d = i
      BY <1>10
    <2>2. campaigns[c].key = e.key /\ campaigns'[d].last_applied = EvaluationOrder(e)
      BY <1>5, <1>9, <2>1
    <2>3. act # None
      BY <1>12, <2>2
    <2>4. ~IsStale(campaigns[SelectActive(e.key)], e)
      BY <1>2, <2>3 DEF act
    <2>5. QED
      BY <1>1, <2>2, <2>4, LaterThanAll
  <1>22. QED
    BY <1>14, <1>15, <1>16, <1>17, <1>18, <1>19, <1>20, <1>21 DEF LInv

-----------------------------------------------------------------------------
LEMMA PublishScoreStep ==
  ASSUME LInv, NEW e \in Evidence, PublishScore(e), UNCHANGED db
  PROVE  LInv' /\ AppliedStep
  <1>1. /\ UNCHANGED <<campaigns, evidence, stage_history, alerts, outbox>>
        /\ published' = [published EXCEPT ![e.id] = e] /\ published[e.id] = None
    BY DEF PublishScore, db
  <1>2. e \in Evidence /\ e.id \in EventId /\ e # None
    BY EvidenceFields
  <1>3. /\ published \in [EventId -> Optional(Evidence)]
        /\ published' \in [EventId -> Optional(Evidence)]
        /\ \A i \in EventId : published[i] # None => published'[i] = published[i]
        /\ \A i \in EventId : published'[i] = published[i] \/ (i = e.id /\ published'[i] = e)
    BY <1>1, <1>2 DEF LInv, LedgerTypeOK, Optional
  <1>4. \A c \in EventId : campaigns[c] # None => published'[c] = published[c]
    BY <1>3 DEF LInv, RowInv
  <1>5. LedgerTypeOK'
    BY <1>1, <1>3 DEF LInv, LedgerTypeOK
  <1>6. RowInv'
    BY <1>1, <1>3, <1>4 DEF LInv, RowInv
  <1>7. ActiveInv' /\ CampaignsSeparated'
    BY <1>1, <1>4 DEF LInv, ActiveInv, OneActiveCampaign, CampaignsSeparated
  <1>8. StageHistoryIsPath' /\ AlertRowInv'
    BY <1>1 DEF LInv, StageHistoryIsPath, AlertRowInv
  <1>9. AlertInv'
    BY <1>1 DEF LInv, AlertInv, EventInv, CooldownRespected, AlertVersionsIncrease,
                NotifiedSeverityIsCurrent, AlertEventsOf
  <1>10. AppliedStep
    BY <1>1 DEF AppliedStep
  <1>11. QED
    BY <1>5, <1>6, <1>7, <1>8, <1>9, <1>10 DEF LInv

\* An acknowledgement raises the version of the row and nothing an event says.
LEMMA AcknowledgeStep ==
  ASSUME LInv, NEW a \in EventId \X AlertType, AcknowledgeAlert(a)
  PROVE  LInv' /\ AppliedStep
  <1> DEFINE old == alerts[a]
             r1 == [old EXCEPT !.status = "ACKNOWLEDGED"]
             new == [r1 EXCEPT !.version = old.version + 1]
  <1>1. /\ UNCHANGED <<published, campaigns, evidence, stage_history, outbox>>
        /\ old # None
    BY DEF AcknowledgeAlert
  <1>2. alerts \in [EventId \X AlertType -> Optional(Alert)] /\ old \in Alert
    BY <1>1 DEF LInv, LedgerTypeOK, Optional
  <1>3. alerts' = [alerts EXCEPT ![a] = new]
    BY <1>2 DEF AcknowledgeAlert, Alert
  <1>4. /\ new.version = old.version + 1 /\ new.severity = old.severity
        /\ new.last_notified_at = old.last_notified_at
        /\ old.version \in Nat \ {0}
    BY <1>2 DEF Alert
  <1>5. new \in Alert
    <2>1. r1 \in Alert /\ old.version + 1 \in Nat \ {0}
      BY <1>2, <1>4 DEF Alert
    <2> HIDE DEF r1
    <2>2. QED
      BY <2>1 DEF Alert
  <1> HIDE DEF new
  <1>6. /\ alerts' \in [EventId \X AlertType -> Optional(Alert)]
        /\ \A b \in EventId \X AlertType :
             alerts'[b] = IF b = a THEN new ELSE alerts[b]
    BY <1>2, <1>3, <1>5 DEF Optional
  <1>7. \A b \in EventId \X AlertType :
          /\ alerts'[b] # None <=> alerts[b] # None
          /\ alerts[b] # None =>
               /\ alerts'[b].severity = alerts[b].severity
               /\ alerts'[b].last_notified_at = alerts[b].last_notified_at
               /\ alerts[b].version \in Nat /\ alerts'[b].version \in Nat
               /\ alerts'[b].version >= alerts[b].version
    <2> SUFFICES ASSUME NEW b \in EventId \X AlertType
                 PROVE  /\ alerts'[b] # None <=> alerts[b] # None
                        /\ alerts[b] # None =>
                             /\ alerts'[b].severity = alerts[b].severity
                             /\ alerts'[b].last_notified_at = alerts[b].last_notified_at
                             /\ alerts[b].version \in Nat /\ alerts'[b].version \in Nat
                             /\ alerts'[b].version >= alerts[b].version
      OBVIOUS
    <2>1. CASE b = a
      <3>1. alerts'[b] = new /\ new # None
        BY <1>5, <1>6, <2>1, NoneNotRow
      <3>2. QED
        BY <1>1, <1>4, <2>1, <3>1
    <2>2. CASE b # a
      <3>1. alerts'[b] = alerts[b]
        BY <1>6, <2>2
      <3>2. alerts[b] # None => alerts[b] \in Alert
        BY <1>2 DEF Optional
      <3>3. alerts[b] # None => alerts[b].version \in Nat
        BY <3>2 DEF Alert
      <3>4. QED
        BY <3>1, <3>3
    <2>3. QED
      BY <2>1, <2>2
  <1>8. LedgerTypeOK' /\ RowInv'
    BY <1>1, <1>6 DEF LInv, LedgerTypeOK, RowInv
  <1>9. ActiveInv' /\ CampaignsSeparated' /\ StageHistoryIsPath'
    BY <1>1 DEF LInv, ActiveInv, OneActiveCampaign, CampaignsSeparated, StageHistoryIsPath
  <1>10. AlertRowInv'
    BY <1>1, <1>7 DEF LInv, AlertRowInv
  <1>11. EventInv'
    <2> SUFFICES ASSUME NEW n \in DOMAIN outbox, NEW x \in outbox[n] \cap AlertEvent
                 PROVE  LET row == alerts'[<<x.campaign, x.alert>>]
                        IN  /\ row # None /\ x.version <= row.version
                            /\ x.event_time <= row.last_notified_at
      BY <1>1 DEF EventInv
    <2> DEFINE b == <<x.campaign, x.alert>>
    <2>1. b \in EventId \X AlertType /\ x.version \in Nat
      BY DEF AlertEvent
    <2>2. /\ alerts[b] # None /\ x.version <= alerts[b].version
          /\ x.event_time <= alerts[b].last_notified_at
      BY DEF LInv, AlertInv, EventInv
    <2> HIDE DEF b
    <2>3. QED
      BY <1>7, <2>1, <2>2 DEF b
  <1>12. NotifiedSeverityIsCurrent'
    BY <1>1, <1>7 DEF LInv, AlertInv, NotifiedSeverityIsCurrent, AlertEventsOf
  <1>13. AlertInv'
    BY <1>1, <1>11, <1>12 DEF LInv, AlertInv, CooldownRespected, AlertVersionsIncrease
  <1>14. AppliedStep
    BY <1>1 DEF AppliedStep
  <1>15. QED
    BY <1>8, <1>9, <1>10, <1>13, <1>14 DEF LInv

LEMMA LedgerStep == LInv /\ [LedgerNext]_ledgerVars => LInv' /\ AppliedStep
  <1> SUFFICES ASSUME LInv, [LedgerNext]_ledgerVars PROVE LInv' /\ AppliedStep
    OBVIOUS
  <1>1. ASSUME NEW e \in Evidence, PublishScore(e), UNCHANGED db PROVE LInv' /\ AppliedStep
    BY <1>1, PublishScoreStep
  <1>2. ASSUME NEW i \in EventId, Apply(i) PROVE LInv' /\ AppliedStep
    BY <1>2, StaleStep, UpdateStep, CreateStep DEF Apply, ApplyEvidence
  <1>3. ASSUME NEW a \in EventId \X AlertType, AcknowledgeAlert(a)
        PROVE  LInv' /\ AppliedStep
    BY <1>3, AcknowledgeStep
  <1>4. CASE UNCHANGED ledgerVars
    <2>1. UNCHANGED <<published, campaigns, evidence, stage_history, alerts, outbox>>
      BY <1>4 DEF ledgerVars, db
    <2>2. LedgerTypeOK' /\ RowInv' /\ ActiveInv' /\ CampaignsSeparated'
          /\ StageHistoryIsPath' /\ AlertRowInv'
      BY <2>1 DEF LInv, LedgerTypeOK, RowInv, ActiveInv, OneActiveCampaign,
                  CampaignsSeparated, StageHistoryIsPath, AlertRowInv
    <2>3. AlertInv'
      BY <2>1 DEF LInv, AlertInv, EventInv, CooldownRespected, AlertVersionsIncrease,
                  NotifiedSeverityIsCurrent, AlertEventsOf
    <2>4. QED
      BY <2>1, <2>2, <2>3 DEF LInv, AppliedStep
  <1>5. QED
    BY <1>1, <1>2, <1>3, <1>4 DEF LedgerNext

LEMMA LedgerInitially == Init => LInv
  <1> SUFFICES ASSUME Init PROVE LInv
    OBVIOUS
  <1>1. LedgerTypeOK
    BY DEF Init, LedgerTypeOK, Optional
  <1>2. /\ \A c \in EventId : campaigns[c] = None /\ published[c] = None
                             /\ stage_history[c] = <<>>
        /\ \A a \in EventId \X AlertType : alerts[a] = None
        /\ DOMAIN outbox = {}
    BY DEF Init
  <1>3. RowInv /\ ActiveInv /\ CampaignsSeparated
    BY <1>2 DEF RowInv, ActiveInv, OneActiveCampaign, CampaignsSeparated
  <1>4. StageHistoryIsPath /\ AlertRowInv
    BY <1>2 DEF StageHistoryIsPath, AlertRowInv
  <1>5. AlertInv
    BY <1>2 DEF AlertInv, EventInv, CooldownRespected, AlertVersionsIncrease,
                NotifiedSeverityIsCurrent
  <1>6. QED
    BY <1>1, <1>3, <1>4, <1>5 DEF LInv

LEMMA LedgerInvariant == LedgerSpec => []LInv
  BY LedgerInitially, LedgerStep, PTL DEF LedgerSpec

(***************************************************************************)
(* Applying evidence in any order of arrival keeps the tables in agreement:*)
(* the campaigns of a key apart by the merge gap, stage histories that are *)
(* paths of the state machine, alert events rationed by their cooldown and *)
(* in the order of their versions.                                         *)
(***************************************************************************)
THEOREM LedgerInvTheorem == LedgerSpec => []LedgerInv
  <1>1. LInv => LedgerInv
    BY DEF LInv, AlertInv, LedgerInv
  <1>2. QED
    BY <1>1, LedgerInvariant, PTL

(***************************************************************************)
(* Whoever reads every alert event knows the severity of every alert:      *)
(* suppression never hides a severity change.                              *)
(***************************************************************************)
THEOREM NotifiedSeverityIsCurrentTheorem == LedgerSpec => []NotifiedSeverityIsCurrent
  <1>1. LInv => NotifiedSeverityIsCurrent
    BY DEF LInv, AlertInv
  <1>2. QED
    BY <1>1, LedgerInvariant, PTL

(***************************************************************************)
(* One atomic transaction per piece of evidence never leaves a key with    *)
(* two active campaigns.                                                   *)
(***************************************************************************)
THEOREM LedgerOneActiveCampaign == LedgerSpec => []OneActiveCampaign
  <1>1. LInv => OneActiveCampaign
    BY DEF LInv, ActiveInv
  <1>2. QED
    BY <1>1, LedgerInvariant, PTL

(***************************************************************************)
(* Only evidence that is later in the evaluation order than all evidence   *)
(* applied to the key before updates its campaign or opens a new one.      *)
(***************************************************************************)
THEOREM AppliedForwardTheorem == LedgerSpec => AppliedForward
  <1>1. LInv /\ [LedgerNext]_ledgerVars
        => [\A c, d \in EventId :
              /\ campaigns[c] # None
              /\ campaigns'[d] # None /\ campaigns'[d] # campaigns[d]
              /\ campaigns'[d].key = campaigns[c].key
              /\ campaigns'[d].status = "ACTIVE"
              => ~LexLE(campaigns'[d].last_applied, campaigns[c].last_applied)]_campaigns
    BY LedgerStep DEF AppliedStep
  <1>2. QED
    BY <1>1, LedgerInvariant, PTL DEF LedgerSpec, AppliedForward

-----------------------------------------------------------------------------
(***************************************************************************)
(* The workers of CampaignEngine implement CampaignLedger, for any number  *)
(* of workers, partitions, keys, events, lock retries and failures; what   *)
(* the first part shows of the ledger therefore holds of the tables        *)
(* the workers share.                                                      *)
(***************************************************************************)

\* The topic holds published scores of the partition's keys.
TopicInv ==
  /\ \A i \in EventId : published[i] # None => published[i].id = i
  /\ \A p \in Partition : \A n \in 1 .. Len(topic[p]) :
       published[topic[p][n]] # None

\* A busy worker holds a record of its partition.
RecordInv ==
  \A w \in Worker : pc[w] # "poll" =>
    /\ record[w][1] \in Partition
    /\ record[w][2] \in 1 .. Len(topic[record[w][1]])

\* The lock of a key is held exactly by the worker inside the transaction.
LockInv ==
  /\ \A w \in Worker : pc[w] \in {"select", "apply"} => lock[KeyOf(w)] = w
  /\ \A k \in Key : \A w \in Worker : lock[k] = w =>
       pc[w] \in {"select", "apply"} /\ KeyOf(w) = k

\* A campaign exists only if the evidence it is named after is recorded.
CampaignInv == \A c \in EventId : campaigns[c] # None => evidence[c] # None

EInv ==
  /\ EngineTypeOK /\ TopicInv /\ RecordInv /\ LockInv /\ CampaignInv
  /\ OneActiveCampaign /\ SelectionIsFresh

-----------------------------------------------------------------------------
(***************************************************************************)
(* One transaction on a freshly selected campaign: it writes the evidence  *)
(* row, touches only campaigns of its own key, and leaves at most one of   *)
(* them active.                                                            *)
(***************************************************************************)
LEMMA TransactionEffect ==
  ASSUME NEW e \in Evidence,
         DOMAIN campaigns = EventId, evidence \in [EventId -> Optional(EventId)],
         CampaignInv, OneActiveCampaign, evidence[e.id] = None,
         ApplyEvidence(e, SelectActive(e.key))
  PROVE  /\ DOMAIN campaigns' = EventId
         /\ evidence' \in [EventId -> Optional(EventId)]
         /\ evidence'[e.id] # None
         /\ \A i \in EventId : i # e.id => evidence'[i] = evidence[i]
         /\ \A k \in Key : k # e.key => ActiveCampaigns(k)' = ActiveCampaigns(k)
         /\ CampaignInv'
         /\ OneActiveCampaign'
  <1> DEFINE act == SelectActive(e.key)
  <1>1. /\ e.id \in EventId /\ e.key \in Key /\ None \notin EventId
        /\ campaigns[e.id] = None
    BY LedgerAssumption DEF Evidence, CampaignInv
  <1>2. /\ act = None => ActiveCampaigns(e.key) = {}
        /\ act # None => act \in ActiveCampaigns(e.key)
    BY SelectActiveProperties
  <1>3. act # None => /\ act \in EventId /\ act # e.id /\ campaigns[act] # None
                      /\ campaigns[act].key = e.key
                      /\ campaigns[act].status = "ACTIVE"
    BY <1>1, <1>2 DEF ActiveCampaigns
  <1>4. ASSUME NEW c \in EventId, campaigns[c] # None, campaigns[c].key = e.key,
               campaigns[c].status = "ACTIVE"
        PROVE  act # None /\ c = act
    <2>1. c \in ActiveCampaigns(e.key)
      BY <1>4 DEF ActiveCampaigns
    <2>2. act # None
      BY <1>2, <2>1
    <2>3. QED
      BY <1>3, <1>4, <2>2 DEF OneActiveCampaign
  <1>5. CASE RecordStale(e, act)
    BY <1>1, <1>3, <1>5
    DEF RecordStale, Optional, ActiveCampaigns, CampaignInv, OneActiveCampaign
  <1>6. CASE UpdateCampaign(e, act)
    <2> DEFINE row == UpdatedCampaign(campaigns[act], e, NextStage(campaigns[act].stage, e.score))
    <2>1. /\ act # None
          /\ campaigns' = [campaigns EXCEPT ![act] = row]
          /\ evidence' = [evidence EXCEPT ![e.id] = act]
      BY <1>6 DEF UpdateCampaign
    <2>2. row.key = campaigns[act].key /\ row.status = campaigns[act].status
      BY DEF UpdatedCampaign
    <2>3. \A c \in EventId : c # act => campaigns'[c] = campaigns[c]
      BY <1>3, <2>1
    <2>4. campaigns'[act] = row
      BY <1>3, <2>1
    <2> HIDE DEF row
    <2>5. OneActiveCampaign'
      <3> SUFFICES ASSUME NEW c \in EventId, NEW d \in EventId,
                          campaigns'[c] # None, campaigns'[c].status = "ACTIVE",
                          campaigns'[d] # None, campaigns'[d].status = "ACTIVE",
                          campaigns'[c].key = campaigns'[d].key
                   PROVE  c = d
        BY DEF OneActiveCampaign
      <3>1. /\ campaigns[c] # None /\ campaigns[c].status = "ACTIVE"
            /\ campaigns[c].key = campaigns'[c].key
        BY <1>3, <2>1, <2>2, <2>3, <2>4
      <3>2. /\ campaigns[d] # None /\ campaigns[d].status = "ACTIVE"
            /\ campaigns[d].key = campaigns'[d].key
        BY <1>3, <2>1, <2>2, <2>3, <2>4
      <3>3. QED
        BY <3>1, <3>2 DEF OneActiveCampaign
    <2>6. CampaignInv'
      BY <1>1, <1>3, <2>1, <2>3 DEF CampaignInv
    <2>7. ASSUME NEW k \in Key, k # e.key
          PROVE  ActiveCampaigns(k)' = ActiveCampaigns(k)
      <3>1. \A c \in EventId : c # act => campaigns'[c] = campaigns[c]
        BY <2>3
      <3>2. campaigns[act].key # k /\ campaigns'[act].key # k
        BY <1>3, <2>1, <2>2, <2>4, <2>7
      <3>3. QED
        BY <3>1, <3>2 DEF ActiveCampaigns
    <2>8. QED
      BY <1>1, <1>3, <2>1, <2>5, <2>6, <2>7 DEF Optional
  <1>7. CASE CreateCampaign(e, act)
    <2> DEFINE row == NewCampaign(e, NextStage("NORMAL", e.score))
    <2>1. /\ campaigns' = [c \in EventId |->
                             IF c = e.id THEN row
                             ELSE IF c = act THEN ClosedCampaign(campaigns[c])
                             ELSE campaigns[c]]
          /\ evidence' = [evidence EXCEPT ![e.id] = e.id]
      BY <1>7 DEF CreateCampaign
    <2>2. row.key = e.key /\ row.status = "ACTIVE"
      BY DEF NewCampaign
    <2>3. act # None => /\ ClosedCampaign(campaigns[act]).status = "CLOSED"
                        /\ ClosedCampaign(campaigns[act]).key = e.key
      <3> SUFFICES ASSUME act # None
                   PROVE  /\ ClosedCampaign(campaigns[act]).status = "CLOSED"
                          /\ ClosedCampaign(campaigns[act]).key = e.key
        OBVIOUS
      <3>1. \E c \in EventId : campaigns[c] # None
        BY <1>3
      <3>2. QED
        BY <1>3 DEF ClosedCampaign
    <2> HIDE DEF row
    <2>4. \A c \in EventId : c # e.id /\ c # act => campaigns'[c] = campaigns[c]
      BY <2>1
    <2>5. campaigns'[e.id] = row
      BY <1>1, <2>1
    <2>6. act # None => campaigns'[act] = ClosedCampaign(campaigns[act])
      BY <1>3, <2>1
    <2>7. OneActiveCampaign'
      <3> SUFFICES ASSUME NEW c \in EventId, NEW d \in EventId,
                          campaigns'[c] # None, campaigns'[c].status = "ACTIVE",
                          campaigns'[d] # None, campaigns'[d].status = "ACTIVE",
                          campaigns'[c].key = campaigns'[d].key
                   PROVE  c = d
        BY DEF OneActiveCampaign
      <3>1. c # act /\ d # act
        BY <1>1, <2>3, <2>6
      <3>2. ASSUME NEW b \in EventId, b # e.id, b # act, campaigns'[b] # None,
                   campaigns'[b].status = "ACTIVE"
            PROVE  campaigns'[b].key # e.key
        BY <1>4, <2>4, <3>2
      <3>3. CASE c = e.id
        BY <2>2, <2>5, <3>1, <3>2, <3>3
      <3>4. CASE d = e.id
        BY <2>2, <2>5, <3>1, <3>2, <3>4
      <3>5. CASE c # e.id /\ d # e.id
        BY <2>4, <3>1, <3>5 DEF OneActiveCampaign
      <3>6. QED
        BY <3>3, <3>4, <3>5
    <2>8. CampaignInv'
      BY <1>1, <1>3, <2>1, <2>4 DEF CampaignInv
    <2>9. ASSUME NEW k \in Key, k # e.key
          PROVE  ActiveCampaigns(k)' = ActiveCampaigns(k)
      <3> SUFFICES ASSUME NEW c \in EventId
                   PROVE  (c \in ActiveCampaigns(k))' <=> c \in ActiveCampaigns(k)
        BY DEF ActiveCampaigns
      <3>1. CASE c = e.id
        BY <1>1, <2>2, <2>5, <2>9, <3>1 DEF ActiveCampaigns
      <3>2. CASE c = act
        BY <1>1, <1>3, <2>3, <2>6, <2>9, <3>2 DEF ActiveCampaigns
      <3>3. CASE c # e.id /\ c # act
        BY <2>4, <3>3 DEF ActiveCampaigns
      <3>4. QED
        BY <3>1, <3>2, <3>3
    <2>10. QED
      BY <1>1, <2>1, <2>7, <2>8, <2>9 DEF Optional
  <1>8. QED
    BY <1>5, <1>6, <1>7 DEF ApplyEvidence

-----------------------------------------------------------------------------
LEMMA EventOfBusyWorker ==
  ASSUME EngineTypeOK, TopicInv, RecordInv, NEW w \in Worker, pc[w] # "poll"
  PROVE  /\ EventOf(w) \in Evidence /\ EventOf(w) # None
         /\ EventOf(w).id = topic[record[w][1]][record[w][2]]
         /\ EventOf(w).id \in EventId /\ KeyOf(w) \in Key
         /\ published[EventOf(w).id] = EventOf(w)
  <1> DEFINE i == topic[record[w][1]][record[w][2]]
  <1>1. i \in EventId /\ published[i] # None
    BY DEF EngineTypeOK, TopicInv, RecordInv
  <1>2. published[i] \in Evidence /\ published[i].id = i
    BY <1>1 DEF EngineTypeOK, TopicInv, Optional
  <1>3. QED
    BY <1>1, <1>2 DEF EventOf, KeyOf, Evidence

LEMMA EvidenceNotNone == \A e \in Evidence : e # None
  BY NoneNotRow

LEMMA PublishStep == ASSUME EInv, NEW e \in Evidence, Publish(e) PROVE EInv'
  <1> DEFINE p == PartitionOf[e.key]
  <1>1. /\ e.id \in EventId /\ e.key \in Key /\ p \in Partition /\ published[e.id] = None
        /\ e # None
    <2>1. e.id \in EventId /\ e.key \in Key /\ published[e.id] = None
      BY DEF Evidence, Publish, PublishScore
    <2>2. QED
      BY <2>1, EngineAssumption, EvidenceNotNone
  <1>2. /\ published' = [published EXCEPT ![e.id] = e]
        /\ topic' = [topic EXCEPT ![p] = Append(@, e.id)]
        /\ UNCHANGED <<campaigns, evidence, committed, position, owner, lock, pc, record, active>>
    BY DEF Publish, PublishScore, db, worker
  <1>3. EngineTypeOK'
    BY <1>1, <1>2 DEF EInv, EngineTypeOK, Optional
  <1>4. \A i \in EventId : published[i] # None => published'[i] = published[i]
    BY <1>1, <1>2 DEF EInv, EngineTypeOK
  <1>5. \A q \in Partition : /\ Len(topic[q]) \in Nat
                             /\ Len(topic'[q]) \in Nat
                             /\ Len(topic'[q]) >= Len(topic[q])
                             /\ \A n \in 1 .. Len(topic[q]) : topic'[q][n] = topic[q][n]
    BY <1>1, <1>2 DEF EInv, EngineTypeOK
  <1>6. TopicInv'
    <2>1. \A i \in EventId : published'[i] # None => published'[i].id = i
      BY <1>1, <1>2 DEF EInv, EngineTypeOK, TopicInv
    <2>2. ASSUME NEW q \in Partition, NEW n \in 1 .. Len(topic'[q])
          PROVE  published'[topic'[q][n]] # None
      <3>1. CASE n \in 1 .. Len(topic[q])
        <4>1. topic'[q][n] = topic[q][n] /\ topic[q][n] \in EventId
          BY <1>5, <3>1 DEF EInv, EngineTypeOK
        <4>2. QED
          BY <1>4, <3>1, <4>1 DEF EInv, TopicInv
      <3>2. CASE n \notin 1 .. Len(topic[q])
        <4>1. q = p /\ topic'[q][n] = e.id
          BY <1>1, <1>2, <3>2 DEF EInv, EngineTypeOK
        <4>2. published'[e.id] = e
          BY <1>1, <1>2 DEF EInv, EngineTypeOK
        <4>3. QED
          BY <1>1, <4>1, <4>2
      <3>3. QED
        BY <3>1, <3>2
    <2>3. QED
      BY <2>1, <2>2 DEF TopicInv
  <1>7. RecordInv'
    BY <1>2, <1>5 DEF EInv, RecordInv
  <1>8. \A w \in Worker : pc[w] # "poll" => EventOf(w)' = EventOf(w)
    <2> SUFFICES ASSUME NEW w \in Worker, pc[w] # "poll" PROVE EventOf(w)' = EventOf(w)
      OBVIOUS
    <2> DEFINE q == record[w][1]
               n == record[w][2]
    <2>1. q \in Partition /\ n \in 1 .. Len(topic[q])
      BY DEF EInv, RecordInv
    <2>2. topic[q][n] \in EventId /\ published[topic[q][n]] # None
      BY <2>1 DEF EInv, EngineTypeOK, TopicInv
    <2>3. topic'[q][n] = topic[q][n]
      BY <1>5, <2>1
    <2>4. QED
      BY <1>2, <1>4, <2>2, <2>3 DEF EventOf
  <1>9. LockInv'
    BY <1>2, <1>8 DEF EInv, LockInv, KeyOf
  <1>10. SelectionIsFresh'
    BY <1>2, <1>8 DEF EInv, SelectionIsFresh, KeyOf, SelectActive, ActiveCampaigns
  <1>11. CampaignInv' /\ OneActiveCampaign'
    BY <1>2 DEF EInv, CampaignInv, OneActiveCampaign
  <1>12. QED
    BY <1>3, <1>6, <1>7, <1>9, <1>10, <1>11 DEF EInv

(***************************************************************************)
(* Steps that leave the tables and the topic alone: what is left to show   *)
(* is about locks and program counters.                                    *)
(***************************************************************************)
LEMMA QuietStep ==
  ASSUME EInv, UNCHANGED <<published, campaigns, evidence, topic>>,
         EngineTypeOK', RecordInv', LockInv',
         \A w \in Worker : pc'[w] = "apply" =>
           \/ pc[w] = "apply" /\ active'[w] = active[w] /\ record'[w] = record[w]
           \/ /\ active'[w] = SelectActive(KeyOf(w))
              /\ record'[w] = record[w]
              /\ evidence[EventOf(w).id] = None
  PROVE  EInv'
  <1>1. TopicInv' /\ CampaignInv' /\ OneActiveCampaign'
    BY DEF EInv, TopicInv, CampaignInv, OneActiveCampaign
  <1>2. \A k : SelectActive(k)' = SelectActive(k)
    BY DEF SelectActive, ActiveCampaigns
  <1>3. SelectionIsFresh'
    <2> SUFFICES ASSUME NEW w \in Worker, pc'[w] = "apply"
                 PROVE  /\ active'[w] = SelectActive(KeyOf(w))'
                        /\ evidence'[EventOf(w)'.id] = None
      BY DEF SelectionIsFresh
    <2>1. record'[w] = record[w]
      OBVIOUS
    <2>2. EventOf(w)' = EventOf(w) /\ KeyOf(w)' = KeyOf(w)
      BY <2>1 DEF EventOf, KeyOf
    <2>3. active'[w] = SelectActive(KeyOf(w)) /\ evidence[EventOf(w).id] = None
      BY DEF EInv, SelectionIsFresh
    <2>4. SelectActive(KeyOf(w))' = SelectActive(KeyOf(w))
      BY <2>2 DEF SelectActive, ActiveCampaigns
    <2>5. QED
      BY <2>2, <2>3, <2>4
  <1>4. QED
    BY <1>1, <1>3 DEF EInv

LEMMA RestartStep == ASSUME EInv, NEW w \in Worker, Restart(w) PROVE EInv'
  <1>1. /\ UNCHANGED <<published, campaigns, evidence, topic, committed, owner>>
        /\ pc' = [pc EXCEPT ![w] = "poll"]
        /\ record' = [record EXCEPT ![w] = NoRecord]
        /\ active' = [active EXCEPT ![w] = None]
        /\ lock' = [k \in Key |-> IF lock[k] = w THEN None ELSE lock[k]]
        /\ position' = [p \in Partition |->
                          IF owner[p] = w THEN committed[p] ELSE position[p]]
    BY DEF Restart, ledgerVars, db
  <1>2. EngineTypeOK'
    BY <1>1 DEF EInv, EngineTypeOK, Optional, NoRecord
  <1>3. RecordInv'
    BY <1>1 DEF EInv, EngineTypeOK, RecordInv
  <1>4. \A v \in Worker : v # w => /\ pc'[v] = pc[v] /\ record'[v] = record[v]
                                   /\ active'[v] = active[v]
                                   /\ KeyOf(v)' = KeyOf(v)
    BY <1>1 DEF EInv, EngineTypeOK, KeyOf, EventOf
  <1>5. pc'[w] = "poll"
    BY <1>1 DEF EInv, EngineTypeOK
  <1>6. LockInv'
    <2>1. ASSUME NEW v \in Worker, pc'[v] \in {"select", "apply"}
          PROVE  lock'[KeyOf(v)'] = v
      <3>1. v # w
        BY <1>5, <2>1
      <3>2. lock[KeyOf(v)] = v /\ KeyOf(v) \in Key
        BY <1>4, <2>1, <3>1, EventOfBusyWorker DEF EInv, LockInv
      <3>3. QED
        BY <1>1, <1>4, <3>1, <3>2
    <2>2. ASSUME NEW k \in Key, NEW v \in Worker, lock'[k] = v
          PROVE  pc'[v] \in {"select", "apply"} /\ KeyOf(v)' = k
      <3>1. v # w /\ lock[k] = v
        BY <1>1, <2>2, EngineAssumption
      <3>2. QED
        BY <1>4, <3>1 DEF EInv, LockInv
    <2>3. QED
      BY <2>1, <2>2 DEF LockInv
  <1>7. QED
    BY <1>1, <1>2, <1>3, <1>4, <1>5, <1>6, QuietStep

LEMMA PollStep ==
  ASSUME EInv, NEW w \in Worker, NEW p \in Partition, Poll(w, p)
  PROVE  EInv'
  <1>1. /\ UNCHANGED <<published, campaigns, evidence, topic, committed, owner, lock, active>>
        /\ pc[w] = "poll"
        /\ pc' = [pc EXCEPT ![w] = "lock"]
        /\ record' = [record EXCEPT ![w] = <<p, position[p] + 1>>]
        /\ position' = [position EXCEPT ![p] = @ + 1]
        /\ position[p] < Len(topic[p])
    BY DEF Poll, ledgerVars, db
  <1>2. EngineTypeOK'
    BY <1>1 DEF EInv, EngineTypeOK, Optional
  <1>3. \A v \in Worker : v # w => /\ pc'[v] = pc[v] /\ record'[v] = record[v]
                                   /\ KeyOf(v)' = KeyOf(v)
    BY <1>1 DEF EInv, EngineTypeOK, KeyOf, EventOf
  <1>4. pc'[w] = "lock" /\ record'[w] = <<p, position[p] + 1>>
    BY <1>1 DEF EInv, EngineTypeOK
  <1>5. RecordInv'
    <2>1. position[p] + 1 \in 1 .. Len(topic[p])
      BY <1>1 DEF EInv, EngineTypeOK
    <2>2. QED
      BY <1>1, <1>3, <1>4, <2>1 DEF EInv, RecordInv
  <1>6. LockInv'
    BY <1>1, <1>3, <1>4 DEF EInv, LockInv
  <1>7. QED
    BY <1>1, <1>2, <1>3, <1>4, <1>5, <1>6, QuietStep

(***************************************************************************)
(* A worker moves on inside apply() and keeps its record.                  *)
(***************************************************************************)
LEMMA TryLockStep == ASSUME EInv, NEW w \in Worker, TryLock(w) PROVE EInv'
  <1>1. /\ UNCHANGED <<published, campaigns, evidence, topic, committed, position, owner,
                       record, active>>
        /\ pc[w] = "lock" /\ lock[KeyOf(w)] = None
        /\ pc' = [pc EXCEPT ![w] = "select"]
        /\ lock' = [lock EXCEPT ![KeyOf(w)] = w]
    BY DEF TryLock, ledgerVars, db, kafka
  <1>2. KeyOf(w) \in Key
    BY <1>1, EventOfBusyWorker DEF EInv
  <1>3. EngineTypeOK'
    BY <1>1, <1>2 DEF EInv, EngineTypeOK, Optional
  <1>4. \A v \in Worker : EventOf(v)' = EventOf(v) /\ KeyOf(v)' = KeyOf(v)
    BY <1>1 DEF KeyOf, EventOf
  <1>5. pc'[w] = "select" /\ \A v \in Worker : v # w => pc'[v] = pc[v]
    BY <1>1 DEF EInv, EngineTypeOK
  <1>6. RecordInv'
    BY <1>1, <1>5 DEF EInv, RecordInv
  <1>7. lock'[KeyOf(w)] = w /\ \A k \in Key : k # KeyOf(w) => lock'[k] = lock[k]
    BY <1>1, <1>2 DEF EInv, EngineTypeOK
  <1>8. LockInv'
    <2>1. ASSUME NEW v \in Worker, pc'[v] \in {"select", "apply"}
          PROVE  lock'[KeyOf(v)'] = v
      <3>1. CASE v = w
        BY <1>4, <1>7, <3>1
      <3>2. CASE v # w
        <4>1. lock[KeyOf(v)] = v /\ KeyOf(v) \in Key
          BY <1>5, <2>1, <3>2, EventOfBusyWorker DEF EInv, LockInv
        <4>2. KeyOf(v) # KeyOf(w)
          BY <1>1, <4>1, EngineAssumption
        <4>3. QED
          BY <1>4, <1>7, <4>1, <4>2
      <3>3. QED
        BY <3>1, <3>2
    <2>2. ASSUME NEW k \in Key, NEW v \in Worker, lock'[k] = v
          PROVE  pc'[v] \in {"select", "apply"} /\ KeyOf(v)' = k
      <3>1. CASE k = KeyOf(w)
        BY <1>4, <1>5, <1>7, <2>2, <3>1
      <3>2. CASE k # KeyOf(w)
        BY <1>1, <1>4, <1>5, <1>7, <2>2, <3>2 DEF EInv, LockInv
      <3>3. QED
        BY <3>1, <3>2
    <2>3. QED
      BY <2>1, <2>2 DEF LockInv
  <1>9. QED
    BY <1>1, <1>3, <1>5, <1>6, <1>8, QuietStep

(***************************************************************************)
(* The end of a transaction frees the lock of its key and no other.        *)
(***************************************************************************)
LEMMA LockReleased ==
  ASSUME EngineTypeOK, TopicInv, RecordInv, LockInv, NEW w \in Worker,
         pc[w] \in {"select", "apply"},
         lock' = [lock EXCEPT ![KeyOf(w)] = None],
         pc'[w] = "commit",
         \A v \in Worker : v # w => pc'[v] = pc[v],
         \A v \in Worker : KeyOf(v)' = KeyOf(v)
  PROVE  LockInv'
  <1>1. KeyOf(w) \in Key /\ lock[KeyOf(w)] = w
    BY EventOfBusyWorker DEF LockInv
  <1>2. lock'[KeyOf(w)] = None /\ \A k \in Key : k # KeyOf(w) => lock'[k] = lock[k]
    BY <1>1 DEF EngineTypeOK
  <1>3. ASSUME NEW v \in Worker, pc'[v] \in {"select", "apply"}
        PROVE  lock'[KeyOf(v)'] = v
    <2>1. v # w /\ pc[v] \in {"select", "apply"}
      BY <1>3
    <2>2. lock[KeyOf(v)] = v /\ KeyOf(v) \in Key
      BY <2>1, EventOfBusyWorker DEF LockInv
    <2>3. KeyOf(v) # KeyOf(w)
      BY <1>1, <2>1, <2>2
    <2>4. QED
      BY <1>2, <2>2, <2>3
  <1>4. ASSUME NEW k \in Key, NEW v \in Worker, lock'[k] = v
        PROVE  pc'[v] \in {"select", "apply"} /\ KeyOf(v)' = k
    <2>1. k # KeyOf(w) /\ lock[k] = v
      BY <1>2, <1>4, EngineAssumption
    <2>2. pc[v] \in {"select", "apply"} /\ KeyOf(v) = k
      BY <2>1 DEF LockInv
    <2>3. v # w
      BY <2>1, <2>2
    <2>4. QED
      BY <2>2, <2>3
  <1>5. QED
    BY <1>3, <1>4 DEF LockInv

LEMMA SelectDuplicateStep ==
  ASSUME EInv, NEW w \in Worker, SelectDuplicate(w)
  PROVE  EInv'
  <1>1. /\ UNCHANGED <<published, campaigns, evidence, topic, committed, position, owner,
                       record, active>>
        /\ pc[w] = "select"
        /\ pc' = [pc EXCEPT ![w] = "commit"]
        /\ lock' = [lock EXCEPT ![KeyOf(w)] = None]
    BY DEF SelectDuplicate, ledgerVars, db, kafka
  <1>2. KeyOf(w) \in Key /\ lock[KeyOf(w)] = w
    BY <1>1, EventOfBusyWorker DEF EInv, LockInv
  <1>3. EngineTypeOK'
    BY <1>1, <1>2 DEF EInv, EngineTypeOK, Optional
  <1>4. \A v \in Worker : KeyOf(v)' = KeyOf(v)
    BY <1>1 DEF KeyOf, EventOf
  <1>5. pc'[w] = "commit" /\ \A v \in Worker : v # w => pc'[v] = pc[v]
    BY <1>1 DEF EInv, EngineTypeOK
  <1>6. RecordInv'
    BY <1>1, <1>5 DEF EInv, RecordInv
  <1>7. LockInv'
    BY <1>1, <1>2, <1>3, <1>4, <1>5, LockReleased DEF EInv
  <1>8. QED
    BY <1>1, <1>3, <1>5, <1>6, <1>7, QuietStep

LEMMA SelectCampaignStep ==
  ASSUME EInv, NEW w \in Worker, SelectCampaign(w)
  PROVE  EInv'
  <1>1. /\ UNCHANGED <<published, campaigns, evidence, topic, committed, position, owner,
                       lock, record>>
        /\ pc[w] = "select" /\ evidence[EventOf(w).id] = None
        /\ pc' = [pc EXCEPT ![w] = "apply"]
        /\ active' = [active EXCEPT ![w] = SelectActive(KeyOf(w))]
    BY DEF SelectCampaign, ledgerVars, db, kafka
  <1>2. SelectActive(KeyOf(w)) \in Optional(EventId)
    BY SelectActiveProperties DEF ActiveCampaigns, Optional
  <1>3. EngineTypeOK'
    BY <1>1, <1>2 DEF EInv, EngineTypeOK
  <1>4. /\ pc'[w] = "apply" /\ active'[w] = SelectActive(KeyOf(w))
        /\ \A v \in Worker : v # w => pc'[v] = pc[v] /\ active'[v] = active[v]
    BY <1>1 DEF EInv, EngineTypeOK
  <1>5. \A v \in Worker : KeyOf(v)' = KeyOf(v)
    BY <1>1 DEF KeyOf, EventOf
  <1>6. RecordInv'
    BY <1>1, <1>4 DEF EInv, RecordInv
  <1>7. LockInv'
    BY <1>1, <1>4, <1>5 DEF EInv, LockInv
  <1>8. QED
    BY <1>1, <1>3, <1>4, <1>6, <1>7, QuietStep

(***************************************************************************)
(* The transaction itself.  No other worker that has selected a campaign   *)
(* works on the same key (LockInv), so its selection stays fresh.          *)
(***************************************************************************)
LEMMA CommitTransactionStep ==
  ASSUME EInv, NEW w \in Worker, CommitTransaction(w)
  PROVE  /\ EInv'
         /\ EventOf(w).id \in EventId /\ evidence[EventOf(w).id] = None
         /\ evidence'[EventOf(w).id] # None
         /\ \A i \in EventId : i # EventOf(w).id => evidence'[i] = evidence[i]
         /\ Apply(EventOf(w).id)
  <1> DEFINE e == EventOf(w)
  <1>1. /\ UNCHANGED <<published, topic, committed, position, owner, record>>
        /\ pc[w] = "apply" /\ ApplyEvidence(e, active[w])
        /\ pc' = [pc EXCEPT ![w] = "commit"]
        /\ active' = [active EXCEPT ![w] = None]
        /\ lock' = [lock EXCEPT ![KeyOf(w)] = None]
    BY DEF CommitTransaction, kafka
  <1>2. e \in Evidence /\ e.id \in EventId /\ KeyOf(w) \in Key /\ published[e.id] = e
        /\ e # None
    BY <1>1, EventOfBusyWorker DEF EInv
  <1>3. active[w] = SelectActive(e.key) /\ evidence[e.id] = None
    BY <1>1 DEF EInv, SelectionIsFresh, KeyOf
  <1>4. DOMAIN campaigns = EventId /\ evidence \in [EventId -> Optional(EventId)]
    BY DEF EInv, EngineTypeOK
  <1>5. ApplyEvidence(e, SelectActive(e.key))
    BY <1>1, <1>3
  <1> HIDE DEF e
  <1>6. /\ DOMAIN campaigns' = EventId
        /\ evidence' \in [EventId -> Optional(EventId)]
        /\ evidence'[e.id] # None
        /\ \A i \in EventId : i # e.id => evidence'[i] = evidence[i]
        /\ \A k \in Key : k # e.key => ActiveCampaigns(k)' = ActiveCampaigns(k)
        /\ CampaignInv'
        /\ OneActiveCampaign'
    BY <1>2, <1>3, <1>4, <1>5, TransactionEffect DEF EInv
  <1>7. EngineTypeOK'
    BY <1>1, <1>2, <1>6 DEF EInv, EngineTypeOK, Optional
  <1>8. \A v \in Worker : EventOf(v)' = EventOf(v) /\ KeyOf(v)' = KeyOf(v)
    BY <1>1 DEF EventOf, KeyOf
  <1>9. /\ pc'[w] = "commit"
        /\ \A v \in Worker : v # w => pc'[v] = pc[v] /\ active'[v] = active[v]
    BY <1>1 DEF EInv, EngineTypeOK
  <1>10. TopicInv'
    BY <1>1 DEF EInv, TopicInv
  <1>11. RecordInv'
    BY <1>1, <1>9 DEF EInv, RecordInv
  <1>12. LockInv'
    BY <1>1, <1>8, <1>9, LockReleased DEF EInv
  <1>13. SelectionIsFresh'
    <2> SUFFICES ASSUME NEW v \in Worker, pc'[v] = "apply"
                 PROVE  /\ active'[v] = SelectActive(KeyOf(v))'
                        /\ evidence'[EventOf(v)'.id] = None
      BY DEF SelectionIsFresh
    <2>1. v # w /\ pc[v] = "apply" /\ active'[v] = active[v]
      BY <1>9
    <2>2. active[v] = SelectActive(KeyOf(v)) /\ evidence[EventOf(v).id] = None
      BY <2>1 DEF EInv, SelectionIsFresh
    <2>3. /\ KeyOf(v) \in Key /\ EventOf(v).id \in EventId
          /\ published[EventOf(v).id] = EventOf(v)
      BY <2>1, EventOfBusyWorker DEF EInv
    <2>4. KeyOf(v) # e.key
      BY <1>1, <2>1 DEF EInv, LockInv, KeyOf, e
    <2>5. EventOf(v).id # e.id
      BY <1>2, <2>3, <2>4 DEF KeyOf
    <2>6. ActiveCampaigns(KeyOf(v))' = ActiveCampaigns(KeyOf(v))
      <3>1. \A k \in Key : k # e.key => ActiveCampaigns(k)' = ActiveCampaigns(k)
        BY <1>6
      <3>2. \A c \in EventId : (c \in ActiveCampaigns(KeyOf(v)))' <=> c \in ActiveCampaigns(KeyOf(v))
        BY <1>8, <2>3, <2>4, <3>1 DEF ActiveCampaigns
      <3>3. QED
        BY <3>2 DEF ActiveCampaigns
    <2>7. SelectActive(KeyOf(v))' = SelectActive(KeyOf(v))
      BY <2>6 DEF SelectActive
    <2>8. evidence'[EventOf(v).id] = evidence[EventOf(v).id]
      BY <1>6, <2>3, <2>5
    <2>9. QED
      BY <1>8, <2>1, <2>2, <2>7, <2>8
  <1>14. EInv'
    BY <1>6, <1>7, <1>10, <1>11, <1>12, <1>13 DEF EInv
  <1>15. Apply(e.id)
    BY <1>1, <1>2, <1>3, <1>5 DEF Apply
  <1>16. QED
    BY <1>2, <1>3, <1>6, <1>14, <1>15 DEF e

LEMMA CommitOffsetStep == ASSUME EInv, NEW w \in Worker, CommitOffset(w) PROVE EInv'
  <1>1. /\ UNCHANGED <<published, campaigns, evidence, topic, position, owner, lock, active>>
        /\ pc[w] = "commit" /\ owner[record[w][1]] = w
        /\ pc' = [pc EXCEPT ![w] = "poll"]
        /\ record' = [record EXCEPT ![w] = NoRecord]
        /\ committed' = [committed EXCEPT ![record[w][1]] = record[w][2]]
    BY DEF CommitOffset, ledgerVars, db
  <1>2. EngineTypeOK'
    BY <1>1 DEF EInv, EngineTypeOK, Optional, NoRecord
  <1>3. /\ pc'[w] = "poll"
        /\ \A v \in Worker : v # w => /\ pc'[v] = pc[v] /\ record'[v] = record[v]
                                      /\ KeyOf(v)' = KeyOf(v)
    BY <1>1 DEF EInv, EngineTypeOK, KeyOf, EventOf
  <1>4. RecordInv'
    BY <1>1, <1>3 DEF EInv, RecordInv
  <1>5. LockInv'
    BY <1>1, <1>3 DEF EInv, LockInv
  <1>6. QED
    BY <1>1, <1>2, <1>3, <1>4, <1>5, QuietStep

(***************************************************************************)
(* A rebalance and an acknowledgement touch nothing a worker relies on.    *)
(***************************************************************************)
LEMMA RebalanceStep ==
  ASSUME EInv, NEW p \in Partition, NEW w \in Worker, Rebalance(p, w)
  PROVE  EInv'
  <1>1. /\ UNCHANGED <<published, campaigns, evidence, topic, committed, lock, pc, record,
                       active>>
        /\ owner' = [owner EXCEPT ![p] = w]
        /\ position' = [position EXCEPT ![p] = committed[p]]
    BY DEF Rebalance, ledgerVars, db, worker
  <1>2. EngineTypeOK'
    BY <1>1 DEF EInv, EngineTypeOK
  <1>3. RecordInv' /\ LockInv'
    BY <1>1 DEF EInv, RecordInv, LockInv, KeyOf, EventOf
  <1>4. QED
    BY <1>1, <1>2, <1>3, QuietStep

LEMMA IdleStep ==
  ASSUME EInv, UNCHANGED <<published, campaigns, evidence, kafka, lock, pc, record, active>>
  PROVE  EInv'
  <1>1. EngineTypeOK' /\ RecordInv' /\ LockInv'
    BY DEF kafka, EInv, EngineTypeOK, RecordInv, LockInv, KeyOf, EventOf
  <1>2. QED
    BY <1>1, QuietStep DEF kafka

LEMMA EngineInitially == EngineInit => EInv
  <1> SUFFICES ASSUME EngineInit PROVE EInv
    OBVIOUS
  <1>1. EngineTypeOK
    BY DEF EngineInit, Init, EngineTypeOK, Optional, NoRecord
  <1>2. TopicInv
    BY DEF EngineInit, Init, TopicInv
  <1>3. RecordInv /\ SelectionIsFresh
    BY DEF EngineInit, RecordInv, SelectionIsFresh
  <1>4. LockInv
    BY EngineAssumption DEF EngineInit, LockInv
  <1>5. CampaignInv /\ OneActiveCampaign
    BY DEF EngineInit, Init, CampaignInv, OneActiveCampaign
  <1>6. QED
    BY <1>1, <1>2, <1>3, <1>4, <1>5 DEF EInv

LEMMA EngineStep == EInv /\ [EngineNext]_engineVars => EInv'
  <1> SUFFICES ASSUME EInv, [EngineNext]_engineVars PROVE EInv'
    OBVIOUS
  <1>1. ASSUME NEW e \in Evidence, Publish(e) PROVE EInv'
    BY <1>1, PublishStep
  <1>2. ASSUME NEW w \in Worker, Step(w) PROVE EInv'
    <2>1. ASSUME NEW p \in Partition, Poll(w, p) PROVE EInv'
      BY <2>1, PollStep
    <2>2. CASE TryLock(w)
      BY <2>2, TryLockStep
    <2>3. CASE LockBusy(w)
      BY <2>3, IdleStep DEF LockBusy, ledgerVars, db
    <2>4. CASE LockTimeout(w) \/ CommitRejected(w)
      BY <2>4, RestartStep DEF LockTimeout, CommitRejected
    <2>5. CASE SelectDuplicate(w)
      BY <2>5, SelectDuplicateStep
    <2>6. CASE SelectCampaign(w)
      BY <2>6, SelectCampaignStep
    <2>7. CASE CommitTransaction(w)
      BY <2>7, CommitTransactionStep
    <2>8. CASE CommitOffset(w)
      BY <2>8, CommitOffsetStep
    <2>9. QED
      BY <1>2, <2>1, <2>2, <2>3, <2>4, <2>5, <2>6, <2>7, <2>8 DEF Step
  <1>3. ASSUME NEW w \in Worker, Crash(w) PROVE EInv'
    BY <1>3, RestartStep DEF Crash
  <1>4. ASSUME NEW p \in Partition, NEW w \in Worker, Rebalance(p, w) PROVE EInv'
    BY <1>4, RebalanceStep
  <1>5. ASSUME NEW a \in EventId \X AlertType, Acknowledge(a) PROVE EInv'
    BY <1>5, IdleStep DEF Acknowledge, AcknowledgeAlert, worker
  <1>6. CASE UNCHANGED engineVars
    BY <1>6, IdleStep DEF engineVars, ledgerVars, db, worker
  <1>7. QED
    BY <1>1, <1>2, <1>3, <1>4, <1>5, <1>6 DEF EngineNext

LEMMA EngineInvariant == EngineSpec => []EInv
  BY EngineInitially, EngineStep, PTL DEF EngineSpec

-----------------------------------------------------------------------------
(***************************************************************************)
(* Two campaigns of one scope and asset are never active together, however *)
(* many workers apply evidence to the key at once.                         *)
(***************************************************************************)
THEOREM OneActiveCampaignTheorem == EngineSpec => []OneActiveCampaign
  <1>1. EInv => OneActiveCampaign
    BY DEF EInv
  <1>2. QED
    BY <1>1, EngineInvariant, PTL

(***************************************************************************)
(* Type correctness of the tables and of the workers' bookkeeping.         *)
(***************************************************************************)
THEOREM EngineTypeOKTheorem == EngineSpec => []EngineTypeOK
  <1>1. EInv => EngineTypeOK
    BY DEF EInv
  <1>2. QED
    BY <1>1, EngineInvariant, PTL

(***************************************************************************)
(* The row apply() selected is still the active campaign when the          *)
(* transaction writes it, and its evidence is still new.                   *)
(***************************************************************************)
THEOREM SelectionIsFreshTheorem == EngineSpec => []SelectionIsFresh
  <1>1. EInv => SelectionIsFresh
    BY DEF EInv
  <1>2. QED
    BY <1>1, EngineInvariant, PTL

(***************************************************************************)
(* The concurrent workers implement the ledger: every step of the engine   *)
(* is a step of CampaignLedger or leaves the tables alone.                 *)
(***************************************************************************)
THEOREM ImplementsLedgerTheorem == EngineSpec => ImplementsLedger
  <1>1. EngineInit => Init
    BY DEF EngineInit
  <1>2. EInv /\ [EngineNext]_engineVars => [LedgerNext]_ledgerVars
    <2> SUFFICES ASSUME EInv, [EngineNext]_engineVars PROVE [LedgerNext]_ledgerVars
      OBVIOUS
    <2>1. ASSUME NEW e \in Evidence, Publish(e) PROVE LedgerNext
      BY <2>1 DEF Publish, LedgerNext
    <2>2. ASSUME NEW w \in Worker, Step(w) PROVE [LedgerNext]_ledgerVars
      <3>1. CASE CommitTransaction(w)
        BY <3>1, CommitTransactionStep DEF LedgerNext
      <3>2. CASE ~CommitTransaction(w)
        BY <2>2, <3>2 DEF Step, Poll, TryLock, LockBusy, LockTimeout, CommitRejected, Restart,
                          SelectDuplicate, SelectCampaign, CommitOffset
      <3>3. QED
        BY <3>1, <3>2
    <2>3. ASSUME NEW w \in Worker, Crash(w) PROVE UNCHANGED ledgerVars
      BY <2>3 DEF Crash, Restart
    <2>4. ASSUME NEW p \in Partition, NEW w \in Worker, Rebalance(p, w)
          PROVE  UNCHANGED ledgerVars
      BY <2>4 DEF Rebalance
    <2>5. ASSUME NEW a \in EventId \X AlertType, Acknowledge(a) PROVE LedgerNext
      BY <2>5 DEF Acknowledge, LedgerNext
    <2>6. CASE UNCHANGED engineVars
      BY <2>6 DEF engineVars
    <2>7. QED
      BY <2>1, <2>2, <2>3, <2>4, <2>5, <2>6 DEF EngineNext
  <1>3. QED
    BY <1>1, <1>2, EngineInvariant, PTL DEF EngineSpec, ImplementsLedger, LedgerSpec

(***************************************************************************)
(* Concurrent workers, crashes and redelivery do not disturb the tables:   *)
(* campaigns of a key stay apart, histories are paths, alert events are    *)
(* rationed and versioned.                                                 *)
(***************************************************************************)
THEOREM EngineLedgerInv == EngineSpec => []LedgerInv
  BY ImplementsLedgerTheorem, LedgerInvTheorem, PTL DEF ImplementsLedger

(***************************************************************************)
(* The newest event of an alert carries its severity, whichever workers    *)
(* wrote the alert.                                                        *)
(***************************************************************************)
THEOREM EngineNotifiedSeverity == EngineSpec => []NotifiedSeverityIsCurrent
  BY ImplementsLedgerTheorem, NotifiedSeverityIsCurrentTheorem, PTL DEF ImplementsLedger

(***************************************************************************)
(* Workers that redeliver and reorder evidence move the evaluation order   *)
(* of a key forward only.                                                  *)
(***************************************************************************)
THEOREM EngineAppliedForward == EngineSpec => AppliedForward
  BY ImplementsLedgerTheorem, AppliedForwardTheorem, PTL DEF ImplementsLedger

-----------------------------------------------------------------------------
(***************************************************************************)
(* The offsets.  A record in flight has every earlier record of its        *)
(* partition behind it, its own too once its transaction is over; and of   *)
(* the records a partition's owner has read, only the one it is working on *)
(* may lack its row.  The committed offset may be ahead of the position:   *)
(* a worker that lost its partition and got it back commits an old record. *)
(***************************************************************************)
Recorded(p, n) == evidence[topic[p][n]] # None

OffsetInv ==
  /\ \A p \in Partition : /\ committed[p] <= Len(topic[p])
                          /\ position[p] <= Len(topic[p])
  /\ \A w \in Worker : pc[w] # "poll" =>
       \A n \in 1 .. Len(topic[record[w][1]]) :
         \/ n < record[w][2]
         \/ n = record[w][2] /\ pc[w] = "commit"
         => Recorded(record[w][1], n)
  /\ \A p \in Partition : \A n \in 1 .. position[p] :
       \/ Recorded(p, n)
       \/ /\ n = position[p]
          /\ pc[owner[p]] # "poll" /\ record[owner[p]] = <<p, n>>

OInv == EInv /\ OffsetInv /\ CommittedIsRecorded

\* No step takes a row out of campaign_evidence or a record off the topic.
LEMMA RecordsAreKept ==
  ASSUME EInv, [EngineNext]_engineVars
  PROVE  /\ \A i \in EventId : evidence[i] # None => evidence'[i] = evidence[i]
         /\ \A p \in Partition :
              /\ Len(topic[p]) \in Nat /\ Len(topic'[p]) \in Nat
              /\ Len(topic[p]) <= Len(topic'[p])
              /\ \A n \in 1 .. Len(topic[p]) :
                   /\ topic'[p][n] = topic[p][n]
                   /\ topic[p][n] \in EventId
                   /\ Recorded(p, n) => Recorded(p, n)'
  <1>1. /\ \A i \in EventId : evidence[i] # None => evidence'[i] = evidence[i]
        /\ \/ UNCHANGED topic
           \/ \E e \in Evidence : topic' = [topic EXCEPT ![PartitionOf[e.key]] = Append(@, e.id)]
    <2>1. ASSUME NEW e \in Evidence, Publish(e)
          PROVE  /\ UNCHANGED evidence
                 /\ topic' = [topic EXCEPT ![PartitionOf[e.key]] = Append(@, e.id)]
      BY <2>1 DEF Publish, db
    <2>2. ASSUME NEW w \in Worker, Step(w)
          PROVE  /\ UNCHANGED topic
                 /\ \A i \in EventId : evidence[i] # None => evidence'[i] = evidence[i]
      <3>1. CASE CommitTransaction(w)
        BY <3>1, CommitTransactionStep DEF CommitTransaction, kafka
      <3>2. CASE ~CommitTransaction(w)
        BY <2>2, <3>2 DEF Step, Poll, TryLock, LockBusy, LockTimeout, CommitRejected, Restart,
                          SelectDuplicate, SelectCampaign, CommitOffset, ledgerVars, db, kafka
      <3>3. QED
        BY <3>1, <3>2
    <2>3. ASSUME NEW w \in Worker, Crash(w) PROVE UNCHANGED <<evidence, topic>>
      BY <2>3 DEF Crash, Restart, ledgerVars, db
    <2>4. ASSUME NEW p \in Partition, NEW w \in Worker, Rebalance(p, w)
          PROVE  UNCHANGED <<evidence, topic>>
      BY <2>4 DEF Rebalance, ledgerVars, db
    <2>5. ASSUME NEW a \in EventId \X AlertType, Acknowledge(a)
          PROVE  UNCHANGED <<evidence, topic>>
      BY <2>5 DEF Acknowledge, AcknowledgeAlert, kafka
    <2>6. CASE UNCHANGED engineVars
      BY <2>6 DEF engineVars, ledgerVars, db, kafka
    <2>7. QED
      BY <2>1, <2>2, <2>3, <2>4, <2>5, <2>6 DEF EngineNext
  <1>2. topic \in [Partition -> Seq(EventId)]
    BY DEF EInv, EngineTypeOK
  <1>3. ASSUME NEW p \in Partition
        PROVE  /\ Len(topic[p]) \in Nat /\ Len(topic'[p]) \in Nat
               /\ Len(topic[p]) <= Len(topic'[p])
               /\ \A n \in 1 .. Len(topic[p]) :
                    /\ topic'[p][n] = topic[p][n]
                    /\ topic[p][n] \in EventId
    <2>1. CASE UNCHANGED topic
      BY <1>2, <2>1
    <2>2. ASSUME NEW e \in Evidence,
                 topic' = [topic EXCEPT ![PartitionOf[e.key]] = Append(@, e.id)]
          PROVE  /\ Len(topic[p]) \in Nat /\ Len(topic'[p]) \in Nat
                 /\ Len(topic[p]) <= Len(topic'[p])
                 /\ \A n \in 1 .. Len(topic[p]) :
                      /\ topic'[p][n] = topic[p][n]
                      /\ topic[p][n] \in EventId
      <3>1. e.id \in EventId
        BY DEF Evidence
      <3>2. topic[p] \in Seq(EventId) /\ topic'[p] \in {topic[p], Append(topic[p], e.id)}
        BY <1>2, <2>2
      <3>3. QED
        BY <3>1, <3>2
    <2>3. QED
      BY <1>1, <2>1, <2>2
  <1>4. QED
    BY <1>1, <1>3 DEF Recorded

(***************************************************************************)
(* Steps that neither read nor finish a record.                            *)
(***************************************************************************)
LEMMA KeepsOffsets ==
  ASSUME OInv, [EngineNext]_engineVars, EInv', UNCHANGED <<committed, position, owner, record>>,
         \A w \in Worker : \/ pc'[w] = pc[w]
                           \/ pc[w] # "poll" /\ pc'[w] # "poll" /\ pc'[w] # "commit"
                           \/ /\ pc[w] # "poll" /\ pc'[w] = "commit"
                              /\ Recorded(record[w][1], record[w][2])'
  PROVE  OInv'
  <1>1. /\ \A p \in Partition :
              /\ Len(topic[p]) \in Nat /\ Len(topic'[p]) \in Nat
              /\ Len(topic[p]) <= Len(topic'[p])
              /\ \A n \in 1 .. Len(topic[p]) : Recorded(p, n) => Recorded(p, n)'
        /\ \A p \in Partition : committed[p] \in Nat /\ position[p] \in Nat /\ owner[p] \in Worker
    BY RecordsAreKept DEF OInv, EInv, EngineTypeOK
  <1>2. \A p \in Partition : /\ committed'[p] <= Len(topic'[p])
                             /\ position'[p] <= Len(topic'[p])
    BY <1>1 DEF OInv, OffsetInv
  <1>3. ASSUME NEW w \in Worker, pc'[w] # "poll",
               NEW n \in 1 .. Len(topic'[record'[w][1]]),
               \/ n < record'[w][2]
               \/ n = record'[w][2] /\ pc'[w] = "commit"
        PROVE  Recorded(record[w][1], n)'
    <2>1. pc[w] # "poll" /\ record'[w] = record[w]
      BY <1>3
    <2>2. record[w][1] \in Partition /\ record[w][2] \in 1 .. Len(topic[record[w][1]])
      BY <2>1 DEF OInv, EInv, RecordInv
    <2>3. n \in 1 .. Len(topic[record[w][1]])
      BY <1>1, <1>3, <2>1, <2>2
    <2>4. CASE n < record[w][2]
      BY <1>1, <2>1, <2>2, <2>3, <2>4 DEF OInv, OffsetInv
    <2>5. CASE n = record[w][2] /\ pc'[w] = "commit"
      BY <1>1, <2>1, <2>2, <2>3, <2>5 DEF OInv, OffsetInv
    <2>6. QED
      BY <1>3, <2>1, <2>4, <2>5
  <1>4. ASSUME NEW p \in Partition, NEW n \in 1 .. position'[p]
        PROVE  \/ Recorded(p, n)'
               \/ /\ n = position'[p]
                  /\ pc'[owner'[p]] # "poll" /\ record'[owner'[p]] = <<p, n>>
    <2>1. n \in 1 .. position[p] /\ n \in 1 .. Len(topic[p])
      BY <1>1, <1>4 DEF OInv, OffsetInv
    <2>2. \/ Recorded(p, n)
          \/ n = position[p] /\ pc[owner[p]] # "poll" /\ record[owner[p]] = <<p, n>>
      BY <2>1 DEF OInv, OffsetInv
    <2>3. QED
      BY <1>1, <2>1, <2>2
  <1>5. OffsetInv'
    BY <1>2, <1>3, <1>4 DEF OffsetInv, Recorded
  <1>6. CommittedIsRecorded'
    <2> SUFFICES ASSUME NEW p \in Partition, NEW n \in 1 .. committed'[p]
                 PROVE  Recorded(p, n)'
      BY DEF CommittedIsRecorded, Recorded
    <2>1. n \in 1 .. committed[p] /\ n \in 1 .. Len(topic[p])
      BY <1>1 DEF OInv, OffsetInv
    <2>2. Recorded(p, n)
      BY <2>1 DEF OInv, CommittedIsRecorded, Recorded
    <2>3. QED
      BY <1>1, <2>1, <2>2
  <1>7. QED
    BY <1>5, <1>6 DEF OInv

\* Where positions fall back to the committed offset, everything below them
\* is recorded.
LEMMA FallsBack ==
  ASSUME OInv, EInv', UNCHANGED <<evidence, topic, committed>>,
         \A p \in Partition :
           \/ position'[p] = committed[p]
           \/ /\ position'[p] = position[p] /\ owner'[p] = owner[p]
              /\ pc'[owner[p]] = pc[owner[p]] /\ record'[owner[p]] = record[owner[p]],
         \A w \in Worker : pc'[w] # "poll" => pc'[w] = pc[w] /\ record'[w] = record[w]
  PROVE  OInv'
  <1>1. CommittedIsRecorded'
    BY DEF OInv, CommittedIsRecorded
  <1>2. \A p \in Partition : /\ committed'[p] <= Len(topic'[p])
                             /\ position'[p] <= Len(topic'[p])
    BY DEF OInv, OffsetInv
  <1>3. ASSUME NEW w \in Worker, pc'[w] # "poll"
        PROVE  \A n \in 1 .. Len(topic'[record'[w][1]]) :
                 \/ n < record'[w][2]
                 \/ n = record'[w][2] /\ pc'[w] = "commit"
                 => evidence'[topic'[record'[w][1]][n]] # None
    BY <1>3 DEF OInv, OffsetInv, Recorded
  <1>4. ASSUME NEW p \in Partition, NEW n \in 1 .. position'[p]
        PROVE  \/ evidence'[topic'[p][n]] # None
               \/ /\ n = position'[p]
                  /\ pc'[owner'[p]] # "poll" /\ record'[owner'[p]] = <<p, n>>
    <2>1. CASE position'[p] = committed[p]
      BY <1>4, <2>1 DEF OInv, CommittedIsRecorded
    <2>2. CASE /\ position'[p] = position[p] /\ owner'[p] = owner[p]
               /\ pc'[owner[p]] = pc[owner[p]] /\ record'[owner[p]] = record[owner[p]]
      BY <1>4, <2>2 DEF OInv, OffsetInv, Recorded
    <2>3. QED
      BY <2>1, <2>2
  <1>5. QED
    BY <1>1, <1>2, <1>3, <1>4 DEF OInv, OffsetInv, Recorded

LEMMA RestartKeepsOffsets == ASSUME OInv, NEW w \in Worker, Restart(w) PROVE OInv'
  <1>1. EInv'
    BY RestartStep DEF OInv
  <1>2. /\ UNCHANGED <<evidence, topic, committed, owner>>
        /\ pc' = [pc EXCEPT ![w] = "poll"]
        /\ record' = [record EXCEPT ![w] = NoRecord]
        /\ position' = [p \in Partition |->
                          IF owner[p] = w THEN committed[p] ELSE position[p]]
    BY DEF Restart, ledgerVars, db
  <1>3. \A v \in Worker : IF v = w THEN pc'[v] = "poll"
                          ELSE pc'[v] = pc[v] /\ record'[v] = record[v]
    BY <1>2 DEF OInv, EInv, EngineTypeOK
  <1>4. \A p \in Partition : owner[p] \in Worker
    BY DEF OInv, EInv, EngineTypeOK
  <1>5. QED
    BY <1>1, <1>2, <1>3, <1>4, FallsBack

LEMMA RebalanceKeepsOffsets ==
  ASSUME OInv, NEW p \in Partition, NEW w \in Worker, Rebalance(p, w)
  PROVE  OInv'
  <1>1. EInv'
    BY RebalanceStep DEF OInv
  <1>2. /\ UNCHANGED <<evidence, topic, committed, pc, record>>
        /\ owner' = [owner EXCEPT ![p] = w]
        /\ position' = [position EXCEPT ![p] = committed[p]]
    BY DEF Rebalance, ledgerVars, db, worker
  <1>3. \A q \in Partition : IF q = p THEN position'[q] = committed[q]
                             ELSE position'[q] = position[q] /\ owner'[q] = owner[q]
    BY <1>2 DEF OInv, EInv, EngineTypeOK
  <1>4. QED
    BY <1>1, <1>2, <1>3, FallsBack

LEMMA PollKeepsOffsets ==
  ASSUME OInv, NEW w \in Worker, NEW p \in Partition, Poll(w, p)
  PROVE  OInv'
  <1>1. EInv'
    BY PollStep DEF OInv
  <1>2. /\ UNCHANGED <<evidence, topic, committed, owner>>
        /\ pc[w] = "poll" /\ owner[p] = w /\ position[p] < Len(topic[p])
        /\ pc' = [pc EXCEPT ![w] = "lock"]
        /\ record' = [record EXCEPT ![w] = <<p, position[p] + 1>>]
        /\ position' = [position EXCEPT ![p] = @ + 1]
    BY DEF Poll, ledgerVars, db
  <1>3. /\ pc'[w] = "lock" /\ record'[w] = <<p, position[p] + 1>>
        /\ \A v \in Worker : v # w => pc'[v] = pc[v] /\ record'[v] = record[v]
        /\ position'[p] = position[p] + 1
        /\ \A q \in Partition : /\ q # p => position'[q] = position[q]
                                /\ position[q] \in Nat /\ Len(topic[q]) \in Nat
                                /\ owner[q] \in Worker
    BY <1>2 DEF OInv, EInv, EngineTypeOK
  <1>4. CommittedIsRecorded'
    BY <1>2 DEF OInv, CommittedIsRecorded
  <1>5. \A q \in Partition : /\ committed'[q] <= Len(topic'[q])
                             /\ position'[q] <= Len(topic'[q])
    BY <1>2, <1>3 DEF OInv, OffsetInv
  <1>6. \A n \in 1 .. position[p] : Recorded(p, n)
    BY <1>2 DEF OInv, OffsetInv
  <1>7. ASSUME NEW v \in Worker, pc'[v] # "poll"
        PROVE  \A n \in 1 .. Len(topic'[record'[v][1]]) :
                 \/ n < record'[v][2]
                 \/ n = record'[v][2] /\ pc'[v] = "commit"
                 => evidence'[topic'[record'[v][1]][n]] # None
    <2>1. CASE v = w
      BY <1>2, <1>3, <1>6, <2>1 DEF Recorded
    <2>2. CASE v # w
      BY <1>2, <1>3, <1>7, <2>2 DEF OInv, OffsetInv, Recorded
    <2>3. QED
      BY <2>1, <2>2
  <1>8. ASSUME NEW q \in Partition, NEW n \in 1 .. position'[q]
        PROVE  \/ evidence'[topic'[q][n]] # None
               \/ /\ n = position'[q]
                  /\ pc'[owner'[q]] # "poll" /\ record'[owner'[q]] = <<q, n>>
    <2>1. CASE q = p /\ n = position[p] + 1
      BY <1>2, <1>3, <2>1
    <2>2. CASE q = p /\ n # position[p] + 1
      BY <1>2, <1>3, <1>6, <1>8, <2>2 DEF Recorded
    <2>3. CASE q # p
      <3>1. \/ Recorded(q, n)
            \/ n = position[q] /\ pc[owner[q]] # "poll" /\ record[owner[q]] = <<q, n>>
        BY <1>3, <1>8, <2>3 DEF OInv, OffsetInv
      <3>2. owner[q] = w => Recorded(q, n)
        BY <1>2, <3>1
      <3>3. QED
        BY <1>2, <1>3, <2>3, <3>1, <3>2 DEF Recorded
    <2>4. QED
      BY <2>1, <2>2, <2>3
  <1>9. QED
    BY <1>1, <1>4, <1>5, <1>7, <1>8 DEF OInv, OffsetInv, Recorded

LEMMA CommitOffsetKeepsOffsets ==
  ASSUME OInv, NEW w \in Worker, CommitOffset(w)
  PROVE  OInv'
  <1> DEFINE p == record[w][1]
             m == record[w][2]
  <1>1. EInv'
    BY CommitOffsetStep DEF OInv
  <1>2. /\ UNCHANGED <<evidence, topic, position, owner>>
        /\ pc[w] = "commit"
        /\ pc' = [pc EXCEPT ![w] = "poll"]
        /\ record' = [record EXCEPT ![w] = NoRecord]
        /\ committed' = [committed EXCEPT ![p] = m]
    BY DEF CommitOffset, ledgerVars, db
  <1>3. p \in Partition /\ m \in 1 .. Len(topic[p]) /\ Len(topic[p]) \in Nat
    BY <1>2 DEF OInv, EInv, RecordInv, EngineTypeOK
  <1>4. \A n \in 1 .. m : Recorded(p, n)
    BY <1>2, <1>3 DEF OInv, OffsetInv
  <1>5. /\ pc'[w] = "poll"
        /\ \A v \in Worker : v # w => pc'[v] = pc[v] /\ record'[v] = record[v]
        /\ committed'[p] = m
        /\ \A q \in Partition : /\ q # p => committed'[q] = committed[q]
                                /\ owner[q] \in Worker
    BY <1>2, <1>3 DEF OInv, EInv, EngineTypeOK
  <1> HIDE DEF p, m
  <1>6. CommittedIsRecorded'
    <2> SUFFICES ASSUME NEW q \in Partition, NEW n \in 1 .. committed'[q]
                 PROVE  evidence'[topic'[q][n]] # None
      BY DEF CommittedIsRecorded
    <2>1. CASE q = p
      BY <1>2, <1>4, <1>5, <2>1 DEF Recorded
    <2>2. CASE q # p
      BY <1>2, <1>5, <2>2 DEF OInv, CommittedIsRecorded
    <2>3. QED
      BY <2>1, <2>2
  <1>7. \A q \in Partition : /\ committed'[q] <= Len(topic'[q])
                             /\ position'[q] <= Len(topic'[q])
    BY <1>2, <1>3, <1>5 DEF OInv, OffsetInv
  <1>8. ASSUME NEW v \in Worker, pc'[v] # "poll"
        PROVE  \A n \in 1 .. Len(topic'[record'[v][1]]) :
                 \/ n < record'[v][2]
                 \/ n = record'[v][2] /\ pc'[v] = "commit"
                 => evidence'[topic'[record'[v][1]][n]] # None
    BY <1>2, <1>5, <1>8 DEF OInv, OffsetInv, Recorded
  <1>9. ASSUME NEW q \in Partition, NEW n \in 1 .. position'[q]
        PROVE  \/ evidence'[topic'[q][n]] # None
               \/ /\ n = position'[q]
                  /\ pc'[owner'[q]] # "poll" /\ record'[owner'[q]] = <<q, n>>
    <2>1. \/ Recorded(q, n)
          \/ n = position[q] /\ pc[owner[q]] # "poll" /\ record[owner[q]] = <<q, n>>
      BY <1>2, <1>9 DEF OInv, OffsetInv
    <2>2. CASE owner[q] = w /\ record[w] = <<q, n>>
      <3>1. q = p /\ n = m
        BY <2>2 DEF p, m
      <3>2. QED
        BY <1>2, <1>3, <1>4, <3>1 DEF Recorded
    <2>3. CASE ~(owner[q] = w /\ record[w] = <<q, n>>)
      BY <1>2, <1>5, <2>1, <2>3 DEF Recorded
    <2>4. QED
      BY <2>2, <2>3
  <1>10. QED
    BY <1>1, <1>6, <1>7, <1>8, <1>9 DEF OInv, OffsetInv, Recorded

LEMMA OffsetStep == OInv /\ [EngineNext]_engineVars => OInv'
  <1> SUFFICES ASSUME OInv, [EngineNext]_engineVars PROVE OInv'
    OBVIOUS
  <1>1. EInv /\ EInv'
    BY EngineStep DEF OInv
  <1>2. pc \in [Worker -> {"poll", "lock", "select", "apply", "commit"}]
    BY DEF OInv, EInv, EngineTypeOK
  <1>3. ASSUME NEW e \in Evidence, Publish(e) PROVE OInv'
    BY <1>1, <1>3, KeepsOffsets DEF Publish, worker
  <1>4. ASSUME NEW w \in Worker, Step(w) PROVE OInv'
    <2>1. ASSUME NEW p \in Partition, Poll(w, p) PROVE OInv'
      BY <2>1, PollKeepsOffsets
    <2>2. CASE TryLock(w) \/ LockBusy(w) \/ SelectCampaign(w)
      <3>1. /\ UNCHANGED <<committed, position, owner, record>>
            /\ \/ pc' = pc
               \/ pc[w] # "poll" /\ pc' = [pc EXCEPT ![w] = "select"]
               \/ pc[w] # "poll" /\ pc' = [pc EXCEPT ![w] = "apply"]
        BY <2>2 DEF TryLock, LockBusy, SelectCampaign, kafka
      <3>2. QED
        BY <1>1, <1>2, <3>1, KeepsOffsets
    <2>3. CASE SelectDuplicate(w)
      <3>1. /\ UNCHANGED <<committed, position, owner, record, evidence, topic>>
            /\ pc[w] = "select" /\ pc' = [pc EXCEPT ![w] = "commit"]
            /\ evidence[EventOf(w).id] # None
        BY <2>3 DEF SelectDuplicate, ledgerVars, db, kafka
      <3>2. EventOf(w).id = topic[record[w][1]][record[w][2]]
        BY <1>1, <3>1, EventOfBusyWorker DEF EInv
      <3>3. Recorded(record[w][1], record[w][2])'
        BY <3>1, <3>2 DEF Recorded
      <3>4. \A v \in Worker : \/ pc'[v] = pc[v]
                              \/ /\ pc[v] # "poll" /\ pc'[v] = "commit"
                                 /\ Recorded(record[v][1], record[v][2])'
        BY <1>2, <3>1, <3>3
      <3>5. QED
        BY <1>1, <3>1, <3>4, KeepsOffsets
    <2>4. CASE CommitTransaction(w)
      <3>1. /\ UNCHANGED <<committed, position, owner, record, topic>>
            /\ pc[w] = "apply" /\ pc' = [pc EXCEPT ![w] = "commit"]
        BY <2>4 DEF CommitTransaction, kafka
      <3>2. EventOf(w).id = topic[record[w][1]][record[w][2]]
        BY <1>1, <3>1, EventOfBusyWorker DEF EInv
      <3>3. Recorded(record[w][1], record[w][2])'
        BY <1>1, <2>4, <3>1, <3>2, CommitTransactionStep DEF Recorded
      <3>4. \A v \in Worker : \/ pc'[v] = pc[v]
                              \/ /\ pc[v] # "poll" /\ pc'[v] = "commit"
                                 /\ Recorded(record[v][1], record[v][2])'
        BY <1>2, <3>1, <3>3
      <3>5. QED
        BY <1>1, <3>1, <3>4, KeepsOffsets
    <2>5. CASE CommitOffset(w)
      BY <2>5, CommitOffsetKeepsOffsets
    <2>6. CASE LockTimeout(w) \/ CommitRejected(w)
      BY <2>6, RestartKeepsOffsets DEF LockTimeout, CommitRejected
    <2>7. QED
      BY <1>4, <2>1, <2>2, <2>3, <2>4, <2>5, <2>6 DEF Step
  <1>5. ASSUME NEW w \in Worker, Crash(w) PROVE OInv'
    BY <1>5, RestartKeepsOffsets DEF Crash
  <1>6. ASSUME NEW p \in Partition, NEW w \in Worker, Rebalance(p, w) PROVE OInv'
    BY <1>6, RebalanceKeepsOffsets
  <1>7. ASSUME NEW a \in EventId \X AlertType, Acknowledge(a) PROVE OInv'
    BY <1>1, <1>7, KeepsOffsets DEF Acknowledge, kafka, worker
  <1>8. CASE UNCHANGED engineVars
    BY <1>1, <1>8, KeepsOffsets DEF engineVars, kafka, worker
  <1>9. QED
    BY <1>3, <1>4, <1>5, <1>6, <1>7, <1>8 DEF EngineNext

(***************************************************************************)
(* At-least-once processing: every record below a committed offset has its *)
(* row in campaign_evidence, through crashes, lock timeouts, rebalances    *)
(* and late commits of a worker that lost its partition and got it back.   *)
(***************************************************************************)
THEOREM CommittedIsRecordedTheorem == EngineSpec => []CommittedIsRecorded
  <1>1. EngineInit => OInv
    <2> SUFFICES ASSUME EngineInit PROVE OffsetInv /\ CommittedIsRecorded
      BY EngineInitially DEF OInv
    <2>1. QED
      BY DEF EngineInit, OffsetInv, CommittedIsRecorded
  <1>2. OInv => CommittedIsRecorded
    BY DEF OInv
  <1>3. QED
    BY <1>1, <1>2, OffsetStep, PTL DEF EngineSpec

(***************************************************************************)
(* Redelivery, retries and concurrent workers never rewrite or remove a    *)
(* row of campaign_evidence.                                               *)
(***************************************************************************)
THEOREM EvidenceRowsAreFinalTheorem == EngineSpec => EvidenceRowsAreFinal
  <1>1. EInv /\ [EngineNext]_engineVars
        => [\A i \in EventId : evidence[i] # None => evidence'[i] = evidence[i]]_evidence
    BY RecordsAreKept
  <1>2. QED
    BY <1>1, EngineInvariant, PTL DEF EngineSpec, EvidenceRowsAreFinal
=============================================================================
