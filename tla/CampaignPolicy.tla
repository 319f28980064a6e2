--------------------------- MODULE CampaignPolicy ---------------------------
(***************************************************************************)
(* The campaign stage machine: which stage a fusion score moves a campaign *)
(* to, and which alerts it triggers (campaigns/policy.py).                 *)
(*                                                                         *)
(* Scores and signals are integers in thousandths (0.35 is 350), so every  *)
(* threshold of the code is an exact comparison.  A detector output that   *)
(* is missing in the FusionResult is None.                                 *)
(***************************************************************************)
EXTENDS Integers

CONSTANT None  \* Python's None: not a number, not a row

ASSUME NoneAssumption == None \notin Int

(***************************************************************************)
(* Risk levels are represented by their rank in _RISK_RANK.                *)
(***************************************************************************)
RiskNormal == 0
RiskWatch == 1
RiskHigh == 2
RiskCritical == 3
RiskLevel == 0 .. 3

max_risk(left, right) == IF left >= right THEN left ELSE right

(***************************************************************************)
(* FusionEngine._severity with its default thresholds.                     *)
(***************************************************************************)
Severity(risk) ==
  IF risk >= 800 THEN RiskCritical
  ELSE IF risk >= 600 THEN RiskHigh
  ELSE IF risk >= 350 THEN RiskWatch
  ELSE RiskNormal

Stage == {"NORMAL", "EARLY_SOCIAL_SEEDING", "COORDINATED_AMPLIFICATION",
          "MARKET_PUMP", "POSSIBLE_DISTRIBUTION", "DUMP", "POST_EVENT"}

Transitions(current) ==
  CASE current = "NORMAL" -> {"NORMAL", "EARLY_SOCIAL_SEEDING"}
    [] current = "EARLY_SOCIAL_SEEDING" ->
         {"NORMAL", "EARLY_SOCIAL_SEEDING", "COORDINATED_AMPLIFICATION",
          "MARKET_PUMP", "POST_EVENT"}
    [] current = "COORDINATED_AMPLIFICATION" ->
         {"COORDINATED_AMPLIFICATION", "MARKET_PUMP", "DUMP", "POST_EVENT"}
    [] current = "MARKET_PUMP" ->
         {"MARKET_PUMP", "POSSIBLE_DISTRIBUTION", "DUMP"}
    [] current = "POSSIBLE_DISTRIBUTION" ->
         {"POSSIBLE_DISTRIBUTION", "DUMP", "POST_EVENT"}
    [] current = "DUMP" -> {"DUMP", "POST_EVENT"}
    [] OTHER -> {"POST_EVENT"}

AlertType == {"SOCIAL_HYPE_SURGE", "COORDINATED_PROMOTION",
              "UNVERIFIED_NARRATIVE", "MARKET_VOLUME_ANOMALY",
              "MARKET_PRICE_ANOMALY", "MARKET_MICROSTRUCTURE_ANOMALY",
              "CROSS_DOMAIN_MANIPULATION_RISK", "POSSIBLE_DUMP_PHASE"}

Optional(S) == S \cup {None}

(***************************************************************************)
(* The part of a FusionResult that the policy reads.  The market anomaly   *)
(* risk is the market score; the social coordination risk and the two      *)
(* domain severities are derived from the detector scores below.  Without  *)
(* a market score of 0.35 fuse() caps the severity at WATCH.               *)
(***************************************************************************)
FusionResult ==
  {r \in [social_score : Optional(Nat), coordination_score : Optional(Nat),
          market_score : Optional(Nat), claim_risk : Optional(Nat),
          fusion_score : Nat, severity : RiskLevel,
          price_return : Optional(Int), buy_sell_pressure : Optional(Int),
          relative_volume : Optional(Int), spread : Optional(Int),
          orderbook_imbalance : Optional(Int)] :
     \/ r.market_score \in Nat /\ r.market_score >= 350
     \/ r.severity <= RiskWatch}

OrZero(x) == IF x = None THEN 0 ELSE x       \* Python's  x or 0.0
Abs(x) == IF x < 0 THEN -x ELSE x

(***************************************************************************)
(* fuse(): 0.30 social + 0.70 coordination over the scores that are there. *)
(***************************************************************************)
social_coordination_risk(score) ==
  CASE score.social_score # None /\ score.coordination_score # None ->
         (3 * score.social_score + 7 * score.coordination_score) \div 10
    [] score.social_score # None /\ score.coordination_score = None ->
         score.social_score
    [] OTHER -> score.coordination_score

SocialRisk(score) == OrZero(social_coordination_risk(score))
MarketRisk(score) == OrZero(score.market_score)
SocialSeverity(score) == Severity(SocialRisk(score))
MarketSeverity(score) == Severity(MarketRisk(score))

-----------------------------------------------------------------------------
(***************************************************************************)
(* The conditions of _next_stage.  A social coordination risk that is      *)
(* missing, or exactly zero, falls back to the social surge score.         *)
(***************************************************************************)
StageSocial(score) ==
  IF SocialRisk(score) # 0 THEN SocialRisk(score) ELSE OrZero(score.social_score)

Coordinated(score) == OrZero(score.coordination_score) >= 550
PumpCorroborated(score) ==
  MarketRisk(score) >= 600 /\ score.severity >= RiskHigh
SharpReversal(score) == OrZero(score.price_return) <= -80
SellPressure(score) ==
  OrZero(score.buy_sell_pressure) <= -250 \/ OrZero(score.price_return) < -20
Calm(score) == score.severity = RiskNormal
SocialDecayed(score) == Calm(score) /\ StageSocial(score) < 200

NextStage(current, score) ==
  CASE current = "NORMAL" ->
         IF StageSocial(score) >= 350 THEN "EARLY_SOCIAL_SEEDING" ELSE current
    [] current = "EARLY_SOCIAL_SEEDING" ->
         IF PumpCorroborated(score) THEN "MARKET_PUMP"
         ELSE IF Coordinated(score) THEN "COORDINATED_AMPLIFICATION"
         ELSE IF SocialDecayed(score) THEN "NORMAL"
         ELSE current
    [] current = "COORDINATED_AMPLIFICATION" ->
         IF SharpReversal(score) THEN "DUMP"
         ELSE IF PumpCorroborated(score) THEN "MARKET_PUMP"
         ELSE IF SocialDecayed(score) THEN "POST_EVENT"
         ELSE current
    [] current = "MARKET_PUMP" ->
         IF SharpReversal(score) THEN "DUMP"
         ELSE IF SellPressure(score) THEN "POSSIBLE_DISTRIBUTION"
         ELSE current
    [] current = "POSSIBLE_DISTRIBUTION" ->
         IF SharpReversal(score) \/ OrZero(score.buy_sell_pressure) <= -500
         THEN "DUMP"
         ELSE IF Calm(score) THEN "POST_EVENT"
         ELSE current
    [] current = "DUMP" /\ Calm(score) -> "POST_EVENT"
    [] OTHER -> current

(***************************************************************************)
(* _alerts: the alert types a score triggers, and the severity of each.    *)
(* The code appends at most one trigger per type, so a set keeps them all. *)
(***************************************************************************)
Triggered_CoordinatedAboveThreshold(type, score) ==  \* mutant: > for >=
  \/ type = "SOCIAL_HYPE_SURGE" /\ SocialRisk(score) >= 350
  \/ type = "COORDINATED_PROMOTION" /\ OrZero(score.coordination_score) > 550
  \/ type = "POSSIBLE_DUMP_PHASE" /\ OrZero(score.price_return) <= -50

Triggered(type, score) ==
  LET social == SocialRisk(score)
      market == MarketRisk(score)
      ret    == OrZero(score.price_return)
  IN CASE type = "SOCIAL_HYPE_SURGE" -> social >= 350
       [] type = "COORDINATED_PROMOTION" -> Coordinated(score)
       [] type = "UNVERIFIED_NARRATIVE" -> OrZero(score.claim_risk) >= 600
       [] type = "MARKET_VOLUME_ANOMALY" ->
            market >= 350 /\ OrZero(score.relative_volume) >= 2500
       [] type = "MARKET_PRICE_ANOMALY" -> Abs(ret) >= 80
       [] type = "MARKET_MICROSTRUCTURE_ANOMALY" ->
            \/ OrZero(score.spread) >= 20
            \/ Abs(OrZero(score.orderbook_imbalance)) >= 700
       [] type = "CROSS_DOMAIN_MANIPULATION_RISK" ->
            score.fusion_score >= 350 /\ market >= 350 /\ social >= 350
       [] type = "POSSIBLE_DUMP_PHASE" ->
            ret <= -50 \/ OrZero(score.buy_sell_pressure) <= -350
       [] OTHER -> FALSE

TriggerSeverity(type, score) ==
  CASE type \in {"SOCIAL_HYPE_SURGE", "COORDINATED_PROMOTION"} ->
         SocialSeverity(score)
    [] type = "UNVERIFIED_NARRATIVE" -> max_risk(RiskWatch, score.severity)
    [] type = "CROSS_DOMAIN_MANIPULATION_RISK" -> score.severity
    [] type = "POSSIBLE_DUMP_PHASE" ->
         max_risk(RiskWatch, MarketSeverity(score))
    [] OTHER -> MarketSeverity(score)
=============================================================================
