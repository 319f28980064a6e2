-------------------------- MODULE MCCampaignLedger --------------------------
(***************************************************************************)
(* Instances of CampaignLedger: a few fusion results on both sides of the  *)
(* thresholds that matter to alerts and stages.                            *)
(***************************************************************************)
EXTENDS CampaignLedger, TLC

Quiet ==
  [social_score |-> 100, coordination_score |-> None, market_score |-> 100,
   claim_risk |-> None, fusion_score |-> 100, severity |-> RiskNormal,
   price_return |-> 0, buy_sell_pressure |-> 0, relative_volume |-> 1000,
   spread |-> 0, orderbook_imbalance |-> None]

\* Social seeding: one alert, severity WATCH.
Seeding == [Quiet EXCEPT !.social_score = 350, !.fusion_score = 200]

\* The same alert at severity HIGH, and coordination.
Coordination == [Quiet EXCEPT !.social_score = 650, !.coordination_score = 600,
                              !.fusion_score = 500, !.severity = RiskWatch]

MCScore == {Quiet, Seeding, Coordination}
Symmetry == Permutations(EventId)
=============================================================================
