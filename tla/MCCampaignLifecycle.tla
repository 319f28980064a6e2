------------------------ MODULE MCCampaignLifecycle ------------------------
(***************************************************************************)
(* Scores at both sides of every threshold the stage rules test.           *)
(***************************************************************************)
EXTENDS CampaignLifecycle

MCScore ==
  {r \in [social_score : {None, 190, 350}, coordination_score : {None, 549, 550},
          market_score : {None, 599, 600}, claim_risk : {None},
          fusion_score : {350}, severity : RiskLevel,
          price_return : {None, -80, -79, -49, -21, -20},
          buy_sell_pressure : {None, -500, -499, -250, -249},
          relative_volume : {2500}, spread : {0}, orderbook_imbalance : {None}] :
     r \in FusionResult}
=============================================================================
