-------------------------- MODULE MCCampaignEngine --------------------------
(***************************************************************************)
(* Instances of CampaignEngine: scores of one alert type, so that the  *)
(* contents of evidence stay few and the interleavings of workers many.    *)
(***************************************************************************)
EXTENDS CampaignEngine

Seeding ==
  [social_score |-> 350, coordination_score |-> None, market_score |-> None,
   claim_risk |-> None, fusion_score |-> 350, severity |-> RiskWatch,
   price_return |-> None, buy_sell_pressure |-> None, relative_volume |-> None,
   spread |-> None, orderbook_imbalance |-> None]

MCScoreOne == {Seeding}

\* Keys are spread over the partitions; with one partition all share it.
MCPartitionOf == CHOOSE f \in [Key -> Partition] :
                   \A p \in Partition : Partition = {p} \/ \E k \in Key : f[k] = p
=============================================================================
