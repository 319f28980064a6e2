-------------------------- MODULE MCFeatureWindows --------------------------
(* Seven signals of both domains in all orders: late ones, one that reports a *)
(* degraded source and one that reports it healthy again.                   *)
EXTENDS FeatureWindows

Healthy == [active |-> TRUE, idle |-> FALSE, degraded |-> FALSE]
Degraded == [active |-> TRUE, idle |-> FALSE, degraded |-> TRUE]
Sig(i, t, d, k, h) == [id |-> i, time |-> t, domain |-> d, kind |-> k, health |-> h]

MCSignal ==
  {Sig(1, 0, "market", "data", Healthy), Sig(2, 3, "market", "data", Healthy),
   Sig(3, 7, "market", "data", Healthy), Sig(4, 3, "market", "quality", Degraded),
   Sig(5, 7, "market", "quality", Healthy), Sig(6, 1, "social", "data", Healthy),
   Sig(7, 5, "social", "data", Healthy)}
MCIntervalOrder == <<2, 4>>
=============================================================================
