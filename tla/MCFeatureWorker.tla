--------------------------- MODULE MCFeatureWorker --------------------------
(* Two market records of one window, out of order on their partition, and a *)
(* social pair (mention and post on topics of their own) of a window before *)
(* it, which the later market record finalizes or, if the market was        *)
(* degraded, the quality signal after that record.                          *)
EXTENDS FeatureWorker

Healthy == [active |-> TRUE, idle |-> FALSE, degraded |-> FALSE]
Degraded == [active |-> TRUE, idle |-> FALSE, degraded |-> TRUE]
Rec(k, t, d, h) == [key |-> k, time |-> t, domain |-> d, half |-> h]
MCRecords ==
  << <<Rec("m1", 5, "market", "datum"), Rec("m2", 4, "market", "datum")>>,
     <<Rec("p1", 1, "social", "mention")>>,
     <<Rec("p1", 1, "social", "post")>> >>
MCHealth == {Healthy, Degraded}
MCAllRecords ==
  UNION {{MCRecords[p][k] : k \in DOMAIN MCRecords[p]} : p \in DOMAIN MCRecords}
SignalsFor(r) ==
  LET S == {SignalsOf(r, <<h>>) : h \in MCHealth}
  IN  UNION {{q[k] : k \in DOMAIN q} : q \in S}
MCSignal == UNION {SignalsFor(r) : r \in MCAllRecords}
MCIntervalOrder == <<2>>
MCReporting == {"market", "social"}

\* The hypotheses of the theorem about CaughtUpInv hold of these inputs.
ASSUME CaughtUpHypotheses == KeysIdentifyEvents /\ EverySourceReports
=============================================================================
