------------------------------ MODULE MCServices ------------------------------
(***************************************************************************)
(* The services around the campaign core that need no fairness, checked    *)
(* side by side: the initial state chooses one part, and only it moves.    *)
(* The parts share no state here, so each is explored exactly as if it     *)
(* were alone.                                                             *)
(***************************************************************************)
EXTENDS MCCampaignLifecycle, MCNarratives, Detection, ThreatFeed, EvidenceLedger,
        Investigations, SourcePolicies, Realtime, RateLimiter, ModelGovernance

VARIABLE part

servicesVars == <<part, vars, narrativeVars, detectionVars, feedVars, evidenceVars,
                  deskVars, policyVars, realtimeVars, bucketVars, governanceVars>>

Parts == {"lifecycle", "narratives", "detection", "threats", "evidence", "desk",
          "policies", "realtime", "bucket", "governance"}

MCLag == [h \in Host |-> IF h = "h2" THEN MaxSkew ELSE 0]

ServicesInit ==
  /\ part \in Parts
  /\ Init /\ NarrativesInit /\ DetectionInit /\ ThreatFeedInit /\ EvidenceInit
  /\ DeskInit /\ PoliciesInit /\ RealtimeInit /\ BucketInit /\ GovernanceInit
  /\ part # "evidence" => owns = CHOOSE w \in EvidenceWorker : TRUE

(* The step A of the part p.                                               *)
Step(p, A) ==
  /\ part = p /\ A
  /\ UNCHANGED part
  /\ p # "lifecycle" => UNCHANGED vars
  /\ p # "narratives" => UNCHANGED narrativeVars
  /\ p # "detection" => UNCHANGED detectionVars
  /\ p # "threats" => UNCHANGED feedVars
  /\ p # "evidence" => UNCHANGED evidenceVars
  /\ p # "desk" => UNCHANGED deskVars
  /\ p # "policies" => UNCHANGED policyVars
  /\ p # "realtime" => UNCHANGED realtimeVars
  /\ p # "bucket" => UNCHANGED bucketVars
  /\ p # "governance" => UNCHANGED governanceVars

ServicesNext ==
  \/ Step("lifecycle", Next)
  \/ Step("narratives", NarrativesNext)
  \/ Step("detection", DetectionNext)
  \/ Step("threats", ThreatFeedNext)
  \/ Step("evidence", EvidenceNext)
  \/ Step("desk", DeskNext)
  \/ Step("policies", PoliciesNext)
  \/ Step("realtime", RealtimeNext)
  \/ Step("bucket", BucketNext)
  \/ Step("governance", GovernanceNext)

ServicesSpec == ServicesInit /\ [][ServicesNext]_servicesVars
=============================================================================
