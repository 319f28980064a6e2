-------------------------------- MODULE MCFeeds --------------------------------
(***************************************************************************)
(* What feeds the campaign core, checked side by side: the initial state   *)
(* chooses one part, and only it moves.  The parts share no state here, so *)
(* each is explored exactly as if it were alone.                           *)
(***************************************************************************)
EXTENDS Ingestion, Persistence, Verification, ReplaySessions

VARIABLE part

feedsVars == <<part, ingestionVars, persistenceVars, verificationVars, replayVars>>

Parts == {"ingestion", "persistence", "verification", "replays"}

FeedsInit ==
  /\ part \in Parts
  /\ IngestionInit /\ PersistenceInit /\ VerificationInit /\ ReplayInit
  /\ part # "ingestion" => source = "market"
  /\ part # "persistence" => feed = Half

(* The step A of the part p.                                               *)
Step(p, A) ==
  /\ part = p /\ A
  /\ UNCHANGED part
  /\ p # "ingestion" => UNCHANGED ingestionVars
  /\ p # "persistence" => UNCHANGED persistenceVars
  /\ p # "verification" => UNCHANGED verificationVars
  /\ p # "replays" => UNCHANGED replayVars

FeedsNext ==
  \/ Step("ingestion", IngestionNext)
  \/ Step("persistence", PersistenceNext)
  \/ Step("verification", VerificationNext)
  \/ Step("replays", ReplayNext)

FeedsSpec ==
  /\ FeedsInit /\ [][FeedsNext]_feedsVars
  /\ WF_feedsVars(Step("verification", ConnectorWorks))
  /\ WF_feedsVars(Step("verification", RecoveryElapses))
  /\ \A w \in Runner : WF_feedsVars(Step("replays", RunnerSteps(w)))
=============================================================================
