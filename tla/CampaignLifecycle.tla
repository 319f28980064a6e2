------------------------- MODULE CampaignLifecycle -------------------------
(***************************************************************************)
(* One campaign from the evidence that opens it to its end: the stage it   *)
(* moves through under any sequence of scores, and the alerts raised on    *)
(* the way (CampaignStateMachine.assess, called for each applied score).   *)
(***************************************************************************)
EXTENDS CampaignPolicy

CONSTANT Score  \* the fusion results considered

ASSUME ScoreAssumption == Score \subseteq FusionResult

VARIABLES stage,     \* the campaign's stage
          visited,   \* stages the campaign has entered
          raised,    \* alert types triggered so far
          rejected   \* assess() raised InvalidCampaignTransition

vars == <<stage, visited, raised, rejected>>

Init ==
  /\ stage = "NORMAL"
  /\ visited = {"NORMAL"}
  /\ raised = {}
  /\ rejected = FALSE

\* Mutant: a shortcut to DUMP past the transition table.
Assess_ReversalIsDump(score) ==
  /\ stage' = IF SharpReversal(score) THEN "DUMP" ELSE NextStage(stage, score)
  /\ visited' = visited \cup {stage'}
  /\ UNCHANGED <<raised, rejected>>

\* assess(): the next stage is validated against the transition table before
\* anything is written; a rejected score raises and changes nothing.
Assess(score) ==
  LET target == NextStage(stage, score)
      valid  == target \in Transitions(stage)
  IN /\ ~rejected
     /\ rejected' = ~valid
     /\ stage' = IF valid THEN target ELSE stage
     /\ visited' = visited \cup {stage'}
     /\ raised' = IF valid THEN raised \cup {t \in AlertType : Triggered(t, score)}
                  ELSE raised

Next == \E score \in Score : Assess(score)

Spec == Init /\ [][Next]_vars

-----------------------------------------------------------------------------
TypeOK ==
  /\ stage \in Stage
  /\ visited \subseteq Stage
  /\ raised \subseteq AlertType
  /\ rejected \in BOOLEAN

(***************************************************************************)
(* The rules of _next_stage never leave the transition table, so assess()  *)
(* never raises: a rejected score would be redelivered to the campaign     *)
(* worker for ever.                                                        *)
(***************************************************************************)
NeverRejected == ~rejected

(***************************************************************************)
(* The stages tell a story: a dump is only reported for a campaign that    *)
(* was seen coordinating or pumping, and those only after social seeding.  *)
(***************************************************************************)
DumpHasBuildUp ==
  /\ "DUMP" \in visited =>
       visited \cap {"COORDINATED_AMPLIFICATION", "MARKET_PUMP"} # {}
  /\ visited \subseteq {"NORMAL"} \/ "EARLY_SOCIAL_SEEDING" \in visited
  /\ "POSSIBLE_DISTRIBUTION" \in visited => "MARKET_PUMP" \in visited

(***************************************************************************)
(* What assess() promises of the stages of a campaign: it never raises, so *)
(* no record blocks its partition, and the stages it records tell a story. *)
(***************************************************************************)
StagesInv == NeverRejected /\ DumpHasBuildUp

(***************************************************************************)
(* The stage rules and the alert rules have separate thresholds, and agree *)
(* where it matters: a campaign that entered seeding, coordination or a    *)
(* dump has raised the alert of that name.                                 *)
(***************************************************************************)
StagesAreAlerted ==
  /\ "EARLY_SOCIAL_SEEDING" \in visited => "SOCIAL_HYPE_SURGE" \in raised
  /\ "COORDINATED_AMPLIFICATION" \in visited => "COORDINATED_PROMOTION" \in raised
  /\ "DUMP" \in visited => "POSSIBLE_DUMP_PHASE" \in raised

(***************************************************************************)
(* Only social seeding can be taken back: from the moment coordination or  *)
(* market evidence is recorded, the campaign never returns to NORMAL or to *)
(* seeding, and POST_EVENT is final.                                       *)
(***************************************************************************)
NeverRewound ==
  [][/\ stage \notin {"NORMAL", "EARLY_SOCIAL_SEEDING"} =>
          stage' \notin {"NORMAL", "EARLY_SOCIAL_SEEDING"}
     /\ stage = "POST_EVENT" => stage' = "POST_EVENT"]_stage
=============================================================================
