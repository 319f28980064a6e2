---------------------------- MODULE ModelGovernance ----------------------------
(***************************************************************************)
(* The champion of a model family.  Artifacts are registered, labelled,    *)
(* calibrated, and promoted by a request that reads the candidate's        *)
(* calibration, the champion, and the evidence against the candidate in    *)
(* statements of their own, without a lock, before it decides.  An         *)
(* operator may also assign the alias by hand.                             *)
(*                                                                         *)
(*   registered    the artifacts of the family                             *)
(*   labelled      the artifacts with calibration labels enough, of both   *)
(*                 outcomes                                                *)
(*   calibrations  the calibrations fitted, oldest first                   *)
(*   drifted       the artifacts whose latest drift event is DRIFTED       *)
(*   reports       the false positives reported in the last 30 days        *)
(*   champion      the artifact the alias CHAMPION names                   *)
(*   evaluation    the promotion request of an approver                    *)
(*   disturbed     something was written while the request was open        *)
(*   changes, filed  the changes of the champion and the reports filed, to *)
(*                 bound them                                              *)
(***************************************************************************)
EXTENDS Naturals, Sequences

CONSTANTS Artifact, Approver,
          Brier,            \* the Brier scores, scaled
          BrierTolerance, FalsePositiveBudget,
          MaxCalibrations,  \* bound on the calibrations
          MaxChanges,       \* bound on the changes of the champion
          MaxReports,       \* bound on the drift events and false positives
          Nobody

ASSUME ModelGovernanceAssumption ==
  /\ Brier \subseteq Nat /\ Nobody \notin Artifact \union Approver
  /\ {BrierTolerance, FalsePositiveBudget, MaxCalibrations, MaxChanges, MaxReports} \subseteq Nat

VARIABLES registered, labelled, calibrations, drifted, reports, champion,
          evaluation, disturbed, changes, filed

registryVars == <<registered, labelled, calibrations>>
standingVars == <<drifted, reports, filed>>
governanceVars == <<registryVars, standingVars, champion, evaluation, disturbed, changes>>

Closed == [step |-> "closed"]

GovernanceInit ==
  /\ registered = {} /\ labelled = {} /\ calibrations = <<>>
  /\ drifted = {} /\ reports = [a \in Artifact |-> 0]
  /\ champion = Nobody /\ changes = 0 /\ filed = 0
  /\ evaluation = [e \in Approver |-> Closed] /\ disturbed = {}

Disturb(e) ==
  disturbed' = (disturbed \union {f \in Approver : evaluation[f] # Closed}) \ {e}

RegisterArtifact(a) ==
  /\ registered' = registered \union {a}
  /\ UNCHANGED <<labelled, calibrations, standingVars, champion, evaluation, disturbed, changes>>

CreateLabel(a) ==
  /\ a \in registered
  /\ labelled' = labelled \union {a}
  /\ UNCHANGED <<registered, calibrations, standingVars, champion, evaluation, disturbed, changes>>

(* What a fit measures is data.                                            *)
FitCalibration(a) ==
  /\ Len(calibrations) < MaxCalibrations
  /\ a \in labelled
  /\ \E b \in Brier, discriminates \in BOOLEAN :
       calibrations' = Append(calibrations,
         [artifact |-> a, brier |-> b, sound |-> discriminates])
  /\ Disturb(Nobody)
  /\ UNCHANGED <<registered, labelled, standingVars, champion, evaluation, changes>>

ReportDrift(a) ==
  /\ filed < MaxReports /\ filed' = filed + 1
  /\ \E s \in {{}, {a}} : drifted' = (drifted \ {a}) \union s
  /\ Disturb(Nobody)
  /\ UNCHANGED <<registryVars, reports, champion, evaluation, changes>>

ReportFalsePositive(a) ==
  /\ filed < MaxReports /\ filed' = filed + 1
  /\ reports' = [reports EXCEPT ![a] = @ + 1]
  /\ Disturb(Nobody)
  /\ UNCHANGED <<registryVars, drifted, champion, evaluation, changes>>

CrownedBy(e, a) ==
  /\ changes < MaxChanges
  /\ champion' = a
  /\ changes' = changes + 1
  /\ Disturb(e)

AssignAlias(a) ==
  /\ a \in registered
  /\ CrownedBy(Nobody, a)
  /\ UNCHANGED <<registryVars, standingVars, evaluation>>
-----------------------------------------------------------------------------
Calibrated(a) == {n \in DOMAIN calibrations : calibrations[n].artifact = a}
LatestOf(a) ==
  IF Calibrated(a) = {} THEN Nobody
  ELSE calibrations[CHOOSE n \in Calibrated(a) : \A k \in Calibrated(a) : k <= n]

StartEvaluation(e) ==
  /\ evaluation[e] = Closed
  /\ \E a \in registered :
       /\ LatestOf(a) # Nobody
       /\ evaluation' = [evaluation EXCEPT ![e] =
            [step |-> "calibrated", candidate |-> a, calibration |-> LatestOf(a)]]
  /\ UNCHANGED <<registryVars, standingVars, champion, disturbed, changes>>

ReadChampion(e) ==
  /\ evaluation[e].step = "calibrated"
  /\ evaluation' = [evaluation EXCEPT ![e] =
       [step |-> "compared", candidate |-> @.candidate, calibration |-> @.calibration,
        champion |-> champion]]
  /\ UNCHANGED <<registryVars, standingVars, champion, disturbed, changes>>

(* promotion_checks.                                                       *)
NotWorse(calibration, other) ==
  other # Nobody /\ calibration.brier <= other.brier + BrierTolerance
ChecksPassUncompared(request, other) ==  \* mutant: a champion without a calibration is compared with nothing
  LET required == other # Nobody /\ request.champion # request.candidate IN
  /\ request.calibration.sound
  /\ request.candidate \notin drifted
  /\ reports[request.candidate] <= FalsePositiveBudget
  /\ required => NotWorse(request.calibration, other)
ChecksPass(request, other) ==
  LET required == request.champion \notin {Nobody, request.candidate} IN
  /\ request.calibration.sound
  /\ request.candidate \notin drifted
  /\ reports[request.candidate] <= FalsePositiveBudget
  /\ required => NotWorse(request.calibration, other)
Close(e) ==
  /\ evaluation' = [evaluation EXCEPT ![e] = Closed]
  /\ disturbed' = disturbed \ {e}
ReadEvidence(e) ==
  /\ evaluation[e].step = "compared"
  /\ LET request == evaluation[e]
         other == IF request.champion = Nobody THEN Nobody ELSE LatestOf(request.champion) IN
     IF ChecksPass(request, other)
     THEN /\ evaluation' = [evaluation EXCEPT ![e] =
               [step |-> "passed", candidate |-> request.candidate,
                champion |-> request.champion]]
          /\ UNCHANGED disturbed
     ELSE Close(e)
  /\ UNCHANGED <<registryVars, standingVars, champion, changes>>

(* _promote_alias writes the alias over whatever it names by now, whether  *)
(* or not the request saw it - but a request that read the candidate as    *)
(* champion leaves the artifact it names alone: the session holds the row  *)
(* as it was read, and writes only who assigned it, why and when.          *)
Crowned(request) ==
  IF request.champion = request.candidate THEN champion ELSE request.candidate
Promote(e) ==
  /\ evaluation[e].step = "passed"
  /\ CrownedBy(e, Crowned(evaluation[e]))
  /\ evaluation' = [evaluation EXCEPT ![e] = Closed]
  /\ UNCHANGED <<registryVars, standingVars>>

(* Approved without the alias, or another request inserted it meanwhile.   *)
EndEvaluation(e) ==
  /\ evaluation[e].step = "passed"
  /\ Close(e)
  /\ UNCHANGED <<registryVars, standingVars, champion, changes>>

GovernanceNext ==
  \/ \E a \in Artifact : \/ RegisterArtifact(a) \/ CreateLabel(a) \/ FitCalibration(a)
                         \/ ReportDrift(a) \/ ReportFalsePositive(a) \/ AssignAlias(a)
  \/ \E e \in Approver : \/ StartEvaluation(e) \/ ReadChampion(e) \/ ReadEvidence(e)
                         \/ Promote(e) \/ EndEvaluation(e)

GovernanceSpec == GovernanceInit /\ [][GovernanceNext]_governanceVars
-----------------------------------------------------------------------------
(* A promotion never makes the family worse: the new champion is sound,    *)
(* not drifted, and no worse than the champion it replaces by the latest   *)
(* calibration of either - unless something was written while the request  *)
(* was open.  An alias assigned by hand is checked against nothing.        *)
Improves(a) ==
  /\ LatestOf(a).sound /\ a \notin drifted
  /\ champion \notin {Nobody, a} => NotWorse(LatestOf(a), LatestOf(champion))
RegressionNeedsAnOverlap ==
  [][\A e \in Approver : Promote(e) /\ e \notin disturbed => Improves(champion')]_governanceVars
=============================================================================
