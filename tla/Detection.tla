------------------------------ MODULE Detection ------------------------------
(***************************************************************************)
(* The intelligence worker.  Final window snapshots, graph features and    *)
(* claim verdicts, on topics of their own, each make it score the window   *)
(* with what the input brings and with the threat context of the moment:   *)
(* the matches known by then, or none while the feed is not fresh.  It     *)
(* persists the score, caches it under two keys, publishes it if it was    *)
(* new, and commits.                                                       *)
(*                                                                         *)
(*   arrived, consumed  inputs on their topics; inputs committed           *)
(*   threat             threat matches of the asset (they only grow), and  *)
(*                      whether the feed succeeded lately                  *)
(*   changes_seen       the changes of that context                        *)
(*   model_scores       rows, identified by the input and the context      *)
(*   fusion             score events published                             *)
(*   cached             latest:score:<asset> and ...:<scope>:<asset>       *)
(*   scorer             the worker's place, input and score                *)
(***************************************************************************)
EXTENDS Naturals, FiniteSets

CONSTANTS Input,              \* snapshots, graph features and verdicts
          MaxContextChanges,  \* bound on the changes of the threat context
          MaxScorerCrashes,   \* bound on crashes
          NoScore

ASSUME DetectionAssumption ==
  MaxContextChanges \in Nat /\ MaxScorerCrashes \in Nat /\ NoScore \notin Input

VARIABLES arrived, consumed, threat, changes_seen, model_scores, fusion, cached, scorer,
          scorerCrashes

scores == <<model_scores, fusion, cached>>
feedState == <<threat, changes_seen>>
detectionVars == <<arrived, consumed, feedState, scores, scorer, scorerCrashes>>

IdleScorer == [at |-> "poll", input |-> NoScore, score |-> NoScore, fresh |-> FALSE]

DetectionInit ==
  /\ arrived = {} /\ consumed = {}
  /\ threat = [matches |-> 0, fresh |-> FALSE] /\ changes_seen = 0
  /\ model_scores = {} /\ fusion = {}
  /\ cached = [asset |-> NoScore, scope |-> NoScore]
  /\ scorer = IdleScorer
  /\ scorerCrashes = 0

InputArrives ==
  /\ \E i \in Input \ arrived : arrived' = arrived \union {i}
  /\ UNCHANGED <<consumed, feedState, scores, scorer, scorerCrashes>>

(* The threat feed matches another indicator with a post of the asset, or  *)
(* its last success becomes too old, or it succeeds again.                 *)
ContextChanges ==
  /\ changes_seen < MaxContextChanges
  /\ changes_seen' = changes_seen + 1
  /\ \/ threat' = [threat EXCEPT !.matches = @ + 1]
     \/ threat' = [threat EXCEPT !.fresh = ~@]
  /\ UNCHANGED <<arrived, consumed, scores, scorer, scorerCrashes>>

PollInput ==
  /\ scorer.at = "poll"
  /\ \E i \in arrived \ consumed : scorer' = [scorer EXCEPT !.at = "score", !.input = i]
  /\ UNCHANGED <<arrived, consumed, feedState, scores, scorerCrashes>>

(* The identity of a score: its input, and the snapshot of its context,    *)
(* which a feed that is not fresh does not have.                           *)
NoSnapshot == MaxContextChanges + 1
Identity(input) ==
  [input |-> input, context |-> IF threat.fresh THEN threat.matches ELSE NoSnapshot]
ScoreInput ==
  /\ scorer.at = "score"
  /\ scorer' = [scorer EXCEPT !.at = "persist", !.score = Identity(scorer.input)]
  /\ UNCHANGED <<arrived, consumed, feedState, scores, scorerCrashes>>

(* A second row of one identity is a unique violation, which says that the *)
(* score is not new.                                                       *)
PersistScoreUnchecked ==  \* mutant: scores are told apart by their context alone
  /\ scorer.at = "persist"
  /\ model_scores' = model_scores \union {scorer.score}
  /\ scorer' = [scorer EXCEPT !.at = "cache",
                  !.fresh = ~\E s \in model_scores : s.context = scorer.score.context]
  /\ UNCHANGED <<arrived, consumed, feedState, fusion, cached, scorerCrashes>>
PersistScore ==
  /\ scorer.at = "persist"
  /\ model_scores' = model_scores \union {scorer.score}
  /\ scorer' = [scorer EXCEPT !.at = "cache", !.fresh = scorer.score \notin model_scores]
  /\ UNCHANGED <<arrived, consumed, feedState, fusion, cached, scorerCrashes>>

CacheScore ==
  /\ \/ scorer.at = "cache" /\ scorer' = [scorer EXCEPT !.at = "cache_scope"]
        /\ cached' = [cached EXCEPT !.asset = scorer.score]
     \/ scorer.at = "cache_scope" /\ scorer' = [scorer EXCEPT !.at = "publish"]
        /\ cached' = [cached EXCEPT !.scope = scorer.score]
  /\ UNCHANGED <<arrived, consumed, feedState, model_scores, fusion, scorerCrashes>>

ToPublish == scorer.fresh
PublishScore ==
  /\ scorer.at = "publish"
  /\ fusion' = IF ToPublish THEN fusion \union {scorer.score} ELSE fusion
  /\ scorer' = [scorer EXCEPT !.at = "commit"]
  /\ UNCHANGED <<arrived, consumed, feedState, model_scores, cached, scorerCrashes>>

CommitInput ==
  /\ scorer.at = "commit"
  /\ consumed' = consumed \union {scorer.input}
  /\ scorer' = IdleScorer
  /\ UNCHANGED <<arrived, feedState, scores, scorerCrashes>>

ScorerCrashes ==
  /\ scorerCrashes < MaxScorerCrashes /\ scorer.at # "poll"
  /\ scorer' = IdleScorer
  /\ scorerCrashes' = scorerCrashes + 1
  /\ UNCHANGED <<arrived, consumed, feedState, scores>>

DetectionNext ==
  \/ InputArrives \/ ContextChanges
  \/ PollInput \/ ScoreInput \/ PersistScore \/ CacheScore \/ PublishScore \/ CommitInput
  \/ ScorerCrashes

DetectionSpec == DetectionInit /\ [][DetectionNext]_detectionVars
-----------------------------------------------------------------------------
Of(S, input) == {s \in S : s.input = input}
InHand == IF scorer.fresh THEN {scorer.score} ELSE {}

(* A persisted score is published, but for those the worker died with: the *)
(* rerun finds the row and does not publish it.  An input that is consumed *)
(* without any published score had such a death.                           *)
LostScoreNeedsACrash ==
  /\ Cardinality((model_scores \ fusion) \ InHand) <= scorerCrashes
  /\ Cardinality({i \in consumed : Of(fusion, i) = {}}) <= scorerCrashes

(* One input makes one score.  A second needs both a crash, so that the    *)
(* input is read again, and a change of the threat context in between.     *)
SecondScoreNeedsBoth ==
  /\ \A i \in Input : Cardinality(Of(model_scores, i)) <= 1 + changes_seen
  /\ Cardinality(model_scores) <= Cardinality(arrived) + scorerCrashes

(* An input makes one score and the score one event, but for the crashes.  *)
DetectionInv == LostScoreNeedsACrash /\ SecondScoreNeedsBoth
=============================================================================
