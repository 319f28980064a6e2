------------------------- MODULE IntelligenceProofs -------------------------
(***************************************************************************)
(* Proofs about detection, narratives, the threat feed and the evidence    *)
(* of alerts, each for any number of inputs, posts, windows, pulses,       *)
(* events, workers and crashes.                                            *)
(***************************************************************************)
EXTENDS Detection, Narratives, ThreatFeed, EvidenceLedger, SetLemmas

-----------------------------------------------------------------------------
(***************************************************************************)
(* Detection. Every score that was made and not published is owed to a     *)
(* crash (LossInv), and so is every score of an input beyond its first     *)
(* (RowsInv). ContextInv: a score names a state the threat feed has been   *)
(* in.                                                                     *)
(***************************************************************************)

ScoreRow == [input : Input, context : Nat]
Working == {"cache", "cache_scope", "publish", "commit"}

DetectionTypeOK ==
  /\ arrived \in SUBSET Input /\ IsFiniteSet(arrived)
  /\ consumed \in SUBSET arrived
  /\ threat \in [matches : Nat, fresh : BOOLEAN]
  /\ changes_seen \in Nat /\ scorerCrashes \in Nat
  /\ model_scores \in SUBSET ScoreRow /\ IsFiniteSet(model_scores)
  /\ scorer \in [at : {"poll", "score", "persist"} \union Working, input : Input \union {NoScore},
                 score : ScoreRow \union {NoScore}, fresh : BOOLEAN]

\* What the worker has in hand: an input not consumed, and its score once
\* there is one.
ScorerInv ==
  /\ scorer.fresh => scorer.at \in Working
  /\ scorer.at # "poll" => scorer.input \in arrived \ consumed
  /\ scorer.at = "persist" \/ scorer.at \in Working =>
       scorer.score \in ScoreRow /\ scorer.score.input = scorer.input
  /\ scorer.at \in Working => scorer.score \in model_scores
  /\ scorer.at = "commit" /\ scorer.fresh => scorer.score \in fusion

ConsumedInv == \A i \in consumed : Of(model_scores, i) # {}

Unpublished == (model_scores \ fusion) \ InHand
LossInv == Cardinality(Unpublished) <= scorerCrashes

\* Each new row is paid for by the input in hand, a consumed one, or a crash.
RowsInv ==
  Cardinality(model_scores) <=
    Cardinality(consumed) + scorerCrashes + IF scorer.fresh THEN 1 ELSE 0

Made == model_scores \union (IF scorer.at = "persist" THEN {scorer.score} ELSE {})

\* A feed that was ever fresh took one change that is not a match.
ContextInv ==
  /\ threat.matches <= changes_seen
  /\ \A s \in Made : s.context \in 0 .. threat.matches \union {NoSnapshot}
  /\ threat.fresh \/ (\E s \in Made : s.context # NoSnapshot) => threat.matches + 1 <= changes_seen

DetectionIInv ==
  /\ DetectionTypeOK /\ ScorerInv /\ ConsumedInv /\ LossInv /\ RowsInv /\ ContextInv
-----------------------------------------------------------------------------
\* The loss grows by no more than the crashes do.
LEMMA LossKept ==
  ASSUME DetectionIInv, NEW x, scorerCrashes' \in Nat,
         \/ Unpublished' \subseteq Unpublished /\ scorerCrashes' >= scorerCrashes
         \/ Unpublished' \subseteq Unpublished \union {x} /\ scorerCrashes' = scorerCrashes + 1
  PROVE  LossInv'
  <1>1. IsFiniteSet(Unpublished) /\ scorerCrashes \in Nat
    BY FS_Subset DEF DetectionIInv, DetectionTypeOK, Unpublished
  <1>2. Cardinality(Unpublished) \in Nat /\ Cardinality(Unpublished) <= scorerCrashes
    BY <1>1, FS_CardinalityType DEF DetectionIInv, LossInv
  <1>3. CASE Unpublished' \subseteq Unpublished /\ scorerCrashes' >= scorerCrashes
    <2>1. IsFiniteSet(Unpublished') /\ Cardinality(Unpublished') <= Cardinality(Unpublished)
      BY <1>1, <1>3, FS_Subset
    <2>2. Cardinality(Unpublished') \in Nat
      BY <2>1, FS_CardinalityType
    <2>3. QED
      BY <1>1, <1>2, <1>3, <2>1, <2>2 DEF LossInv
  <1>4. CASE Unpublished' \subseteq Unpublished \union {x} /\ scorerCrashes' = scorerCrashes + 1
    <2> DEFINE U == Unpublished \union {x}
    <2>1. IsFiniteSet(U) /\ Cardinality(U) \in {Cardinality(Unpublished), Cardinality(Unpublished) + 1}
      BY <1>1, FS_AddElement
    <2>2. Unpublished' \subseteq U
      BY <1>4
    <2> HIDE DEF U
    <2>3. IsFiniteSet(Unpublished') /\ Cardinality(Unpublished') <= Cardinality(U)
      BY <2>1, <2>2, FS_Subset
    <2>4. Cardinality(Unpublished') \in Nat /\ Cardinality(U) \in Nat
      BY <2>1, <2>3, FS_CardinalityType
    <2>5. QED
      BY <1>1, <1>2, <1>4, <2>1, <2>3, <2>4 DEF LossInv
  <1>5. QED
    BY <1>3, <1>4

\* A step that leaves the rows, the inputs and the worker alone.
LEMMA ContextChangesKeeps == ASSUME DetectionIInv, ContextChanges PROVE DetectionIInv'
  <1> USE DEF DetectionIInv
  <1>1. /\ UNCHANGED <<arrived, consumed, model_scores, fusion, cached, scorer, scorerCrashes>>
        /\ changes_seen' = changes_seen + 1
        /\ \/ threat' = [threat EXCEPT !.matches = @ + 1]
           \/ threat' = [threat EXCEPT !.fresh = ~@]
    BY DEF ContextChanges, scores
  <1>2. /\ threat \in [matches : Nat, fresh : BOOLEAN]
        /\ threat.matches \in Nat /\ threat.fresh \in BOOLEAN /\ changes_seen \in Nat
    BY DEF DetectionTypeOK
  <1>3. /\ threat' \in [matches : Nat, fresh : BOOLEAN]
        /\ \/ threat'.matches = threat.matches + 1 /\ threat'.fresh = threat.fresh
           \/ threat'.matches = threat.matches
    <2> DEFINE m == threat.matches + 1
               fr == ~threat.fresh
    <2>1. m \in Nat /\ fr \in BOOLEAN
      BY <1>2
    <2>2. CASE threat' = [threat EXCEPT !.matches = m]
      <3> HIDE DEF m
      <3>1. /\ threat' \in [matches : Nat, fresh : BOOLEAN]
            /\ threat'.matches = m /\ threat'.fresh = threat.fresh
        BY <1>2, <2>1, <2>2
      <3>2. QED
        BY <3>1 DEF m
    <2>3. CASE threat' = [threat EXCEPT !.fresh = fr]
      <3> HIDE DEF fr
      <3>1. QED
        BY <1>2, <2>1, <2>3
    <2>4. QED
      BY <1>1, <2>2, <2>3
  <1>4. DetectionTypeOK' /\ ScorerInv' /\ ConsumedInv' /\ LossInv' /\ RowsInv'
    BY <1>1, <1>2, <1>3 DEF DetectionTypeOK, ScorerInv, ConsumedInv, Of, LossInv, Unpublished, InHand, RowsInv
  <1>5. ContextInv'
    <2>1. Made' = Made
      BY <1>1 DEF Made
    <2>2. threat'.matches \in Nat /\ threat'.matches >= threat.matches
      BY <1>2, <1>3
    <2>3. threat'.matches <= changes_seen'
      BY <1>1, <1>2, <1>3 DEF ContextInv
    <2>4. ASSUME NEW s \in Made PROVE s.context \in 0 .. threat'.matches \union {NoSnapshot}
      <3>1. s.context \in 0 .. threat.matches \/ s.context = NoSnapshot
        BY DEF ContextInv
      <3>2. QED
        BY <1>2, <2>2, <3>1
    <2>5. threat'.fresh \/ (\E s \in Made : s.context # NoSnapshot) =>
            threat'.matches + 1 <= changes_seen'
      <3>1. CASE threat'.matches = threat.matches
        BY <1>1, <1>2, <3>1 DEF ContextInv
      <3>2. CASE threat'.matches = threat.matches + 1 /\ threat'.fresh = threat.fresh
        BY <1>1, <1>2, <3>2 DEF ContextInv
      <3>3. QED
        BY <1>3, <3>1, <3>2
    <2>6. QED
      BY <2>1, <2>3, <2>4, <2>5 DEF ContextInv, NoSnapshot
  <1>6. QED
    BY <1>4, <1>5

LEMMA InputArrivesKeeps == ASSUME DetectionIInv, InputArrives PROVE DetectionIInv'
  <1> USE DEF DetectionIInv
  <1>1. PICK i \in Input \ arrived : arrived' = arrived \union {i}
    BY DEF InputArrives
  <1>2. UNCHANGED <<consumed, threat, changes_seen, model_scores, fusion, cached, scorer, scorerCrashes>>
    BY DEF InputArrives, scores, feedState
  <1>3. IsFiniteSet(arrived') /\ arrived' \in SUBSET Input
    BY <1>1, FS_AddElement DEF DetectionTypeOK
  <1>4. DetectionTypeOK'
    BY <1>1, <1>2, <1>3 DEF DetectionTypeOK
  <1>5. ScorerInv' /\ ConsumedInv' /\ LossInv' /\ RowsInv' /\ ContextInv'
    BY <1>1, <1>2 DEF ScorerInv, ConsumedInv, Of, LossInv, Unpublished, InHand, RowsInv,
       ContextInv, Made
  <1>6. QED
    BY <1>4, <1>5

\* The worker takes an input and scores it in the context of the moment.
LEMMA TakeKeeps == ASSUME DetectionIInv, PollInput \/ ScoreInput PROVE DetectionIInv'
  <1> USE DEF DetectionIInv
  <1>1. UNCHANGED <<arrived, consumed, threat, changes_seen, model_scores, fusion, cached, scorerCrashes>>
    BY DEF PollInput, ScoreInput, scores, feedState
  <1>2. /\ scorer.at \in {"poll", "score"} /\ ~scorer.fresh
        /\ scorer \in [at : {"poll", "score", "persist"} \union Working, input : Input \union {NoScore},
                       score : ScoreRow \union {NoScore}, fresh : BOOLEAN]
    BY DEF PollInput, ScoreInput, DetectionTypeOK, ScorerInv, Working
  <1>3. CASE PollInput
    <2>1. PICK i \in arrived \ consumed : scorer' = [scorer EXCEPT !.at = "score", !.input = i]
      BY <1>3 DEF PollInput
    <2>2. /\ scorer'.at = "score" /\ scorer'.input = i /\ scorer'.score = scorer.score
          /\ ~scorer'.fresh
          /\ scorer' \in [at : {"poll", "score", "persist"} \union Working, input : Input \union {NoScore},
                          score : ScoreRow \union {NoScore}, fresh : BOOLEAN]
      BY <1>2, <2>1 DEF DetectionTypeOK
    <2>3. DetectionTypeOK'
      BY <1>1, <2>2 DEF DetectionTypeOK
    <2>4. ScorerInv'
      BY <1>1, <2>1, <2>2 DEF ScorerInv, Working
    <2>5. InHand' = {} /\ InHand = {} /\ Made' = Made
      BY <1>1, <1>2, <2>2 DEF InHand, Made
    <2>6. LossInv' /\ RowsInv' /\ ConsumedInv' /\ ContextInv'
      BY <1>1, <1>2, <2>2, <2>5 DEF LossInv, Unpublished, RowsInv, ConsumedInv, Of, ContextInv
    <2>7. QED
      BY <2>3, <2>4, <2>6
  <1>4. CASE ScoreInput
    <2> DEFINE id == Identity(scorer.input)
    <2>1. scorer.at = "score" /\ scorer' = [scorer EXCEPT !.at = "persist", !.score = id]
      BY <1>4 DEF ScoreInput
    <2>2. scorer.input \in arrived \ consumed /\ scorer.input \in Input
      BY <2>1 DEF ScorerInv, DetectionTypeOK
    <2>3. /\ id \in ScoreRow /\ id.input = scorer.input
          /\ id.context = IF threat.fresh THEN threat.matches ELSE NoSnapshot
      BY <2>2, DetectionAssumption DEF Identity, ScoreRow, NoSnapshot, DetectionTypeOK
    <2> HIDE DEF id
    <2>4. /\ scorer'.at = "persist" /\ scorer'.input = scorer.input /\ scorer'.score = id
          /\ ~scorer'.fresh
          /\ scorer' \in [at : {"poll", "score", "persist"} \union Working, input : Input \union {NoScore},
                          score : ScoreRow \union {NoScore}, fresh : BOOLEAN]
      BY <1>2, <2>1, <2>3
    <2>5. DetectionTypeOK'
      BY <1>1, <2>4 DEF DetectionTypeOK
    <2>6. ScorerInv'
      BY <1>1, <2>2, <2>3, <2>4 DEF ScorerInv, Working
    <2>7. InHand' = {} /\ InHand = {}
      BY <1>2, <2>4 DEF InHand
    <2>8. LossInv' /\ RowsInv' /\ ConsumedInv'
      BY <1>1, <1>2, <2>4, <2>7 DEF LossInv, Unpublished, RowsInv, ConsumedInv, Of
    <2>9. ContextInv'
      <3>1. Made = model_scores /\ Made' = model_scores \union {id}
        BY <1>1, <1>2, <2>4 DEF Made
      <3>2. id.context \in 0 .. threat.matches \union {NoSnapshot}
        BY <2>3 DEF DetectionTypeOK
      <3>3. id.context # NoSnapshot => threat.fresh
        BY <2>3
      <3>4. QED
        BY <1>1, <3>1, <3>2, <3>3 DEF ContextInv, NoSnapshot
    <2>10. QED
      BY <2>5, <2>6, <2>8, <2>9
  <1>5. QED
    BY <1>3, <1>4

\* record_score: a second row of one identity is no row.
LEMMA PersistScoreKeeps == ASSUME DetectionIInv, PersistScore PROVE DetectionIInv'
  <1> USE DEF DetectionIInv
  <1> DEFINE s == scorer.score
             isnew == s \notin model_scores
  <1>1. /\ UNCHANGED <<arrived, consumed, threat, changes_seen, fusion, cached, scorerCrashes>>
        /\ scorer.at = "persist" /\ model_scores' = model_scores \union {s}
        /\ scorer' = [scorer EXCEPT !.at = "cache", !.fresh = isnew]
    BY DEF PersistScore, feedState
  <1>2. /\ s \in ScoreRow /\ s.input = scorer.input /\ ~scorer.fresh
        /\ scorer.input \in arrived \ consumed
        /\ scorer \in [at : {"poll", "score", "persist"} \union Working, input : Input \union {NoScore},
                       score : ScoreRow \union {NoScore}, fresh : BOOLEAN]
    BY <1>1 DEF ScorerInv, DetectionTypeOK, Working
  <1>3. isnew \in BOOLEAN
    OBVIOUS
  <1> HIDE DEF isnew
  <1>4. /\ scorer'.at = "cache" /\ scorer'.input = scorer.input /\ scorer'.score = s
        /\ scorer'.fresh = isnew
        /\ scorer' \in [at : {"poll", "score", "persist"} \union Working, input : Input \union {NoScore},
                        score : ScoreRow \union {NoScore}, fresh : BOOLEAN]
    BY <1>1, <1>2, <1>3 DEF Working
  <1>5. /\ IsFiniteSet(model_scores') /\ model_scores' \in SUBSET ScoreRow
        /\ Cardinality(model_scores') = Cardinality(model_scores) + IF isnew THEN 1 ELSE 0
    <2>1. IsFiniteSet(model_scores) /\ Cardinality(model_scores) \in Nat
      BY FS_CardinalityType DEF DetectionTypeOK
    <2>2. /\ IsFiniteSet(model_scores \union {s})
          /\ Cardinality(model_scores \union {s}) =
               IF s \in model_scores THEN Cardinality(model_scores) ELSE Cardinality(model_scores) + 1
      BY <2>1, FS_AddElement
    <2>3. QED
      BY <1>1, <1>2, <2>1, <2>2 DEF DetectionTypeOK, isnew
  <1>6. DetectionTypeOK'
    BY <1>1, <1>4, <1>5 DEF DetectionTypeOK
  <1>7. ScorerInv'
    BY <1>1, <1>2, <1>4 DEF ScorerInv, Working
  <1>8. ConsumedInv'
    BY <1>1 DEF ConsumedInv, Of
  <1>9. LossInv'
    <2>1. InHand = {} /\ InHand' = IF isnew THEN {s} ELSE {}
      BY <1>2, <1>4 DEF InHand
    <2>2. Unpublished' \subseteq Unpublished
      BY <1>1, <2>1 DEF Unpublished, isnew
    <2>3. QED
      BY <1>1, <2>2, LossKept DEF DetectionTypeOK
  <1>10. RowsInv'
    <2>1. Cardinality(model_scores) \in Nat /\ Cardinality(consumed) \in Nat /\ scorerCrashes \in Nat
      BY FS_CardinalityType, FS_Subset DEF DetectionTypeOK
    <2>2. QED
      BY <1>1, <1>2, <1>4, <1>5, <2>1 DEF RowsInv
  <1>11. ContextInv'
    <2>1. Made' = Made
      BY <1>1, <1>4 DEF Made
    <2>2. QED
      BY <1>1, <2>1 DEF ContextInv, NoSnapshot
  <1>12. QED
    BY <1>6, <1>7, <1>8, <1>9, <1>10, <1>11

LEMMA CacheAndPublishKeep == ASSUME DetectionIInv, CacheScore \/ PublishScore PROVE DetectionIInv'
  <1> USE DEF DetectionIInv
  <1>1. /\ UNCHANGED <<arrived, consumed, threat, changes_seen, model_scores, scorerCrashes>>
        /\ scorer.at \in {"cache", "cache_scope", "publish"}
        /\ fusion \subseteq fusion'
        /\ \E at \in Working : /\ scorer' = [scorer EXCEPT !.at = at]
                               /\ (at = "commit" /\ scorer.fresh) => scorer.score \in fusion'
    BY DEF CacheScore, PublishScore, ToPublish, feedState, Working
  <1>2. PICK at \in Working : /\ scorer' = [scorer EXCEPT !.at = at]
                              /\ (at = "commit" /\ scorer.fresh) => scorer.score \in fusion'
    BY <1>1
  <1>3. /\ scorer'.at = at /\ scorer'.input = scorer.input /\ scorer'.score = scorer.score
        /\ scorer'.fresh = scorer.fresh
        /\ scorer' \in [at : {"poll", "score", "persist"} \union Working, input : Input \union {NoScore},
                        score : ScoreRow \union {NoScore}, fresh : BOOLEAN]
    BY <1>2 DEF DetectionTypeOK
  <1>4. DetectionTypeOK'
    BY <1>1, <1>3 DEF DetectionTypeOK
  <1>5. ScorerInv'
    BY <1>1, <1>2, <1>3 DEF ScorerInv, Working
  <1>6. InHand' = InHand /\ Made' = Made
    BY <1>1, <1>3 DEF InHand, Made, Working
  <1>7. ConsumedInv' /\ RowsInv' /\ ContextInv'
    BY <1>1, <1>3, <1>6 DEF ConsumedInv, Of, RowsInv, ContextInv
  <1>8. LossInv'
    <2>1. Unpublished' \subseteq Unpublished
      BY <1>1, <1>6 DEF Unpublished
    <2>2. QED
      BY <1>1, <2>1, LossKept DEF DetectionTypeOK
  <1>9. QED
    BY <1>4, <1>5, <1>7, <1>8

LEMMA CommitAndCrashKeep == ASSUME DetectionIInv, CommitInput \/ ScorerCrashes PROVE DetectionIInv'
  <1> USE DEF DetectionIInv
  <1>1. /\ UNCHANGED <<arrived, threat, changes_seen, model_scores, fusion>>
        /\ scorer' = IdleScorer /\ scorer.at # "poll"
        /\ \/ /\ scorer.at = "commit" /\ scorerCrashes' = scorerCrashes
              /\ consumed' = consumed \union {scorer.input}
           \/ consumed' = consumed /\ scorerCrashes' = scorerCrashes + 1
    BY DEF CommitInput, ScorerCrashes, feedState, scores
  <1>2. /\ scorer'.at = "poll" /\ ~scorer'.fresh
        /\ scorer' \in [at : {"poll", "score", "persist"} \union Working, input : Input \union {NoScore},
                        score : ScoreRow \union {NoScore}, fresh : BOOLEAN]
    BY <1>1 DEF IdleScorer
  <1>3. scorer.input \in arrived \ consumed /\ scorerCrashes \in Nat /\ scorerCrashes' \in Nat
    BY <1>1 DEF ScorerInv, DetectionTypeOK
  <1>4. DetectionTypeOK'
    BY <1>1, <1>2, <1>3 DEF DetectionTypeOK
  <1>5. ScorerInv'
    BY <1>2 DEF ScorerInv, Working
  <1>6. ConsumedInv'
    <2>1. scorer.at = "commit" => scorer.score \in Of(model_scores, scorer.input)
      BY DEF ScorerInv, Working, Of
    <2>2. \A i : Of(model_scores, i)' = Of(model_scores, i)
      BY <1>1 DEF Of
    <2>3. ASSUME NEW i \in consumed' PROVE Of(model_scores, i) # {}
      <3>1. CASE i \in consumed
        BY <3>1 DEF ConsumedInv
      <3>2. CASE i \notin consumed
        <4>1. scorer.at = "commit" /\ i = scorer.input
          BY <1>1, <3>2
        <4>2. QED
          BY <2>1, <4>1
      <3>3. QED
        BY <3>1, <3>2
    <2>4. QED
      BY <1>1, <2>3 DEF ConsumedInv, Of
  <1>7. LossInv'
    <2>1. InHand' = {}
      BY <1>2 DEF InHand
    <2>2. CASE scorer.at = "commit" /\ scorerCrashes' = scorerCrashes
      <3>1. InHand \subseteq fusion
        BY <2>2 DEF ScorerInv, InHand
      <3>2. Unpublished' \subseteq Unpublished
        BY <1>1, <2>1, <3>1 DEF Unpublished
      <3>3. QED
        BY <1>3, <2>2, <3>2, LossKept
    <2>3. CASE scorerCrashes' = scorerCrashes + 1
      <3>1. Unpublished' \subseteq Unpublished \union {scorer.score}
        BY <1>1, <2>1 DEF Unpublished, InHand
      <3>2. QED
        BY <1>3, <2>3, <3>1, LossKept
    <2>4. QED
      BY <1>1, <2>2, <2>3
  <1>8. RowsInv'
    <2>1. IsFiniteSet(consumed)
      BY FS_Subset DEF DetectionTypeOK
    <2>2. Cardinality(model_scores) \in Nat /\ Cardinality(consumed) \in Nat
      BY <2>1, FS_CardinalityType DEF DetectionTypeOK
    <2>3. Cardinality(consumed \union {scorer.input}) = Cardinality(consumed) + 1
      BY <1>3, <2>1, FS_AddElement
    <2>4. Cardinality(model_scores) <=
            Cardinality(consumed) + scorerCrashes + IF scorer.fresh THEN 1 ELSE 0
      BY DEF RowsInv
    <2>5. Cardinality(model_scores) <= Cardinality(consumed) + scorerCrashes + 1
      BY <1>3, <2>2, <2>4
    <2>6. CASE consumed' = consumed \union {scorer.input} /\ scorerCrashes' = scorerCrashes
      <3>1. Cardinality(consumed') = Cardinality(consumed) + 1
        BY <2>3, <2>6
      <3>2. Cardinality(model_scores) <= Cardinality(consumed') + scorerCrashes'
        BY <1>3, <2>2, <2>5, <2>6, <3>1
      <3>3. QED
        BY <1>1, <1>2, <1>3, <2>2, <2>6, <3>1, <3>2 DEF RowsInv
    <2>7. CASE consumed' = consumed /\ scorerCrashes' = scorerCrashes + 1
      <3>1. Cardinality(model_scores) <= Cardinality(consumed) + scorerCrashes'
        BY <1>3, <2>2, <2>5, <2>7
      <3>2. QED
        BY <1>1, <1>2, <1>3, <2>2, <2>7, <3>1 DEF RowsInv
    <2>8. QED
      BY <1>1, <2>6, <2>7
  <1>9. ContextInv'
    <2>1. Made' \subseteq Made
      BY <1>1, <1>2 DEF Made
    <2>2. QED
      BY <1>1, <2>1 DEF ContextInv, NoSnapshot
  <1>10. QED
    BY <1>4, <1>5, <1>6, <1>7, <1>8, <1>9

LEMMA DetectionStep ==
  ASSUME DetectionIInv, [DetectionNext]_detectionVars PROVE DetectionIInv'
  <1>1. CASE UNCHANGED detectionVars
    <2>1. UNCHANGED <<arrived, consumed, threat, changes_seen, model_scores, fusion, cached,
                      scorer, scorerCrashes>>
      BY <1>1 DEF detectionVars, feedState, scores
    <2>2. QED
      BY <2>1 DEF DetectionIInv, DetectionTypeOK, ScorerInv, ConsumedInv, Of, LossInv,
         Unpublished, InHand, RowsInv, ContextInv, Made
  <1>2. QED
    BY <1>1, InputArrivesKeeps, ContextChangesKeeps, TakeKeeps, PersistScoreKeeps,
       CacheAndPublishKeep, CommitAndCrashKeep DEF DetectionNext

LEMMA DetectionInitially == ASSUME DetectionInit PROVE DetectionIInv
  <1> USE DEF DetectionInit, IdleScorer
  <1>1. DetectionTypeOK
    BY FS_EmptySet DEF DetectionTypeOK
  <1>2. ScorerInv /\ ConsumedInv /\ ContextInv
    BY DEF ScorerInv, Working, ConsumedInv, ContextInv, Made
  <1>3. LossInv /\ RowsInv
    <2>1. Unpublished = {}
      BY DEF Unpublished
    <2>2. QED
      BY <2>1, FS_EmptySet DEF LossInv, RowsInv
  <1>4. QED
    BY <1>1, <1>2, <1>3 DEF DetectionIInv

LEMMA DetectionIInvTheorem == DetectionSpec => []DetectionIInv
  <1>1. DetectionInit => DetectionIInv
    BY DetectionInitially
  <1>2. DetectionIInv /\ [DetectionNext]_detectionVars => DetectionIInv'
    BY DetectionStep
  <1>3. QED
    BY <1>1, <1>2, PTL DEF DetectionSpec

\* A consumed input without an event has a row that was lost with its worker.
LEMMA LossIsBounded == ASSUME DetectionIInv PROVE LostScoreNeedsACrash
  <1> USE DEF DetectionIInv
  <1> DEFINE silent == {i \in consumed : Of(fusion, i) = {}}
             inputs == {s.input : s \in Unpublished}
             f == [s \in Unpublished |-> s.input]
  <1>1. IsFiniteSet(Unpublished) /\ scorerCrashes \in Nat
    BY FS_Subset DEF DetectionTypeOK, Unpublished
  <1>2. silent \subseteq inputs
    <2> SUFFICES ASSUME NEW i \in consumed, Of(fusion, i) = {} PROVE i \in inputs
      OBVIOUS
    <2>1. PICK s \in model_scores : s.input = i
      BY DEF ConsumedInv, Of
    <2>2. s \notin fusion
      BY <2>1 DEF Of
    <2>3. s \notin InHand
      BY <2>1 DEF InHand, ScorerInv, Working
    <2>4. QED
      BY <2>1, <2>2, <2>3 DEF Unpublished
  <1>3. f \in Surjection(Unpublished, inputs)
    BY DEF Surjection
  <1> HIDE DEF f, inputs
  <1>4. IsFiniteSet(inputs) /\ Cardinality(inputs) <= Cardinality(Unpublished)
    BY <1>1, <1>3, FS_Surjection
  <1>5. IsFiniteSet(silent) /\ Cardinality(silent) <= Cardinality(inputs)
    BY <1>2, <1>4, FS_Subset
  <1>6. /\ Cardinality(silent) \in Nat /\ Cardinality(inputs) \in Nat
        /\ Cardinality(Unpublished) \in Nat
    BY <1>1, <1>4, <1>5, FS_CardinalityType
  <1>7. Cardinality(Unpublished) <= scorerCrashes
    BY DEF LossInv
  <1>8. Cardinality(silent) <= scorerCrashes
    BY <1>1, <1>4, <1>5, <1>6, <1>7
  <1>9. QED
    BY <1>7, <1>8 DEF LostScoreNeedsACrash, Unpublished

LEMMA RowsAreBounded == ASSUME DetectionIInv PROVE SecondScoreNeedsBoth
  <1> USE DEF DetectionIInv
  <1>1. /\ IsFiniteSet(arrived) /\ IsFiniteSet(consumed) /\ IsFiniteSet(model_scores)
        /\ scorerCrashes \in Nat /\ changes_seen \in Nat /\ threat.matches \in Nat
    BY FS_Subset DEF DetectionTypeOK
  <1>2. Cardinality(model_scores) <= Cardinality(arrived) + scorerCrashes
    <2>1. /\ Cardinality(arrived) \in Nat /\ Cardinality(consumed) \in Nat
          /\ Cardinality(model_scores) \in Nat
      BY <1>1, FS_CardinalityType
    <2>2. Cardinality(consumed) <= Cardinality(arrived)
      BY <1>1, FS_Subset DEF DetectionTypeOK
    <2>3. scorer.fresh => Cardinality(consumed) + 1 <= Cardinality(arrived)
      <3>1. ASSUME scorer.fresh PROVE scorer.input \in arrived \ consumed
        BY <3>1 DEF ScorerInv, Working
      <3> DEFINE C == consumed \union {scorer.input}
      <3>2. ASSUME scorer.fresh PROVE Cardinality(C) = Cardinality(consumed) + 1 /\ C \subseteq arrived
        BY <1>1, <3>1, <3>2, FS_AddElement DEF DetectionTypeOK
      <3> HIDE DEF C
      <3>3. ASSUME scorer.fresh PROVE Cardinality(C) <= Cardinality(arrived)
        BY <1>1, <3>2, <3>3, FS_Subset
      <3>4. QED
        BY <3>2, <3>3
    <2>4. QED
      BY <1>1, <2>1, <2>2, <2>3 DEF RowsInv
  <1>3. ASSUME NEW i \in Input PROVE Cardinality(Of(model_scores, i)) <= 1 + changes_seen
    <2> DEFINE S == Of(model_scores, i)
               f == [s \in S |-> s.context]
    <2>1. \A s \in S : s \in ScoreRow /\ s.input = i /\ s \in Made
      BY DEF Of, DetectionTypeOK, Made
    <2>2. \A s, t \in S : s.context = t.context => s = t
      BY <2>1 DEF ScoreRow
    <2>3. ASSUME NEW C, IsFiniteSet(C), \A s \in S : s.context \in C
          PROVE  Cardinality(S) <= Cardinality(C)
      <3>1. f \in Injection(S, C)
        BY <2>2, <2>3 DEF Injection, IsInjective
      <3> HIDE DEF f, S
      <3>2. QED
        BY <2>3, <3>1, FS_Injection
    <2>4. IsFiniteSet(S) /\ Cardinality(S) \in Nat
      BY <1>1, FS_Subset, FS_CardinalityType DEF Of
    <2> HIDE DEF f, S
    <2>5. CASE \A s \in S : s.context = NoSnapshot
      <3>1. IsFiniteSet({NoSnapshot}) /\ Cardinality({NoSnapshot}) = 1
        BY FS_Singleton
      <3>2. Cardinality(S) <= 1
        BY <2>3, <2>5, <3>1
      <3>3. QED
        BY <1>1, <2>4, <3>2 DEF S
    <2>6. CASE \E s \in S : s.context # NoSnapshot
      <3> DEFINE C == 0 .. threat.matches
      <3>1. threat.matches + 1 <= changes_seen
        BY <2>1, <2>6 DEF ContextInv
      <3>2. IsFiniteSet(C) /\ Cardinality(C) = threat.matches + 1
        <4>1. 0 \in Int /\ threat.matches \in Int /\ ~(0 > threat.matches)
          BY <1>1
        <4>2. IsFiniteSet(C) /\ Cardinality(C) = threat.matches - 0 + 1
          BY <4>1, FS_Interval
        <4>3. QED
          BY <4>1, <4>2
      <3>3. \A s \in S : s.context \in C \union {NoSnapshot}
        BY <2>1 DEF ContextInv
      <3> HIDE DEF C
      <3>4. /\ IsFiniteSet(C \union {NoSnapshot})
            /\ Cardinality(C \union {NoSnapshot}) \in {Cardinality(C), Cardinality(C) + 1}
        BY <3>2, FS_AddElement
      <3>5. Cardinality(S) <= Cardinality(C \union {NoSnapshot})
        BY <2>3, <3>3, <3>4
      <3>6. QED
        BY <1>1, <2>4, <3>1, <3>2, <3>4, <3>5 DEF S
    <2>7. QED
      BY <2>5, <2>6
  <1>4. QED
    BY <1>2, <1>3 DEF SecondScoreNeedsBoth

\* The scoring worker: a score without its event needs a crash, and a second
\* score of an input a crash and a change of its context.
THEOREM DetectionInvTheorem == DetectionSpec => []DetectionInv
  <1>1. DetectionIInv => DetectionInv
    BY LossIsBounded, RowsAreBounded DEF DetectionInv
  <1>2. QED
    BY <1>1, DetectionIInvTheorem, PTL

-----------------------------------------------------------------------------
(***************************************************************************)
(* Narratives. The worker commits a snapshot whose graph is stored, or     *)
(* for which no post was (ReaderInv). A narrative cites the revision of a  *)
(* graph that is stored (CurrentInv); a snapshot that is in order has no   *)
(* lower revision than any of these, and so becomes current with its       *)
(* members.                                                                *)
(***************************************************************************)

WindowSnapshot == [window : Window, revision : Nat]

NarrativesTypeOK ==
  /\ stored \subseteq Post
  /\ windowLog \in [FeatureTopic -> Seq(WindowSnapshot)]
  /\ done \in [FeatureTopic -> Nat] /\ \A t \in FeatureTopic : done[t] <= Len(windowLog[t])
  /\ reader \in [FeatureTopic -> [at : {"poll", "persist", "commit"}, posts : SUBSET Post]]
  /\ narratives \in [DOMAIN narratives ->
                       [members : SUBSET Post, current : Nat, current_members : SUBSET Post]]
  /\ graphs \subseteq WindowSnapshot /\ disordered \in BOOLEAN

\* What the worker has in hand belongs to the snapshot it will commit.
ReaderInv ==
  \A t \in FeatureTopic :
    /\ reader[t].at # "poll" => done[t] < Len(windowLog[t])
    /\ reader[t].at = "persist" =>
         reader[t].posts # {} /\ reader[t].posts \subseteq PostsBefore[Current(t).window]
    /\ reader[t].at = "commit" => Current(t) \in barren \union graphs

\* A stored graph has the event of one of its clusters.
GraphInv ==
  \A s \in graphs : \E e \in clustered :
    e.revision = s.revision /\ e.members \subseteq PostsBefore[s.window]

HandledInv == \A t \in FeatureTopic : Handled(t) \subseteq barren \union graphs

\* The revision a narrative cites is that of a stored graph: none is higher
\* than the next snapshot's unless that is out of order.
CurrentInv ==
  ~disordered => \A n \in DOMAIN narratives :
    \E g \in graphs : narratives[n].current = g.revision

NarrativesIInv == /\ NarrativesTypeOK /\ ReaderInv /\ GraphInv /\ HandledInv
                  /\ CurrentInv /\ NarrativeIsItsRevision

\* The snapshots handled and the one in hand stay what they are when a log grows.
LEMMA LogGrows ==
  ASSUME NarrativesTypeOK, UNCHANGED done, NEW t \in FeatureTopic,
         NEW s \in WindowSnapshot, NEW u \in FeatureTopic,
         windowLog' = [windowLog EXCEPT ![t] = Append(@, s)]
  PROVE  /\ Len(windowLog[u]) <= Len(windowLog'[u])
         /\ Handled(u)' = Handled(u)
         /\ done[u] < Len(windowLog[u]) => Current(u)' = Current(u)
  <1>1. windowLog[u] \in Seq(WindowSnapshot) /\ done[u] \in Nat /\ done[u] <= Len(windowLog[u])
    BY DEF NarrativesTypeOK
  <1>2. windowLog'[u] = windowLog[u] \/ windowLog'[u] = Append(windowLog[u], s)
    BY DEF NarrativesTypeOK
  <1>3. /\ Len(windowLog[u]) \in Nat /\ Len(windowLog[u]) <= Len(windowLog'[u])
        /\ \A n \in 1..Len(windowLog[u]) : windowLog'[u][n] = windowLog[u][n]
    BY <1>1, <1>2
  <1>4. \A n \in 1..done[u] : windowLog'[u][n] = windowLog[u][n]
    BY <1>1, <1>3
  <1>5. Handled(u)' = Handled(u)
    BY <1>4 DEF Handled
  <1>6. done[u] < Len(windowLog[u]) => Current(u)' = Current(u)
    BY <1>1, <1>3 DEF Current
  <1>7. QED
    BY <1>3, <1>5, <1>6

LEMMA PublishSnapshotKeeps ==
  ASSUME NarrativesIInv, PublishSnapshot
  PROVE  NarrativesIInv'
  <1> USE DEF NarrativesIInv
  <1>1. PICK w \in Window, t \in FeatureTopic, r \in 1..MaxRevision :
          windowLog' = [windowLog EXCEPT ![t] = Append(@, [window |-> w, revision |-> r])]
    BY DEF PublishSnapshot
  <1>2. UNCHANGED <<stored, done, reader, narrativeTables, barren, unaccepted, disordered>>
    BY DEF PublishSnapshot
  <1> DEFINE s == [window |-> w, revision |-> r]
  <1>3. s \in WindowSnapshot
    BY NarrativesAssumption DEF WindowSnapshot
  <1> HIDE DEF s
  <1>4. windowLog' = [windowLog EXCEPT ![t] = Append(@, s)]
    BY <1>1 DEF s
  <1>5. \A u \in FeatureTopic :
          /\ Len(windowLog[u]) <= Len(windowLog'[u])
          /\ Handled(u)' = Handled(u)
          /\ done[u] < Len(windowLog[u]) => Current(u)' = Current(u)
    BY <1>2, <1>3, <1>4, LogGrows
  <1>6. windowLog' \in [FeatureTopic -> Seq(WindowSnapshot)]
    BY <1>3, <1>4 DEF NarrativesTypeOK
  <1>7. \A u \in FeatureTopic :
          /\ done[u] \in Nat /\ Len(windowLog[u]) \in Nat /\ Len(windowLog'[u]) \in Nat
          /\ done[u] <= Len(windowLog[u])
    BY <1>6 DEF NarrativesTypeOK
  <1>8. NarrativesTypeOK'
    BY <1>2, <1>5, <1>6, <1>7 DEF NarrativesTypeOK, narrativeTables
  <1>9. ReaderInv'
    <2>1. \A u \in FeatureTopic : done[u] < Len(windowLog[u]) => done[u] < Len(windowLog'[u])
      BY <1>5, <1>7
    <2>2. ASSUME NEW u \in FeatureTopic
          PROVE  /\ reader[u].at # "poll" => done[u] < Len(windowLog'[u])
                 /\ reader[u].at = "persist" => reader[u].posts # {}
                 /\ reader[u].at = "persist" =>
                      reader[u].posts \subseteq PostsBefore[Current(u)'.window]
                 /\ reader[u].at = "commit" => Current(u)' \in barren \union graphs
      BY <1>5, <2>1 DEF ReaderInv
    <2>3. QED
      BY <1>2, <2>2 DEF ReaderInv, narrativeTables
  <1>10. GraphInv' /\ CurrentInv' /\ NarrativeIsItsRevision'
    BY <1>2 DEF GraphInv, CurrentInv, NarrativeIsItsRevision, narrativeTables
  <1>11. HandledInv'
    BY <1>2, <1>5 DEF HandledInv, narrativeTables
  <1>12. QED
    BY <1>8, <1>9, <1>10, <1>11

LEMMA StorePostKeeps ==
  ASSUME NarrativesIInv, StorePost
  PROVE  NarrativesIInv'
  <1> USE DEF NarrativesIInv
  <1>1. /\ UNCHANGED <<windowLog, done, reader, narrativeTables, barren, unaccepted, disordered>>
        /\ stored' \subseteq Post
    BY DEF StorePost, NarrativesTypeOK
  <1>2. NarrativesTypeOK'
    BY <1>1 DEF NarrativesTypeOK, narrativeTables
  <1>3. ReaderInv' /\ HandledInv'
    BY <1>1 DEF ReaderInv, Current, HandledInv, Handled, narrativeTables
  <1>4. GraphInv' /\ CurrentInv' /\ NarrativeIsItsRevision'
    BY <1>1 DEF GraphInv, CurrentInv, NarrativeIsItsRevision, narrativeTables
  <1>5. QED
    BY <1>2, <1>3, <1>4

LEMMA ReadPostsKeeps ==
  ASSUME NarrativesIInv, NEW t \in FeatureTopic, ReadPosts(t)
  PROVE  NarrativesIInv'
  <1> USE DEF NarrativesIInv
  <1> DEFINE found == stored \intersect PostsBefore[Current(t).window]
             place == IF found = {} THEN "commit" ELSE "persist"
  <1>1. /\ done[t] < Len(windowLog[t])
        /\ reader' = [reader EXCEPT ![t] = [at |-> place, posts |-> found]]
        /\ barren' = IF found = {} THEN barren \union {Current(t)} ELSE barren
        /\ UNCHANGED <<stored, windowLog, done, narrativeTables, unaccepted, disordered>>
    BY DEF ReadPosts
  <1>2. found \in SUBSET Post /\ found \subseteq PostsBefore[Current(t).window]
    BY DEF NarrativesTypeOK
  <1>3. place = (IF found = {} THEN "commit" ELSE "persist")
    OBVIOUS
  <1> HIDE DEF found, place
  <1>4. \A u \in FeatureTopic : reader'[u] = IF u = t THEN [at |-> place, posts |-> found]
                                             ELSE reader[u]
    BY <1>1 DEF NarrativesTypeOK
  <1>5. NarrativesTypeOK'
    <2>1. reader' \in [FeatureTopic -> [at : {"poll", "persist", "commit"}, posts : SUBSET Post]]
      BY <1>1, <1>2, <1>3 DEF NarrativesTypeOK
    <2>2. QED
      BY <1>1, <2>1 DEF NarrativesTypeOK, narrativeTables
  <1>6. barren \subseteq barren' /\ (found = {} => Current(t) \in barren')
    BY <1>1
  <1>7. \A u \in FeatureTopic : Current(u)' = Current(u) /\ Handled(u)' = Handled(u)
    BY <1>1 DEF Current, Handled
  <1>8. ReaderInv'
    <2>1. ASSUME NEW u \in FeatureTopic
          PROVE  /\ reader'[u].at # "poll" => done[u] < Len(windowLog[u])
                 /\ reader'[u].at = "persist" => reader'[u].posts # {}
                 /\ reader'[u].at = "persist" =>
                      reader'[u].posts \subseteq PostsBefore[Current(u).window]
                 /\ reader'[u].at = "commit" => Current(u) \in barren' \union graphs
      <3>1. CASE u = t
        <4>1. reader'[t].at = place /\ reader'[t].posts = found
          BY <1>4
        <4>2. QED
          BY <1>1, <1>2, <1>3, <1>6, <3>1, <4>1
      <3>2. CASE u # t
        BY <1>4, <1>6, <3>2 DEF ReaderInv
      <3>3. QED
        BY <3>1, <3>2
    <2>2. QED
      BY <1>1, <1>7, <2>1 DEF ReaderInv, narrativeTables
  <1>9. GraphInv' /\ CurrentInv' /\ NarrativeIsItsRevision'
    BY <1>1 DEF GraphInv, CurrentInv, NarrativeIsItsRevision, narrativeTables
  <1>10. HandledInv'
    BY <1>1, <1>6, <1>7 DEF HandledInv, narrativeTables
  <1>11. QED
    BY <1>5, <1>8, <1>9, <1>10

LEMMA CommitSnapshotKeeps ==
  ASSUME NarrativesIInv, NEW t \in FeatureTopic, CommitSnapshot(t) \/ GraphWorkerCrashes(t)
  PROVE  NarrativesIInv'
  <1> USE DEF NarrativesIInv
  <1>1. /\ reader' = [reader EXCEPT ![t] = Waiting4Snapshot]
        /\ UNCHANGED <<stored, windowLog, narrativeTables, barren, unaccepted, disordered>>
        /\ \/ done' = done
           \/ reader[t].at = "commit" /\ done' = [done EXCEPT ![t] = @ + 1]
    BY DEF CommitSnapshot, GraphWorkerCrashes
  <1>2. /\ reader' \in [FeatureTopic -> [at : {"poll", "persist", "commit"}, posts : SUBSET Post]]
        /\ \A u \in FeatureTopic : reader'[u].at = IF u = t THEN "poll" ELSE reader[u].at
        /\ \A u \in FeatureTopic : u # t => reader'[u] = reader[u]
    BY <1>1 DEF NarrativesTypeOK, Waiting4Snapshot
  <1>3. ASSUME NEW u \in FeatureTopic, u # t
        PROVE  done'[u] = done[u] /\ Current(u)' = Current(u)
    BY <1>1, <1>3 DEF NarrativesTypeOK, Current
  <1>4. done' \in [FeatureTopic -> Nat] /\ \A u \in FeatureTopic : done'[u] <= Len(windowLog[u])
    <2>1. \A u \in FeatureTopic : done[u] \in Nat /\ Len(windowLog[u]) \in Nat
                                  /\ done[u] <= Len(windowLog[u])
      BY DEF NarrativesTypeOK
    <2>2. reader[t].at = "commit" => done[t] < Len(windowLog[t])
      BY DEF ReaderInv
    <2>3. CASE done' = done
      BY <2>1, <2>3 DEF NarrativesTypeOK
    <2>4. CASE reader[t].at = "commit" /\ done' = [done EXCEPT ![t] = @ + 1]
      <3>1. done[t] + 1 \in Nat /\ done[t] + 1 <= Len(windowLog[t])
        BY <2>1, <2>2, <2>4
      <3>2. \A u \in FeatureTopic : done'[u] = IF u = t THEN done[t] + 1 ELSE done[u]
        BY <2>4 DEF NarrativesTypeOK
      <3>3. done' \in [FeatureTopic -> Nat]
        BY <2>4, <3>1 DEF NarrativesTypeOK
      <3>4. QED
        BY <2>1, <3>1, <3>2, <3>3
    <2>5. QED
      BY <1>1, <2>3, <2>4
  <1>5. NarrativesTypeOK'
    BY <1>1, <1>2, <1>4 DEF NarrativesTypeOK, narrativeTables
  <1>6. ReaderInv'
    <2>1. ASSUME NEW u \in FeatureTopic
          PROVE  /\ reader'[u].at # "poll" => done'[u] < Len(windowLog[u])
                 /\ reader'[u].at = "persist" => reader'[u].posts # {}
                 /\ reader'[u].at = "persist" =>
                      reader'[u].posts \subseteq PostsBefore[Current(u)'.window]
                 /\ reader'[u].at = "commit" => Current(u)' \in barren \union graphs
      BY <1>2, <1>3 DEF ReaderInv
    <2>2. QED
      BY <1>1, <2>1 DEF ReaderInv, narrativeTables
  <1>7. GraphInv' /\ CurrentInv' /\ NarrativeIsItsRevision'
    BY <1>1 DEF GraphInv, CurrentInv, NarrativeIsItsRevision, narrativeTables
  <1>8. HandledInv'
    <2>1. ASSUME NEW u \in FeatureTopic PROVE Handled(u)' \subseteq barren \union graphs
      <3>1. CASE done'[u] = done[u]
        BY <1>1, <3>1 DEF HandledInv, Handled
      <3>2. CASE u = t /\ reader[t].at = "commit" /\ done'[t] = done[t] + 1
        <4>1. done[t] \in Nat /\ 1..done'[t] = 1..done[t] \union {done[t] + 1}
          BY <3>2 DEF NarrativesTypeOK
        <4>2. Handled(t)' = Handled(t) \union {Current(t)}
          BY <1>1, <4>1 DEF Handled, Current
        <4>3. QED
          BY <3>2, <4>2 DEF HandledInv, ReaderInv
      <3>3. QED
        BY <1>1, <3>1, <3>2 DEF NarrativesTypeOK
    <2>2. QED
      BY <1>1, <2>1 DEF HandledInv, narrativeTables
  <1>9. QED
    BY <1>5, <1>6, <1>7, <1>8

\* A transaction that stores no graph only sends its worker on, or back.
LEMMA NothingStoredKeeps ==
  ASSUME NarrativesIInv, NEW t \in FeatureTopic, reader[t].at = "persist",
         UNCHANGED <<stored, windowLog, done, narrativeTables, barren, disordered>>,
         \/ Current(t) \in graphs /\ Goes(t, "commit")
         \/ reader' = [reader EXCEPT ![t] = Waiting4Snapshot]
  PROVE  NarrativesIInv'
  <1> USE DEF NarrativesIInv
  <1>1. /\ reader' \in [FeatureTopic -> [at : {"poll", "persist", "commit"}, posts : SUBSET Post]]
        /\ \A u \in FeatureTopic : u # t => reader'[u] = reader[u]
        /\ reader'[t].at \in {"poll", "commit"}
        /\ reader'[t].at = "commit" => Current(t) \in graphs
    <2>1. CASE Current(t) \in graphs /\ Goes(t, "commit")
      <3>1. reader' = [reader EXCEPT ![t].at = "commit"]
        BY <2>1 DEF Goes
      <3>2. QED
        BY <2>1, <3>1 DEF NarrativesTypeOK
    <2>2. CASE reader' = [reader EXCEPT ![t] = Waiting4Snapshot]
      BY <2>2 DEF NarrativesTypeOK, Waiting4Snapshot
    <2>3. QED
      BY <2>1, <2>2
  <1>2. NarrativesTypeOK'
    BY <1>1 DEF NarrativesTypeOK, narrativeTables
  <1>3. \A u \in FeatureTopic : Current(u)' = Current(u) /\ Handled(u)' = Handled(u)
    BY DEF Current, Handled
  <1>4. ReaderInv'
    <2>1. ASSUME NEW u \in FeatureTopic
          PROVE  /\ reader'[u].at # "poll" => done[u] < Len(windowLog[u])
                 /\ reader'[u].at = "persist" => reader'[u].posts # {}
                 /\ reader'[u].at = "persist" =>
                      reader'[u].posts \subseteq PostsBefore[Current(u).window]
                 /\ reader'[u].at = "commit" => Current(u) \in barren \union graphs
      <3>1. CASE u = t
        BY <1>1, <3>1 DEF ReaderInv
      <3>2. CASE u # t
        BY <1>1, <3>2 DEF ReaderInv
      <3>3. QED
        BY <3>1, <3>2
    <2>2. QED
      BY <1>3, <2>1 DEF ReaderInv, narrativeTables
  <1>5. GraphInv' /\ CurrentInv' /\ NarrativeIsItsRevision'
    BY DEF GraphInv, CurrentInv, NarrativeIsItsRevision, narrativeTables
  <1>6. HandledInv'
    BY <1>3 DEF HandledInv, narrativeTables
  <1>7. QED
    BY <1>2, <1>4, <1>5, <1>6

\* What a transaction leaves of a narrative it wrote: the members of the
\* cluster, and the revision of those members unless a higher one is there.
LEMMA NarrativeWritten ==
  ASSUME NarrativesIInv, NEW c \in SUBSET Post, NEW r \in Nat,
         NEW u, u = Updated(c, r)
  PROVE  /\ u \in [members : SUBSET Post, current : Nat, current_members : SUBSET Post]
         /\ (Narrative(c) \in DOMAIN narratives => narratives[Narrative(c)].current <= r) =>
              u = [members |-> c, current |-> r, current_members |-> c]
  <1> DEFINE n == Narrative(c)
  <1> HIDE DEF n
  <1>1. u = IF n \notin DOMAIN narratives
            THEN [members |-> c, current |-> r, current_members |-> c]
            ELSE IF r >= narratives[n].current
                 THEN [members |-> c, current |-> r, current_members |-> c]
                 ELSE [narratives[n] EXCEPT !.members = c]
    BY DEF Updated, Supersedes, n
  <1>2. n \in DOMAIN narratives =>
          narratives[n] \in [members : SUBSET Post, current : Nat, current_members : SUBSET Post]
    BY DEF NarrativesIInv, NarrativesTypeOK
  <1>3. QED
    BY <1>1, <1>2 DEF n

LEMMA GraphStoredKeeps ==
  ASSUME NarrativesIInv, NEW t \in FeatureTopic, PersistGraph(t),
         Current(t) \notin graphs, Broken(Clusters(reader[t].posts), Current(t).revision) = {}
  PROVE  NarrativesIInv'
  <1> USE DEF NarrativesIInv
  <1>0. PICK s : s = Current(t)
    OBVIOUS
  <1> DEFINE C == Clusters(reader[t].posts)
             ClusterOf(n) == CHOOSE c \in C : Narrative(c) = n
             mine == {Narrative(c) : c \in C}
             row(n) == Updated(ClusterOf(n), s.revision)
  <1>1. /\ reader[t].at = "persist"
        /\ narratives' = [n \in DOMAIN narratives \union mine |->
                            IF \E c \in C : Narrative(c) = n THEN row(n) ELSE narratives[n]]
        /\ revisions' = revisions \union NewRevisions(C, s.revision)
        /\ clustered' = clustered \union {Revision(c, s.revision) : c \in C}
        /\ graphs' = graphs \union {s}
        /\ disordered' = (disordered \/ \E g \in graphs : g.revision > s.revision)
        /\ Goes(t, "commit")
        /\ UNCHANGED <<stored, windowLog, done, barren>>
    BY <1>0 DEF PersistGraph
  <1>2. s \in WindowSnapshot /\ s.revision \in Nat
    <2>1. done[t] \in Nat /\ done[t] < Len(windowLog[t]) /\ windowLog[t] \in Seq(WindowSnapshot)
      BY <1>1 DEF ReaderInv, NarrativesTypeOK
    <2>2. done[t] + 1 \in 1..Len(windowLog[t])
      BY <2>1
    <2>3. s \in WindowSnapshot
      BY <1>0, <2>1, <2>2 DEF Current
    <2>4. QED
      BY <2>3 DEF WindowSnapshot
  <1>3. reader[t].posts # {} /\ reader[t].posts \subseteq PostsBefore[s.window]
        /\ reader[t].posts \subseteq Post
    BY <1>0, <1>1 DEF ReaderInv, NarrativesTypeOK
  <1>4. C # {} /\ \A c \in C : c \subseteq reader[t].posts
    <2>1. PICK p \in reader[t].posts : TRUE
      BY <1>3
    <2>2. {q \in reader[t].posts : Theme[q] = Theme[p]} \in C
      BY DEF Clusters
    <2>3. \A c \in C : c \subseteq reader[t].posts
      BY DEF Clusters
    <2>4. QED
      BY <2>2, <2>3
  <1>5. \A n \in mine : ClusterOf(n) \in C /\ ClusterOf(n) \in SUBSET Post /\ Narrative(ClusterOf(n)) = n
    BY <1>3, <1>4
  <1> HIDE DEF C
  <1>6. /\ DOMAIN narratives' = DOMAIN narratives \union mine
        /\ \A n \in mine : narratives'[n] = row(n)
        /\ \A n \in DOMAIN narratives : n \notin mine => narratives'[n] = narratives[n]
    BY <1>1
  <1> HIDE DEF mine, row, ClusterOf
  <1>7. \A n \in mine :
          /\ row(n) \in [members : SUBSET Post, current : Nat, current_members : SUBSET Post]
          /\ (n \in DOMAIN narratives => narratives[n].current <= s.revision) =>
               row(n) = [members |-> ClusterOf(n), current |-> s.revision, current_members |-> ClusterOf(n)]
    BY <1>2, <1>5, NarrativeWritten DEF row
  <1>8. /\ reader' \in [FeatureTopic -> [at : {"poll", "persist", "commit"}, posts : SUBSET Post]]
        /\ \A u \in FeatureTopic : u # t => reader'[u] = reader[u]
        /\ reader'[t].at = "commit"
    BY <1>1 DEF NarrativesTypeOK, Goes
  <1>9. NarrativesTypeOK'
    <2>1. narratives' \in [DOMAIN narratives' ->
                         [members : SUBSET Post, current : Nat, current_members : SUBSET Post]]
      <3>1. narratives' = [n \in DOMAIN narratives' |-> narratives'[n]]
        BY <1>1
      <3>2. \A n \in DOMAIN narratives' : narratives'[n] \in
              [members : SUBSET Post, current : Nat, current_members : SUBSET Post]
        BY <1>6, <1>7 DEF NarrativesTypeOK
      <3>3. QED
        BY <3>1, <3>2
    <2>2. graphs' \subseteq WindowSnapshot /\ disordered' \in BOOLEAN
      BY <1>1, <1>2 DEF NarrativesTypeOK
    <2>3. QED
      BY <1>1, <1>8, <2>1, <2>2 DEF NarrativesTypeOK
  <1>10. \A u \in FeatureTopic : Current(u)' = Current(u) /\ Handled(u)' = Handled(u)
    BY <1>1 DEF Current, Handled
  <1>11. ReaderInv'
    <2>1. ASSUME NEW u \in FeatureTopic
          PROVE  /\ reader'[u].at # "poll" => done[u] < Len(windowLog[u])
                 /\ reader'[u].at = "persist" => reader'[u].posts # {}
                 /\ reader'[u].at = "persist" =>
                      reader'[u].posts \subseteq PostsBefore[Current(u).window]
                 /\ reader'[u].at = "commit" => Current(u) \in barren \union graphs'
      <3>1. CASE u = t
        BY <1>0, <1>1, <1>8, <3>1 DEF ReaderInv
      <3>2. CASE u # t
        BY <1>1, <1>8, <3>2 DEF ReaderInv
      <3>3. QED
        BY <3>1, <3>2
    <2>2. QED
      BY <1>1, <1>10, <2>1 DEF ReaderInv
  <1>12. GraphInv'
    <2>1. \E e \in clustered' : e.revision = s.revision /\ e.members \subseteq PostsBefore[s.window]
      <3>1. PICK c \in C : c \subseteq PostsBefore[s.window]
        BY <1>3, <1>4
      <3>2. Revision(c, s.revision) \in clustered'
        BY <1>1
      <3>3. QED
        BY <3>1, <3>2 DEF Revision
    <2>2. QED
      BY <1>1, <2>1 DEF GraphInv
  <1>13. HandledInv'
    BY <1>1, <1>10 DEF HandledInv
  <1>14. CurrentInv' /\ NarrativeIsItsRevision'
    <2>1. SUFFICES ASSUME ~disordered', NEW n \in DOMAIN narratives'
                   PROVE  /\ \E g \in graphs' : narratives'[n].current = g.revision
                          /\ narratives'[n].members = narratives'[n].current_members
                          /\ \E r \in revisions' : r.narrative = n /\ r.members = narratives'[n].members
      BY DEF CurrentInv, NarrativeIsItsRevision
    <2>2. ~disordered /\ \A g \in graphs : ~(g.revision > s.revision)
      BY <1>1, <2>1
    <2>3. CASE n \in mine
      <3>1. n \in DOMAIN narratives => narratives[n].current <= s.revision
        <4>1. \A g \in graphs : g.revision \in Nat
          BY DEF NarrativesTypeOK, WindowSnapshot
        <4>2. \A g \in graphs : g.revision <= s.revision
          BY <1>2, <2>2, <4>1
        <4>3. QED
          BY <2>2, <4>2 DEF CurrentInv
      <3>2. narratives'[n] = [members |-> ClusterOf(n), current |-> s.revision, current_members |-> ClusterOf(n)]
        BY <1>6, <1>7, <2>3, <3>1
      <3>3. \E r \in revisions' : r.narrative = n /\ r.members = ClusterOf(n)
        <4>1. ClusterOf(n) \in C /\ Narrative(ClusterOf(n)) = n
          BY <1>5, <2>3
        <4>2. CASE \E old \in revisions : old.narrative = n /\ old.members = ClusterOf(n)
          BY <1>1, <4>2
        <4>3. CASE ~\E old \in revisions : old.narrative = n /\ old.members = ClusterOf(n)
          <5>1. Revision(ClusterOf(n), s.revision) \in NewRevisions(C, s.revision)
            BY <4>1, <4>3 DEF NewRevisions
          <5>2. Revision(ClusterOf(n), s.revision) \in revisions'
            BY <1>1, <5>1
          <5>3. QED
            BY <4>1, <5>2 DEF Revision
        <4>4. QED
          BY <4>2, <4>3
      <3>4. QED
        BY <1>1, <3>2, <3>3
    <2>4. CASE n \notin mine
      <3>1. n \in DOMAIN narratives /\ narratives'[n] = narratives[n]
        BY <1>6, <2>1, <2>4
      <3>2. QED
        BY <1>1, <2>2, <3>1 DEF CurrentInv, NarrativeIsItsRevision
    <2>5. QED
      BY <2>3, <2>4
  <1>15. QED
    BY <1>9, <1>11, <1>12, <1>13, <1>14

LEMMA PersistGraphKeeps ==
  ASSUME NarrativesIInv, NEW t \in FeatureTopic, PersistGraph(t)
  PROVE  NarrativesIInv'
  <1>1. reader[t].at = "persist" /\ UNCHANGED <<stored, windowLog, done, barren, graphCrashes>>
    BY DEF PersistGraph
  <1>2. CASE Current(t) \in graphs
    <2>1. Goes(t, "commit") /\ UNCHANGED <<narrativeTables, disordered>>
      BY <1>2 DEF PersistGraph
    <2>2. QED
      BY <1>1, <1>2, <2>1, NothingStoredKeeps
  <1>3. CASE /\ Current(t) \notin graphs
             /\ Broken(Clusters(reader[t].posts), Current(t).revision) # {}
    <2>1. reader' = [reader EXCEPT ![t] = Waiting4Snapshot] /\ UNCHANGED <<narrativeTables, disordered>>
      BY <1>3 DEF PersistGraph
    <2>2. QED
      BY <1>1, <2>1, NothingStoredKeeps
  <1>4. CASE /\ Current(t) \notin graphs
             /\ Broken(Clusters(reader[t].posts), Current(t).revision) = {}
    BY <1>4, GraphStoredKeeps
  <1>5. QED
    BY <1>2, <1>3, <1>4

LEMMA NarrativesInitially == ASSUME NarrativesInit PROVE NarrativesIInv
  <1>1. NarrativesTypeOK
    <2>1. \A t \in FeatureTopic : windowLog[t] = <<>> /\ done[t] = 0 /\ reader[t] = Waiting4Snapshot
      BY DEF NarrativesInit
    <2>2. windowLog \in [FeatureTopic -> Seq(WindowSnapshot)] /\ done \in [FeatureTopic -> Nat]
      BY DEF NarrativesInit
    <2>3. Waiting4Snapshot \in [at : {"poll", "persist", "commit"}, posts : SUBSET Post]
      BY DEF Waiting4Snapshot
    <2>4. reader \in [FeatureTopic -> [at : {"poll", "persist", "commit"}, posts : SUBSET Post]]
      BY <2>3 DEF NarrativesInit
    <2>5. narratives \in [DOMAIN narratives ->
                         [members : SUBSET Post, current : Nat, current_members : SUBSET Post]]
      BY DEF NarrativesInit
    <2>6. \A t \in FeatureTopic : done[t] <= Len(windowLog[t])
      BY <2>1
    <2>7. stored \subseteq Post /\ graphs \subseteq WindowSnapshot /\ disordered \in BOOLEAN
      BY DEF NarrativesInit
    <2>8. QED
      BY <2>2, <2>4, <2>5, <2>6, <2>7 DEF NarrativesTypeOK
  <1>2. ReaderInv /\ GraphInv /\ CurrentInv /\ NarrativeIsItsRevision
    BY DEF NarrativesInit, ReaderInv, Waiting4Snapshot, GraphInv, CurrentInv, NarrativeIsItsRevision
  <1>3. HandledInv
    BY DEF NarrativesInit, HandledInv, Handled
  <1>4. QED
    BY <1>1, <1>2, <1>3 DEF NarrativesIInv

LEMMA NarrativesStep == ASSUME NarrativesIInv, [NarrativesNext]_narrativeVars PROVE NarrativesIInv'
  <1>1. CASE NarrativesNext
    BY <1>1, StorePostKeeps, PublishSnapshotKeeps, ReadPostsKeeps, PersistGraphKeeps,
       CommitSnapshotKeeps DEF NarrativesNext
  <1>2. CASE UNCHANGED narrativeVars
    <2> USE <1>2 DEF narrativeVars, narrativeTables, NarrativesIInv
    <2>1. NarrativesTypeOK' /\ ReaderInv'
      BY DEF NarrativesTypeOK, ReaderInv, Current
    <2>2. GraphInv' /\ HandledInv'
      BY DEF GraphInv, HandledInv, Handled
    <2>3. CurrentInv' /\ NarrativeIsItsRevision'
      BY DEF CurrentInv, NarrativeIsItsRevision
    <2>4. QED
      BY <2>1, <2>2, <2>3
  <1>3. QED
    BY <1>1, <1>2

(* Every snapshot that was committed has its graph and an event of one of  *)
(* its clusters, unless no post was stored for it, and a narrative is its  *)
(* revision unless the snapshots were stored out of order: for any posts,  *)
(* themes, windows, revisions and crashes.                                 *)
THEOREM NarrativesInvTheorem == NarrativesSpec => []NarrativesInv
  <1>1. NarrativesIInv => NarrativesInv
    BY DEF NarrativesIInv, NarrativesInv, CommittedIsGraphed, HandledInv, GraphInv
  <1>2. QED
    BY <1>1, NarrativesInitially, NarrativesStep, PTL DEF NarrativesSpec

-----------------------------------------------------------------------------
(***************************************************************************)
(* Threat feed. A pulse nobody has observed is newer than the watermark,   *)
(* unless a poll was cut off (UnobservedInv): what is offered and fits is  *)
(* fetched, and a pulse that is modified during the poll is modified       *)
(* after everything the poll saw (WatermarkInv).                           *)
(***************************************************************************)

FeedTypeOK ==
  /\ moment \in Nat \ {0}
  /\ modified \in [Pulse -> 0..moment] /\ IsFiniteSet({p \in Pulse : modified[p] > 0})
  /\ observed \in [Pulse -> Nat]
  /\ posts \subseteq Pulse
  /\ watermark \in Nat /\ truncated \in BOOLEAN
  /\ poller \in [at : {"idle", "fetch", "ingest", "backfill", "status"}, since : Nat,
                 pulses : SUBSET Pulse, fetched : Nat, newest : Nat]
  /\ poller.at = "ingest" => poller.fetched > 0

\* A watermark is the time of a modification, or older than one: no pulse can
\* be modified at or before it any more.
WatermarkInv ==
  \A w \in {watermark, poller.since, poller.newest} :
    w = 0 \/ \E q \in Pulse : modified[q] >= w

\* A pulse nobody has observed is newer than every watermark, those a poll is
\* about to store and to leave included, or is in the poll's hands.
UnobservedInv ==
  ~truncated => \A p \in Pulse : (modified[p] > 0 /\ observed[p] = 0) =>
    /\ modified[p] > watermark /\ modified[p] > poller.since
    /\ poller.at = "ingest" => (p \in poller.pulses \/ modified[p] > poller.newest)
    /\ poller.at \in {"backfill", "status"} => modified[p] > poller.newest

FeedIInv == FeedTypeOK /\ WatermarkInv /\ UnobservedInv /\ MissedMatchNeedsNewerPulses

\* All of the pulses fit into a poll when there are no more than it may have.
LEMMA AllFit ==
  ASSUME NEW P \in SUBSET Pulse, IsFiniteSet(P), Cardinality(P) <= MaxRecords,
         modified \in [Pulse -> Nat]
  PROVE  NewestOf(P) = P
  <1>1. ASSUME NEW p \in P
        PROVE  Cardinality({q \in P : modified[q] > modified[p]}) < MaxRecords
    <2> DEFINE newer == {q \in P : modified[q] > modified[p]}
    <2>1. newer \subseteq P \ {p}
      OBVIOUS
    <2>2. IsFiniteSet(P \ {p}) /\ Cardinality(P \ {p}) = Cardinality(P) - 1
      BY FS_RemoveElement
    <2>3. Cardinality(newer) <= Cardinality(P \ {p}) /\ IsFiniteSet(newer)
      BY <2>1, <2>2, FS_Subset
    <2>4. Cardinality(newer) \in Nat /\ Cardinality(P) \in Nat
      BY <2>3, FS_CardinalityType
    <2> HIDE DEF newer
    <2>5. Cardinality(newer) < MaxRecords
      BY <2>2, <2>3, <2>4, ThreatFeedAssumption
    <2>6. QED
      BY <2>5 DEF newer
  <1>2. QED
    BY <1>1 DEF NewestOf

\* The newest modification is that of one of the pulses, and none is newer.
LEMMA NewestIsOneOfThem ==
  ASSUME FeedTypeOK, NEW P \in SUBSET Pulse, P # {}
  PROVE  \E q \in P : NewestModified(P) = modified[q] /\ \A p \in P : modified[p] <= modified[q]
  <1> DEFINE times == {modified[p] : p \in P}
  <1>1. times \subseteq 0..moment /\ times # {} /\ moment \in Nat
    BY DEF FeedTypeOK
  <1>2. times \in SUBSET Nat /\ IsFiniteSet(times)
    <2>1. 0 \in Int /\ moment \in Int
      BY <1>1
    <2>2. IsFiniteSet(0..moment)
      BY <2>1, FS_Interval
    <2>3. times \subseteq Nat
      BY <1>1
    <2> HIDE DEF times
    <2>4. QED
      BY <1>1, <2>2, <2>3, FS_Subset
  <1> HIDE DEF times
  <1>3. \E m \in times : \A n \in times : n <= m
    BY <1>1, <1>2, GreatestExists
  <1>4. \E m \in times : \A p \in P : modified[p] <= m
    BY <1>3 DEF times
  <1>5. NewestModified(P) = CHOOSE m \in times : \A p \in P : modified[p] <= m
    BY DEF NewestModified, times
  <1>6. NewestModified(P) \in times /\ \A p \in P : modified[p] <= NewestModified(P)
    BY <1>4, <1>5
  <1>7. QED
    BY <1>6 DEF times

LEMMA PulsesChangeKeeps == ASSUME FeedIInv, PulseModified PROVE FeedIInv'
  <1> USE DEF FeedIInv
  <1>1. PICK p \in Pulse : modified' = [modified EXCEPT ![p] = moment]
    BY DEF PulseModified
  <1>2. /\ \A q \in Pulse : modified[q] # moment
        /\ UNCHANGED <<moment, posts, late_posts, observed, matched, watermark, poller, truncated>>
    BY DEF PulseModified
  <1>3. /\ moment \in Nat \ {0} /\ modified' \in [Pulse -> 0..moment]
        /\ \A q \in Pulse : modified[q] \in Nat /\ modified[q] < moment
        /\ \A q \in Pulse : modified'[q] = IF q = p THEN moment ELSE modified[q]
    BY <1>1, <1>2 DEF FeedTypeOK
  <1>4. \A q \in Pulse : modified'[q] \in Nat /\ modified[q] <= modified'[q]
    BY <1>3
  <1>5. \A w \in {watermark, poller.since, poller.newest} : w \in Nat /\ w < moment
    BY <1>3 DEF WatermarkInv, FeedTypeOK
  <1>6. FeedTypeOK'
    <2> DEFINE old == {q \in Pulse : modified[q] > 0}
    <2>1. {q \in Pulse : modified'[q] > 0} = old \union {p}
      BY <1>3
    <2>2. IsFiniteSet(old \union {p})
      BY FS_AddElement DEF FeedTypeOK
    <2>3. QED
      BY <1>2, <1>3, <2>1, <2>2 DEF FeedTypeOK
  <1>7. WatermarkInv'
    <2>1. \A w \in {watermark, poller.since, poller.newest} :
            w = 0 \/ \E q \in Pulse : modified'[q] >= w
      <3>1. SUFFICES ASSUME NEW w \in {watermark, poller.since, poller.newest}, w # 0
                     PROVE  \E q \in Pulse : modified'[q] >= w
        OBVIOUS
      <3>2. PICK q \in Pulse : modified[q] >= w
        BY <3>1 DEF WatermarkInv
      <3>3. w \in Nat /\ modified[q] \in Nat /\ modified'[q] \in Nat /\ modified[q] <= modified'[q]
        BY <1>3, <1>4, <1>5
      <3>4. modified'[q] >= w
        BY <3>2, <3>3
      <3>5. QED
        BY <3>4
    <2>2. QED
      BY <1>2, <2>1 DEF WatermarkInv
  <1>8. UnobservedInv'
    <2>1. SUFFICES ASSUME ~truncated, NEW q \in Pulse, modified'[q] > 0, observed[q] = 0
                   PROVE  /\ modified'[q] > watermark /\ modified'[q] > poller.since
                          /\ poller.at = "ingest" =>
                               (q \in poller.pulses \/ modified'[q] > poller.newest)
                          /\ poller.at \in {"backfill", "status"} => modified'[q] > poller.newest
      BY <1>2 DEF UnobservedInv
    <2>2. CASE q = p
      BY <1>3, <1>5, <2>2
    <2>3. CASE q # p
      BY <1>3, <2>1, <2>3 DEF UnobservedInv
    <2>4. QED
      BY <2>2, <2>3
  <1>9. MissedMatchNeedsNewerPulses'
    <2>1. SUFFICES ASSUME NEW q \in posts \ (matched \union late_posts), observed[q] > 0,
                          ~CrowdedOut(q)
                   PROVE  \E s \in Pulse : modified'[s] > observed[q]
      BY <1>2 DEF MissedMatchNeedsNewerPulses, PassedBy, CrowdedOut
    <2>2. PICK s \in Pulse : modified[s] > observed[q]
      BY <2>1 DEF MissedMatchNeedsNewerPulses, PassedBy
    <2>3. observed[q] \in Nat
      BY DEF FeedTypeOK
    <2>4. modified'[s] > observed[q]
      BY <1>3, <2>2, <2>3
    <2>5. QED
      BY <2>4
  <1>10. QED
    BY <1>6, <1>7, <1>8, <1>9

LEMMA FetchKeeps == ASSUME FeedIInv, FetchPulses PROVE FeedIInv'
  <1> USE DEF FeedIInv
  <1> DEFINE pulses == NewestOf(Offered)
  <1>1. /\ poller.at = "fetch"
        /\ poller' = [poller EXCEPT !.at = "ingest", !.pulses = pulses,
                                    !.fetched = moment, !.newest = NewestModified(pulses)]
        /\ truncated' = (truncated \/ Cardinality(Offered) > MaxRecords)
        /\ UNCHANGED <<moment, modified, posts, late_posts, observed, matched, watermark>>
    BY DEF FetchPulses
  <1>2. pulses \subseteq Offered /\ Offered \subseteq Pulse
    BY DEF NewestOf, Offered
  <1>3. \/ pulses = {} /\ NewestModified(pulses) = 0
        \/ \E q \in pulses : NewestModified(pulses) = modified[q]
    BY <1>2, NewestIsOneOfThem DEF NewestModified
  <1>4. \A q \in Pulse : modified[q] \in Nat
    BY DEF FeedTypeOK
  <1>5. NewestModified(pulses) \in Nat
    BY <1>2, <1>3, <1>4
  <1>6. ~truncated' => pulses = Offered
    <2>1. SUFFICES ASSUME ~truncated' PROVE pulses = Offered
      OBVIOUS
    <2>2. IsFiniteSet(Offered)
      <3>1. Offered \subseteq {p \in Pulse : modified[p] > 0}
        BY DEF Offered
      <3>2. QED
        BY <3>1, FS_Subset DEF FeedTypeOK
    <2>3. Cardinality(Offered) \in Nat /\ MaxRecords \in Nat
      BY <2>2, FS_CardinalityType, ThreatFeedAssumption
    <2>4. Cardinality(Offered) <= MaxRecords
      <3>1. ~(Cardinality(Offered) > MaxRecords)
        BY <1>1, <2>1, Zenon
      <3>2. QED
        BY <2>3, <3>1
    <2>5. modified \in [Pulse -> Nat]
      BY <1>4 DEF FeedTypeOK
    <2>6. QED
      BY <1>2, <2>2, <2>4, <2>5, AllFit
  <1> HIDE DEF pulses
  <1>7. /\ poller'.at = "ingest" /\ poller'.since = poller.since /\ poller'.pulses = pulses
        /\ poller'.newest = NewestModified(pulses) /\ poller'.fetched = moment /\ moment > 0
        /\ poller' \in [at : {"idle", "fetch", "ingest", "backfill", "status"}, since : Nat,
                        pulses : SUBSET Pulse, fetched : Nat, newest : Nat]
    <2>1. pulses \in SUBSET Pulse
      BY <1>2
    <2>2. moment \in Nat /\ moment > 0
      BY DEF FeedTypeOK
    <2>3. QED
      BY <1>1, <1>5, <2>1, <2>2 DEF FeedTypeOK
  <1>8. FeedTypeOK'
    BY <1>1, <1>7 DEF FeedTypeOK
  <1>9. WatermarkInv'
    <2>1. NewestModified(pulses) = 0 \/ \E q \in Pulse : modified[q] >= NewestModified(pulses)
      <3>1. ASSUME NEW q \in pulses, NewestModified(pulses) = modified[q]
            PROVE  modified[q] >= NewestModified(pulses)
        BY <1>2, <1>4, <3>1
      <3>2. QED
        BY <1>2, <1>3, <3>1
    <2>2. QED
      BY <1>1, <1>7, <2>1 DEF WatermarkInv
  <1>10. UnobservedInv'
    <2>1. SUFFICES ASSUME ~truncated', NEW p \in Pulse, modified[p] > 0, observed[p] = 0
                   PROVE  /\ modified[p] > watermark /\ modified[p] > poller.since
                          /\ p \in pulses
      BY <1>1, <1>7 DEF UnobservedInv
    <2>2. modified[p] > watermark /\ modified[p] > poller.since
      BY <1>1, <2>1 DEF UnobservedInv
    <2>3. p \in Offered
      BY <1>4, <2>1, <2>2 DEF Offered, FeedTypeOK
    <2>4. QED
      BY <1>6, <2>1, <2>2, <2>3
  <1>11. MissedMatchNeedsNewerPulses'
    BY <1>1 DEF MissedMatchNeedsNewerPulses, PassedBy, CrowdedOut
  <1>12. QED
    BY <1>8, <1>9, <1>10, <1>11

\* Observations only come to be: who is crowded out stays so.
LEMMA MoreAreCrowded ==
  ASSUME NEW Q \in SUBSET Pulse, NEW R \in SUBSET Pulse, Q \subseteq R,
         Cardinality(Q) > MaxBackfill
  PROVE  Cardinality(R) > MaxBackfill
  <1>1. IsFiniteSet(Q) /\ IsFiniteSet(R)
    BY FS_Subset, ThreatFeedAssumption
  <1>2. Cardinality(Q) <= Cardinality(R) /\ Cardinality(Q) \in Nat /\ Cardinality(R) \in Nat
    BY <1>1, FS_Subset, FS_CardinalityType
  <1>3. QED
    BY <1>2, ThreatFeedAssumption

LEMMA IngestKeeps == ASSUME FeedIInv, IngestPulses PROVE FeedIInv'
  <1> USE DEF FeedIInv
  <1>0. PICK now \in poller.fetched..moment :
          observed' = [p \in Pulse |-> IF p \in poller.pulses /\ observed[p] = 0
                                      THEN now ELSE observed[p]]
    BY DEF IngestPulses
  <1>a. now \in Nat
    BY <1>0 DEF FeedTypeOK
  <1>1. /\ poller.at = "ingest"
        /\ matched' = matched \union (posts \intersect poller.pulses)
        /\ poller' = [poller EXCEPT !.at = "backfill"]
        /\ UNCHANGED <<moment, modified, posts, late_posts, watermark, truncated>>
    BY DEF IngestPulses
  <1>b. \A p \in Pulse : observed[p] \in Nat /\ observed'[p] \in Nat /\ observed'[p] >= observed[p]
    BY <1>0, <1>a DEF FeedTypeOK
  <1>2. /\ poller'.at = "backfill" /\ poller'.since = poller.since /\ poller'.pulses = poller.pulses
        /\ poller'.newest = poller.newest
        /\ poller' \in [at : {"idle", "fetch", "ingest", "backfill", "status"}, since : Nat,
                        pulses : SUBSET Pulse, fetched : Nat, newest : Nat]
    BY <1>1 DEF FeedTypeOK
  <1>3. FeedTypeOK'
    BY <1>0, <1>1, <1>2, <1>a DEF FeedTypeOK
  <1>4. WatermarkInv'
    BY <1>1, <1>2 DEF WatermarkInv
  <1>5. UnobservedInv'
    <2>1. SUFFICES ASSUME ~truncated, NEW p \in Pulse, modified[p] > 0, observed'[p] = 0
                   PROVE  /\ modified[p] > watermark /\ modified[p] > poller.since
                          /\ modified[p] > poller.newest
      BY <1>1, <1>2 DEF UnobservedInv
    <2>2. observed[p] = 0 /\ p \notin poller.pulses
      <3>1. now > 0
        BY <1>0, <1>1 DEF FeedTypeOK
      <3>2. QED
        BY <1>0, <2>1, <3>1 DEF FeedTypeOK
    <2>3. QED
      BY <1>1, <2>1, <2>2 DEF UnobservedInv
  <1>6. MissedMatchNeedsNewerPulses'
    <2>1. SUFFICES ASSUME NEW p \in posts \ (matched' \union late_posts), observed'[p] > 0
                   PROVE  PassedBy(p)' \/ CrowdedOut(p)'
      BY <1>1 DEF MissedMatchNeedsNewerPulses
    <2>2. p \notin matched /\ p \notin poller.pulses /\ p \in Pulse
      BY <1>1, <2>1 DEF FeedTypeOK
    <2>3. observed'[p] = observed[p]
      BY <1>0, <2>2
    <2>4. PassedBy(p) \/ CrowdedOut(p)
      BY <2>1, <2>2, <2>3 DEF MissedMatchNeedsNewerPulses
    <2>5. CASE PassedBy(p)
      BY <1>1, <2>3, <2>5 DEF PassedBy
    <2>6. CASE CrowdedOut(p)
      <3>1. {q \in Pulse : observed[q] >= observed[p]} \subseteq {q \in Pulse : observed'[q] >= observed'[p]}
        BY <1>b, <2>2, <2>3
      <3>2. QED
        BY <2>6, <3>1, MoreAreCrowded DEF CrowdedOut
    <2>7. QED
      BY <2>4, <2>5, <2>6
  <1>7. QED
    BY <1>3, <1>4, <1>5, <1>6

\* What a backfill leaves out of the observations it may take is crowded out.
LEMMA LeftOutIsCrowdedOut ==
  ASSUME FeedTypeOK, NEW since \in Nat, NEW P \in Backfilled(since),
         NEW p \in ObservedSince(since) \ P
  PROVE  CrowdedOut(p)
  <1> DEFINE newer == {q \in Pulse : observed[q] >= observed[p]}
  <1>1. P \subseteq ObservedSince(since) /\ ObservedSince(since) \subseteq Pulse
    BY DEF Backfilled, ObservedSince
  <1>2. /\ Cardinality(P) = MaxBackfill
        /\ \A q \in P : observed[q] >= observed[p]
    BY DEF Backfilled
  <1>3. observed[p] \in Nat
    BY <1>1 DEF FeedTypeOK
  <1>4. P \union {p} \subseteq newer
    BY <1>1, <1>2, <1>3
  <1>5. IsFiniteSet(P) /\ IsFiniteSet(P \union {p}) /\ IsFiniteSet(newer)
    <2>1. IsFiniteSet(P)
      BY <1>1, FS_Subset, ThreatFeedAssumption
    <2>2. IsFiniteSet(newer)
      BY FS_Subset, ThreatFeedAssumption
    <2>3. QED
      BY <2>1, <2>2, FS_AddElement
  <1>6. Cardinality(P \union {p}) = MaxBackfill + 1
    BY <1>2, <1>5, FS_AddElement
  <1> HIDE DEF newer
  <1>7. Cardinality(P \union {p}) <= Cardinality(newer)
    BY <1>4, <1>5, FS_Subset
  <1>8. Cardinality(newer) \in Nat
    BY <1>5, FS_CardinalityType
  <1>9. Cardinality(newer) > MaxBackfill
    BY <1>6, <1>7, <1>8, ThreatFeedAssumption
  <1>10. QED
    BY <1>9 DEF CrowdedOut, newer

LEMMA BackfillKeeps == ASSUME FeedIInv, Backfill PROVE FeedIInv'
  <1> USE DEF FeedIInv
  <1>1. /\ poller.at = "backfill"
        /\ poller' = [poller EXCEPT !.at = "status"]
        /\ UNCHANGED <<moment, modified, posts, observed, watermark, truncated>>
    BY DEF Backfill
  <1>0. PICK P \in Backfilled(poller.since) : matched' = matched \union (posts \intersect P)
    BY DEF Backfill
  <1>2. /\ poller'.at = "status" /\ poller'.since = poller.since /\ poller'.pulses = poller.pulses
        /\ poller'.newest = poller.newest
        /\ poller' \in [at : {"idle", "fetch", "ingest", "backfill", "status"}, since : Nat,
                        pulses : SUBSET Pulse, fetched : Nat, newest : Nat]
    BY <1>1 DEF FeedTypeOK
  <1>3. FeedTypeOK'
    BY <1>1, <1>2 DEF FeedTypeOK
  <1>4. WatermarkInv' /\ UnobservedInv'
    BY <1>1, <1>2 DEF WatermarkInv, UnobservedInv
  <1>5. MissedMatchNeedsNewerPulses'
    <2>1. SUFFICES ASSUME NEW p \in posts, p \notin matched', observed[p] > 0, ~CrowdedOut(p)
                   PROVE  PassedBy(p)
      BY <1>1 DEF MissedMatchNeedsNewerPulses, PassedBy, CrowdedOut
    <2>2. p \in Pulse /\ observed[p] \in Nat /\ poller.since \in Nat
      BY <2>1 DEF FeedTypeOK
    <2>3. p \notin ObservedSince(poller.since)
      BY <1>0, <2>1, <2>2, LeftOutIsCrowdedOut
    <2>4. observed[p] < poller.since
      BY <2>1, <2>2, <2>3 DEF ObservedSince
    <2>5. PICK q \in Pulse : modified[q] >= poller.since
      BY <2>2, <2>4 DEF WatermarkInv
    <2>6. modified[q] > observed[p]
      BY <2>2, <2>4, <2>5 DEF FeedTypeOK
    <2>7. QED
      BY <2>6 DEF PassedBy
  <1>6. QED
    BY <1>3, <1>4, <1>5

LEMMA PollerComesAndGoes ==
  ASSUME FeedIInv, StartPoll \/ UpdateFeedStatus \/ PollGivesUp PROVE FeedIInv'
  <1> USE DEF FeedIInv
  <1>1. /\ UNCHANGED <<moment, modified, posts, late_posts, observed, matched, truncated>>
        /\ poller'.at \in {"idle", "fetch"} /\ poller'.since \in {0, watermark} /\ poller'.newest = 0
        /\ \/ watermark' = watermark
           \/ poller.at = "status" /\ watermark' = poller.newest /\ poller'.since = 0
        /\ poller' \in [at : {"idle", "fetch", "ingest", "backfill", "status"}, since : Nat,
                        pulses : SUBSET Pulse, fetched : Nat, newest : Nat]
    <2>1. CASE StartPoll
      BY <2>1 DEF StartPoll, IdlePoller, FeedTypeOK
    <2>2. CASE UpdateFeedStatus
      BY <2>2 DEF UpdateFeedStatus, IdlePoller, FeedTypeOK
    <2>3. CASE PollGivesUp
      BY <2>3 DEF PollGivesUp, IdlePoller, FeedTypeOK
    <2>4. QED
      BY <2>1, <2>2, <2>3
  <1>2. FeedTypeOK'
    BY <1>1 DEF FeedTypeOK
  <1>3. WatermarkInv'
    BY <1>1 DEF WatermarkInv
  <1>4. UnobservedInv'
    BY <1>1 DEF UnobservedInv
  <1>5. MissedMatchNeedsNewerPulses'
    BY <1>1 DEF MissedMatchNeedsNewerPulses, PassedBy, CrowdedOut
  <1>6. QED
    BY <1>2, <1>3, <1>4, <1>5

LEMMA TimeAndPostsKeep == ASSUME FeedIInv, MomentPasses \/ PostMentions PROVE FeedIInv'
  <1> USE DEF FeedIInv
  <1>1. /\ UNCHANGED <<modified, observed, matched, watermark, poller, truncated>>
        /\ moment' \in {moment, moment + 1} /\ posts' \subseteq Pulse
        /\ posts' \ (matched' \union late_posts') \subseteq posts \ (matched \union late_posts)
    BY DEF MomentPasses, PostMentions, FeedTypeOK
  <1>2. 0..moment \subseteq 0..moment' /\ moment' \in Nat \ {0}
    BY <1>1 DEF FeedTypeOK
  <1>3. FeedTypeOK'
    BY <1>1, <1>2 DEF FeedTypeOK
  <1>4. WatermarkInv' /\ UnobservedInv' /\ MissedMatchNeedsNewerPulses'
    BY <1>1 DEF WatermarkInv, UnobservedInv, MissedMatchNeedsNewerPulses, PassedBy, CrowdedOut
  <1>5. QED
    BY <1>3, <1>4

LEMMA FeedInitially == ASSUME ThreatFeedInit PROVE FeedIInv
  <1>1. {p \in Pulse : modified[p] > 0} = {}
    BY DEF ThreatFeedInit
  <1>2. FeedTypeOK
    <2>1. IsFiniteSet({p \in Pulse : modified[p] > 0})
      BY <1>1, FS_EmptySet
    <2>2. modified \in [Pulse -> 0..moment]
      BY DEF ThreatFeedInit
    <2>3. poller \in [at : {"idle", "fetch", "ingest", "backfill", "status"}, since : Nat,
                      pulses : SUBSET Pulse, fetched : Nat, newest : Nat]
      BY DEF ThreatFeedInit, IdlePoller
    <2>4. moment \in Nat \ {0} /\ observed \in [Pulse -> Nat] /\ posts \subseteq Pulse
      BY DEF ThreatFeedInit
    <2>5. watermark \in Nat /\ truncated \in BOOLEAN
      BY DEF ThreatFeedInit
    <2>6. poller.at # "ingest"
      BY DEF ThreatFeedInit, IdlePoller
    <2>7. QED
      BY <2>1, <2>2, <2>3, <2>4, <2>5, <2>6 DEF FeedTypeOK
  <1>3. QED
    BY <1>2 DEF ThreatFeedInit, FeedIInv, WatermarkInv, UnobservedInv, MissedMatchNeedsNewerPulses,
                IdlePoller

LEMMA FeedStep == ASSUME FeedIInv, [ThreatFeedNext]_feedVars PROVE FeedIInv'
  <1>1. CASE ThreatFeedNext
    BY <1>1, TimeAndPostsKeep, PulsesChangeKeeps, PollerComesAndGoes, FetchKeeps, IngestKeeps,
       BackfillKeeps DEF ThreatFeedNext
  <1>2. CASE UNCHANGED feedVars
    BY <1>2 DEF feedVars, FeedIInv, FeedTypeOK, WatermarkInv, UnobservedInv,
                MissedMatchNeedsNewerPulses, PassedBy, CrowdedOut
  <1>3. QED
    BY <1>1, <1>2

(* The watermark passes over no pulse that was not observed, unless a poll *)
(* was truncated, and no post goes unmatched with what was observed unless *)
(* a newer pulse moved the watermark past it or more observations than a   *)
(* backfill takes crowd it out: for any number of pulses, posts, polls and *)
(* failures, and any limits.                                               *)
THEOREM ThreatFeedInvTheorem == ThreatFeedSpec => []ThreatFeedInv
  <1>1. FeedIInv => ThreatFeedInv
    <2>1. SUFFICES ASSUME FeedIInv, ~truncated, NEW p \in Pulse, modified[p] \in 1..watermark
                   PROVE  observed[p] > 0
      BY DEF FeedIInv, ThreatFeedInv, PassedOverNeedsTruncation
    <2>2. modified[p] > 0 /\ ~(modified[p] > watermark) /\ observed[p] \in Nat
      BY <2>1 DEF FeedIInv, FeedTypeOK
    <2>3. QED
      BY <2>1, <2>2 DEF FeedIInv, UnobservedInv
  <1>2. QED
    BY <1>1, FeedInitially, FeedStep, PTL DEF ThreatFeedSpec

-----------------------------------------------------------------------------
(***************************************************************************)
(* Evidence of alerts. A worker reads the alert after the event was        *)
(* raised, so the version it captures is no older (CaptureInv); what was   *)
(* committed is evidenced. Without an overlap of two workers the snapshot  *)
(* that is stored is newer than all there are and linked to the newest of  *)
(* them (LinkInv).                                                         *)
(***************************************************************************)

CapturedSnapshot == [version : Nat, previous : Nat, event : Nat]
CaptureState ==
  [at : {"poll", "link", "store", "commit"}, offset : Nat, version : Nat, previous : Nat]

Raised(n) == event_versions[alertTopic[n]]
Evidenced(n) == \E s \in captured : s.version >= Raised(n)

EvidenceTypeOK ==
  /\ alert.version \in Nat
  /\ event_versions \in Seq(Nat) /\ alertTopic \in Seq(Nat)
  /\ captured \in SUBSET CapturedSnapshot
  /\ readTo \in 0 .. Len(alertTopic) /\ owns \in EvidenceWorker
  /\ worker \in [EvidenceWorker -> CaptureState]
  /\ overlap \in BOOLEAN

\* An event is raised with a version the alert has reached by then.
RaisedInv ==
  /\ \A n \in DOMAIN event_versions : event_versions[n] \in 1 .. alert.version
  /\ \A n \in DOMAIN alertTopic : alertTopic[n] \in DOMAIN event_versions
  /\ \A s \in captured : s.version <= alert.version

\* A worker read the alert after its event was raised, and started when every
\* event before its own was evidenced.
CaptureInv ==
  \A w \in EvidenceWorker : worker[w].at # "poll" =>
    /\ worker[w].offset \in DOMAIN alertTopic
    /\ worker[w].version \in Raised(worker[w].offset) .. alert.version
    /\ \A n \in 1 .. (worker[w].offset - 1) : Evidenced(n)
    /\ worker[w].at = "commit" => \E s \in captured : s.version = worker[w].version

\* Without an overlap only the owner captures, what it captures is newer than
\* every snapshot, and it links to the newest of them.
LinkInv ==
  ~overlap => \A w \in EvidenceWorker : worker[w].at # "poll" =>
    /\ owns = w
    /\ worker[w].at \in {"link", "store"} =>
         \A s \in captured : s.version < worker[w].version
    /\ worker[w].at = "store" =>
         \/ captured = {} /\ worker[w].previous = 0
         \/ \E p \in captured : /\ p.version = worker[w].previous
                                /\ \A o \in captured : o.version <= p.version

EvidenceInv ==
  /\ EvidenceTypeOK /\ RaisedInv /\ CaptureInv /\ LinkInv
  /\ EventsAreEvidenced /\ ChainIsInOrder
-----------------------------------------------------------------------------
\* The chain links to the newest snapshot there is.
LEMMA NewestIsCaptured ==
  ASSUME EvidenceTypeOK, RaisedInv
  PROVE  \/ captured = {} /\ NewestCaptured = 0
         \/ \E p \in captured : /\ p.version = NewestCaptured
                                /\ \A o \in captured : o.version <= p.version
  <1>1. CASE captured = {}
    BY <1>1 DEF NewestCaptured
  <1>2. CASE captured # {}
    <2> DEFINE V == {s.version : s \in captured}
    <2>1. V \in SUBSET Nat /\ V # {} /\ alert.version \in Nat /\ \A v \in V : v <= alert.version
      BY <1>2 DEF EvidenceTypeOK, RaisedInv, CapturedSnapshot
    <2>2. \E m \in V : \A v \in V : v <= m
      <3> HIDE DEF V
      <3>1. IsFiniteSet(V)
        BY <2>1, FS_BoundedSetOfNaturals
      <3>2. QED
        BY <2>1, <3>1, GreatestExists
    <2>3. \E p \in captured : \A o \in captured : o.version <= p.version
      BY <2>2
    <2> DEFINE c == CHOOSE s \in captured : \A o \in captured : o.version <= s.version
    <2>4. c \in captured /\ \A o \in captured : o.version <= c.version
      BY <2>3
    <2>5. NewestCaptured = c.version
      BY <1>2 DEF NewestCaptured
    <2>6. QED
      BY <2>4, <2>5
  <1>3. QED
    BY <1>1, <1>2

(***************************************************************************)
(* Steps of the alert, the topic and the group: what is captured, read and *)
(* raised stays as it was.                                                 *)
(***************************************************************************)
LEMMA AlertGoesOn ==
  ASSUME EvidenceInv, UNCHANGED <<captured, readTo, owns, worker, overlap>>,
         EvidenceTypeOK', RaisedInv', alert'.version >= alert.version,
         \A n \in DOMAIN alertTopic : n \in DOMAIN alertTopic' /\ Raised(n)' = Raised(n)
  PROVE  EvidenceInv'
  <1> USE DEF EvidenceInv
  <1>1. DOMAIN alertTopic = 1 .. Len(alertTopic) /\ Len(alertTopic) \in Nat /\ readTo \in Nat
        /\ readTo <= Len(alertTopic)
    BY DEF EvidenceTypeOK
  <1>2. \A n \in DOMAIN alertTopic : Evidenced(n)' <=> Evidenced(n)
    BY DEF Evidenced
  <1>3. ASSUME NEW w \in EvidenceWorker, worker[w].at # "poll"
        PROVE  /\ worker[w].offset \in DOMAIN alertTopic'
               /\ worker[w].version \in Raised(worker[w].offset)' .. alert'.version
               /\ \A n \in 1 .. (worker[w].offset - 1) : Evidenced(n)'
               /\ worker[w].at = "commit" => \E s \in captured : s.version = worker[w].version
    <2> DEFINE o == worker[w].offset
    <2>1. /\ o \in DOMAIN alertTopic /\ worker[w].version \in Raised(o) .. alert.version
          /\ \A n \in 1 .. (o - 1) : Evidenced(n)
          /\ worker[w].at = "commit" => \E s \in captured : s.version = worker[w].version
      BY <1>3 DEF CaptureInv
    <2>2. \A n \in 1 .. (o - 1) : n \in DOMAIN alertTopic
      BY <1>1, <2>1
    <2>3. PICK k \in DOMAIN alertTopic : k = o
      BY <2>1
    <2>4. Raised(k)' = Raised(k) /\ Raised(worker[w].offset)' = Raised(k)'
      BY <2>3
    <2>5. alert.version \in Nat /\ alert'.version \in Nat /\ worker[w].version \in Nat
      BY DEF EvidenceTypeOK, CaptureState
    <2>6. worker[w].version \in Raised(k) .. alert'.version
      <3>1. event_versions \in Seq(Nat) /\ alertTopic[k] \in DOMAIN event_versions
        BY DEF EvidenceTypeOK, RaisedInv
      <3>2. Raised(k) \in Nat
        BY <3>1 DEF Raised
      <3>3. QED
        BY <2>1, <2>3, <2>5, <3>2
    <2>7. QED
      BY <1>2, <2>1, <2>2, <2>3, <2>4, <2>6
  <1>4. CaptureInv'
    BY <1>3 DEF CaptureInv
  <1>5. LinkInv' /\ ChainIsInOrder'
    BY DEF LinkInv, ChainIsInOrder
  <1>6. EventsAreEvidenced'
    <2>1. \A n \in 1 .. readTo : n \in DOMAIN alertTopic
      BY <1>1
    <2>2. \A n \in 1 .. readTo : Evidenced(n)
      BY DEF EventsAreEvidenced, Evidenced, Raised
    <2>3. \A n \in 1 .. readTo : Evidenced(n)'
      BY <1>2, <2>1, <2>2
    <2>4. QED
      BY <2>3 DEF EventsAreEvidenced, Evidenced, Raised
  <1>7. QED
    BY <1>4, <1>5, <1>6

LEMMA AlertChangesKeeps ==
  ASSUME EvidenceInv, Acknowledged \/ \E suppressed \in BOOLEAN : AlertTriggered(suppressed)
  PROVE  EvidenceInv'
  <1> USE DEF EvidenceInv
  <1>1. /\ UNCHANGED <<alertTopic, captured, readTo, owns, worker, overlap>>
        /\ alert'.version = alert.version + 1
        /\ \/ event_versions' = event_versions
           \/ event_versions' = Append(event_versions, alert'.version)
    BY DEF Acknowledged, AlertTriggered
  <1> DEFINE v == alert.version + 1
             n == Len(event_versions)
  <1>2. alert.version \in Nat /\ v \in Nat /\ n \in Nat /\ event_versions \in Seq(Nat)
        /\ DOMAIN event_versions = 1 .. n
    BY DEF EvidenceTypeOK
  <1>3. /\ event_versions' \in Seq(Nat)
        /\ \A k \in 1 .. n : k \in DOMAIN event_versions' /\ event_versions'[k] = event_versions[k]
        /\ \A k \in DOMAIN event_versions' : k \in 1 .. n \/ event_versions'[k] = v
    <2>1. CASE event_versions' = event_versions
      BY <1>2, <2>1
    <2>2. CASE event_versions' = Append(event_versions, v)
      <3>1. /\ DOMAIN event_versions' = 1 .. (n + 1) /\ event_versions'[n + 1] = v
            /\ \A k \in 1 .. n : event_versions'[k] = event_versions[k]
        BY <1>2, <2>2
      <3>2. 1 .. (n + 1) = 1 .. n \union {n + 1}
        BY <1>2
      <3>3. event_versions' \in Seq(Nat)
        BY <1>2, <2>2
      <3> HIDE DEF n
      <3>4. QED
        BY <3>1, <3>2, <3>3
    <2>3. QED
      BY <1>1, <2>1, <2>2
  <1>4. EvidenceTypeOK'
    BY <1>1, <1>2, <1>3 DEF EvidenceTypeOK
  <1>5. RaisedInv'
    <2>1. ASSUME NEW k \in DOMAIN event_versions' PROVE event_versions'[k] \in 1 .. v
      <3>1. CASE k \in 1 .. n
        <4>1. event_versions[k] \in 1 .. alert.version
          BY <1>2, <3>1 DEF RaisedInv
        <4>2. QED
          BY <1>2, <1>3, <3>1, <4>1
      <3>2. CASE event_versions'[k] = v
        BY <1>2, <3>2
      <3>3. QED
        BY <1>3, <3>1, <3>2
    <2>2. \A k \in DOMAIN alertTopic : alertTopic[k] \in DOMAIN event_versions'
      BY <1>2, <1>3 DEF RaisedInv
    <2>3. \A s \in captured : s.version <= v
      BY <1>2 DEF RaisedInv, EvidenceTypeOK, CapturedSnapshot
    <2>4. QED
      BY <1>1, <2>1, <2>2, <2>3 DEF RaisedInv
  <1>6. \A k \in DOMAIN alertTopic : k \in DOMAIN alertTopic' /\ Raised(k)' = Raised(k)
    BY <1>1, <1>2, <1>3 DEF Raised, RaisedInv
  <1>7. QED
    BY <1>1, <1>2, <1>4, <1>5, <1>6, AlertGoesOn

LEMMA EventPublishedKeeps == ASSUME EvidenceInv, EventPublished PROVE EvidenceInv'
  <1> USE DEF EvidenceInv
  <1>1. PICK e \in DOMAIN event_versions : alertTopic' = Append(alertTopic, e)
    BY DEF EventPublished
  <1>2. UNCHANGED <<alert, event_versions, captured, readTo, owns, worker, overlap>>
    BY DEF EventPublished
  <1> DEFINE n == Len(alertTopic)
  <1>3. n \in Nat /\ e \in Nat /\ alertTopic \in Seq(Nat) /\ DOMAIN alertTopic = 1 .. n
        /\ readTo \in 0 .. n
    BY DEF EvidenceTypeOK
  <1>4. /\ alertTopic' \in Seq(Nat) /\ Len(alertTopic') = n + 1
        /\ DOMAIN alertTopic' = 1 .. (n + 1) /\ alertTopic'[n + 1] = e
        /\ \A k \in 1 .. n : alertTopic'[k] = alertTopic[k]
    BY <1>1, <1>3
  <1>5. 1 .. (n + 1) = 1 .. n \union {n + 1} /\ readTo \in 0 .. (n + 1)
    BY <1>3
  <1> HIDE DEF n
  <1>6. EvidenceTypeOK'
    BY <1>2, <1>4, <1>5 DEF EvidenceTypeOK
  <1>7. RaisedInv'
    BY <1>1, <1>2, <1>3, <1>4, <1>5 DEF RaisedInv
  <1>8. \A k \in DOMAIN alertTopic : k \in DOMAIN alertTopic' /\ Raised(k)' = Raised(k)
    BY <1>2, <1>3, <1>4, <1>5 DEF Raised
  <1>9. alert'.version >= alert.version
    BY <1>2 DEF EvidenceTypeOK
  <1>10. QED
    BY <1>2, <1>6, <1>7, <1>8, <1>9, AlertGoesOn

LEMMA PartitionMovesKeeps ==
  ASSUME EvidenceInv, NEW v \in EvidenceWorker, PartitionMoves(v) PROVE EvidenceInv'
  <1> USE DEF EvidenceInv
  <1>1. /\ UNCHANGED <<alert, event_versions, alertTopic, captured, readTo, worker>>
        /\ owns' = v
        /\ overlap' = (overlap \/ \E u \in EvidenceWorker : worker[u].at # "poll")
    BY DEF PartitionMoves, alerting
  <1>2. EvidenceTypeOK' /\ RaisedInv' /\ CaptureInv' /\ EventsAreEvidenced'
    BY <1>1 DEF EvidenceTypeOK, RaisedInv, CaptureInv, Evidenced, Raised, EventsAreEvidenced
  <1>3. LinkInv'
    BY <1>1 DEF LinkInv
  <1>4. ChainIsInOrder'
    BY <1>1 DEF ChainIsInOrder
  <1>5. QED
    BY <1>2, <1>3, <1>4

(***************************************************************************)
(* Steps of one worker.  A snapshot it adds is newer than every other, as  *)
(* long as there was no overlap.                                           *)
(***************************************************************************)
LEMMA WorkerMoves ==
  ASSUME EvidenceInv, NEW w \in EvidenceWorker, NEW state \in CaptureState,
         UNCHANGED <<alert, event_versions, alertTopic, readTo, owns, overlap>>,
         Becomes(w, state), captured \subseteq captured', captured' \in SUBSET CapturedSnapshot,
         \A s \in captured' : s.version <= alert.version,
         state.at # "poll" =>
           /\ state.offset \in DOMAIN alertTopic
           /\ state.version \in Raised(state.offset) .. alert.version
           /\ \A n \in 1 .. (state.offset - 1) : Evidenced(n)
           /\ state.at = "commit" => \E s \in captured' : s.version = state.version
  PROVE  /\ EvidenceTypeOK' /\ RaisedInv' /\ CaptureInv' /\ EventsAreEvidenced'
         /\ worker'[w] = state
         /\ \A v \in EvidenceWorker : v # w => worker'[v] = worker[v]
  <1> USE DEF EvidenceInv
  <1>1. /\ worker' \in [EvidenceWorker -> CaptureState] /\ worker'[w] = state
        /\ \A v \in EvidenceWorker : v # w => worker'[v] = worker[v]
    BY DEF Becomes, EvidenceTypeOK
  <1>2. EvidenceTypeOK' /\ RaisedInv'
    BY <1>1 DEF EvidenceTypeOK, RaisedInv
  <1>3. \A n : Evidenced(n) => \E s \in captured' : s.version >= Raised(n)
    BY DEF Evidenced
  <1>4. EventsAreEvidenced'
    BY DEF EventsAreEvidenced
  <1>5. CaptureInv'
    <2> SUFFICES ASSUME NEW v \in EvidenceWorker, worker'[v].at # "poll"
                 PROVE  /\ worker'[v].offset \in DOMAIN alertTopic
                        /\ worker'[v].version \in Raised(worker'[v].offset) .. alert.version
                        /\ \A n \in 1 .. (worker'[v].offset - 1) :
                             \E s \in captured' : s.version >= Raised(n)
                        /\ worker'[v].at = "commit" =>
                             \E s \in captured' : s.version = worker'[v].version
      BY DEF CaptureInv, Evidenced, Raised
    <2>1. CASE v = w
      BY <1>1, <1>3, <2>1
    <2>2. CASE v # w
      BY <1>1, <1>3, <2>2 DEF CaptureInv
    <2>3. QED
      BY <2>1, <2>2
  <1>6. QED
    BY <1>1, <1>2, <1>4, <1>5

LEMMA ReadAlertKeeps ==
  ASSUME EvidenceInv, NEW w \in EvidenceWorker, ReadAlert(w) PROVE EvidenceInv'
  <1> USE DEF EvidenceInv
  <1> DEFINE first == [Resting EXCEPT !.offset = readTo + 1, !.version = alert.version]
             next == IF \E s \in captured : s.version = alert.version THEN "commit" ELSE "link"
             state == [first EXCEPT !.at = next]
  <1>1. /\ UNCHANGED <<alert, event_versions, alertTopic, captured, readTo, owns, overlap>>
        /\ worker[w].at = "poll" /\ owns = w /\ readTo < Len(alertTopic)
        /\ Becomes(w, state)
    BY DEF ReadAlert, alerting
  <1>2. /\ readTo \in Nat /\ Len(alertTopic) \in Nat /\ alert.version \in Nat
        /\ DOMAIN alertTopic = 1 .. Len(alertTopic)
    BY DEF EvidenceTypeOK
  <1>3. /\ state \in CaptureState /\ state.offset = readTo + 1 /\ state.version = alert.version
        /\ state.at = next
    <2>1. Resting \in CaptureState
      BY DEF Resting, CaptureState
    <2>2. first \in CaptureState /\ first.offset = readTo + 1 /\ first.version = alert.version
      <3> DEFINE o == readTo + 1
      <3>1. o \in Nat /\ alert.version \in Nat
        BY <1>2
      <3> HIDE DEF o
      <3> DEFINE placed == [Resting EXCEPT !.offset = o]
      <3>2. placed \in CaptureState /\ placed.offset = o
        BY <2>1, <3>1 DEF CaptureState
      <3>3. first = [placed EXCEPT !.version = alert.version]
        BY DEF o
      <3> HIDE DEF placed, first
      <3>4. QED
        BY <3>1, <3>2, <3>3 DEF CaptureState, o
    <2>3. next \in {"link", "commit"}
      OBVIOUS
    <2> HIDE DEF first, next
    <2>4. QED
      BY <2>2, <2>3 DEF CaptureState
  <1> HIDE DEF state
  <1>4. /\ state.offset \in DOMAIN alertTopic
        /\ state.version \in Raised(state.offset) .. alert.version
        /\ \A n \in 1 .. (state.offset - 1) : Evidenced(n)
    <2>1. state.offset \in DOMAIN alertTopic
      BY <1>1, <1>2, <1>3
    <2>2. Raised(state.offset) \in 1 .. alert.version
      BY <2>1 DEF Raised, RaisedInv
    <2>3. \A n \in 1 .. readTo : Evidenced(n)
      BY DEF EventsAreEvidenced, Evidenced, Raised
    <2>4. QED
      BY <1>2, <1>3, <2>1, <2>2, <2>3
  <1>5. \A s \in captured : s.version <= alert.version
    BY DEF RaisedInv
  <1>6. /\ EvidenceTypeOK' /\ RaisedInv' /\ CaptureInv' /\ EventsAreEvidenced'
        /\ worker'[w] = state
        /\ \A v \in EvidenceWorker : v # w => worker'[v] = worker[v]
    BY <1>1, <1>3, <1>4, <1>5, WorkerMoves DEF EvidenceTypeOK
  <1>7. LinkInv'
    <2> SUFFICES ASSUME ~overlap, NEW v \in EvidenceWorker, worker'[v].at # "poll"
                 PROVE  /\ owns = v
                        /\ worker'[v].at \in {"link", "store"} =>
                             \A s \in captured : s.version < worker'[v].version
                        /\ worker'[v].at = "store" =>
                             \/ captured = {} /\ worker'[v].previous = 0
                             \/ \E p \in captured : /\ p.version = worker'[v].previous
                                                    /\ \A o \in captured : o.version <= p.version
      BY <1>1 DEF LinkInv
    <2>1. CASE v # w
      BY <1>6, <2>1 DEF LinkInv
    <2>2. CASE v = w
      <3>1. state.at # "store" /\ owns = w
        BY <1>1, <1>3
      <3>2. state.at = "link" => \A s \in captured : s.version < state.version
        <4>1. \A s \in captured : s.version \in Nat
          BY DEF EvidenceTypeOK, CapturedSnapshot
        <4>2. QED
          BY <1>2, <1>3, <1>5, <4>1
      <3>3. QED
        BY <1>6, <2>2, <3>1, <3>2
    <2>3. QED
      BY <2>1, <2>2
  <1>8. ChainIsInOrder'
    BY <1>1 DEF ChainIsInOrder
  <1>9. QED
    BY <1>6, <1>7, <1>8

LEMMA LinkSnapshotKeeps ==
  ASSUME EvidenceInv, NEW w \in EvidenceWorker, LinkSnapshot(w) PROVE EvidenceInv'
  <1> USE DEF EvidenceInv
  <1> DEFINE state == [worker[w] EXCEPT !.at = "store", !.previous = NewestCaptured]
  <1>1. /\ UNCHANGED <<alert, event_versions, alertTopic, captured, readTo, owns, overlap>>
        /\ worker[w].at = "link" /\ Becomes(w, state)
    BY DEF LinkSnapshot, alerting
  <1>2. worker[w] \in CaptureState /\ captured \in SUBSET CapturedSnapshot
    BY DEF EvidenceTypeOK
  <1>3. NewestCaptured \in Nat
    BY <1>2, NewestIsCaptured DEF CapturedSnapshot
  <1>4. /\ state \in CaptureState /\ state.at = "store" /\ state.previous = NewestCaptured
        /\ state.offset = worker[w].offset /\ state.version = worker[w].version
    BY <1>2, <1>3 DEF CaptureState
  <1> HIDE DEF state
  <1>5. /\ EvidenceTypeOK' /\ RaisedInv' /\ CaptureInv' /\ EventsAreEvidenced'
        /\ worker'[w] = state
        /\ \A v \in EvidenceWorker : v # w => worker'[v] = worker[v]
    BY <1>1, <1>2, <1>4, WorkerMoves DEF CaptureInv, RaisedInv
  <1>6. LinkInv'
    <2> SUFFICES ASSUME ~overlap, NEW v \in EvidenceWorker, worker'[v].at # "poll"
                 PROVE  /\ owns = v
                        /\ worker'[v].at \in {"link", "store"} =>
                             \A s \in captured : s.version < worker'[v].version
                        /\ worker'[v].at = "store" =>
                             \/ captured = {} /\ worker'[v].previous = 0
                             \/ \E p \in captured : /\ p.version = worker'[v].previous
                                                    /\ \A o \in captured : o.version <= p.version
      BY <1>1 DEF LinkInv
    <2>1. CASE v # w
      BY <1>5, <2>1 DEF LinkInv
    <2>2. CASE v = w
      BY <1>1, <1>4, <1>5, <2>2, NewestIsCaptured DEF LinkInv
    <2>3. QED
      BY <2>1, <2>2
  <1>7. ChainIsInOrder'
    BY <1>1 DEF ChainIsInOrder
  <1>8. QED
    BY <1>5, <1>6, <1>7

\* A worker that rests disturbs nothing.
LEMMA RestKeeps ==
  ASSUME EvidenceInv, NEW w \in EvidenceWorker, Becomes(w, Resting),
         UNCHANGED <<alert, event_versions, alertTopic, captured, readTo, owns, overlap>>
  PROVE  EvidenceInv'
  <1> USE DEF EvidenceInv
  <1>1. Resting \in CaptureState /\ Resting.at = "poll"
    BY DEF Resting, CaptureState
  <1>2. /\ EvidenceTypeOK' /\ RaisedInv' /\ CaptureInv' /\ EventsAreEvidenced'
        /\ worker'[w] = Resting
        /\ \A v \in EvidenceWorker : v # w => worker'[v] = worker[v]
    BY <1>1, WorkerMoves DEF RaisedInv, EvidenceTypeOK
  <1>3. LinkInv'
    <2> SUFFICES ASSUME ~overlap, NEW v \in EvidenceWorker, worker'[v].at # "poll"
                 PROVE  /\ v # w /\ worker'[v] = worker[v]
      BY <1>1 DEF LinkInv
    <2>1. QED
      BY <1>1, <1>2
  <1>4. ChainIsInOrder'
    BY DEF ChainIsInOrder
  <1>5. QED
    BY <1>2, <1>3, <1>4

LEMMA CommitEventKeeps ==
  ASSUME EvidenceInv, NEW w \in EvidenceWorker, CommitEvent(w) PROVE EvidenceInv'
  <1> USE DEF EvidenceInv
  <1>1. /\ UNCHANGED <<alert, event_versions, alertTopic, captured, owns, overlap>>
        /\ worker[w].at = "commit" /\ readTo' \in {readTo, worker[w].offset}
        /\ worker' = [worker EXCEPT ![w] = Resting]
    BY DEF CommitEvent, alerting, Becomes
  <1> DEFINE o == worker[w].offset
  <1>2. /\ o \in DOMAIN alertTopic /\ worker[w].version \in Raised(o) .. alert.version
        /\ \A n \in 1 .. (o - 1) : Evidenced(n)
        /\ \E s \in captured : s.version = worker[w].version
    BY <1>1 DEF CaptureInv
  <1>3. /\ o \in Nat /\ Len(alertTopic) \in Nat /\ DOMAIN alertTopic = 1 .. Len(alertTopic)
        /\ alert.version \in Nat
    BY DEF EvidenceTypeOK, CaptureState
  <1>4. Evidenced(o)
    <2>1. Raised(o) \in 1 .. alert.version
      BY <1>2 DEF Raised, RaisedInv
    <2>2. QED
      BY <1>2, <1>3, <2>1 DEF Evidenced
  <1>5. \A n \in 1 .. readTo' : Evidenced(n)
    <2>1. \A n \in 1 .. readTo : Evidenced(n)
      BY DEF EventsAreEvidenced, Evidenced, Raised
    <2>2. \A n \in 1 .. o : n = o \/ n \in 1 .. (o - 1)
      BY <1>3
    <2> HIDE DEF o
    <2>3. QED
      BY <1>1, <1>2, <1>4, <2>1, <2>2 DEF o
  <1>6. readTo' \in 0 .. Len(alertTopic)
    BY <1>1, <1>2, <1>3 DEF EvidenceTypeOK
  <1>7. Resting \in CaptureState /\ Resting.at = "poll"
    BY DEF Resting, CaptureState
  <1>8. /\ worker' \in [EvidenceWorker -> CaptureState]
        /\ \A v \in EvidenceWorker : worker'[v].at # "poll" => worker'[v] = worker[v]
    BY <1>1, <1>7 DEF EvidenceTypeOK
  <1>9. EvidenceTypeOK' /\ RaisedInv' /\ ChainIsInOrder'
    BY <1>1, <1>6, <1>8 DEF EvidenceTypeOK, RaisedInv, ChainIsInOrder
  <1>10. CaptureInv'
    BY <1>1, <1>8 DEF CaptureInv, Evidenced, Raised
  <1>11. LinkInv'
    BY <1>1, <1>8 DEF LinkInv
  <1>12. EventsAreEvidenced'
    BY <1>1, <1>5 DEF EventsAreEvidenced, Evidenced, Raised
  <1>13. QED
    BY <1>9, <1>10, <1>11, <1>12

LEMMA StoreSnapshotKeeps ==
  ASSUME EvidenceInv, NEW w \in EvidenceWorker, StoreSnapshot(w) PROVE EvidenceInv'
  <1> USE DEF EvidenceInv
  <1> DEFINE r == worker[w]
             x == [version |-> r.version, previous |-> r.previous, event |-> alertTopic[r.offset]]
             state == [r EXCEPT !.at = "commit"]
  <1>1. /\ UNCHANGED <<alert, event_versions, alertTopic, readTo, owns, overlap>>
        /\ r.at = "store"
    BY DEF StoreSnapshot, alerting
  <1>2. CASE Becomes(w, Resting) /\ captured' = captured
    BY <1>1, <1>2, RestKeeps
  <1>3. CASE /\ \A s \in captured : s.version # r.version
             /\ captured' = captured \union {x} /\ Becomes(w, state)
    <2>1. r \in CaptureState /\ captured \in SUBSET CapturedSnapshot /\ alert.version \in Nat
      BY DEF EvidenceTypeOK
    <2>2. /\ r.offset \in DOMAIN alertTopic /\ r.version \in Raised(r.offset) .. alert.version
          /\ \A n \in 1 .. (r.offset - 1) : Evidenced(n)
      BY <1>1 DEF CaptureInv
    <2>3. r.version \in 1 .. alert.version
      <3>1. Raised(r.offset) \in 1 .. alert.version
        BY <2>2 DEF Raised, RaisedInv
      <3>2. QED
        BY <2>1, <2>2, <3>1
    <2>4. x \in CapturedSnapshot /\ x.version = r.version /\ x.previous = r.previous
      <3>1. alertTopic[r.offset] \in Nat
        BY <2>2 DEF EvidenceTypeOK
      <3>2. QED
        BY <2>1, <3>1 DEF CapturedSnapshot, CaptureState
    <2>5. /\ state \in CaptureState /\ state.at = "commit" /\ state.offset = r.offset
          /\ state.version = r.version
      BY <2>1 DEF CaptureState
    <2> HIDE DEF x, state
    <2>6. /\ captured' \in SUBSET CapturedSnapshot /\ captured \subseteq captured'
          /\ \A s \in captured' : s.version <= alert.version
      BY <1>3, <2>1, <2>3, <2>4 DEF RaisedInv
    <2>7. \E s \in captured' : s.version = state.version
      BY <1>3, <2>4, <2>5
    <2>8. /\ EvidenceTypeOK' /\ RaisedInv' /\ CaptureInv' /\ EventsAreEvidenced'
          /\ worker'[w] = state
          /\ \A v \in EvidenceWorker : v # w => worker'[v] = worker[v]
      BY <1>1, <1>3, <2>2, <2>5, <2>6, <2>7, WorkerMoves
    <2>9. LinkInv'
      <3> SUFFICES ASSUME ~overlap, NEW v \in EvidenceWorker, worker'[v].at # "poll"
                   PROVE  owns = v /\ worker'[v].at = "commit"
        BY <1>1 DEF LinkInv
      <3>1. owns = w
        BY <1>1 DEF LinkInv
      <3>2. v # w => owns = v
        BY <2>8 DEF LinkInv
      <3>3. QED
        BY <2>5, <2>8, <3>1, <3>2
    <2>10. ChainIsInOrder'
      <3> SUFFICES ASSUME ~overlap, NEW s \in captured'
                   PROVE  /\ s.previous = 0 \/ \E p \in captured' : p.version = s.previous
                          /\ s.previous < s.version
                          /\ \A b \in captured' : ~(s.previous < b.version /\ b.version < s.version)
        BY <1>1 DEF ChainIsInOrder
      <3>1. /\ \A o \in captured : o.version < r.version
            /\ \/ captured = {} /\ r.previous = 0
               \/ \E p \in captured : /\ p.version = r.previous
                                      /\ \A o \in captured : o.version <= p.version
        BY <1>1 DEF LinkInv
      <3>2. \A o \in captured' : o \in captured \/ o = x
        BY <1>3
      <3>3. \A o \in captured' : o.version \in Nat /\ o.previous \in Nat
        BY <2>6 DEF CapturedSnapshot
      <3>4. CASE s = x
        <4>1. CASE captured = {} /\ r.previous = 0
          BY <2>3, <2>4, <3>2, <3>3, <3>4, <4>1
        <4>2. CASE \E p \in captured : /\ p.version = r.previous
                                       /\ \A o \in captured : o.version <= p.version
          <5>1. PICK p \in captured : p.version = r.previous /\ \A o \in captured : o.version <= p.version
            BY <4>2
          <5>2. p \in captured' /\ s.previous = p.version /\ s.previous < s.version
            BY <2>4, <2>6, <3>1, <3>4, <5>1
          <5>3. ASSUME NEW b \in captured', s.previous < b.version, b.version < s.version
                PROVE  FALSE
            <6>1. b # x /\ b \in captured
              BY <3>2, <3>3, <3>4, <5>3
            <6>2. b.version <= s.previous
              BY <5>1, <5>2, <6>1
            <6>3. QED
              BY <3>3, <5>3, <6>2
          <5>4. QED
            BY <5>2, <5>3
        <4>3. QED
          BY <3>1, <4>1, <4>2
      <3>5. CASE s \in captured
        <4>1. /\ s.previous = 0 \/ \E p \in captured : p.version = s.previous
              /\ s.previous < s.version
              /\ \A b \in captured : ~(s.previous < b.version /\ b.version < s.version)
          BY <3>5 DEF ChainIsInOrder
        <4>2. ~(x.version < s.version)
          BY <2>3, <2>4, <3>1, <3>3, <3>5
        <4>3. QED
          BY <2>6, <3>2, <4>1, <4>2
      <3>6. QED
        BY <3>2, <3>4, <3>5
    <2>11. QED
      BY <2>8, <2>9, <2>10
  <1>4. QED
    BY <1>2, <1>3 DEF StoreSnapshot

LEMMA EvidenceStep ==
  ASSUME EvidenceInv, [EvidenceNext]_evidenceVars PROVE EvidenceInv'
  <1>1. CASE UNCHANGED evidenceVars
    BY <1>1 DEF evidenceVars, alerting, EvidenceInv, EvidenceTypeOK, RaisedInv, CaptureInv,
       Evidenced, Raised, LinkInv, EventsAreEvidenced, ChainIsInOrder
  <1>2. CASE EventPublished \/ Acknowledged \/ \E suppressed \in BOOLEAN : AlertTriggered(suppressed)
    BY <1>2, EventPublishedKeeps, AlertChangesKeeps
  <1>3. ASSUME NEW w \in EvidenceWorker, Capture(w) PROVE EvidenceInv'
    BY <1>3, ReadAlertKeeps, LinkSnapshotKeeps, StoreSnapshotKeeps, CommitEventKeeps DEF Capture
  <1>4. ASSUME NEW w \in EvidenceWorker, EvidenceWorkerCrashes(w) PROVE EvidenceInv'
    BY <1>4, RestKeeps DEF EvidenceWorkerCrashes, alerting
  <1>5. ASSUME NEW w \in EvidenceWorker, PartitionMoves(w) PROVE EvidenceInv'
    BY <1>5, PartitionMovesKeeps
  <1>6. QED
    BY <1>1, <1>2, <1>3, <1>4, <1>5 DEF EvidenceNext

LEMMA EvidenceInitially == ASSUME EvidenceInit PROVE EvidenceInv
  <1> USE DEF EvidenceInit
  <1>1. EvidenceTypeOK
    <2>1. Resting \in CaptureState
      BY DEF Resting, CaptureState
    <2>2. /\ event_versions \in Seq(Nat) /\ alertTopic \in Seq(Nat) /\ Len(alertTopic) = 0
          /\ readTo = 0
      OBVIOUS
    <2>3. worker \in [EvidenceWorker -> CaptureState]
      BY <2>1
    <2>4. readTo \in 0 .. Len(alertTopic)
      BY <2>2
    <2>5. alert.version \in Nat /\ overlap \in BOOLEAN
      OBVIOUS
    <2>6. QED
      BY <2>2, <2>3, <2>4, <2>5 DEF EvidenceTypeOK
  <1>2. RaisedInv /\ CaptureInv /\ LinkInv
    BY DEF RaisedInv, CaptureInv, LinkInv, Resting
  <1>3. EventsAreEvidenced /\ ChainIsInOrder
    BY DEF EventsAreEvidenced, ChainIsInOrder
  <1>4. QED
    BY <1>1, <1>2, <1>3 DEF EvidenceInv

LEMMA EvidenceInvTheorem == EvidenceSpec => []EvidenceInv
  <1>1. EvidenceInit => EvidenceInv
    BY EvidenceInitially
  <1>2. EvidenceInv /\ [EvidenceNext]_evidenceVars => EvidenceInv'
    BY EvidenceStep
  <1>3. QED
    BY <1>1, <1>2, PTL DEF EvidenceSpec

\* capture_alert and its consumer: a committed alert event has a snapshot of
\* its version or a later one.
THEOREM EventsAreEvidencedTheorem == EvidenceSpec => []EventsAreEvidenced
  <1>1. EvidenceInv => EventsAreEvidenced
    BY DEF EvidenceInv
  <1>2. QED
    BY <1>1, EvidenceInvTheorem, PTL

\* capture_alert: the snapshots of an alert form one chain by version unless
\* its partition changed hands during a capture.
THEOREM ChainIsInOrderTheorem == EvidenceSpec => []ChainIsInOrder
  <1>1. EvidenceInv => ChainIsInOrder
    BY DEF EvidenceInv
  <1>2. QED
    BY <1>1, EvidenceInvTheorem, PTL
=============================================================================
