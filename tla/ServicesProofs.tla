--------------------------- MODULE ServicesProofs ---------------------------
(***************************************************************************)
(* Proofs about the lifecycle of campaigns, investigations, source         *)
(* policies, the realtime stream, the rate limiter and the governance of   *)
(* models.                                                                 *)
(***************************************************************************)
EXTENDS CampaignLifecycle, Investigations, SourcePolicies, Realtime, RateLimiter,
        ModelGovernance, SetLemmas

-----------------------------------------------------------------------------
(***************************************************************************)
(* What TLC checks of the stage machine on a grid of scores, for every     *)
(* fusion result.                                                          *)
(***************************************************************************)

(***************************************************************************)
(* _next_stage only proposes transitions of the table _transitions.        *)
(***************************************************************************)
LEMMA NextStageInTable ==
  ASSUME NEW s \in Stage, NEW score
  PROVE  /\ NextStage(s, score) \in Transitions(s)
         /\ NextStage(s, score) \in Stage
  BY DEF NextStage, Transitions, Stage

(***************************************************************************)
(* A stage is entered only with the score that triggers its alert.         *)
(***************************************************************************)
LEMMA EntryTriggersAlert ==
  ASSUME NEW s \in Stage, NEW score \in FusionResult, NextStage(s, score) # s
  PROVE  /\ NextStage(s, score) = "EARLY_SOCIAL_SEEDING" =>
              Triggered("SOCIAL_HYPE_SURGE", score)
         /\ NextStage(s, score) = "COORDINATED_AMPLIFICATION" =>
              Triggered("COORDINATED_PROMOTION", score)
         /\ NextStage(s, score) = "DUMP" =>
              Triggered("POSSIBLE_DUMP_PHASE", score)
  <1> DEFINE t == NextStage(s, score)
  <1>1. /\ score.social_score \in Nat \/ score.social_score = None
        /\ score.coordination_score \in Nat \/ score.coordination_score = None
        /\ score.price_return \in Int \/ score.price_return = None
        /\ score.buy_sell_pressure \in Int \/ score.buy_sell_pressure = None
    BY DEF FusionResult, Optional
  <1>2. CASE t = "EARLY_SOCIAL_SEEDING"
    <2>1. StageSocial(score) >= 350
      BY <1>2 DEF NextStage, Stage
    <2>2. SocialRisk(score) >= 350
      BY <1>1, <2>1, NoneAssumption
      DEF StageSocial, SocialRisk, social_coordination_risk, OrZero
    <2>3. QED
      BY <1>2, <2>2 DEF Triggered
  <1>3. CASE t = "COORDINATED_AMPLIFICATION"
    BY <1>3 DEF NextStage, Stage, Triggered
  <1>4. CASE t = "DUMP"
    <2>1. OrZero(score.price_return) <= -80 \/ OrZero(score.buy_sell_pressure) <= -500
      BY <1>4 DEF NextStage, Stage, SharpReversal
    <2>2. OrZero(score.price_return) \in Int /\ OrZero(score.buy_sell_pressure) \in Int
      BY <1>1 DEF OrZero
    <2>3. QED
      BY <1>4, <2>1, <2>2 DEF Triggered
  <1>5. QED
    BY <1>2, <1>3, <1>4

(***************************************************************************)
(* The three claims about the stages a campaign has visited are inductive  *)
(* together once the current stage is known to be among them.              *)
(***************************************************************************)
IInv ==
  /\ TypeOK
  /\ NeverRejected
  /\ stage \in visited
  /\ DumpHasBuildUp
  /\ StagesAreAlerted

LEMMA LifecycleStep == IInv /\ [Next]_vars => IInv'
  <1> SUFFICES ASSUME IInv, [Next]_vars PROVE IInv'
    OBVIOUS
  <1>1. CASE UNCHANGED vars
    BY <1>1 DEF IInv, vars, TypeOK, NeverRejected, DumpHasBuildUp, StagesAreAlerted
  <1>2. ASSUME NEW score \in Score, Assess(score) PROVE IInv'
    <2> DEFINE target == NextStage(stage, score)
    <2>1. stage \in Stage /\ stage \in visited /\ score \in FusionResult
      BY ScoreAssumption DEF IInv, TypeOK
    <2>2. target \in Transitions(stage) /\ target \in Stage
      BY <2>1, NextStageInTable
    <2>3. /\ stage' = target
          /\ visited' = visited \cup {target}
          /\ raised' = raised \cup {t \in AlertType : Triggered(t, score)}
          /\ rejected' = FALSE
      BY <1>2, <2>2 DEF Assess
    <2>4. TypeOK' /\ NeverRejected' /\ (stage \in visited)'
      BY <2>2, <2>3 DEF IInv, TypeOK, NeverRejected
    <2>5. DumpHasBuildUp'
      BY <2>1, <2>2, <2>3 DEF IInv, TypeOK, DumpHasBuildUp, Transitions, Stage
    <2>6. StagesAreAlerted'
      <3>1. target # stage =>
              /\ target = "EARLY_SOCIAL_SEEDING" => "SOCIAL_HYPE_SURGE" \in raised'
              /\ target = "COORDINATED_AMPLIFICATION" => "COORDINATED_PROMOTION" \in raised'
              /\ target = "DUMP" => "POSSIBLE_DUMP_PHASE" \in raised'
        BY <2>1, <2>3, EntryTriggersAlert DEF AlertType
      <3>2. QED
        BY <2>1, <2>3, <3>1 DEF IInv, StagesAreAlerted
    <2>7. QED
      BY <2>4, <2>5, <2>6 DEF IInv
  <1>3. QED
    BY <1>1, <1>2 DEF Next

LEMMA LifecycleInv == Spec => []IInv
  <1>1. Init => IInv
    BY DEF Init, IInv, TypeOK, NeverRejected, DumpHasBuildUp, StagesAreAlerted,
           Stage, AlertType
  <1>2. QED
    BY <1>1, LifecycleStep, PTL DEF Spec

(***************************************************************************)
(* assess() never raises InvalidCampaignTransition, for any fusion result. *)
(***************************************************************************)
THEOREM NeverRejectedTheorem == Spec => []NeverRejected
  BY LifecycleInv, PTL DEF IInv

(***************************************************************************)
(* A dump is reported only after coordination or a pump, and those only    *)
(* after social seeding.                                                   *)
(***************************************************************************)
THEOREM DumpHasBuildUpTheorem == Spec => []DumpHasBuildUp
  BY LifecycleInv, PTL DEF IInv

(***************************************************************************)
(* Both together, as the run checks them.                                  *)
(***************************************************************************)
THEOREM StagesInvTheorem == Spec => []StagesInv
  BY NeverRejectedTheorem, DumpHasBuildUpTheorem, PTL DEF StagesInv

(***************************************************************************)
(* A campaign that entered seeding, coordination or a dump has raised the  *)
(* alert of that name.                                                     *)
(***************************************************************************)
THEOREM StagesAreAlertedTheorem == Spec => []StagesAreAlerted
  BY LifecycleInv, PTL DEF IInv

(***************************************************************************)
(* A campaign never returns to seeding from a later stage, and POST_EVENT  *)
(* is final.                                                               *)
(***************************************************************************)
THEOREM NeverRewoundTheorem == Spec => NeverRewound
  <1> DEFINE A == /\ stage \notin {"NORMAL", "EARLY_SOCIAL_SEEDING"} =>
                       stage' \notin {"NORMAL", "EARLY_SOCIAL_SEEDING"}
                  /\ stage = "POST_EVENT" => stage' = "POST_EVENT"
  <1>1. IInv /\ [Next]_vars => [A]_stage
    <2> SUFFICES ASSUME IInv, [Next]_vars PROVE [A]_stage
      OBVIOUS
    <2>1. CASE UNCHANGED vars
      BY <2>1 DEF vars
    <2>2. ASSUME NEW score \in Score, Assess(score) PROVE A
      <3>1. stage' \in Transitions(stage)
        BY <2>2, NextStageInTable DEF Assess, IInv, TypeOK
      <3>2. QED
        BY <3>1 DEF Transitions, IInv, TypeOK, Stage
    <2>3. QED
      BY <2>1, <2>2 DEF Next
  <1>2. QED
    BY <1>1, LifecycleInv, PTL DEF Spec, NeverRewound

-----------------------------------------------------------------------------
(***************************************************************************)
(* Proofs about Investigations, for any number of analysts and updates.    *)
(*                                                                         *)
(* An update is accepted when the version it is based on is the version of *)
(* the row.  Why equal versions mean equal rows is SeenIsPast: a copy an   *)
(* analyst holds is of an earlier version or is the row itself.  For the   *)
(* reviews, RequestsInv says what a request that found the review pending  *)
(* may rely on while no second one is open.                                *)
(***************************************************************************)

Row == [version : Nat, status : CaseStatus, priority : Priority, closed_at : BOOLEAN]

ReviewRow == [kind : ReviewKind, status : {"PENDING"} \union Decision,
           decisions : Seq(Decision), audit : Seq(Decision)]

DeskTypeOK ==
  /\ case \in Row
  /\ trail \in Seq([based : Row, row : Row])
  /\ seen \in [Analyst -> Row \union {Unseen}]
  /\ review \in ReviewRow
  /\ deciding \in SUBSET Analyst
  /\ raced \in BOOLEAN

(* The trail has one event for each version after the first.               *)
TrailCounts ==
  IF case.version = 0 THEN trail = <<>> ELSE case.version = Len(trail) + 1

SeenIsPast ==
  \A a \in Analyst : seen[a] # Unseen =>
    /\ seen[a].version \in 1..case.version
    /\ seen[a].version = case.version => seen[a] = case

CaseInv == DeskTypeOK /\ TrailCounts /\ SeenIsPast /\ NoUpdateIsLost

(* An open request of a review nobody raced for found it undecided, and it *)
(* still is.                                                               *)
RequestsInv ==
  /\ review.status = "PENDING" <=> review.decisions = <<>>
  /\ ~raced => /\ \A a, b \in deciding : a = b
               /\ deciding # {} => review.decisions = <<>>
  /\ SecondDecisionNeedsARace
-----------------------------------------------------------------------------
LEMMA DeskInitInv == DeskInit => CaseInv /\ RequestsInv
  <1> SUFFICES ASSUME DeskInit PROVE CaseInv /\ RequestsInv
    OBVIOUS
  <1> USE DEF DeskInit
  <1>1. case \in Row
    BY DEF Row, CaseStatus, Priority
  <1>2. DeskTypeOK
    <2>1. <<>> \in Seq(Decision) /\ <<>> \in Seq([based : Row, row : Row])
      OBVIOUS
    <2>2. review \in ReviewRow
      BY <2>1 DEF ReviewRow, ReviewKind
    <2>3. seen \in [Analyst -> Row \union {Unseen}]
      OBVIOUS
    <2> QED BY <1>1, <2>1, <2>2, <2>3 DEF DeskTypeOK
  <1>3. TrailCounts /\ SeenIsPast /\ NoUpdateIsLost
    BY DEF TrailCounts, SeenIsPast, NoUpdateIsLost
  <1>4. RequestsInv
    BY DEF RequestsInv, SecondDecisionNeedsARace
  <1> QED BY <1>2, <1>3, <1>4 DEF CaseInv

(***************************************************************************)
(* update_investigation: the row that is changed is the row that was seen. *)
(***************************************************************************)
LEMMA UpdateInv ==
  ASSUME CaseInv, NEW a \in Analyst, UpdateInvestigation(a)
  PROVE  CaseInv'
  <1> USE DEF CaseInv, DeskTypeOK
  <1>1. PICK s \in CaseStatus, p \in Priority :
          /\ case' = Changed(case, s, p)
          /\ trail' = Append(trail, [based |-> seen[a], row |-> case'])
    BY DEF UpdateInvestigation
  <1>2. /\ seen[a] = case /\ case.version \in Nat \ {0}
    BY DEF UpdateInvestigation, VersionMatches, SeenIsPast, Row
  <1>3. /\ case' \in Row /\ case'.version = case.version + 1
        /\ trail' = Append(trail, [based |-> case, row |-> case'])
    BY <1>1, <1>2 DEF Changed, Row
  <1>4. Len(trail) = case.version - 1 /\ Len(trail') = case.version
    BY <1>2, <1>3 DEF TrailCounts
  <1>5. DeskTypeOK'
    BY <1>3 DEF UpdateInvestigation
  <1>6. TrailCounts'
    BY <1>2, <1>3, <1>4 DEF TrailCounts
  <1>7. SeenIsPast'
    BY <1>2, <1>3 DEF SeenIsPast, UpdateInvestigation, Row
  <1>8. NoUpdateIsLost'
    <2>1. \A n \in 1..Len(trail) : trail'[n] = trail[n]
      BY <1>3
    <2>2. trail'[Len(trail) + 1] = [based |-> case, row |-> case']
      BY <1>3
    <2>3. ASSUME NEW n \in DOMAIN trail'
          PROVE  /\ trail'[n].based.version = n
                 /\ n > 1 => trail'[n].based = trail'[n - 1].row
      <3>1. CASE n \in 1..Len(trail)
        BY <2>1, <3>1 DEF NoUpdateIsLost
      <3>2. CASE n = Len(trail) + 1
        <4>1. trail'[n].based = case /\ case.version = n
          BY <2>2, <3>2, <1>2, <1>4
        <4>2. n > 1 => trail # <<>> /\ n - 1 = Len(trail)
          BY <3>2
        <4>3. n > 1 => trail'[n - 1].row = case
          BY <4>2, <2>1 DEF NoUpdateIsLost
        <4> QED BY <4>1, <4>3
      <3> QED BY <2>3, <3>1, <3>2, <1>3
    <2>4. trail' # <<>> => case' = trail'[Len(trail')].row
      BY <2>2, <1>3
    <2> QED BY <2>3, <2>4 DEF NoUpdateIsLost
  <1> QED BY <1>5, <1>6, <1>7, <1>8

LEMMA CaseStep == ASSUME CaseInv, [DeskNext]_deskVars PROVE CaseInv'
  <1> USE DEF CaseInv, DeskTypeOK
  <1>1. CASE OpenInvestigation
    <2>1. PICK p \in Priority : case' = [case EXCEPT !.version = 1, !.priority = p]
      BY <1>1 DEF OpenInvestigation
    <2>2. case' \in Row /\ case'.version = 1
      BY <2>1 DEF Row
    <2>3. /\ trail = <<>> /\ \A a \in Analyst : seen[a] = Unseen
          /\ UNCHANGED <<trail, seen, review, deciding, raced>>
      BY <1>1 DEF OpenInvestigation, TrailCounts, SeenIsPast, Row
    <2> QED BY <2>2, <2>3 DEF TrailCounts, SeenIsPast, NoUpdateIsLost
  <1>2. ASSUME NEW a \in Analyst, LoadInvestigation(a) PROVE CaseInv'
    BY <1>2 DEF LoadInvestigation, TrailCounts, SeenIsPast, NoUpdateIsLost, Row
  <1>3. ASSUME NEW a \in Analyst, UpdateInvestigation(a) PROVE CaseInv'
    BY <1>3, UpdateInv
  <1>4. ASSUME NEW a \in Analyst, StartDeciding(a) PROVE CaseInv'
    BY <1>4 DEF StartDeciding, TrailCounts, SeenIsPast, NoUpdateIsLost
  <1>5. ASSUME NEW a \in Analyst, Decide(a) PROVE CaseInv'
    <2>1. PICK d \in Decision :
            review' = [review EXCEPT
              !.status = d, !.decisions = Append(@, d),
              !.audit = IF review.kind = "proposal" THEN Append(@, d) ELSE @]
      BY <1>5 DEF Decide
    <2>2. review' \in ReviewRow
      <3>1. /\ review.decisions \in Seq(Decision) /\ review.audit \in Seq(Decision)
            /\ d \in {"PENDING"} \union Decision
        BY DEF ReviewRow
      <3>2. /\ Append(review.decisions, d) \in Seq(Decision)
            /\ Append(review.audit, d) \in Seq(Decision)
        BY <3>1
      <3> QED BY <2>1, <3>1, <3>2 DEF ReviewRow
    <2> QED BY <1>5, <2>2 DEF Decide, TrailCounts, SeenIsPast, NoUpdateIsLost
  <1>6. CASE UNCHANGED deskVars
    BY <1>6 DEF deskVars, TrailCounts, SeenIsPast, NoUpdateIsLost
  <1> QED BY <1>1, <1>2, <1>3, <1>4, <1>5, <1>6 DEF DeskNext

(***************************************************************************)
(* adjudicate_feedback, decide_policy_proposal: what a request relies on.  *)
(***************************************************************************)
LEMMA RequestsStep ==
  ASSUME DeskTypeOK, RequestsInv, [DeskNext]_deskVars
  PROVE  RequestsInv'
  <1> USE DEF RequestsInv, SecondDecisionNeedsARace, DeskTypeOK, ReviewRow
  <1>1. CASE UNCHANGED <<review, deciding, raced>>
    BY <1>1
  <1>2. ASSUME NEW a \in Analyst, StartDeciding(a) PROVE RequestsInv'
    BY <1>2 DEF StartDeciding, StillPending
  <1>3. ASSUME NEW a \in Analyst, Decide(a) PROVE RequestsInv'
    <2>1. PICK d \in Decision :
            review' = [review EXCEPT
              !.status = d, !.decisions = Append(@, d),
              !.audit = IF review.kind = "proposal" THEN Append(@, d) ELSE @]
      BY <1>3 DEF Decide
    <2>2. /\ review'.decisions = Append(review.decisions, d)
          /\ review'.status = d /\ d # "PENDING" /\ review'.kind = review.kind
          /\ review.kind = "proposal" => review'.audit = review'.decisions
      BY <2>1 DEF Decision, ReviewRow
    <2>3. /\ Len(review'.decisions) = Len(review.decisions) + 1
          /\ review'.decisions # <<>>
          /\ review'.decisions[Len(review'.decisions)] = d
      BY <2>2 DEF ReviewRow
    <2>4. ~raced' => deciding' = {} /\ Len(review'.decisions) <= 1
      BY <1>3, <2>3 DEF Decide
    <2> QED BY <2>2, <2>3, <2>4
  <1> QED BY <1>1, <1>2, <1>3
          DEF DeskNext, deskVars, OpenInvestigation, LoadInvestigation, UpdateInvestigation
-----------------------------------------------------------------------------
(***************************************************************************)
(* update_investigation loses no update: whoever changes an investigation  *)
(* has seen every change made before, for any number of analysts.          *)
(***************************************************************************)
THEOREM NoUpdateIsLostTheorem == DeskSpec => []NoUpdateIsLost
  <1>1. CaseInv => NoUpdateIsLost
    BY DEF CaseInv
  <1> QED BY <1>1, DeskInitInv, CaseStep, PTL DEF DeskSpec

(***************************************************************************)
(* A feedback or proposal is decided twice only by requests that were open *)
(* at the same time, and its status is the last decision, for any number   *)
(* of reviewers.                                                           *)
(***************************************************************************)
THEOREM SecondDecisionNeedsARaceTheorem == DeskSpec => []SecondDecisionNeedsARace
  <1>1. CaseInv => DeskTypeOK
    BY DEF CaseInv
  <1>2. RequestsInv => SecondDecisionNeedsARace
    BY DEF RequestsInv
  <1> QED BY <1>1, <1>2, DeskInitInv, CaseStep, RequestsStep, PTL DEF DeskSpec

-----------------------------------------------------------------------------
(***************************************************************************)
(* Proofs about SourcePolicies, for any number of policies and requests    *)
(* and any time.                                                           *)
(*                                                                         *)
(* What a request will write starts no earlier than the clock it read, and *)
(* the policy a replacement is to end is in force or to come at that time  *)
(* and in no other request's hands, for that is what the row lock is for   *)
(* (RequestsHoldInv).  So at every time before that reading the same       *)
(* versions are in force before and after the commit.  That a policy gives *)
(* way to the one that starts next is not a theorem: see PoliciesGiveWay.  *)
(***************************************************************************)

Policy == [effective_from : Nat, effective_to : Nat]
PolicyRequest ==
  [step : {"idle", "asked", "checked", "patching"}, now : Nat, policy : Policy, of : Nat]

PoliciesTypeOK ==
  /\ clock \in Nat
  /\ \E n \in Nat : policies \in [1..n -> Policy]
  /\ handling \in [Admin -> PolicyRequest]

\* What the handlers hold.
RequestsHoldInv ==
  \A a \in Admin :
    /\ handling[a].step # "idle" =>
         handling[a].now <= clock /\ handling[a].policy.effective_from >= handling[a].now
    /\ handling[a].step = "patching" =>
         /\ handling[a].of \in DOMAIN policies
         /\ policies[handling[a].of].effective_to > handling[a].now
         /\ \A b \in Admin \ {a} : handling[b].step = "patching" => handling[b].of # handling[a].of

PoliciesIInv == PoliciesTypeOK /\ RequestsHoldInv
-----------------------------------------------------------------------------
LEMMA PoliciesInitOK == PoliciesInit => PoliciesIInv
  <1> SUFFICES ASSUME PoliciesInit PROVE PoliciesIInv
    OBVIOUS
  <1>1. policies \in [1..0 -> Policy]
    BY DEF PoliciesInit
  <1>2. Idle \in PolicyRequest
    BY DEF Idle, Interval, PolicyRequest, Policy
  <1>3. PoliciesTypeOK
    BY <1>1, <1>2 DEF PoliciesInit, PoliciesTypeOK
  <1>4. \A a \in Admin : handling[a].step = "idle"
    BY DEF PoliciesInit, Idle
  <1> QED BY <1>3, <1>4 DEF PoliciesIInv, RequestsHoldInv

(***************************************************************************)
(* A new row gets the next version, and the others keep theirs.            *)
(***************************************************************************)
LEMMA WithAppends ==
  ASSUME NEW n \in Nat, policies \in [1..n -> Policy], NEW p \in Policy
  PROVE  /\ NewVersion = n + 1
         /\ With(p) \in [1..(n + 1) -> Policy]
         /\ With(p)[n + 1] = p
         /\ \A v \in 1..n : With(p)[v] = policies[v]
  <1>1. Cardinality(1..n) = n
    BY FS_Interval
  <1>2. NewVersion = n + 1
    BY <1>1 DEF NewVersion
  <1>3. With(p) = [v \in 1..(n + 1) |-> IF v = n + 1 THEN p ELSE policies[v]]
    BY <1>2 DEF With
  <1> QED BY <1>2, <1>3

(***************************************************************************)
(* What the commits of create_source_policy and patch_source_policy leave  *)
(* behind: one more row, that starts no earlier than the request did, and  *)
(* of the others only the patched one changed, to end at that time.        *)
(***************************************************************************)
LEMMA CreateEffect ==
  ASSUME PoliciesIInv, NEW a \in Admin, CreatePolicy(a), NEW n \in Nat,
         policies \in [1..n -> Policy]
  PROVE  /\ policies' \in [1..(n + 1) -> Policy]
         /\ policies'[n + 1].effective_from >= handling[a].now
         /\ \A v \in 1..n : policies'[v] = policies[v]
  <1>1. /\ policies' = With(handling[a].policy) /\ handling[a].step = "checked"
        /\ handling[a].policy \in Policy
    BY DEF CreatePolicy, PoliciesIInv, PoliciesTypeOK, PolicyRequest
  <1>2. handling[a].policy.effective_from >= handling[a].now
    BY <1>1 DEF PoliciesIInv, RequestsHoldInv
  <1> QED BY <1>1, <1>2, WithAppends

LEMMA PatchEffect ==
  ASSUME PoliciesIInv, NEW a \in Admin, PatchPolicy(a), NEW n \in Nat,
         policies \in [1..n -> Policy]
  PROVE  /\ policies' \in [1..(n + 1) -> Policy]
         /\ policies'[n + 1].effective_from >= handling[a].now
         /\ \E w \in 1..n :
              /\ w = handling[a].of
              /\ policies[w].effective_to > handling[a].now
              /\ policies'[w].effective_from = policies[w].effective_from
              /\ policies'[w].effective_to = handling[a].now
              /\ \A v \in 1..n : v # w => policies'[v] = policies[v]
  <1>1. PICK now, w, p : now = handling[a].now /\ w = handling[a].of /\ p = handling[a].policy
    OBVIOUS
  <1> DEFINE with == With(p)
  <1>2. /\ now \in Nat /\ p \in Policy /\ w \in 1..n
        /\ p.effective_from >= now /\ policies[w].effective_to > now
    BY <1>1 DEF PatchPolicy, PoliciesIInv, PoliciesTypeOK, RequestsHoldInv, PolicyRequest
  <1>3. /\ with \in [1..(n + 1) -> Policy] /\ with[n + 1] = p
        /\ \A v \in 1..n : with[v] = policies[v]
    BY <1>2, WithAppends
  <1>4. policies' = [with EXCEPT ![w] = [with[w] EXCEPT !.effective_to = now]]
    BY <1>1 DEF PatchPolicy
  <1> HIDE DEF with
  <1>5. [with[w] EXCEPT !.effective_to = now] \in Policy
    BY <1>2, <1>3 DEF Policy
  <1>6. /\ policies'[w].effective_from = policies[w].effective_from
        /\ policies'[w].effective_to = now
        /\ \A v \in 1..n : v # w => policies'[v] = policies[v]
        /\ policies'[n + 1] = p
    BY <1>2, <1>3, <1>4 DEF Policy
  <1> QED BY <1>1, <1>2, <1>3, <1>4, <1>5, <1>6

(***************************************************************************)
(* A request takes up its work: nobody else has the row it is to patch.    *)
(***************************************************************************)
LEMMA RequestsGoOn ==
  ASSUME PoliciesIInv, NEW a \in Admin,
         AskForPolicy(a) \/ CheckOverlap(a) \/ LockForPatch(a) \/ RollBack(a)
  PROVE  PoliciesIInv'
  <1> USE DEF PoliciesIInv
  <1>1. clock \in Nat /\ handling \in [Admin -> PolicyRequest] /\ UNCHANGED <<clock, policies>>
    BY DEF PoliciesTypeOK, AskForPolicy, CheckOverlap, LockForPatch, RollBack, Answers
  <1>2. Idle \in PolicyRequest /\ Idle.step = "idle"
    BY DEF Idle, Interval, PolicyRequest, Policy
  <1>3. \E r \in PolicyRequest :
          /\ handling' = [handling EXCEPT ![a] = r]
          /\ r.step # "idle" => r.now <= clock /\ r.policy.effective_from >= r.now
          /\ r.step = "patching" =>
               /\ r.of \in DOMAIN policies /\ policies[r.of].effective_to > r.now
               /\ \A b \in Admin : handling[b].step = "patching" => handling[b].of # r.of
    <2>1. CASE AskForPolicy(a)
      <3>1. PICK from \in clock..MaxClock, to \in Clock \union {Forever} :
              handling' = [handling EXCEPT ![a] = [step |-> "asked", now |-> clock,
                                                   policy |-> Interval(from, to), of |-> 0]]
        BY <2>1 DEF AskForPolicy
      <3> DEFINE r == [step |-> "asked", now |-> clock, policy |-> Interval(from, to), of |-> 0]
      <3>2. from \in Nat /\ from >= clock /\ to \in Nat
        BY <1>1, <3>1, PoliciesAssumption DEF Clock, Forever
      <3>3. r \in PolicyRequest /\ r.step = "asked" /\ r.now = clock /\ r.policy.effective_from = from
        BY <1>1, <3>2 DEF PolicyRequest, Policy, Interval
      <3>4. handling' = [handling EXCEPT ![a] = r]
        BY <3>1
      <3> HIDE DEF r
      <3>5. r \in PolicyRequest /\ r.now <= clock /\ r.policy.effective_from >= r.now /\ r.step # "patching"
        BY <1>1, <3>2, <3>3
      <3> QED BY <3>4, <3>5
    <2>2. CASE CheckOverlap(a)
      <3> DEFINE r == [handling[a] EXCEPT !.step = "checked"]
      <3>1. handling[a] \in PolicyRequest /\ handling[a].step = "asked"
        BY <1>1, <2>2 DEF CheckOverlap
      <3>2. r \in PolicyRequest /\ r.step = "checked" /\ r.now = handling[a].now
            /\ r.policy = handling[a].policy
        BY <3>1 DEF PolicyRequest
      <3>3. r.now <= clock /\ r.policy.effective_from >= r.now
        BY <3>1, <3>2 DEF RequestsHoldInv
      <3>4. handling' = [handling EXCEPT ![a] = Idle] \/ handling' = [handling EXCEPT ![a] = r]
        BY <2>2 DEF CheckOverlap
      <3> HIDE DEF r
      <3> QED BY <1>2, <3>2, <3>3, <3>4
    <2>3. CASE LockForPatch(a)
      <3>1. PICK v \in DOMAIN policies, to \in Clock \union {Forever} :
              /\ \A b \in Admin : handling[b].step = "patching" => handling[b].of # v
              /\ ~Historical(policies[v])
              /\ handling' = [handling EXCEPT ![a] = [step |-> "patching", now |-> clock,
                                                      policy |-> Interval(clock, to), of |-> v]]
        BY <2>3 DEF LockForPatch
      <3> DEFINE r == [step |-> "patching", now |-> clock, policy |-> Interval(clock, to), of |-> v]
      <3>2. PICK n \in Nat : policies \in [1..n -> Policy]
        BY DEF PoliciesTypeOK
      <3>3. v \in Nat /\ to \in Nat /\ policies[v] \in Policy
        BY <3>1, <3>2, PoliciesAssumption DEF Clock, Forever
      <3>4. policies[v].effective_to > clock
        BY <1>1, <3>1, <3>3 DEF Historical, Policy
      <3>5. /\ r \in PolicyRequest /\ r.now = clock /\ r.policy.effective_from = clock
            /\ r.of = v
        BY <1>1, <3>3 DEF PolicyRequest, Policy, Interval
      <3>6. handling' = [handling EXCEPT ![a] = r]
        BY <3>1
      <3> HIDE DEF r
      <3>7. /\ r \in PolicyRequest /\ r.now <= clock /\ r.policy.effective_from >= r.now
            /\ r.of \in DOMAIN policies /\ policies[r.of].effective_to > r.now
            /\ \A b \in Admin : handling[b].step = "patching" => handling[b].of # r.of
        BY <1>1, <3>1, <3>4, <3>5
      <3> QED BY <3>6, <3>7
    <2>4. CASE RollBack(a)
      BY <1>2, <2>4 DEF RollBack, Answers
    <2> QED BY <2>1, <2>2, <2>3, <2>4
  <1>4. PICK r \in PolicyRequest :
          /\ handling' = [handling EXCEPT ![a] = r]
          /\ r.step # "idle" => r.now <= clock /\ r.policy.effective_from >= r.now
          /\ r.step = "patching" =>
               /\ r.of \in DOMAIN policies /\ policies[r.of].effective_to > r.now
               /\ \A b \in Admin : handling[b].step = "patching" => handling[b].of # r.of
    BY <1>3
  <1>5. handling' \in [Admin -> PolicyRequest] /\ \A b \in Admin : handling'[b] = IF b = a THEN r
                                                                               ELSE handling[b]
    BY <1>1, <1>4
  <1>6. PoliciesTypeOK'
    BY <1>1, <1>5 DEF PoliciesTypeOK
  <1>7. RequestsHoldInv'
    <2>1. SUFFICES ASSUME NEW b \in Admin
                   PROVE  /\ handling'[b].step # "idle" =>
                               /\ handling'[b].now <= clock
                               /\ handling'[b].policy.effective_from >= handling'[b].now
                          /\ handling'[b].step = "patching" =>
                               /\ handling'[b].of \in DOMAIN policies
                               /\ policies[handling'[b].of].effective_to > handling'[b].now
                               /\ \A d \in Admin \ {b} : handling'[d].step = "patching" =>
                                    handling'[d].of # handling'[b].of
      BY <1>1 DEF RequestsHoldInv
    <2>2. CASE b = a
      BY <1>4, <1>5, <2>2
    <2>3. CASE b # a
      BY <1>4, <1>5, <2>3 DEF RequestsHoldInv
    <2> QED BY <2>2, <2>3
  <1> QED BY <1>6, <1>7

(***************************************************************************)
(* A commit lets go of its row, and changes no row of another's.           *)
(***************************************************************************)
LEMMA CommitsKeep ==
  ASSUME PoliciesIInv, NEW a \in Admin, CreatePolicy(a) \/ PatchPolicy(a)
  PROVE  PoliciesIInv'
  <1> USE DEF PoliciesIInv
  <1>1. PICK n \in Nat : policies \in [1..n -> Policy]
    BY DEF PoliciesTypeOK
  <1>2. /\ handling' = [handling EXCEPT ![a] = Idle] /\ UNCHANGED clock
        /\ clock \in Nat /\ handling \in [Admin -> PolicyRequest]
    BY DEF CreatePolicy, PatchPolicy, Answers, PoliciesTypeOK
  <1>3. Idle \in PolicyRequest /\ Idle.step = "idle"
    BY DEF Idle, Interval, PolicyRequest, Policy
  <1>4. handling' \in [Admin -> PolicyRequest] /\ \A b \in Admin : handling'[b] = IF b = a THEN Idle
                                                                               ELSE handling[b]
    BY <1>2, <1>3
  <1>5. /\ policies' \in [1..(n + 1) -> Policy]
        /\ \A v \in 1..n : \/ handling[a].step = "patching" /\ v = handling[a].of
                          \/ policies'[v] = policies[v]
    <2>1. CASE CreatePolicy(a)
      BY <1>1, <2>1, CreateEffect
    <2>2. CASE PatchPolicy(a)
      <3>1. /\ policies' \in [1..(n + 1) -> Policy]
            /\ \E w \in 1..n : /\ w = handling[a].of
                               /\ \A v \in 1..n : v # w => policies'[v] = policies[v]
        BY <1>1, <2>2, PatchEffect
      <3>2. handling[a].step = "patching"
        BY <2>2 DEF PatchPolicy
      <3> QED BY <3>1, <3>2
    <2> QED BY <2>1, <2>2
  <1>6. PoliciesTypeOK'
    BY <1>2, <1>4, <1>5 DEF PoliciesTypeOK
  <1>7. RequestsHoldInv'
    <2>1. SUFFICES ASSUME NEW b \in Admin
                   PROVE  /\ handling'[b].step # "idle" =>
                               /\ handling'[b].now <= clock
                               /\ handling'[b].policy.effective_from >= handling'[b].now
                          /\ handling'[b].step = "patching" =>
                               /\ handling'[b].of \in DOMAIN policies'
                               /\ policies'[handling'[b].of].effective_to > handling'[b].now
                               /\ \A d \in Admin \ {b} : handling'[d].step = "patching" =>
                                    handling'[d].of # handling'[b].of
      BY <1>2 DEF RequestsHoldInv
    <2>2. CASE b = a
      BY <1>3, <1>4, <2>2
    <2>3. CASE b # a
      <3>1. handling'[b] = handling[b]
        BY <1>4, <2>3
      <3>2. ASSUME handling[b].step = "patching"
            PROVE  /\ handling[b].of \in 1..n /\ handling[b].of \in DOMAIN policies'
                   /\ policies'[handling[b].of] = policies[handling[b].of]
        <4>1. handling[b].of \in 1..n
          BY <1>1, <3>2 DEF RequestsHoldInv
        <4>2. ~(handling[a].step = "patching" /\ handling[b].of = handling[a].of)
          BY <2>3, <3>2 DEF RequestsHoldInv
        <4> QED BY <1>5, <4>1, <4>2
      <3>3. \A d \in Admin \ {b} : handling'[d].step = "patching" =>
              d # a /\ handling[d].step = "patching" /\ handling'[d].of = handling[d].of
        BY <1>3, <1>4
      <3> QED BY <3>1, <3>2, <3>3 DEF RequestsHoldInv
    <2> QED BY <2>2, <2>3
  <1> QED BY <1>6, <1>7

LEMMA PoliciesStep ==
  ASSUME PoliciesIInv, [PoliciesNext]_policyVars PROVE PoliciesIInv'
  <1>1. CASE ClockTicks
    <2>1. /\ clock \in Nat /\ clock' = clock + 1 /\ UNCHANGED <<policies, handling>>
          /\ handling \in [Admin -> PolicyRequest]
      BY <1>1 DEF ClockTicks, PoliciesIInv, PoliciesTypeOK
    <2>2. \A a \in Admin : handling[a].now \in Nat
      BY <2>1 DEF PolicyRequest
    <2>3. \A a \in Admin : handling[a].now <= clock => handling[a].now <= clock'
      BY <2>1, <2>2
    <2>4. RequestsHoldInv'
      BY <2>1, <2>3 DEF PoliciesIInv, RequestsHoldInv
    <2>5. PoliciesTypeOK'
      BY <2>1 DEF PoliciesIInv, PoliciesTypeOK
    <2> QED BY <2>4, <2>5 DEF PoliciesIInv
  <1>2. CASE UNCHANGED policyVars
    BY <1>2 DEF policyVars, PoliciesIInv, PoliciesTypeOK, RequestsHoldInv
  <1> QED BY <1>1, <1>2, RequestsGoOn, CommitsKeep DEF PoliciesNext
-----------------------------------------------------------------------------
\* The step is the end of no request that read the clock at t or before.
NoneEndsThatBeganBy(t) ==
  \A a \in Admin : handling[a] # handling'[a] /\ handling'[a] = Idle => t < handling[a].now
PastUnchanged ==
  \A t \in 0..(clock - 1) : NoneEndsThatBeganBy(t) =>
    {v \in DOMAIN policies' : InForce(policies'[v], t)}
      = {v \in DOMAIN policies : InForce(policies[v], t)}

LEMMA PastStep ==
  ASSUME PoliciesIInv, [PoliciesNext]_policyVars PROVE PastUnchanged
  <1>1. PICK n \in Nat : policies \in [1..n -> Policy]
    BY DEF PoliciesIInv, PoliciesTypeOK
  <1>2. clock \in Nat /\ handling \in [Admin -> PolicyRequest]
    BY DEF PoliciesIInv, PoliciesTypeOK
  <1>3. CASE UNCHANGED policies
    BY <1>3 DEF PastUnchanged
  <1>4. ASSUME NEW a \in Admin, handling[a].step # "idle", handling' = [handling EXCEPT ![a] = Idle],
               policies' \in [1..(n + 1) -> Policy],
               policies'[n + 1].effective_from >= handling[a].now,
               \A v \in 1..n : \A t \in 0..(clock - 1) : t < handling[a].now =>
                 (InForce(policies'[v], t) <=> InForce(policies[v], t))
        PROVE  PastUnchanged
    <2> SUFFICES ASSUME NEW t \in 0..(clock - 1), NoneEndsThatBeganBy(t)
                 PROVE  {v \in DOMAIN policies' : InForce(policies'[v], t)}
                          = {v \in DOMAIN policies : InForce(policies[v], t)}
      BY DEF PastUnchanged
    <2>1. DOMAIN policies = 1..n /\ DOMAIN policies' = 1..(n + 1)
      BY <1>1, <1>4
    <2>2. handling'[a] = Idle /\ handling[a] # Idle
      BY <1>2, <1>4 DEF Idle
    <2>3. t < handling[a].now /\ t \in Nat /\ handling[a].now \in Nat
      BY <1>2, <2>2 DEF NoneEndsThatBeganBy, PolicyRequest
    <2>4. policies'[n + 1].effective_from \in Nat
      BY <1>4 DEF Policy
    <2>5. ~InForce(policies'[n + 1], t)
      BY <1>4, <2>3, <2>4 DEF InForce
    <2>6. \A v \in 1..(n + 1) : v \in 1..n \/ v = n + 1
      OBVIOUS
    <2> QED BY <1>4, <2>1, <2>3, <2>5, <2>6
  <1>5. ASSUME NEW a \in Admin, CreatePolicy(a) PROVE PastUnchanged
    BY <1>1, <1>4, <1>5, CreateEffect DEF CreatePolicy, Answers
  <1>6. ASSUME NEW a \in Admin, PatchPolicy(a) PROVE PastUnchanged
    <2>1. PICK w \in 1..n :
            /\ policies[w].effective_to > handling[a].now
            /\ policies'[w].effective_from = policies[w].effective_from
            /\ policies'[w].effective_to = handling[a].now
            /\ \A v \in 1..n : v # w => policies'[v] = policies[v]
      BY <1>1, <1>6, PatchEffect
    <2>2. handling[a].now \in Nat /\ policies[w] \in Policy
      BY <1>1, <1>2, <2>1 DEF PolicyRequest
    <2>3. \A t \in 0..(clock - 1) : t < handling[a].now =>
            (InForce(policies'[w], t) <=> InForce(policies[w], t))
      BY <2>1, <2>2, <1>2 DEF InForce, Policy
    <2>4. \A v \in 1..n : \A t \in 0..(clock - 1) : t < handling[a].now =>
            (InForce(policies'[v], t) <=> InForce(policies[v], t))
      BY <2>1, <2>3
    <2>5. /\ policies' \in [1..(n + 1) -> Policy]
          /\ policies'[n + 1].effective_from >= handling[a].now
      BY <1>1, <1>6, PatchEffect
    <2>6. handling[a].step # "idle" /\ handling' = [handling EXCEPT ![a] = Idle]
      BY <1>6 DEF PatchPolicy, Answers
    <2> QED BY <1>4, <2>4, <2>5, <2>6
  <1>7. ASSUME NEW a \in Admin,
               AskForPolicy(a) \/ CheckOverlap(a) \/ LockForPatch(a) \/ RollBack(a)
        PROVE  PastUnchanged
    BY <1>3, <1>7 DEF AskForPolicy, CheckOverlap, LockForPatch, RollBack
  <1> QED BY <1>3, <1>5, <1>6, <1>7 DEF PoliciesNext, policyVars, ClockTicks
-----------------------------------------------------------------------------
(***************************************************************************)
(* create_source_policy and patch_source_policy never rewrite the past,    *)
(* however long they wait between the clock they read and their commit and *)
(* whatever commits meanwhile: the policies in force at a time before that *)
(* reading stay the ones that were.                                        *)
(***************************************************************************)
THEOREM PastPoliciesAreFixedTheorem == PoliciesSpec => PastPoliciesAreFixed
  <1>1. PoliciesIInv /\ [PoliciesNext]_policyVars
          => [\A t \in 0..(clock - 1) :
                (\A a \in Admin : handling[a] # handling'[a] /\ handling'[a] = Idle
                                    => t < handling[a].now)
                  => {v \in DOMAIN policies' : InForce(policies'[v], t)}
                       = {v \in DOMAIN policies : InForce(policies[v], t)}]_policyVars
    BY PastStep DEF PastUnchanged, NoneEndsThatBeganBy
  <1>2. PoliciesSpec => []PoliciesIInv
    BY PoliciesInitOK, PoliciesStep, PTL DEF PoliciesSpec
  <1> QED BY <1>1, <1>2, PTL DEF PoliciesSpec, PastPoliciesAreFixed

-----------------------------------------------------------------------------
(***************************************************************************)
(* Realtime, for any length of the stream and of a read, and any           *)
(* disconnections and restarts. Every entry up to the one sent last is     *)
(* accounted for: received, announced, trimmed under the subscription, or  *)
(* appended while a subscription from "now" was not waiting. The entries   *)
(* in hand follow on each other (BatchInv), and those between the last     *)
(* one in hand and the oldest in the stream are an overrun (OverrunInv).   *)
(***************************************************************************)

Place == {"away", "reading", "blocked", "answered"}
Total == Len(entries)

RealtimeTypeOK ==
  /\ committed \in Nat /\ entries \in Seq(Nat) /\ oldest \in Nat \ {0}
  /\ Total > 0 => oldest <= Total
  /\ subscription \in [state : Place, cursor : Nat, batch : Seq(Nat)]
  /\ last_event_id \in 0..Total
  /\ received \subseteq Nat /\ announced \subseteq 1..Total
  /\ overrun \subseteq Nat /\ unread \subseteq 1..Total

\* What the client was sent, told of, or may have missed silently.
Accounted == received \union announced \union overrun \union unread

\* A client that follows "now" and has received nothing is told of nothing.
FromNowInv ==
  (subscription.cursor = Now /\ subscription.batch = <<>>) => 1..Total \subseteq Accounted

\* A cursor is the last entry sent; a subscription is blocked only at the end.
CursorInv ==
  /\ 1..last_event_id \subseteq Accounted
  /\ subscription.cursor # Now => subscription.cursor = last_event_id
  /\ subscription.state = "away" => subscription.cursor = last_event_id
  /\ (subscription.state = "blocked" /\ subscription.cursor # Now) => subscription.cursor = Total

\* The entries in hand follow on each other, and on what is accounted for.
BatchInv ==
  /\ subscription.state = "answered" <=> subscription.batch # <<>>
  /\ \A i \in DOMAIN subscription.batch : subscription.batch[i] = subscription.batch[1] + (i - 1)
  /\ subscription.batch # <<>> =>
       /\ subscription.batch[1] \in 1..Total /\ SentUpTo(subscription) \in 1..Total
       /\ \A e \in 1..Total : e < subscription.batch[1] => e \in Accounted

\* What was trimmed before an open subscription read it is an overrun.
OverrunInv ==
  (subscription.state \in {"reading", "answered"} /\ SentUpTo(subscription) # Now) =>
    \A e \in 1..Total : (e < oldest /\ e > SentUpTo(subscription)) => e \in Accounted

RealtimeIInv == RealtimeTypeOK /\ FromNowInv /\ CursorInv /\ BatchInv /\ OverrunInv

LEMMA SizeOfInterval ==
  ASSUME NEW a \in Int, NEW b \in Int
  PROVE  IsFiniteSet(a..b) /\ Cardinality(a..b) = IF a > b THEN 0 ELSE b - a + 1
  BY FS_Interval

\* One read of an interval of entries: its first ReadCount, in order.
LEMMA ReadOfInterval ==
  ASSUME NEW a \in Nat, NEW b \in Nat, a <= b
  PROVE  \E m \in a..b : /\ FirstOf(a..b) = a..m
                         /\ InOrder(a..m) = [i \in 1..(m - a + 1) |-> a + i - 1]
  <1>1. ReadCount \in Nat \ {0}
    BY RealtimeAssumption
  <1>2. \E m \in a..b : \A e \in a..b : e <= m <=> e - a < ReadCount
    <2>1. CASE b - a < ReadCount
      BY <1>1, <2>1
    <2>2. CASE ~(b - a < ReadCount)
      <3>1. a + ReadCount - 1 \in a..b
        BY <1>1, <2>2
      <3>2. \A e \in a..b : e <= a + ReadCount - 1 <=> e - a < ReadCount
        BY <1>1
      <3>3. QED
        BY <3>1, <3>2
    <2>3. QED
      BY <2>1, <2>2
  <1>3. PICK m \in a..b : \A e \in a..b : e <= m <=> e - a < ReadCount
    BY <1>2
  <1>4. ASSUME NEW c \in a..b, NEW e \in a..c
        PROVE  Cardinality({f \in a..c : f < e}) = e - a
    <2>1. {f \in a..c : f < e} = a..(e - 1)
      BY <1>4
    <2>2. Cardinality(a..(e - 1)) = e - a
      <3>1. a \in Int /\ e - 1 \in Int /\ a <= e
        BY <1>4
      <3>2. Cardinality(a..(e - 1)) = IF a > e - 1 THEN 0 ELSE (e - 1) - a + 1
        BY <3>1, SizeOfInterval
      <3>3. QED
        BY <3>1, <3>2
    <2>3. QED
      BY <2>1, <2>2
  <1>5. FirstOf(a..b) = a..m
    <2>1. b \in a..b
      OBVIOUS
    <2>2. \A e \in a..b : Cardinality({f \in a..b : f < e}) = e - a
      BY <1>4, <2>1
    <2>3. FirstOf(a..b) = {e \in a..b : e - a < ReadCount}
      BY <2>2 DEF FirstOf
    <2>4. {e \in a..b : e - a < ReadCount} = a..m
      BY <1>3
    <2>5. QED
      BY <2>3, <2>4
  <1>6. InOrder(a..m) = [i \in 1..(m - a + 1) |-> a + i - 1]
    <2>1. Cardinality(a..m) = m - a + 1
      <3>1. a \in Int /\ m \in Int /\ a <= m
        OBVIOUS
      <3>2. QED
        BY <3>1, SizeOfInterval
    <2>2. ASSUME NEW i \in 1..(m - a + 1)
          PROVE  (CHOOSE e \in a..m : Cardinality({f \in a..m : f < e}) = i - 1) = a + i - 1
      <3>1. \A e \in a..m : Cardinality({f \in a..m : f < e}) = e - a
        BY <1>4
      <3>2. a + i - 1 \in a..m /\ (a + i - 1) - a = i - 1
        BY <2>2
      <3>3. \A e \in a..m : e - a = i - 1 => e = a + i - 1
        BY <2>2
      <3>4. \A e \in a..m : Cardinality({f \in a..m : f < e}) = i - 1 <=> e = a + i - 1
        BY <3>1, <3>2, <3>3
      <3>5. QED
        BY <3>2, <3>4
    <2>3. QED
      BY <2>1, <2>2 DEF InOrder
  <1>7. QED
    BY <1>5, <1>6

LEMMA PublishAlertKeeps == ASSUME RealtimeIInv, PublishAlert PROVE RealtimeIInv'
  <1> USE DEF RealtimeIInv
  <1>1. /\ entries' = Append(entries, committed + 1)
        /\ oldest' \in Trimmed(Len(entries'))
        /\ subscription' = IF subscription.state = "blocked"
             THEN [subscription EXCEPT !.state = "answered", !.batch = <<Len(entries')>>]
             ELSE subscription
        /\ unread' = IF /\ subscription.cursor = Now /\ subscription.state # "blocked"
                        /\ subscription.batch = <<>>
                     THEN unread \union {Len(entries')} ELSE unread
        /\ overrun' = IF subscription.state \in {"reading", "answered"} /\ SentUpTo(subscription) # Now
             THEN overrun \union {e \in oldest..(oldest' - 1) : e > SentUpTo(subscription)}
             ELSE overrun
        /\ UNCHANGED clientVars
    BY DEF PublishAlert
  <1>2. UNCHANGED <<last_event_id, received, announced>>
    BY <1>1 DEF clientVars
  <1>3. /\ Total \in Nat /\ Total' = Total + 1 /\ Len(entries') = Total'
        /\ entries' \in Seq(Nat) /\ committed' \in Nat
    BY <1>1 DEF Total, RealtimeTypeOK, PublishAlert
  <1>4. oldest' \in oldest..Total' /\ oldest \in Nat \ {0}
    BY <1>1, <1>3 DEF Trimmed, RealtimeTypeOK
  <1>5. Accounted \subseteq Accounted' /\ unread \subseteq unread'
    BY <1>1, <1>2 DEF Accounted
  <1>6. subscription.state # "blocked" => subscription' = subscription
    BY <1>1
  <1>7. subscription.state = "blocked" =>
          /\ subscription'.state = "answered" /\ subscription'.batch = <<Total'>>
          /\ subscription'.cursor = subscription.cursor
    BY <1>1, <1>3 DEF RealtimeTypeOK
  <1>8. RealtimeTypeOK'
    <2>1. subscription' \in [state : Place, cursor : Nat, batch : Seq(Nat)]
      <3>1. <<Total'>> \in Seq(Nat)
        BY <1>3
      <3>2. QED
        BY <1>1, <1>3, <3>1 DEF RealtimeTypeOK, Place
    <2>2. last_event_id' \in 0..Total' /\ announced' \subseteq 1..Total'
      BY <1>2, <1>3 DEF RealtimeTypeOK
    <2>3. unread' \subseteq 1..Total'
      BY <1>1, <1>3 DEF RealtimeTypeOK
    <2>4. overrun' \subseteq Nat
      <3>1. \A e \in oldest..(oldest' - 1) : e \in Nat
        BY <1>4
      <3>2. QED
        BY <1>1, <3>1 DEF RealtimeTypeOK
    <2>5. oldest' \in Nat \ {0} /\ oldest' <= Total'
      BY <1>3, <1>4
    <2>6. QED
      BY <1>2, <1>3, <2>1, <2>2, <2>3, <2>4, <2>5 DEF RealtimeTypeOK
  <1>9. FromNowInv'
    <2>1. SUFFICES ASSUME subscription'.cursor = Now, subscription'.batch = <<>>
                   PROVE  1..Total' \subseteq Accounted'
      BY DEF FromNowInv
    <2>2. subscription.state # "blocked" /\ subscription.cursor = Now /\ subscription.batch = <<>>
      <3>1. <<Total'>> # <<>>
        OBVIOUS
      <3>2. QED
        BY <1>6, <1>7, <2>1, <3>1
    <2>3. Total' \in Accounted'
      BY <1>1, <1>3, <2>2 DEF Accounted
    <2>4. 1..Total \subseteq Accounted /\ 1..Total' = 1..Total \union {Total'}
      BY <1>3, <2>2 DEF FromNowInv
    <2>5. QED
      BY <1>5, <2>3, <2>4
  <1>10. CursorInv'
    BY <1>2, <1>5, <1>6, <1>7 DEF CursorInv
  <1>11. CASE subscription.state = "blocked"
    <2>1. subscription'.batch = <<Total'>> /\ SentUpTo(subscription)' = Total'
      BY <1>7, <1>11 DEF SentUpTo
    <2>2. \A e \in 1..Total : e \in Accounted
      <3>1. subscription.batch = <<>>
        BY <1>11 DEF BatchInv
      <3>2. CASE subscription.cursor = Now
        BY <3>1, <3>2 DEF FromNowInv
      <3>3. CASE subscription.cursor # Now
        BY <1>11, <3>3 DEF CursorInv
      <3>4. QED
        BY <3>2, <3>3
    <2>3. BatchInv'
      <3>1. /\ subscription'.batch[1] = Total' /\ DOMAIN subscription'.batch = {1}
            /\ subscription'.batch # <<>>
        BY <2>1
      <3>2. Total' \in 1..Total' /\ \A e \in 1..Total' : e < Total' => e \in 1..Total
        BY <1>3
      <3>3. \A e \in 1..Total' : e < Total' => e \in Accounted'
        BY <1>5, <2>2, <3>2
      <3>4. \A i \in DOMAIN subscription'.batch :
              subscription'.batch[i] = subscription'.batch[1] + (i - 1)
        BY <1>3, <3>1
      <3>5. QED
        BY <1>7, <1>11, <2>1, <3>1, <3>2, <3>3, <3>4 DEF BatchInv
    <2>4. OverrunInv'
      BY <1>3, <2>1 DEF OverrunInv
    <2>5. QED
      BY <1>8, <1>9, <1>10, <2>3, <2>4
  <1>12. CASE subscription.state # "blocked"
    <2>1. subscription' = subscription /\ SentUpTo(subscription)' = SentUpTo(subscription)
      BY <1>6, <1>12 DEF SentUpTo
    <2>2. 1..Total \subseteq 1..Total' /\ 1..Total' = 1..Total \union {Total'}
      BY <1>3
    <2>3. BatchInv'
      <3>1. ASSUME subscription.batch # <<>>
            PROVE  /\ subscription.batch[1] \in 1..Total'
                   /\ SentUpTo(subscription) \in 1..Total'
                   /\ \A e \in 1..Total' : e < subscription.batch[1] => e \in Accounted'
        <4>1. subscription.batch[1] \in 1..Total
          BY <3>1 DEF BatchInv
        <4>2. ~(Total' < subscription.batch[1])
          BY <1>3, <4>1
        <4>3. QED
          BY <1>5, <2>2, <3>1, <4>1, <4>2 DEF BatchInv
      <3>2. QED
        BY <2>1, <3>1 DEF BatchInv
    <2>4. OverrunInv'
      <3>1. SUFFICES ASSUME subscription.state \in {"reading", "answered"},
                            SentUpTo(subscription) # Now,
                            NEW e \in 1..Total', e < oldest', e > SentUpTo(subscription)
                     PROVE  e \in Accounted'
        BY <2>1 DEF OverrunInv
      <3>2. CASE e < oldest
        <4>1. e \in 1..Total
          BY <1>3, <1>4, <3>1, <3>2 DEF RealtimeTypeOK
        <4>2. QED
          BY <1>5, <3>1, <3>2, <4>1 DEF OverrunInv
      <3>3. CASE ~(e < oldest)
        <4>1. e \in oldest..(oldest' - 1)
          <5>1. e \in Nat /\ oldest' \in Nat /\ oldest \in Nat
            BY <1>3, <1>4
          <5>2. oldest <= e
            BY <3>3, <5>1
          <5>3. e < oldest'
            BY <3>1
          <5>4. PICK k \in Nat : k = oldest'
            BY <5>1
          <5>5. PICK l \in Nat : l = oldest
            BY <5>1
          <5>6. PICK n \in Nat : n = e
            BY <5>1
          <5>7. l <= n /\ n < k
            BY <5>2, <5>3, <5>4, <5>5, <5>6
          <5>8. n \in l..(k - 1)
            BY <5>7
          <5>9. QED
            BY <5>4, <5>5, <5>6, <5>8
        <4>2. e \in overrun'
          BY <1>1, <3>1, <4>1
        <4>3. QED
          BY <4>2 DEF Accounted
      <3>4. QED
        BY <3>2, <3>3
    <2>5. QED
      BY <1>8, <1>9, <1>10, <2>3, <2>4
  <1>13. QED
    BY <1>11, <1>12

LEMMA GatewayKeeps == ASSUME RealtimeIInv, CommitAlert \/ GatewayCrashes PROVE RealtimeIInv'
  <1>1. /\ UNCHANGED <<streamVars, subscription, clientVars, overrun, unread>>
        /\ committed' \in Nat
    BY DEF CommitAlert, GatewayCrashes, RealtimeIInv, RealtimeTypeOK
  <1>2. QED
    BY <1>1 DEF streamVars, clientVars, RealtimeIInv, RealtimeTypeOK, Total, FromNowInv, CursorInv,
                BatchInv, OverrunInv, Accounted, SentUpTo

LEMMA SubscribeKeeps == ASSUME RealtimeIInv, Subscribe PROVE RealtimeIInv'
  <1> USE DEF RealtimeIInv
  <1>1. /\ subscription.state = "away"
        /\ UNCHANGED <<committed, entries, oldest, received, overrun, unread>>
        /\ Total' = Total
    BY DEF Subscribe, gatewayVars, streamVars, Total
  <1>2. subscription.cursor = last_event_id /\ subscription.batch = <<>>
    BY <1>1 DEF CursorInv, BatchInv
  <1>3. CASE IsBehind(last_event_id)
    <2>1. /\ subscription' = [state |-> "reading", cursor |-> Now, batch |-> <<>>]
          /\ last_event_id' = oldest /\ announced' = 1..Total
      BY <1>3 DEF Subscribe, Away, Total
    <2>2. 1..Total \subseteq Accounted' /\ oldest \in 1..Total
      <3>1. Total > 0
        BY <1>3 DEF IsBehind, Total
      <3>2. QED
        BY <2>1, <3>1 DEF Accounted, RealtimeTypeOK
    <2>3. RealtimeTypeOK'
      <3>1. subscription' \in [state : Place, cursor : Nat, batch : Seq(Nat)]
        BY <2>1 DEF Place, Now
      <3>2. last_event_id' \in 0..Total'
        BY <1>1, <2>1, <2>2 DEF RealtimeTypeOK
      <3>3. QED
        BY <1>1, <2>1, <3>1, <3>2 DEF RealtimeTypeOK
    <2>4. FromNowInv' /\ OverrunInv'
      BY <1>1, <2>1, <2>2 DEF FromNowInv, OverrunInv, SentUpTo
    <2>5. CursorInv'
      <3>1. 1..oldest \subseteq 1..Total
        <4>1. Total \in Nat
          BY DEF Total, RealtimeTypeOK
        <4>2. QED
          BY <2>2, <4>1
      <3>2. QED
        BY <1>1, <2>1, <2>2, <3>1 DEF CursorInv
    <2>6. BatchInv'
      BY <2>1 DEF BatchInv
    <2>7. QED
      BY <2>3, <2>4, <2>5, <2>6
  <1>4. CASE ~IsBehind(last_event_id)
    <2>1. /\ subscription' = [state |-> "reading", cursor |-> last_event_id, batch |-> <<>>]
          /\ UNCHANGED <<last_event_id, announced>>
      BY <1>4 DEF Subscribe, Away
    <2>2. Accounted' = Accounted
      BY <1>1, <2>1 DEF Accounted
    <2>3. RealtimeTypeOK'
      <3>1. subscription' \in [state : Place, cursor : Nat, batch : Seq(Nat)]
        BY <2>1 DEF Place, RealtimeTypeOK
      <3>2. QED
        BY <1>1, <2>1, <3>1 DEF RealtimeTypeOK
    <2>4. FromNowInv'
      BY <1>1, <1>2, <2>1, <2>2 DEF FromNowInv
    <2>5. CursorInv'
      BY <1>1, <2>1, <2>2 DEF CursorInv
    <2>6. BatchInv'
      BY <2>1 DEF BatchInv
    <2>7. OverrunInv'
      <3>1. SUFFICES ASSUME last_event_id # Now, NEW e \in 1..Total, e < oldest, e > last_event_id
                     PROVE  FALSE
        BY <1>1, <2>1 DEF OverrunInv, SentUpTo
      <3>2. Total > 0 /\ last_event_id < oldest
        <4>1. Total \in Nat /\ oldest \in Nat /\ last_event_id \in Nat
          BY DEF Total, RealtimeTypeOK
        <4>2. QED
          BY <3>1, <4>1
      <3>3. QED
        BY <1>4, <3>1, <3>2 DEF IsBehind, Total
    <2>8. QED
      BY <2>3, <2>4, <2>5, <2>6, <2>7
  <1>5. QED
    BY <1>3, <1>4

LEMMA ReadStreamKeeps == ASSUME RealtimeIInv, ReadStream PROVE RealtimeIInv'
  <1> USE DEF RealtimeIInv
  <1> DEFINE found == IF subscription.cursor = Now THEN {} ELSE FirstOf(Newer(subscription.cursor))
  <1>1. /\ subscription.state = "reading" /\ subscription.batch = <<>>
        /\ UNCHANGED <<committed, entries, oldest, last_event_id, received, announced, overrun, unread>>
        /\ Total' = Total /\ Accounted' = Accounted
    BY DEF ReadStream, gatewayVars, streamVars, clientVars, Total, Accounted, BatchInv
  <1>2. subscription' = IF found = {} THEN [subscription EXCEPT !.state = "blocked"]
                        ELSE [subscription EXCEPT !.state = "answered", !.batch = InOrder(found)]
    BY DEF ReadStream
  <1>3. Total \in Nat /\ oldest \in Nat \ {0} /\ subscription.cursor \in 0..Total
    <2>1. Total \in Nat
      BY DEF Total, RealtimeTypeOK
    <2>2. subscription.cursor # Now => subscription.cursor = last_event_id
      BY DEF CursorInv
    <2>3. QED
      BY <2>1, <2>2 DEF RealtimeTypeOK, Now
  <1>4. CASE subscription.cursor = Now \/ Newer(subscription.cursor) = {}
    <2>1. found = {}
      BY <1>4 DEF FirstOf
    <2>2. /\ subscription'.state = "blocked" /\ subscription'.batch = <<>>
          /\ subscription'.cursor = subscription.cursor
          /\ subscription' \in [state : Place, cursor : Nat, batch : Seq(Nat)]
      BY <1>1, <1>2, <2>1 DEF RealtimeTypeOK, Place
    <2>3. subscription.cursor # Now => subscription.cursor = Total
      <3>1. SUFFICES ASSUME subscription.cursor # Now, subscription.cursor < Total PROVE FALSE
        BY <1>3
      <3>2. Total \in Newer(subscription.cursor)
        <4>1. Total \in oldest..Total
          BY <1>3, <3>1 DEF RealtimeTypeOK
        <4>2. QED
          BY <1>3, <3>1, <4>1 DEF Newer, Total
      <3>3. QED
        BY <1>4, <3>1, <3>2
    <2>4. RealtimeTypeOK'
      BY <1>1, <2>2 DEF RealtimeTypeOK
    <2>5. FromNowInv' /\ CursorInv'
      BY <1>1, <2>2, <2>3 DEF FromNowInv, CursorInv
    <2>6. BatchInv' /\ OverrunInv'
      BY <2>2 DEF BatchInv, OverrunInv
    <2>7. QED
      BY <2>4, <2>5, <2>6
  <1>5. CASE subscription.cursor # Now /\ Newer(subscription.cursor) # {}
    <2>1. PICK a \in Nat : /\ a \in 1..Total /\ Newer(subscription.cursor) = a..Total
                           /\ a > subscription.cursor
                           /\ a = subscription.cursor + 1 \/ a = oldest
      <3>1. PICK e \in oldest..Total : e > subscription.cursor
        BY <1>5 DEF Newer, Total
      <3>2. CASE oldest > subscription.cursor
        <4>1. Newer(subscription.cursor) = oldest..Total
          BY <1>3, <3>2 DEF Newer, Total
        <4>2. oldest \in 1..Total
          BY <1>3, <3>1
        <4>3. QED
          BY <1>3, <3>2, <4>1, <4>2
      <3>3. CASE ~(oldest > subscription.cursor)
        <4>1. Newer(subscription.cursor) = (subscription.cursor + 1)..Total
          BY <1>3, <3>3 DEF Newer, Total
        <4>2. subscription.cursor + 1 \in 1..Total /\ subscription.cursor + 1 > subscription.cursor
          BY <1>3, <3>1
        <4>3. QED
          BY <1>3, <4>1, <4>2
      <3>4. QED
        BY <3>2, <3>3
    <2>2. PICK m \in a..Total : /\ FirstOf(a..Total) = a..m
                               /\ InOrder(a..m) = [i \in 1..(m - a + 1) |-> a + i - 1]
      <3>1. a <= Total
        BY <1>3, <2>1
      <3>2. QED
        BY <1>3, <3>1, ReadOfInterval
    <2>3. found = a..m /\ a \in a..m
      BY <1>3, <1>5, <2>1, <2>2
    <2> DEFINE batch == [i \in 1..(m - a + 1) |-> a + i - 1]
    <2>4. /\ m - a + 1 \in Nat \ {0} /\ m \in 1..Total
          /\ \A i \in 1..(m - a + 1) : a + i - 1 \in Nat
      BY <1>3, <2>1, <2>2
    <2>5. /\ batch \in Seq(Nat) /\ Len(batch) = m - a + 1
          /\ DOMAIN batch = 1..(m - a + 1)
      BY <2>4
    <2>6. batch[1] = a /\ batch[m - a + 1] = m /\ \A i \in DOMAIN batch : batch[i] = a + (i - 1)
      <3>1. 1 \in 1..(m - a + 1) /\ m - a + 1 \in 1..(m - a + 1)
        BY <2>4
      <3>2. a + 1 - 1 = a /\ a + (m - a + 1) - 1 = m
        BY <2>1, <2>2
      <3>3. \A i \in 1..(m - a + 1) : a + i - 1 = a + (i - 1)
        BY <2>1
      <3>4. QED
        BY <2>5, <3>1, <3>2, <3>3
    <2>7. batch # <<>>
      BY <2>4, <2>5
    <2>8. subscription' = [subscription EXCEPT !.state = "answered", !.batch = batch]
      BY <1>2, <2>2, <2>3
    <2> HIDE DEF batch, found
    <2>9. /\ subscription'.state = "answered" /\ subscription'.batch = batch
          /\ subscription'.cursor = subscription.cursor
          /\ subscription' \in [state : Place, cursor : Nat, batch : Seq(Nat)]
      BY <2>5, <2>8 DEF RealtimeTypeOK, Place
    <2>10. SentUpTo(subscription)' = m
      BY <2>5, <2>6, <2>7, <2>9 DEF SentUpTo
    <2>11. \A e \in 1..Total : e < a => e \in Accounted
      <3>1. SUFFICES ASSUME NEW e \in 1..Total, e < a PROVE e \in Accounted
        OBVIOUS
      <3>2. CASE e <= subscription.cursor
        <4>1. e \in 1..last_event_id
          BY <1>3, <1>5, <3>2 DEF CursorInv
        <4>2. QED
          BY <4>1 DEF CursorInv
      <3>3. CASE ~(e <= subscription.cursor)
        <4>1. e < oldest /\ e > subscription.cursor
          BY <1>3, <2>1, <3>1, <3>3
        <4>2. SentUpTo(subscription) = subscription.cursor
          BY <1>1 DEF SentUpTo
        <4>3. QED
          BY <1>1, <1>5, <4>1, <4>2 DEF OverrunInv
      <3>4. QED
        BY <3>2, <3>3
    <2>12. RealtimeTypeOK'
      BY <1>1, <2>9 DEF RealtimeTypeOK
    <2>13. FromNowInv' /\ CursorInv'
      BY <1>1, <1>5, <2>9 DEF FromNowInv, CursorInv
    <2>14. BatchInv'
      BY <1>1, <2>1, <2>4, <2>6, <2>7, <2>9, <2>10, <2>11 DEF BatchInv
    <2>15. OverrunInv'
      <3>1. SUFFICES ASSUME NEW e \in 1..Total, e < oldest, e > m PROVE e \in Accounted
        BY <1>1, <2>10 DEF OverrunInv
      <3>2. e > subscription.cursor
        BY <1>3, <2>1, <2>2, <3>1
      <3>3. SentUpTo(subscription) = subscription.cursor
        BY <1>1 DEF SentUpTo
      <3>4. QED
        BY <1>1, <1>5, <3>1, <3>2, <3>3 DEF OverrunInv
    <2>16. QED
      BY <2>12, <2>13, <2>14, <2>15
  <1>6. QED
    BY <1>4, <1>5

LEMMA HeartbeatKeeps == ASSUME RealtimeIInv, Heartbeat PROVE RealtimeIInv'
  <1> USE DEF RealtimeIInv
  <1>1. /\ subscription.state = "blocked" /\ subscription.batch = <<>>
        /\ UNCHANGED <<committed, entries, oldest, last_event_id, received, announced, overrun, unread>>
        /\ Total' = Total /\ Accounted' = Accounted
    BY DEF Heartbeat, gatewayVars, streamVars, clientVars, Total, Accounted, BatchInv
  <1>2. /\ subscription'.state = "reading" /\ subscription'.batch = <<>>
        /\ subscription'.cursor = subscription.cursor
        /\ subscription' \in [state : Place, cursor : Nat, batch : Seq(Nat)]
    BY <1>1 DEF Heartbeat, RealtimeTypeOK, Place
  <1>3. RealtimeTypeOK'
    BY <1>1, <1>2 DEF RealtimeTypeOK
  <1>4. FromNowInv' /\ CursorInv' /\ BatchInv'
    BY <1>1, <1>2 DEF FromNowInv, CursorInv, BatchInv
  <1>5. OverrunInv'
    <2>1. SUFFICES ASSUME subscription.cursor # Now, NEW e \in 1..Total, e > subscription.cursor
                   PROVE  FALSE
      BY <1>1, <1>2 DEF OverrunInv, SentUpTo
    <2>2. subscription.cursor = Total /\ Total \in Nat
      BY <1>1, <2>1 DEF CursorInv, Total, RealtimeTypeOK
    <2>3. QED
      BY <2>1, <2>2
  <1>6. QED
    BY <1>3, <1>4, <1>5

LEMMA SendEntryKeeps == ASSUME RealtimeIInv, SendEntry PROVE RealtimeIInv'
  <1> USE DEF RealtimeIInv
  <1>0. PICK e, batch, rest : /\ e = Head(subscription.batch) /\ batch = subscription.batch
                              /\ rest = SubSeq(batch, 2, Len(batch))
    OBVIOUS
  <1>1. /\ subscription.state = "answered" /\ batch \in Seq(Nat) /\ batch # <<>>
        /\ received' = received \union {e} /\ last_event_id' = e
        /\ subscription' = [state |-> IF Len(batch) = 1 THEN "reading" ELSE "answered",
                            cursor |-> e, batch |-> rest]
        /\ UNCHANGED <<committed, entries, oldest, announced, overrun, unread>>
        /\ Total' = Total
    BY <1>0 DEF SendEntry, gatewayVars, streamVars, Total, BatchInv, RealtimeTypeOK
  <1>2. /\ Len(batch) \in Nat \ {0} /\ e = batch[1] /\ DOMAIN batch = 1..Len(batch)
        /\ \A i \in 1..Len(batch) : batch[i] = e + (i - 1)
    <2>1. Len(batch) \in Nat \ {0} /\ e = batch[1] /\ DOMAIN batch = 1..Len(batch)
      BY <1>0, <1>1
    <2>2. QED
      BY <1>0, <2>1 DEF BatchInv
  <1>3. /\ e \in 1..Total /\ batch[Len(batch)] \in 1..Total
        /\ \A f \in 1..Total : f < e => f \in Accounted
    BY <1>0, <1>1, <1>2 DEF BatchInv, SentUpTo
  <1>4. /\ rest \in Seq(Nat) /\ Len(rest) = Len(batch) - 1
        /\ \A i \in 1..Len(rest) : rest[i] = batch[i + 1]
    <2>1. rest = SubSeq(batch, 2, Len(batch)) /\ batch \in Seq(Nat)
      BY <1>0, <1>1
    <2>2. Len(batch) \in Nat \ {0} /\ \A i \in 2..Len(batch) : batch[i] \in Nat
      BY <1>1, <1>2
    <2>3. rest \in Seq(Nat)
      BY <2>1, <2>2
    <2>4. Len(rest) = Len(batch) - 1
      <3>1. PICK k \in Nat : k = Len(batch)
        BY <2>2
      <3>2. CASE k = 1
        <4>1. SubSeq(batch, 2, 1) = <<>>
          BY <2>1
        <4>2. QED
          BY <2>1, <3>1, <3>2, <4>1
      <3>3. CASE k >= 2
        BY <2>1, <3>1, <3>3
      <3>4. k = 1 \/ k >= 2
        BY <2>2, <3>1
      <3>5. QED
        BY <3>2, <3>3, <3>4
    <2>5. \A i \in 1..Len(rest) : rest[i] = batch[i + 1]
      BY <2>1, <2>2, <2>4
    <2>6. QED
      BY <2>3, <2>4, <2>5
  <1>5. Total \in Nat
    BY DEF Total, RealtimeTypeOK
  <1>6. Accounted \subseteq Accounted' /\ e \in Accounted'
    BY <1>1 DEF Accounted
  <1>7. \A f \in 1..Total : f <= e => f \in Accounted'
    <2>1. \A f \in 1..Total : f <= e => f < e \/ f = e
      BY <1>3, <1>5
    <2>2. QED
      BY <1>3, <1>6, <2>1
  <1>8. /\ subscription'.cursor = e /\ subscription'.batch = rest
        /\ subscription'.state = IF Len(batch) = 1 THEN "reading" ELSE "answered"
        /\ e # Now
    BY <1>1, <1>3, <1>5 DEF Now
  <1>9. RealtimeTypeOK'
    <2>1. subscription' \in [state : Place, cursor : Nat, batch : Seq(Nat)]
      BY <1>1, <1>3, <1>4, <1>5 DEF Place
    <2>2. last_event_id' \in 0..Total' /\ received' \subseteq Nat
      BY <1>1, <1>3, <1>5 DEF RealtimeTypeOK
    <2>3. QED
      BY <1>1, <2>1, <2>2 DEF RealtimeTypeOK
  <1>10. FromNowInv'
    BY <1>8 DEF FromNowInv
  <1>11. CursorInv'
    <2>1. 1..e \subseteq Accounted'
      BY <1>3, <1>5, <1>7
    <2>2. QED
      BY <1>1, <1>8, <2>1 DEF CursorInv
  <1>12. SentUpTo(subscription)' = batch[Len(batch)]
    <2>1. CASE Len(batch) = 1
      <3>1. rest = <<>>
        BY <1>4, <2>1
      <3>2. QED
        BY <1>2, <1>8, <2>1, <3>1 DEF SentUpTo
    <2>2. CASE Len(batch) # 1
      <3>1. rest # <<>> /\ Len(rest) \in 1..Len(rest) /\ Len(rest) + 1 = Len(batch)
        BY <1>2, <1>4, <2>2
      <3>2. rest[Len(rest)] = batch[Len(batch)]
        BY <1>4, <3>1
      <3>3. QED
        BY <1>8, <3>1, <3>2 DEF SentUpTo
    <2>3. QED
      BY <2>1, <2>2
  <1>13. BatchInv'
    <2>1. CASE Len(batch) = 1
      <3>1. rest = <<>>
        BY <1>4, <2>1
      <3>2. DOMAIN rest = {}
        BY <3>1
      <3>3. QED
        BY <1>8, <2>1, <3>1, <3>2 DEF BatchInv
    <2>2. CASE Len(batch) # 1
      <3>1. rest # <<>> /\ DOMAIN rest = 1..Len(rest) /\ 1 \in 1..Len(rest)
        BY <1>2, <1>4, <2>2
      <3>2. rest[1] = e + 1
        <4>1. 2 \in 1..Len(batch) /\ 1 + 1 = 2 /\ 2 - 1 = 1
          BY <1>2, <2>2
        <4>2. batch[2] = e + 1
          BY <1>2, <4>1
        <4>3. QED
          BY <1>4, <3>1, <4>1, <4>2
      <3>3. ASSUME NEW i \in 1..Len(rest)
            PROVE  rest[i] = rest[1] + (i - 1)
        <4>1. i + 1 \in 1..Len(batch) /\ i \in Nat
          BY <1>2, <1>4, <3>3
        <4>2. batch[i + 1] = e + ((i + 1) - 1)
          BY <1>2, <4>1
        <4>3. e \in Nat
          BY <1>3
        <4>4. e + ((i + 1) - 1) = (e + 1) + (i - 1)
          BY <4>1, <4>3
        <4>5. QED
          BY <1>4, <3>2, <4>2, <4>4
      <3>4. e + 1 \in 1..Total
        <4>1. batch[Len(batch)] = e + (Len(batch) - 1) /\ Len(batch) >= 2
          BY <1>2, <2>2
        <4>2. QED
          BY <1>2, <1>3, <1>5, <4>1
      <3>5. \A f \in 1..Total : f < e + 1 => f \in Accounted'
        BY <1>3, <1>5, <1>7
      <3>6. QED
        BY <1>1, <1>3, <1>8, <1>12, <2>2, <3>1, <3>2, <3>3, <3>4, <3>5 DEF BatchInv
    <2>3. QED
      BY <2>1, <2>2
  <1>14. OverrunInv'
    <2>1. SUFFICES ASSUME NEW f \in 1..Total, f < oldest, f > batch[Len(batch)]
                   PROVE  f \in Accounted'
      BY <1>1, <1>12 DEF OverrunInv
    <2>2. SentUpTo(subscription) = batch[Len(batch)] /\ batch[Len(batch)] # Now
      BY <1>0, <1>1, <1>3, <1>5 DEF SentUpTo, Now
    <2>3. QED
      BY <1>1, <1>6, <2>1, <2>2 DEF OverrunInv
  <1>15. QED
    BY <1>9, <1>10, <1>11, <1>13, <1>14

LEMMA DisconnectKeeps == ASSUME RealtimeIInv, Disconnect PROVE RealtimeIInv'
  <1> USE DEF RealtimeIInv
  <1>1. /\ subscription' = [state |-> "away", cursor |-> last_event_id, batch |-> <<>>]
        /\ unread' = IF last_event_id = Now THEN 1..Total ELSE unread
        /\ UNCHANGED <<committed, entries, oldest, last_event_id, received, announced, overrun>>
        /\ Total' = Total
    BY DEF Disconnect, Away, gatewayVars, streamVars, clientVars, Total
  <1>2. unread \subseteq unread' /\ unread' \subseteq 1..Total
    BY <1>1 DEF RealtimeTypeOK
  <1>3. Accounted \subseteq Accounted'
    BY <1>1, <1>2 DEF Accounted
  <1>4. RealtimeTypeOK'
    <2>1. subscription' \in [state : Place, cursor : Nat, batch : Seq(Nat)]
      BY <1>1 DEF RealtimeTypeOK, Place
    <2>2. QED
      BY <1>1, <1>2, <2>1 DEF RealtimeTypeOK
  <1>5. FromNowInv'
    BY <1>1 DEF FromNowInv, Accounted
  <1>6. CursorInv'
    BY <1>1, <1>3 DEF CursorInv
  <1>7. BatchInv' /\ OverrunInv'
    BY <1>1 DEF BatchInv, OverrunInv
  <1>8. QED
    BY <1>4, <1>5, <1>6, <1>7

LEMMA RealtimeInitially == ASSUME RealtimeInit PROVE RealtimeIInv
  <1>1. /\ entries = <<>> /\ Total = 0 /\ oldest = 1 /\ committed = 0
        /\ subscription = [state |-> "away", cursor |-> 0, batch |-> <<>>]
        /\ last_event_id = 0 /\ received = {} /\ announced = {} /\ overrun = {} /\ unread = {}
    BY DEF RealtimeInit, Total, Away, Now
  <1>2. subscription \in [state : Place, cursor : Nat, batch : Seq(Nat)]
    BY <1>1 DEF Place
  <1>3. RealtimeTypeOK
    BY <1>1, <1>2 DEF RealtimeTypeOK
  <1>4. FromNowInv /\ CursorInv
    BY <1>1 DEF FromNowInv, CursorInv
  <1>5. BatchInv /\ OverrunInv
    BY <1>1 DEF BatchInv, OverrunInv
  <1>6. QED
    BY <1>3, <1>4, <1>5 DEF RealtimeIInv

LEMMA RealtimeStep == ASSUME RealtimeIInv, [RealtimeNext]_realtimeVars PROVE RealtimeIInv'
  <1>1. CASE RealtimeNext
    BY <1>1, PublishAlertKeeps, GatewayKeeps, SubscribeKeeps, ReadStreamKeeps, HeartbeatKeeps,
       SendEntryKeeps, DisconnectKeeps DEF RealtimeNext
  <1>2. CASE UNCHANGED realtimeVars
    BY <1>2 DEF realtimeVars, gatewayVars, streamVars, clientVars, RealtimeIInv, RealtimeTypeOK,
                Total, FromNowInv, CursorInv, BatchInv, OverrunInv, Accounted, SentUpTo
  <1>3. QED
    BY <1>1, <1>2

(* No gap is silent but those the stream and its blocking read make: an    *)
(* entry a client passed over was announced by a reset, was trimmed under  *)
(* its open subscription, or came between two reads from "now", for any    *)
(* length of stream and of read, and any disconnections and restarts.      *)
THEOREM SilentGapTheorem == RealtimeSpec => []SilentGapNeedsAnOverrun
  <1>1. RealtimeIInv => SilentGapNeedsAnOverrun
    BY DEF RealtimeIInv, CursorInv, Accounted, SilentGapNeedsAnOverrun
  <1>2. QED
    BY <1>1, RealtimeInitially, RealtimeStep, PTL DEF RealtimeSpec

-----------------------------------------------------------------------------
(***************************************************************************)
(* Rate limiter, for any hosts, clocks, capacity and refill. The balance   *)
(* of an interval - what was admitted in it and what the bucket still      *)
(* holds - grows by no more than the refill for the time between the last  *)
(* request before it and the last one in it, each by the clock of its      *)
(* host. A bucket that Redis forgets must have been full for this to hold  *)
(* across the gap: ForgettingIsSafe.                                       *)
(***************************************************************************)

Bucket == [tokens : Int, last_refill : Int]

BucketTypeOK ==
  /\ wall \in 0..MaxWall /\ expires \in Int
  /\ bucket \in Bucket \union {Missing}
  /\ admitted \in [0..MaxWall -> Nat]

\* What the bucket admitted since the tick s began.
Since(s) == admitted[wall] - AdmittedBefore(s)

\* A bucket never holds more than its capacity, and no request is to come
\* from before its last one.
HeldInv == bucket # Missing =>
  /\ bucket.tokens <= Capacity
  /\ bucket.last_refill <= wall /\ expires - TimeToLive <= wall

\* What was admitted since a tick, and what the bucket still holds, is what a
\* full bucket and the refill up to its last request allow; a bucket that was
\* forgotten has already refilled all that it admitted.
BalanceInv == \A s \in 0..wall :
  /\ Since(s) <= Capacity + Refill * (wall - s + MaxSkew)
  /\ Since(s) # 0 => IF bucket = Missing THEN Since(s) <= Refill * (wall - s)
                     ELSE /\ Since(s) + bucket.tokens <=
                               Capacity + Refill * (bucket.last_refill - s + MaxSkew)
                          /\ Since(s) <= Capacity + Refill * ((expires - TimeToLive) - s + MaxSkew)

BucketIInv == BucketTypeOK /\ HeldInv /\ (ForgettingIsSafe => BalanceInv) /\ AdmissionIsBounded

LEMMA Constants ==
  /\ Capacity \in Nat \ {0} /\ Refill \in Nat \ {0} /\ MaxSkew \in Nat /\ MaxWall \in Nat
  /\ \A h \in Host : Lag[h] \in 0..MaxSkew
  /\ TimeToLive \in Nat \ {0}
  <1>1. (2 * Capacity) \div Refill \in Int
    BY RateLimiterAssumption
  <1>2. QED
    BY <1>1, RateLimiterAssumption DEF TimeToLive, Upper

\* Refilling takes its time.
LEMMA RefillAdds ==
  ASSUME NEW x \in Int, NEW y \in Int
  PROVE  /\ Refill * x \in Int
         /\ Refill * (x + y) = Refill * x + Refill * y
         /\ x <= y => Refill * x <= Refill * y
  <1>1. Refill \in Nat
    BY Constants
  <1>2. Refill * x \in Int /\ Refill * (x + y) = Refill * x + Refill * y
    BY <1>1
  <1>3. x <= y => Refill * x <= Refill * y
    BY <1>1
  <1>4. QED
    BY <1>2, <1>3

\* The balance of one interval across a request, in tokens: A admitted so
\* far, q the tokens the request finds, of the bucket p that was there.
LEMMA BalanceOfRequest ==
  ASSUME NEW A \in Int, NEW s \in Nat, NEW now \in Int, s <= wall, wall \in Nat,
         now <= wall, wall - MaxSkew <= now,
         NEW q \in Int, q <= Capacity,
         A <= Capacity + Refill * (wall - s + MaxSkew),
         A # 0 => A + q <= Capacity + Refill * (now - s + MaxSkew)
  PROVE  /\ q >= 1 => A + 1 <= Capacity + Refill * (wall - s + MaxSkew)
         /\ q >= 1 => (A + 1) + (q - 1) <= Capacity + Refill * (now - s + MaxSkew)
  <1>1. Capacity \in Nat /\ MaxSkew \in Nat
    BY Constants
  <1>2. /\ Refill * (now - s + MaxSkew) \in Int /\ Refill * (wall - s + MaxSkew) \in Int
        /\ Refill * 0 <= Refill * (now - s + MaxSkew)
        /\ Refill * (now - s + MaxSkew) <= Refill * (wall - s + MaxSkew)
    <2>1. now - s + MaxSkew \in Int /\ wall - s + MaxSkew \in Int
      BY <1>1
    <2>2. 0 <= now - s + MaxSkew /\ now - s + MaxSkew <= wall - s + MaxSkew
      BY <1>1
    <2>3. PICK x \in Int, y \in Int : x = now - s + MaxSkew /\ y = wall - s + MaxSkew
      BY <2>1
    <2>4. 0 <= x /\ x <= y
      BY <2>2, <2>3
    <2>5. Refill * x \in Int /\ Refill * y \in Int /\ Refill * 0 <= Refill * x /\ Refill * x <= Refill * y
      <3>1. 0 \in Int /\ (0 <= x => Refill * 0 <= Refill * x)
        BY RefillAdds
      <3>2. Refill * x \in Int /\ (x <= y => Refill * x <= Refill * y)
        BY RefillAdds
      <3>3. Refill * y \in Int
        BY RefillAdds
      <3>4. QED
        BY <2>4, <3>1, <3>2, <3>3
    <2>6. QED
      BY <2>3, <2>5
  <1>3. Refill * 0 = 0
    BY Constants
  <1>4. A + q <= Capacity + Refill * (now - s + MaxSkew)
    <2>1. CASE A = 0
      BY <1>1, <1>2, <1>3, <2>1
    <2>2. CASE A # 0
      BY <2>2
    <2>3. QED
      BY <2>1, <2>2
  <1>5. q >= 1 => A + 1 <= Capacity + Refill * (wall - s + MaxSkew)
    BY <1>1, <1>2, <1>4
  <1>6. (A + 1) + (q - 1) = A + q
    OBVIOUS
  <1>7. QED
    BY <1>4, <1>5, <1>6

LEMMA DispatchKeeps ==
  ASSUME BucketIInv, NEW h \in Host, Dispatch(h)
  PROVE  BucketIInv'
  <1> USE DEF BucketIInv
  <1>0. PICK now, q : now = wall - Lag[h] /\ q = Refilled(now)
    OBVIOUS
  <1>1. /\ bucket' = [tokens |-> IF q >= 1 THEN q - 1 ELSE q, last_refill |-> now]
        /\ expires' = wall + TimeToLive /\ wall' = wall
        /\ admitted' = IF q >= 1 THEN [admitted EXCEPT ![wall] = @ + 1] ELSE admitted
    BY <1>0 DEF Dispatch, AfterRequest
  <1>2. wall \in 0..MaxWall /\ wall \in Nat /\ MaxWall \in Nat /\ TimeToLive \in Nat
    BY Constants DEF BucketTypeOK
  <1>3. now \in Int /\ now <= wall /\ wall - MaxSkew <= now
    BY <1>0, <1>2, Constants
  <1>4. /\ Capacity \in Nat /\ Refill \in Nat /\ MaxSkew \in Nat
        /\ bucket # Missing => bucket \in Bucket /\ bucket.tokens \in Int /\ bucket.last_refill \in Int
    BY Constants DEF BucketTypeOK, Bucket
  <1>5. /\ q \in Int /\ q <= Capacity
        /\ bucket = Missing => q = Capacity
        /\ bucket # Missing => q <= bucket.tokens + (now - bucket.last_refill) * Refill
    <2>1. CASE bucket = Missing
      BY <1>0, <1>4, <2>1 DEF Refilled
    <2>2. CASE bucket # Missing
      <3>1. PICK m \in Int : m = bucket.tokens + (now - bucket.last_refill) * Refill
        BY <1>3, <1>4, <2>2
      <3>2. q = Lower(Capacity, m)
        BY <1>0, <2>2, <3>1 DEF Refilled
      <3>3. q \in Int /\ q <= Capacity /\ q <= m
        BY <1>4, <3>2 DEF Lower
      <3>4. QED
        BY <2>2, <3>1, <3>3
    <2>3. QED
      BY <2>1, <2>2
  <1>6. /\ bucket' \in Bucket /\ bucket' # Missing /\ bucket'.last_refill = now
        /\ bucket'.tokens = IF q >= 1 THEN q - 1 ELSE q
    <2>1. bucket' \in Bucket
      BY <1>1, <1>3, <1>5 DEF Bucket
    <2>2. QED
      BY <1>1, <2>1, RateLimiterAssumption DEF Bucket
  <1>7. /\ admitted' \in [0..MaxWall -> Nat]
        /\ admitted'[wall] = IF q >= 1 THEN admitted[wall] + 1 ELSE admitted[wall]
        /\ \A t \in 0..MaxWall : admitted[t] \in Nat /\ (t # wall => admitted'[t] = admitted[t])
    BY <1>1, <1>2 DEF BucketTypeOK
  <1>8. expires' \in Int /\ expires' - TimeToLive = wall
    BY <1>1, <1>2
  <1>9. BucketTypeOK'
    BY <1>1, <1>2, <1>6, <1>7, <1>8 DEF BucketTypeOK
  <1>10. HeldInv'
    <2>1. bucket'.tokens <= Capacity
      BY <1>4, <1>5, <1>6
    <2>2. QED
      BY <1>1, <1>2, <1>3, <1>6, <1>8, <2>1 DEF HeldInv
  <1>11. ASSUME NEW s \in 0..wall
         PROVE  /\ AdmittedBefore(s)' = AdmittedBefore(s) /\ AdmittedBefore(s) \in Nat
                /\ Since(s) \in Int /\ Since(s)' = IF q >= 1 THEN Since(s) + 1 ELSE Since(s)
    <2>1. AdmittedBefore(s)' = AdmittedBefore(s) /\ AdmittedBefore(s) \in Nat
      <3>1. CASE s = 0
        BY <3>1 DEF AdmittedBefore
      <3>2. CASE s # 0
        <4>1. s - 1 \in 0..MaxWall /\ s - 1 # wall
          BY <1>2, <3>2
        <4>2. QED
          BY <1>7, <3>2, <4>1 DEF AdmittedBefore
      <3>3. QED
        BY <3>1, <3>2
    <2>2. PICK b \in Nat, a \in Nat : b = AdmittedBefore(s) /\ a = admitted[wall]
      BY <1>2, <1>7, <2>1
    <2>3. Since(s) = a - b /\ Since(s)' = IF q >= 1 THEN a + 1 - b ELSE a - b
      BY <1>1, <1>7, <2>1, <2>2 DEF Since
    <2>4. QED
      BY <2>1, <2>3
  <1>12. ASSUME ForgettingIsSafe, NEW s \in 0..wall
         PROVE  /\ Since(s)' <= Capacity + Refill * (wall - s + MaxSkew)
                /\ Since(s)' # 0 =>
                     Since(s)' + bucket'.tokens <= Capacity + Refill * (now - s + MaxSkew)
    <2>1. PICK A \in Int : A = Since(s)
      BY <1>11
    <2>2. s \in Nat /\ s <= wall
      BY <1>2
    <2>3. A <= Capacity + Refill * (wall - s + MaxSkew)
      BY <1>12, <2>1 DEF BalanceInv
    <2>4. A # 0 => A + q <= Capacity + Refill * (now - s + MaxSkew)
      <3>1. CASE bucket = Missing
        <4>1. A # 0 => A <= Refill * (wall - s)
          BY <1>12, <2>1, <3>1 DEF BalanceInv
        <4>2. PICK x \in Int, y \in Int : x = wall - s /\ y = now - s + MaxSkew
          BY <1>2, <1>3, <1>4, <2>2
        <4>3. x <= y
          BY <1>2, <1>3, <1>4, <2>2, <4>2
        <4>4. Refill * x <= Refill * y /\ Refill * x \in Int /\ Refill * y \in Int
          BY <4>3, RefillAdds
        <4>5. A # 0 => A + q <= Capacity + Refill * y
          BY <1>4, <1>5, <3>1, <4>1, <4>2, <4>4
        <4>6. QED
          BY <4>2, <4>5
      <3>2. CASE bucket # Missing
        <4>1. A # 0 => A + bucket.tokens <= Capacity + Refill * (bucket.last_refill - s + MaxSkew)
          BY <1>12, <2>1, <3>2 DEF BalanceInv
        <4>2. PICK x \in Int, y \in Int, p \in Int :
                /\ x = bucket.last_refill - s + MaxSkew /\ y = now - bucket.last_refill
                /\ p = bucket.tokens
          BY <1>3, <1>4, <2>2, <3>2
        <4>3. x + y = now - s + MaxSkew
          BY <1>3, <1>4, <2>2, <3>2, <4>2
        <4>4. Refill * (x + y) = Refill * x + Refill * y /\ Refill * x \in Int /\ Refill * y \in Int
          BY RefillAdds
        <4>5. q <= p + Refill * y
          <5>1. y * Refill = Refill * y
            BY <1>4
          <5>2. q <= p + y * Refill
            BY <1>5, <3>2, <4>2
          <5>3. QED
            BY <5>1, <5>2
        <4>6. A # 0 => A + p <= Capacity + Refill * x
          BY <4>1, <4>2
        <4>7. A # 0 => A + q <= Capacity + Refill * (x + y)
          BY <1>4, <1>5, <4>4, <4>5, <4>6
        <4>8. QED
          BY <4>3, <4>7
      <3>3. QED
        BY <3>1, <3>2
    <2>5. /\ q >= 1 => A + 1 <= Capacity + Refill * (wall - s + MaxSkew)
          /\ q >= 1 => (A + 1) + (q - 1) <= Capacity + Refill * (now - s + MaxSkew)
      BY <1>2, <1>3, <1>5, <2>2, <2>3, <2>4, BalanceOfRequest
    <2>6. Since(s)' = IF q >= 1 THEN A + 1 ELSE A
      BY <1>11, <2>1
    <2>7. CASE q >= 1
      BY <1>6, <2>5, <2>6, <2>7
    <2>8. CASE ~(q >= 1)
      BY <1>6, <2>3, <2>4, <2>6, <2>8
    <2>9. QED
      BY <2>7, <2>8
  <1>13. ForgettingIsSafe => BalanceInv'
    BY <1>1, <1>6, <1>8, <1>12 DEF BalanceInv
  <1>14. AdmissionIsBounded'
    <2>1. SUFFICES ASSUME ForgettingIsSafe, NEW s \in 0..wall, NEW t \in s..wall
                   PROVE  admitted'[t] - AdmittedBefore(s)' <= Capacity + Refill * (t - s + MaxSkew)
      BY <1>1 DEF AdmissionIsBounded
    <2>2. CASE t = wall
      BY <1>1, <1>12, <2>1, <2>2 DEF Since
    <2>3. CASE t # wall
      <3>1. t \in 0..MaxWall
        BY <1>2
      <3>2. QED
        BY <1>7, <1>11, <2>1, <2>3, <3>1 DEF AdmissionIsBounded
    <2>4. QED
      BY <2>2, <2>3
  <1>15. QED
    BY <1>9, <1>10, <1>13, <1>14

LEMMA TickKeeps ==
  ASSUME BucketIInv, Tick
  PROVE  BucketIInv'
  <1> USE DEF BucketIInv
  <1>1. /\ wall < MaxWall /\ wall' = wall + 1 /\ expires' = expires
        /\ bucket' = IF wall' >= expires THEN Missing ELSE bucket
        /\ admitted' = [admitted EXCEPT ![wall'] = admitted[wall]]
    BY DEF Tick
  <1>2. /\ wall \in Nat /\ MaxWall \in Nat /\ wall \in 0..MaxWall /\ wall' \in 0..MaxWall
        /\ wall' # wall /\ expires \in Int /\ TimeToLive \in Nat
        /\ Capacity \in Nat /\ Refill \in Nat /\ MaxSkew \in Nat
    BY <1>1, Constants DEF BucketTypeOK
  <1>3. /\ admitted' \in [0..MaxWall -> Nat] /\ admitted'[wall'] = admitted[wall]
        /\ \A t \in 0..wall : t \in 0..MaxWall /\ admitted[t] \in Nat /\ admitted'[t] = admitted[t]
    BY <1>1, <1>2 DEF BucketTypeOK
  <1>4. BucketTypeOK'
    BY <1>1, <1>2, <1>3 DEF BucketTypeOK
  <1>5. HeldInv'
    BY <1>1, <1>2 DEF HeldInv, BucketTypeOK, Bucket
  <1>6. ASSUME NEW s \in 0..wall'
        PROVE  /\ AdmittedBefore(s)' = IF s = wall' THEN admitted[wall] ELSE AdmittedBefore(s)
               /\ AdmittedBefore(s)' \in Nat
    <2>1. CASE s = 0
      BY <1>1, <1>2, <2>1 DEF AdmittedBefore
    <2>2. CASE s # 0
      <3>1. s - 1 \in 0..wall /\ (s = wall' => s - 1 = wall)
        BY <1>1, <1>2, <2>2
      <3>2. QED
        BY <1>3, <2>2, <3>1 DEF AdmittedBefore
    <2>3. QED
      BY <2>1, <2>2
  <1>7. ASSUME NEW s \in 0..wall'
        PROVE  /\ Since(s)' \in Int
               /\ s = wall' => Since(s)' = 0
               /\ s # wall' => s \in 0..wall /\ Since(s)' = Since(s)
    <2>1. admitted[wall] \in Nat
      BY <1>2, <1>3
    <2>2. Since(s)' = admitted[wall] - AdmittedBefore(s)'
      BY <1>3 DEF Since
    <2>3. CASE s = wall'
      BY <1>6, <2>1, <2>2, <2>3
    <2>4. CASE s # wall'
      <3>1. s \in 0..wall
        BY <1>1, <1>2, <2>4
      <3>2. QED
        BY <1>6, <2>1, <2>2, <2>4, <3>1 DEF Since
    <2>5. QED
      BY <2>3, <2>4
  <1>8. ASSUME ForgettingIsSafe, NEW s \in 0..wall, Since(s) \in Int
        PROVE  /\ Since(s) <= Capacity + Refill * (wall' - s + MaxSkew)
               /\ (Since(s) # 0 /\ bucket = Missing) => Since(s) <= Refill * (wall' - s)
               /\ (Since(s) # 0 /\ wall' >= expires) => Since(s) <= Refill * (wall' - s)
    <2>1. PICK A \in Int : A = Since(s)
      BY <1>8
    <2>2. A <= Capacity + Refill * (wall' - s + MaxSkew)
      <3>1. PICK x \in Int, y \in Int : x = wall - s + MaxSkew /\ y = wall' - s + MaxSkew
        BY <1>1, <1>2
      <3>2. x <= y
        BY <1>1, <1>2, <3>1
      <3>3. Refill * x \in Int /\ Refill * y \in Int /\ Refill * x <= Refill * y
        BY <3>2, RefillAdds
      <3>4. A <= Capacity + Refill * x
        BY <1>8, <2>1, <3>1 DEF BalanceInv
      <3>5. A <= Capacity + Refill * y
        BY <1>2, <3>3, <3>4
      <3>6. QED
        BY <3>1, <3>5
    <2>3. (A # 0 /\ bucket = Missing) => A <= Refill * (wall' - s)
      <3>1. PICK x \in Int, y \in Int : x = wall - s /\ y = wall' - s
        BY <1>1, <1>2
      <3>2. x <= y
        BY <1>1, <1>2, <3>1
      <3>3. Refill * x \in Int /\ Refill * y \in Int /\ Refill * x <= Refill * y
        BY <3>2, RefillAdds
      <3>4. (A # 0 /\ bucket = Missing) => A <= Refill * x
        BY <1>8, <2>1, <3>1 DEF BalanceInv
      <3>5. (A # 0 /\ bucket = Missing) => A <= Refill * y
        BY <3>3, <3>4
      <3>6. QED
        BY <3>1, <3>5
    <2>4. (A # 0 /\ bucket # Missing /\ wall' >= expires) => A <= Refill * (wall' - s)
      <3>1. SUFFICES ASSUME A # 0, bucket # Missing, wall' >= expires
                     PROVE  A <= Refill * (wall' - s)
        OBVIOUS
      <3>2. A <= Capacity + Refill * ((expires - TimeToLive) - s + MaxSkew)
        BY <1>8, <2>1, <3>1 DEF BalanceInv
      <3>3. PICK x \in Int, k \in Int, l \in Int, y \in Int :
              /\ x = expires - TimeToLive - s /\ k = MaxSkew /\ l = TimeToLive /\ y = wall' - s
        BY <1>1, <1>2
      <3>4. x + k = (expires - TimeToLive) - s + MaxSkew /\ x + l <= y
        BY <1>1, <1>2, <3>1, <3>3
      <3>5. /\ Refill * (x + k) = Refill * x + Refill * k /\ Refill * x \in Int /\ Refill * k \in Int
            /\ Refill * (x + l) = Refill * x + Refill * l /\ Refill * l \in Int
            /\ Refill * (x + l) <= Refill * y /\ Refill * y \in Int
        <4>1. Refill * (x + k) = Refill * x + Refill * k /\ Refill * x \in Int /\ Refill * k \in Int
          BY RefillAdds
        <4>2. Refill * (x + l) = Refill * x + Refill * l /\ Refill * l \in Int
          BY RefillAdds
        <4>3. PICK m \in Int : m = x + l
          OBVIOUS
        <4>4. Refill * m <= Refill * y /\ Refill * y \in Int
          BY <3>4, <4>3, RefillAdds
        <4>5. QED
          BY <4>1, <4>2, <4>3, <4>4
      <3>6. Capacity + Refill * k <= Refill * l
        BY <1>8, <3>3 DEF ForgettingIsSafe
      <3>7. A <= Capacity + Refill * (x + k)
        BY <3>2, <3>4
      <3>8. A <= Refill * y
        BY <1>2, <3>5, <3>6, <3>7
      <3>9. QED
        BY <3>3, <3>8
    <2>5. QED
      BY <2>1, <2>2, <2>3, <2>4
  <1>9. ForgettingIsSafe => BalanceInv'
    <2>1. SUFFICES ASSUME ForgettingIsSafe, NEW s \in 0..wall'
                   PROVE  /\ Since(s)' <= Capacity + Refill * (wall' - s + MaxSkew)
                          /\ Since(s)' # 0 =>
                               IF bucket' = Missing THEN Since(s)' <= Refill * (wall' - s)
                               ELSE /\ Since(s)' + bucket'.tokens <=
                                         Capacity + Refill * (bucket'.last_refill - s + MaxSkew)
                                    /\ Since(s)' <=
                                         Capacity + Refill * ((expires - TimeToLive) - s + MaxSkew)
      BY <1>1 DEF BalanceInv
    <2>2. CASE s = wall'
      <3>1. Since(s)' = 0
        BY <1>7, <2>2
      <3>2. wall' - s + MaxSkew = MaxSkew
        <4>1. PICK w \in Nat : w = wall'
          BY <1>2
        <4>2. w - w + MaxSkew = MaxSkew
          BY <1>2
        <4>3. QED
          BY <2>2, <4>1, <4>2
      <3>3. 0 <= Refill * MaxSkew /\ Refill * MaxSkew \in Int
        BY <1>2
      <3>4. 0 <= Capacity + Refill * MaxSkew
        BY <1>2, <3>3
      <3>5. QED
        BY <3>1, <3>2, <3>4
    <2>3. CASE s # wall'
      <3>1. s \in 0..wall /\ Since(s)' = Since(s) /\ Since(s) \in Int
        BY <1>7, <2>3
      <3>2. CASE bucket' = Missing
        <4>1. bucket = Missing \/ wall' >= expires
          BY <1>1, <3>2
        <4>2. QED
          BY <1>8, <2>1, <3>1, <3>2, <4>1
      <3>3. CASE bucket' # Missing
        <4>1. bucket' = bucket
          BY <1>1, <3>3
        <4>2. QED
          BY <1>8, <2>1, <3>1, <3>3, <4>1 DEF BalanceInv
      <3>4. QED
        BY <3>2, <3>3
    <2>4. QED
      BY <2>2, <2>3
  <1>10. AdmissionIsBounded'
    <2>1. SUFFICES ASSUME ForgettingIsSafe, NEW s \in 0..wall', NEW t \in s..wall'
                   PROVE  admitted'[t] - AdmittedBefore(s)' <= Capacity + Refill * (t - s + MaxSkew)
      BY DEF AdmissionIsBounded
    <2>2. CASE t = wall'
      BY <1>9, <2>1, <2>2 DEF BalanceInv, Since
    <2>3. CASE t # wall'
      <3>1. t \in 0..wall /\ s \in 0..wall /\ t \in s..wall /\ s # wall'
        BY <1>1, <1>2, <2>3
      <3>2. AdmittedBefore(s)' = AdmittedBefore(s) /\ admitted'[t] = admitted[t]
        BY <1>3, <1>6, <3>1
      <3>3. QED
        BY <2>1, <3>1, <3>2 DEF AdmissionIsBounded
    <2>4. QED
      BY <2>2, <2>3
  <1>11. QED
    BY <1>4, <1>5, <1>9, <1>10

LEMMA BucketInitially == ASSUME BucketInit PROVE BucketIInv
  <1>1. /\ wall = 0 /\ bucket = Missing /\ expires = 0 /\ admitted = [t \in 0..MaxWall |-> 0]
        /\ 0 \in 0..MaxWall /\ Capacity \in Nat /\ Refill \in Nat /\ MaxSkew \in Nat
    BY Constants DEF BucketInit
  <1>2. BucketTypeOK /\ HeldInv
    BY <1>1 DEF BucketTypeOK, HeldInv
  <1>3. \A s \in 0..wall : \A t \in s..wall :
          /\ s = 0 /\ t = 0 /\ admitted[t] = 0 /\ AdmittedBefore(s) = 0
          /\ Since(s) = 0 /\ wall - s + MaxSkew = MaxSkew /\ t - s + MaxSkew = MaxSkew
    BY <1>1 DEF AdmittedBefore, Since
  <1>4. 0 <= Capacity + Refill * MaxSkew
    <2>1. Refill * MaxSkew \in Nat
      BY <1>1
    <2>2. QED
      BY <1>1, <2>1
  <1>5. BalanceInv
    <2>1. SUFFICES ASSUME NEW s \in 0..wall
                   PROVE  Since(s) = 0 /\ Since(s) <= Capacity + Refill * (wall - s + MaxSkew)
      BY DEF BalanceInv
    <2>2. s \in s..wall
      BY <1>1
    <2>3. QED
      BY <1>3, <1>4, <2>2
  <1>6. AdmissionIsBounded
    BY <1>3, <1>4 DEF AdmissionIsBounded
  <1>7. QED
    BY <1>2, <1>5, <1>6 DEF BucketIInv

LEMMA BucketStep == ASSUME BucketIInv, [BucketNext]_bucketVars PROVE BucketIInv'
  <1>1. CASE BucketNext
    BY <1>1, DispatchKeeps, TickKeeps DEF BucketNext
  <1>2. CASE UNCHANGED bucketVars
    BY <1>2 DEF bucketVars, BucketIInv, BucketTypeOK, HeldInv, BalanceInv, Since, AdmittedBefore,
                AdmissionIsBounded
  <1>3. QED
    BY <1>1, <1>2

(* In every interval the bucket admits no more than its capacity, the      *)
(* refill of the interval and what the clocks add, for any hosts, clocks,  *)
(* capacity and refill for which a forgotten bucket would have been full.  *)
THEOREM AdmissionIsBoundedTheorem == BucketSpec => []AdmissionIsBounded
  <1>1. BucketIInv => AdmissionIsBounded
    BY DEF BucketIInv
  <1>2. QED
    BY <1>1, BucketInitially, BucketStep, PTL DEF BucketSpec

-----------------------------------------------------------------------------
(***************************************************************************)
(* Governance of models, for any artifacts and approvers. What a           *)
(* promotion request has read is still so when it decides, unless another  *)
(* write came between.                                                     *)
(***************************************************************************)

\* What an undisturbed request has read is still so.
StillSo(e) ==
  LET request == evaluation[e] IN
  /\ request.step \in {"calibrated", "compared"} =>
       request.calibration = LatestOf(request.candidate)
  /\ request.step \in {"compared", "passed"} => request.champion = champion
  /\ request.step = "passed" => Improves(request.candidate)

GovernanceInv ==
  /\ evaluation = [e \in Approver |-> evaluation[e]]
  /\ \A e \in Approver \ disturbed : StillSo(e)

\* The request of one approver moves on; what the others have read is kept.
LEMMA OthersKept ==
  ASSUME GovernanceInv, NEW e \in Approver, NEW request,
         evaluation' = [evaluation EXCEPT ![e] = request],
         UNCHANGED <<calibrations, champion, drifted>>,
         disturbed \subseteq disturbed' \union {e},
         e \notin disturbed' => StillSo(e)'
  PROVE  GovernanceInv'
  <1>1. \A f \in Approver : f # e => evaluation'[f] = evaluation[f]
    BY DEF GovernanceInv
  <1>2. evaluation' = [f \in Approver |-> evaluation'[f]]
    BY DEF GovernanceInv
  <1>3. ASSUME NEW f \in Approver \ disturbed', f # e PROVE StillSo(f)'
    <2>1. StillSo(f)
      BY <1>3 DEF GovernanceInv
    <2>2. \A a : LatestOf(a)' = LatestOf(a)
      BY DEF LatestOf, Calibrated
    <2>3. \A a : Improves(a)' = Improves(a)
      BY <2>2 DEF Improves
    <2>4. QED
      BY <1>1, <1>3, <2>1, <2>2, <2>3 DEF StillSo
  <1>4. QED
    BY <1>2, <1>3 DEF GovernanceInv

\* A write disturbs every open request but the one that makes it.
LEMMA WriteDisturbs ==
  ASSUME GovernanceInv, NEW e, Disturb(e),
         \/ e \notin Approver /\ evaluation' = evaluation
         \/ e \in Approver /\ evaluation' = [evaluation EXCEPT ![e] = Closed]
  PROVE  GovernanceInv'
  <1>1. ASSUME NEW f \in Approver \ disturbed'
        PROVE  evaluation'[f] = Closed
    BY <1>1 DEF Disturb, GovernanceInv
  <1>2. \A f \in Approver \ disturbed' : StillSo(f)'
    BY <1>1 DEF StillSo, Closed
  <1>3. evaluation' = [f \in Approver |-> evaluation'[f]]
    BY DEF GovernanceInv
  <1>4. QED
    BY <1>2, <1>3 DEF GovernanceInv

LEMMA GovernanceStep ==
  ASSUME GovernanceInv, [GovernanceNext]_governanceVars PROVE GovernanceInv'
  <1> USE DEF registryVars, standingVars
  <1>1. ASSUME UNCHANGED <<calibrations, champion, drifted, evaluation, disturbed>>
        PROVE  GovernanceInv'
    <2>1. \A a : LatestOf(a)' = LatestOf(a)
      BY <1>1 DEF LatestOf, Calibrated
    <2>2. \A a : Improves(a)' = Improves(a)
      BY <1>1, <2>1 DEF Improves
    <2>3. \A e : StillSo(e)' = StillSo(e)
      BY <1>1, <2>1, <2>2 DEF StillSo
    <2>4. QED
      BY <1>1, <2>3 DEF GovernanceInv
  <1>2. CASE UNCHANGED governanceVars
    BY <1>1, <1>2 DEF governanceVars
  <1>3. ASSUME NEW a \in Artifact, RegisterArtifact(a) \/ CreateLabel(a)
        PROVE  GovernanceInv'
    BY <1>1, <1>3 DEF RegisterArtifact, CreateLabel
  <1>4. ASSUME NEW a \in Artifact,
               FitCalibration(a) \/ ReportDrift(a) \/ ReportFalsePositive(a) \/ AssignAlias(a)
        PROVE  GovernanceInv'
    <2>1. Disturb(Nobody) /\ evaluation' = evaluation
      BY <1>4 DEF FitCalibration, ReportDrift, ReportFalsePositive, AssignAlias, CrownedBy
    <2>2. QED
      BY <2>1, WriteDisturbs, ModelGovernanceAssumption
  <1>5. ASSUME NEW e \in Approver, StartEvaluation(e) PROVE GovernanceInv'
    <2>1. PICK a \in registered :
            evaluation' = [evaluation EXCEPT ![e] =
              [step |-> "calibrated", candidate |-> a, calibration |-> LatestOf(a)]]
      BY <1>5 DEF StartEvaluation
    <2>2. UNCHANGED <<calibrations, champion, drifted, disturbed>>
      BY <1>5 DEF StartEvaluation
    <2>3. evaluation'[e] = [step |-> "calibrated", candidate |-> a, calibration |-> LatestOf(a)]
      BY <2>1 DEF GovernanceInv
    <2>4. LatestOf(a)' = LatestOf(a)
      BY <2>2 DEF LatestOf, Calibrated
    <2>5. StillSo(e)'
      BY <2>3, <2>4 DEF StillSo
    <2>6. QED
      BY <2>1, <2>2, <2>5, OthersKept
  <1>6. ASSUME NEW e \in Approver, ReadChampion(e) PROVE GovernanceInv'
    <2> DEFINE r == evaluation[e]
               next == [step |-> "compared", candidate |-> r.candidate,
                        calibration |-> r.calibration, champion |-> champion]
    <2>1. r.step = "calibrated" /\ evaluation' = [evaluation EXCEPT ![e] = next]
      BY <1>6 DEF ReadChampion
    <2>2. UNCHANGED <<calibrations, champion, drifted, disturbed>>
      BY <1>6 DEF ReadChampion
    <2>3. evaluation'[e] = next
      BY <2>1 DEF GovernanceInv
    <2>4. \A a : LatestOf(a)' = LatestOf(a)
      BY <2>2 DEF LatestOf, Calibrated
    <2>5. ASSUME e \notin disturbed' PROVE StillSo(e)'
      <3>1. r.calibration = LatestOf(r.candidate)
        BY <2>1, <2>2, <2>5 DEF GovernanceInv, StillSo
      <3>2. QED
        BY <2>2, <2>3, <2>4, <3>1 DEF StillSo
    <2>6. QED
      BY <2>1, <2>2, <2>5, OthersKept
  <1>7. ASSUME NEW e \in Approver, ReadEvidence(e) PROVE GovernanceInv'
    <2> DEFINE r == evaluation[e]
               other == IF r.champion = Nobody THEN Nobody ELSE LatestOf(r.champion)
               next == [step |-> "passed", candidate |-> r.candidate, champion |-> r.champion]
    <2>1. UNCHANGED <<calibrations, champion, drifted>> /\ r.step = "compared"
      BY <1>7 DEF ReadEvidence
    <2>2. CASE Close(e)
      <3>1. /\ evaluation' = [evaluation EXCEPT ![e] = Closed]
            /\ disturbed' = disturbed \ {e}
        BY <2>2 DEF Close
      <3>2. StillSo(e)'
        BY <3>1 DEF StillSo, Closed, GovernanceInv
      <3>3. QED
        BY <2>1, <3>1, <3>2, OthersKept
    <2>3. CASE /\ ChecksPass(r, other) /\ disturbed' = disturbed
               /\ evaluation' = [evaluation EXCEPT ![e] = next]
      <3>1. evaluation'[e] = next
        BY <2>3 DEF GovernanceInv
      <3>2. \A a : LatestOf(a)' = LatestOf(a)
        BY <2>1 DEF LatestOf, Calibrated
      <3>3. \A a : Improves(a)' = Improves(a)
        BY <2>1, <3>2 DEF Improves
      <3>4. ASSUME e \notin disturbed' PROVE StillSo(e)'
        <4>1. r.calibration = LatestOf(r.candidate) /\ r.champion = champion
          BY <2>1, <2>3, <3>4 DEF GovernanceInv, StillSo
        <4>2. Improves(r.candidate)
          BY <2>3, <4>1 DEF ChecksPass, Improves
        <4>3. QED
          BY <2>1, <3>1, <3>3, <4>1, <4>2 DEF StillSo
      <3>5. QED
        BY <2>1, <2>3, <3>4, OthersKept
    <2>4. QED
      BY <1>7, <2>2, <2>3 DEF ReadEvidence
  <1>8. ASSUME NEW e \in Approver, Promote(e) PROVE GovernanceInv'
    <2>1. Disturb(e) /\ evaluation' = [evaluation EXCEPT ![e] = Closed]
      BY <1>8 DEF Promote, CrownedBy
    <2>2. evaluation'[e] = Closed
      BY <2>1 DEF GovernanceInv
    <2>3. QED
      BY <2>1, <2>2, WriteDisturbs
  <1>9. ASSUME NEW e \in Approver, EndEvaluation(e) PROVE GovernanceInv'
    <2>1. /\ evaluation' = [evaluation EXCEPT ![e] = Closed]
          /\ disturbed' = disturbed \ {e}
          /\ UNCHANGED <<calibrations, champion, drifted>>
      BY <1>9 DEF EndEvaluation, Close
    <2>2. StillSo(e)'
      BY <2>1 DEF StillSo, Closed, GovernanceInv
    <2>3. QED
      BY <2>1, <2>2, OthersKept
  <1>10. QED
    BY <1>2, <1>3, <1>4, <1>5, <1>6, <1>7, <1>8, <1>9 DEF GovernanceNext

LEMMA GovernanceInitially == ASSUME GovernanceInit PROVE GovernanceInv
  BY DEF GovernanceInit, GovernanceInv, StillSo, Closed

\* promote: an undisturbed request crowns its candidate, and the candidate is
\* no worse than the champion it replaces.
LEMMA PromoteImproves ==
  ASSUME GovernanceInv, NEW e \in Approver, Promote(e), e \notin disturbed
  PROVE  Improves(champion')
  <1>1. evaluation[e].step = "passed" /\ champion' = Crowned(evaluation[e])
    BY DEF Promote, CrownedBy
  <1>2. evaluation[e].champion = champion /\ Improves(evaluation[e].candidate)
    BY <1>1 DEF GovernanceInv, StillSo
  <1>3. champion' = evaluation[e].candidate
    BY <1>1, <1>2 DEF Crowned
  <1>4. QED
    BY <1>2, <1>3

LEMMA GovernanceInvTheorem == GovernanceSpec => []GovernanceInv
  <1>1. GovernanceInit => GovernanceInv
    BY GovernanceInitially
  <1>2. GovernanceInv /\ [GovernanceNext]_governanceVars => GovernanceInv'
    BY GovernanceStep
  <1>3. QED
    BY <1>1, <1>2, PTL DEF GovernanceSpec

\* The promotion request of the governance routes: without a write in between
\* it never makes the family worse.
THEOREM RegressionNeedsAnOverlapTheorem == GovernanceSpec => RegressionNeedsAnOverlap
  <1>1. GovernanceInv =>
          [\A e \in Approver : Promote(e) /\ e \notin disturbed => Improves(champion')]_governanceVars
    BY PromoteImproves
  <1>2. QED
    BY <1>1, GovernanceInvTheorem, PTL DEF RegressionNeedsAnOverlap
=============================================================================
