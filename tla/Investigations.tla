---------------------------- MODULE Investigations ----------------------------
(***************************************************************************)
(* The analysts' desk.  An investigation is updated under a row lock and   *)
(* only by a request that names the version it is based on.  A feedback    *)
(* and a policy proposal are decided by a request that checks, without a   *)
(* lock, that they are still pending.                                      *)
(*                                                                         *)
(*   case, trail    the row of an investigation (version 0: none) and its  *)
(*                  UPDATED events                                         *)
(*   seen           the investigation as an analyst last loaded it         *)
(*   review         a feedback or a proposal: its status, the decisions    *)
(*                  committed, and its rows in audit_logs                  *)
(*   deciding       an analyst's request has found the review pending      *)
(*   raced          two such requests were open at once                    *)
(***************************************************************************)
EXTENDS Naturals, Sequences

CONSTANTS Analyst,
          MaxUpdates,  \* bound on the updates of the investigation
          Unseen

CaseStatus == {"OPEN", "CLOSED"}
Priority == {"HIGH", "LOW"}
Decision == {"ACCEPTED", "REJECTED"}
ReviewKind == {"feedback", "proposal"}

ASSUME InvestigationsAssumption == MaxUpdates \in Nat

VARIABLES case, trail, seen, review, deciding, raced

deskVars == <<case, trail, seen, review, deciding, raced>>

DeskInit ==
  /\ case = [version |-> 0, status |-> "OPEN", priority |-> "LOW", closed_at |-> FALSE]
  /\ trail = <<>>
  /\ seen = [a \in Analyst |-> Unseen]
  /\ \E k \in ReviewKind :
       review = [kind |-> k, status |-> "PENDING", decisions |-> <<>>, audit |-> <<>>]
  /\ deciding = {}
  /\ raced = FALSE

OpenInvestigation ==
  /\ case.version = 0
  /\ \E p \in Priority : case' = [case EXCEPT !.version = 1, !.priority = p]
  /\ UNCHANGED <<trail, seen, review, deciding, raced>>

LoadInvestigation(a) ==
  /\ case.version > 0
  /\ seen' = [seen EXCEPT ![a] = case]
  /\ UNCHANGED <<case, trail, review, deciding, raced>>

(* A request changes the fields it names and leaves the others; closing    *)
(* sets closed_at, and a closed investigation may be opened again.         *)
Changed(row, status, priority) ==
  [version |-> row.version + 1, status |-> status, priority |-> priority,
   closed_at |-> row.closed_at \/ status = "CLOSED"]
VersionNotAhead(a) ==  \* mutant: an older version is accepted
  case.version >= seen[a].version
VersionMatches(a) == case.version = seen[a].version
UpdateInvestigation(a) ==
  /\ Len(trail) < MaxUpdates
  /\ seen[a] # Unseen /\ VersionMatches(a)
  /\ \E s \in CaseStatus, p \in Priority :
       /\ case' = Changed(case, s, p)
       /\ trail' = Append(trail, [based |-> seen[a], row |-> case'])
  /\ UNCHANGED <<seen, review, deciding, raced>>
-----------------------------------------------------------------------------
(* adjudicate_feedback, decide_policy_proposal: read the row ...           *)
NotAccepted ==  \* mutant: a rejected review may be decided again
  review.status # "ACCEPTED"
StillPending == review.status = "PENDING"
StartDeciding(a) ==
  /\ a \notin deciding
  /\ StillPending
  /\ deciding' = deciding \union {a}
  /\ raced' = (raced \/ deciding # {})
  /\ UNCHANGED <<case, trail, seen, review>>

(* ... and write the decision, whatever the row has become.  That of a     *)
(* proposal is recorded in the audit log; that of a feedback only in its   *)
(* row.                                                                    *)
Decide(a) ==
  /\ a \in deciding
  /\ \E d \in Decision :
       review' = [review EXCEPT
         !.status = d, !.decisions = Append(@, d),
         !.audit = IF review.kind = "proposal" THEN Append(@, d) ELSE @]
  /\ deciding' = deciding \ {a}
  /\ UNCHANGED <<case, trail, seen, raced>>

DeskNext ==
  \/ OpenInvestigation
  \/ \E a \in Analyst : \/ LoadInvestigation(a) \/ UpdateInvestigation(a)
                        \/ StartDeciding(a) \/ Decide(a)

DeskSpec == DeskInit /\ [][DeskNext]_deskVars
-----------------------------------------------------------------------------
(* No update is lost: whoever changed an investigation had seen every      *)
(* change made before, and the row is what the last of them made of it.    *)
NoUpdateIsLost ==
  /\ \A n \in DOMAIN trail :
       /\ trail[n].based.version = n
       /\ n > 1 => trail[n].based = trail[n - 1].row
  /\ trail # <<>> => case = trail[Len(trail)].row

(* A review is decided once.  Only requests that were open at the same     *)
(* time decide it twice; the last decision then stands.  The audit log has *)
(* both if it was a proposal, while of a feedback the first is gone.       *)
SecondDecisionNeedsARace ==
  /\ ~raced => Len(review.decisions) <= 1
  /\ review.decisions # <<>> => review.status = review.decisions[Len(review.decisions)]
  /\ review.kind = "proposal" => review.audit = review.decisions
=============================================================================
