----------------------------- MODULE Verification -----------------------------
(***************************************************************************)
(* Official disclosures of one source policy and the verdicts drawn from   *)
(* them.  A connector worker polls the source, through the policy's        *)
(* circuit breaker and under the checkpoint of its previous run, and       *)
(* stores each document as a new version if its content changed.  A        *)
(* verification worker judges the claim of an alert by the versions that   *)
(* were available at the alert's time.                                     *)
(*                                                                         *)
(* The source is one that lists all its documents in one answer: an RSS or *)
(* Atom feed, or the releases of a GitHub repository.  SecEdgarConnector,  *)
(* which reads a bounded number of filings per run and keeps their numbers *)
(* (seen_keys) in its checkpoint beside the etag, is not modelled.         *)
(*                                                                         *)
(*   now, site    the time, and what the source serves                     *)
(*   public       (document, content, time) the source ever served         *)
(*   versions     disclosures: a sequence of versions per document         *)
(*   run          the policy's latest connector run and its checkpoint     *)
(*   completed    the latest run that was complete at a time               *)
(*   at, batch, unchanged, ingested, errors, transaction                   *)
(*                the worker in _run_policy (process memory)               *)
(*   breaker      the policy's circuit breaker (process memory)            *)
(*   verdicts     claim_verifications by alert time                        *)
(***************************************************************************)
EXTENDS Naturals, Sequences, FiniteSets

CONSTANTS Doc,
          MaxTime,           \* bound on the clock
          AlertTime,         \* times of the alerts whose claims are judged
          Staleness,         \* max_staleness_seconds
          FailureThreshold,  \* circuit_failure_threshold
          MaxTroubles,       \* bound on failures and crashes
          Nothing

Content == {"support", "conflict", "unrelated"}
Time == 0..MaxTime

ASSUME VerificationAssumption ==
  /\ MaxTime \in Nat
  /\ AlertTime \subseteq Time
  /\ Staleness \in Nat
  /\ FailureThreshold \in Nat \ {0}
  /\ Nothing \notin Content
  /\ Nothing \notin [doc : Doc, content : Content, available : Time]
  /\ Nothing \notin [revision : Nat, contents : [Doc -> Content \union {Nothing}]]

VARIABLES now, site, public, versions, run, completed, at, batch, ingested,
          errors, transaction, breaker, verdicts, troubles

tables == <<versions, run, completed, verdicts>>
memory == <<at, batch, ingested, errors, transaction, breaker>>
verificationVars == <<now, site, public, tables, memory, troubles>>

ClosedBreaker == [failures |-> 0, open |-> FALSE]

VerificationInit ==
  /\ now = 0
  /\ site = [d \in Doc |-> Nothing]
  /\ public = {}
  /\ versions = [d \in Doc |-> <<>>]
  /\ run = [status |-> "NEVER_RUN", etag |-> Nothing]
  /\ completed = [t \in Time |-> [status |-> "NEVER_RUN", when |-> 0]]
  /\ at = "idle" /\ batch = Nothing /\ ingested = 0 /\ errors = 0
  /\ transaction = Nothing
  /\ breaker = ClosedBreaker
  /\ verdicts = [t \in AlertTime |-> Nothing]
  /\ troubles = 0

TimePasses ==
  /\ now < MaxTime
  /\ now' = now + 1
  /\ UNCHANGED <<site, public, tables, memory, troubles>>

SourcePublishes ==
  /\ \E d \in Doc, c \in Content :
       /\ site[d] # c
       /\ ~\E p \in public : p.doc = d /\ p.since = now
       /\ site' = [site EXCEPT ![d] = c]
       /\ public' = public \union {[doc |-> d, content |-> c, since |-> now]}
  /\ UNCHANGED <<now, tables, memory, troubles>>
-----------------------------------------------------------------------------
(* _run_policy.  The new run starts from the checkpoint of the previous.   *)
StartRun ==
  /\ at = "idle"
  /\ run' = [run EXCEPT !.status = "RUNNING"]
  /\ at' = "fetch" /\ ingested' = 0 /\ errors' = 0
  /\ UNCHANGED <<now, site, public, versions, completed, verdicts, batch,
                 transaction, breaker, troubles>>

(* The source answers 304 to the etag of what it still serves, and else    *)
(* with all documents.  An etag is not given twice: it is a revision.      *)
Served == {d \in Doc : site[d] # Nothing}
Etag == [revision |-> Cardinality(public), contents |-> site]
FetchBatch ==
  /\ at = "fetch" /\ ~breaker.open
  /\ breaker' = ClosedBreaker
  /\ at' = "ingest"
  /\ batch' = [etag |-> Etag, left |-> IF run.etag = Etag THEN {} ELSE Served]
  /\ UNCHANGED <<now, site, public, tables, ingested, errors, transaction, troubles>>

(* The breaker counts a refusal with 429 like any other failure.           *)
FetchFails ==
  /\ at = "fetch" /\ ~breaker.open /\ troubles < MaxTroubles
  /\ troubles' = troubles + 1
  /\ breaker' = [failures |-> breaker.failures + 1,
                 open |-> breaker.failures + 1 >= FailureThreshold]
  /\ at' \in {"failed", "limited"}
  /\ UNCHANGED <<now, site, public, tables, batch, ingested, errors, transaction>>

FetchRefused ==
  /\ at = "fetch" /\ breaker.open
  /\ at' = "refused"
  /\ UNCHANGED <<now, site, public, tables, batch, ingested, errors, transaction,
                 breaker, troubles>>

(* After recovery_seconds one call is let through; the count of failures   *)
(* stays, so that its failure opens the circuit again.                     *)
NeverRecovers ==  \* mutant: the circuit stays open
  /\ breaker.open
  /\ UNCHANGED verificationVars
RecoveryElapses ==
  /\ breaker.open
  /\ breaker' = [breaker EXCEPT !.open = FALSE]
  /\ UNCHANGED <<now, site, public, tables, at, batch, ingested, errors,
                 transaction, troubles>>

Latest(d) == versions[d][Len(versions[d])]
IsUnchanged(d, c) == versions[d] # <<>> /\ Latest(d).content = c

(* persist_versioned_disclosure holds a lock on the document from reading  *)
(* its latest version to the commit; it samples ingested_at in between.    *)
BeginPersist ==
  /\ at = "ingest" /\ transaction = Nothing
  /\ \E d \in batch.left :
       /\ batch' = [batch EXCEPT !.left = @ \ {d}]
       /\ transaction' = IF IsUnchanged(d, batch.etag.contents[d]) THEN Nothing
                         ELSE [doc |-> d, content |-> batch.etag.contents[d],
                               available |-> now]
  /\ UNCHANGED <<now, site, public, tables, at, ingested, errors, breaker, troubles>>

SupersededNot(vs) ==  \* mutant: the old version stays current
  vs
Superseded(vs) == [k \in DOMAIN vs |-> [vs[k] EXCEPT !.status = "SUPERSEDED"]]
FirstObserved(x) ==  \* mutant: a new version is dated as the first
  [content |-> x.content, status |-> "CURRENT",
   available |-> IF versions[x.doc] = <<>> THEN x.available ELSE versions[x.doc][1].available]
NewVersion(x) == [content |-> x.content, available |-> x.available, status |-> "CURRENT"]
CommitPersist ==
  /\ transaction # Nothing
  /\ versions' = [versions EXCEPT ![transaction.doc] =
                    Append(Superseded(@), NewVersion(transaction))]
  /\ ingested' = ingested + 1
  /\ transaction' = Nothing
  /\ UNCHANGED <<now, site, public, run, completed, verdicts, at, batch, errors,
                 breaker, troubles>>

PersistFails ==
  /\ transaction # Nothing /\ troubles < MaxTroubles
  /\ troubles' = troubles + 1
  /\ errors' = errors + 1
  /\ transaction' = Nothing
  /\ UNCHANGED <<now, site, public, tables, at, batch, ingested, breaker>>

(* The checkpoint moves on only if every document of the batch was stored. *)
RunStatus ==
  CASE at = "failed" -> "FAILED"
    [] at = "limited" -> "RATE_LIMITED"
    [] at = "refused" -> "CIRCUIT_OPEN"
    [] at = "ingest" -> IF errors = 0 THEN "SUCCESS"
                        ELSE IF ingested > 0 THEN "PARTIAL" ELSE "FAILED"
NextCheckpoint == IF RunStatus = "SUCCESS" THEN batch.etag ELSE run.etag
FinishRun ==
  /\ \/ at \in {"failed", "limited", "refused"}
     \/ at = "ingest" /\ transaction = Nothing /\ batch.left = {}
  /\ run' = [status |-> RunStatus, etag |-> NextCheckpoint]
  /\ completed' = [t \in Time |-> IF t < now THEN completed[t]
                                  ELSE [status |-> RunStatus, when |-> now]]
  /\ at' = "idle" /\ batch' = Nothing /\ ingested' = 0 /\ errors' = 0
  /\ UNCHANGED <<now, site, public, versions, verdicts, transaction, breaker, troubles>>

(* The worker dies: its transaction is rolled back, its run stays RUNNING. *)
ConnectorCrashes ==
  /\ troubles < MaxTroubles
  /\ troubles' = troubles + 1
  /\ at' = "idle" /\ batch' = Nothing /\ ingested' = 0 /\ errors' = 0
  /\ transaction' = Nothing /\ breaker' = ClosedBreaker
  /\ UNCHANGED <<now, site, public, tables>>
-----------------------------------------------------------------------------
(* SqlVerificationRepository.candidates: of each document, the newest of   *)
(* the versions available at the alert, and every later version.           *)
NewestOfAll(d, t) ==  \* mutant: only the newest version of all is looked at
  {k \in DOMAIN versions[d] : versions[d][k].available <= t /\ k = Len(versions[d])}
NewestAvailable(d, t) ==
  {k \in DOMAIN versions[d] :
     /\ versions[d][k].available <= t
     /\ \A j \in DOMAIN versions[d] : versions[d][j].available <= t => j <= k}
Before(t) == UNION {{versions[d][k].content : k \in NewestAvailable(d, t)} : d \in Doc}
Future(t) == UNION {{versions[d][k].content :
                       k \in {j \in DOMAIN versions[d] : versions[d][j].available > t}} :
                    d \in Doc}
Matching == {"support", "conflict"}

(* SqlVerificationRepository.source_coverage of the one policy.            *)
Covered(t) == completed[t].status = "SUCCESS" /\ t - completed[t].when <= Staleness

Verdict(t) ==
  CASE "conflict" \in Before(t) -> "CONFLICTING"
    [] "conflict" \notin Before(t) /\ "support" \in Before(t) -> "SUPPORTED_BEFORE_ALERT"
    [] Before(t) \intersect Matching = {} ->
         IF Future(t) \intersect Matching # {} THEN "SUPPORTED_AFTER_ALERT"
         ELSE IF Covered(t) /\ Before(t) \union Future(t) # {} THEN "UNSUPPORTED"
         ELSE "UNKNOWN"

(* The verdict of an alert is stored once; a repeated event changes nothing. *)
Verify ==
  /\ \E t \in AlertTime :
       /\ t < now /\ verdicts[t] = Nothing
       /\ verdicts' = [verdicts EXCEPT ![t] =
            [result |-> Verdict(t),
             raced |-> transaction # Nothing /\ transaction.available <= t]]
  /\ UNCHANGED <<now, site, public, versions, run, completed, memory, troubles>>
-----------------------------------------------------------------------------
ConnectorWorks ==
  \/ StartRun \/ FetchBatch \/ FetchRefused \/ BeginPersist \/ CommitPersist \/ FinishRun

VerificationNext ==
  \/ TimePasses \/ SourcePublishes \/ ConnectorWorks \/ RecoveryElapses
  \/ FetchFails \/ PersistFails \/ ConnectorCrashes \/ Verify

(* The worker polls for ever, and the recovery window of a breaker ends.   *)
VerificationFairness ==
  WF_verificationVars(ConnectorWorks) /\ WF_verificationVars(RecoveryElapses)
VerificationSpec ==
  /\ VerificationInit /\ [][VerificationNext]_verificationVars
  /\ VerificationFairness
-----------------------------------------------------------------------------
(* The disclosure tables are a version history: nothing a failed run, a    *)
(* crash or a repeated batch does reorders, repeats or rewrites a version. *)
History == INSTANCE VersionHistory WITH
  history <- [d \in Doc |-> [k \in DOMAIN versions[d] |-> versions[d][k].content]],
  current <- [d \in Doc |-> {k \in DOMAIN versions[d] : versions[d][k].status = "CURRENT"}]
ImplementsHistory == History!Spec

(* What the checkpoint says was read is stored: after a run that lost some *)
(* of its documents the source is asked for all of them again.             *)
CheckpointIsStored ==
  run.etag # Nothing =>
    \A d \in Doc : run.etag.contents[d] # Nothing =>
      \E k \in DOMAIN versions[d] : versions[d][k].content = run.etag.contents[d]

(* The reasons of the two verdicts that rest on what came before the alert. *)
Grounds == [CONFLICTING |-> "conflict", SUPPORTED_BEFORE_ALERT |-> "support"]

(* A claim is supported before its alert only by a content the source had  *)
(* published by then, however late it was fetched, stored or superseded.   *)
NoHindsight ==
  \A t \in AlertTime :
    (verdicts[t] # Nothing /\ verdicts[t].result \in DOMAIN Grounds) =>
      \E p \in public : p.since <= t /\ p.content = Grounds[verdicts[t].result]

(* What the connector promises of what it stored, and when.                *)
DisclosuresInv == CheckpointIsStored /\ NoHindsight

(* Disclosures stored, amended or superseded after the alert do not change *)
(* what was known at it: judged again, a claim gets the verdict it has,    *)
(* unless a transaction that had sampled its time by the alert was still   *)
(* open when the claim was judged.                                         *)
VerdictsAreReproducible ==
  \A t \in AlertTime :
    /\ verdicts[t] # Nothing /\ ~verdicts[t].raced
    /\ {Verdict(t), verdicts[t].result} \intersect DOMAIN Grounds # {}
    => Verdict(t) = verdicts[t].result

(* A source that answers again is read again: once it stops changing, the  *)
(* current version of every document becomes what the source serves.       *)
SourceIsCaughtUp ==
  <>[](\A d \in Served : versions[d] # <<>> /\ Latest(d).content = site[d])
=============================================================================
