------------------------------ MODULE ThreatFeed ------------------------------
(***************************************************************************)
(* The threat feed worker.  Each poll asks the provider for the pulses     *)
(* modified since the watermark of the previous poll, newest first and at  *)
(* most so many; stores their indicators and matches them with the posts   *)
(* stored; matches recent observations again, for posts that came          *)
(* after their indicator, and again at most so many; and stores the newest *)
(* modification it saw as the next watermark, or none when it saw nothing. *)
(*                                                                         *)
(*   moment         the time                                               *)
(*   modified       when a pulse was last modified upstream (0: never)     *)
(*   posts, late_posts   posts stored that mention the pulse's indicator;  *)
(*                  those stored since the last backfill                   *)
(*   observed       fetched_at of a pulse's observation (0: none)          *)
(*   matched        pulses matched with a post                             *)
(*   watermark      checkpoint of the feed (0: none)                       *)
(*   poller         the worker in poll_once: place, since, fetched pulses  *)
(*                  and when, and the newest modification among them       *)
(*   truncated      some poll was cut off by the page and record limits    *)
(***************************************************************************)
EXTENDS Naturals, FiniteSets

CONSTANTS Pulse,
          MaxMoment,        \* bound on the time
          MaxRecords,       \* pulses of one poll (otx_max_pages, otx_max_records)
          MaxBackfill,      \* observations one backfill matches again (its limit)
          MaxPollFailures   \* bound on failed polls

ASSUME ThreatFeedAssumption ==
  /\ IsFiniteSet(Pulse)
  /\ MaxRecords \in Nat \ {0} /\ MaxBackfill \in Nat \ {0}
  /\ MaxMoment \in Nat /\ MaxPollFailures \in Nat

VARIABLES moment, modified, posts, late_posts, observed, matched, watermark, poller, truncated,
          pollFailures

feedVars == <<moment, modified, posts, late_posts, observed, matched, watermark, poller, truncated,
              pollFailures>>

IdlePoller == [at |-> "idle", since |-> 0, pulses |-> {}, fetched |-> 0, newest |-> 0]

ThreatFeedInit ==
  /\ moment = 1
  /\ modified = [p \in Pulse |-> 0]
  /\ posts = {} /\ late_posts = {} /\ matched = {}
  /\ observed = [p \in Pulse |-> 0]
  /\ watermark = 0
  /\ poller = IdlePoller
  /\ truncated = FALSE /\ pollFailures = 0

MomentPasses ==
  /\ moment < MaxMoment
  /\ moment' = moment + 1
  /\ UNCHANGED <<modified, posts, late_posts, observed, matched, watermark, poller, truncated,
                 pollFailures>>

(* Upstream modifies one pulse at a time.                                  *)
PulseModified ==
  /\ \A p \in Pulse : modified[p] # moment
  /\ \E p \in Pulse : modified' = [modified EXCEPT ![p] = moment]
  /\ UNCHANGED <<moment, posts, late_posts, observed, matched, watermark, poller, truncated, pollFailures>>

PostMentions ==
  /\ \E p \in Pulse \ posts : posts' = posts \union {p} /\ late_posts' = late_posts \union {p}
  /\ UNCHANGED <<moment, modified, observed, matched, watermark, poller, truncated, pollFailures>>
-----------------------------------------------------------------------------
StartPoll ==
  /\ poller.at = "idle"
  /\ poller' = [IdlePoller EXCEPT !.at = "fetch", !.since = watermark]
  /\ UNCHANGED <<moment, modified, posts, late_posts, observed, matched, watermark, truncated, pollFailures>>

(* fetch_pulses.  The provider answers the newest first (it is modelled by *)
(* what the limits rely on); those that do not fit are left out.           *)
Offered == {p \in Pulse : modified[p] > 0 /\ modified[p] >= poller.since}
NewestOf(P) == {p \in P : Cardinality({q \in P : modified[q] > modified[p]}) < MaxRecords}
NewestModified(P) ==
  IF P = {} THEN 0
  ELSE CHOOSE m \in {modified[p] : p \in P} : \A p \in P : modified[p] <= m
FetchPulses ==
  /\ poller.at = "fetch"
  /\ poller' = [poller EXCEPT !.at = "ingest", !.pulses = NewestOf(Offered),
                                !.fetched = moment, !.newest = NewestModified(NewestOf(Offered))]
  /\ truncated' = (truncated \/ Cardinality(Offered) > MaxRecords)
  /\ UNCHANGED <<moment, modified, posts, late_posts, observed, matched, watermark, pollFailures>>

(* ingest_pulses: an observation keeps the time it was first fetched,      *)
(* which the worker reads between the last answer and this transaction.    *)
IngestPulses ==
  /\ poller.at = "ingest"
  /\ \E now \in poller.fetched..moment :
       observed' = [p \in Pulse |-> IF p \in poller.pulses /\ observed[p] = 0
                                   THEN now ELSE observed[p]]
  /\ matched' = matched \union (posts \intersect poller.pulses)
  /\ poller' = [poller EXCEPT !.at = "backfill"]
  /\ UNCHANGED <<moment, modified, posts, late_posts, watermark, truncated, pollFailures>>

(* backfill_recent_matches, of the observations fetched since the          *)
(* watermark this poll started from: the newest fetched ones, as many as   *)
(* the limit lets through, in any order among those of one poll.           *)
ObservedAfter(since) ==  \* mutant: observations of the watermark itself are left out
  {p \in Pulse : observed[p] > since}
ObservedSince(since) == {p \in Pulse : observed[p] > 0 /\ observed[p] >= since}
Backfilled(since) ==
  {P \in SUBSET ObservedSince(since) :
     \/ P = ObservedSince(since) /\ Cardinality(P) <= MaxBackfill
     \/ /\ Cardinality(P) = MaxBackfill
        /\ \A p \in P, q \in ObservedSince(since) \ P : observed[p] >= observed[q]}
Backfill ==
  /\ poller.at = "backfill"
  /\ \E P \in Backfilled(poller.since) : matched' = matched \union (posts \intersect P)
  /\ late_posts' = {}
  /\ poller' = [poller EXCEPT !.at = "status"]
  /\ UNCHANGED <<moment, modified, posts, observed, watermark, truncated, pollFailures>>

UpdateFeedStatus ==
  /\ poller.at = "status"
  /\ watermark' = poller.newest
  /\ poller' = IdlePoller
  /\ UNCHANGED <<moment, modified, posts, late_posts, observed, matched, truncated, pollFailures>>

(* A request or a transaction fails, or the worker dies: the watermark     *)
(* stays.                                                                  *)
PollGivesUp ==
  /\ pollFailures < MaxPollFailures /\ poller.at # "idle"
  /\ pollFailures' = pollFailures + 1
  /\ poller' = IdlePoller
  /\ UNCHANGED <<moment, modified, posts, late_posts, observed, matched, watermark, truncated>>

ThreatFeedNext ==
  \/ MomentPasses \/ PulseModified \/ PostMentions
  \/ StartPoll \/ FetchPulses \/ IngestPulses \/ Backfill \/ UpdateFeedStatus \/ PollGivesUp

ThreatFeedSpec == ThreatFeedInit /\ [][ThreatFeedNext]_feedVars
-----------------------------------------------------------------------------
(* The watermark passes over no pulse: whatever was modified up to it has  *)
(* been observed, through failed polls and pulses that are modified while  *)
(* they are fetched, unless the limits ever cut a poll off.  The rest of   *)
(* such a poll is older than its watermark and is not asked for again.     *)
PassedOverNeedsTruncation ==
  ~truncated => \A p \in Pulse :
    modified[p] \in 1..watermark => observed[p] > 0

(* A post that was stored before a backfill is matched with its indicator  *)
(* if that was observed, but for two ways to be passed over.  A pulse      *)
(* modified after the observation has moved the watermark past it, and no  *)
(* poll looks at it again; or more observations than a backfill takes were *)
(* fetched with it or later.                                               *)
PassedBy(p) == \E q \in Pulse : modified[q] > observed[p]
CrowdedOut(p) == Cardinality({q \in Pulse : observed[q] >= observed[p]}) > MaxBackfill
MissedMatchNeedsNewerPulses ==
  \A p \in posts \ (matched \union late_posts) :
    observed[p] > 0 => PassedBy(p) \/ CrowdedOut(p)

(* What the watermark promises of pulses and posts.                        *)
ThreatFeedInv == PassedOverNeedsTruncation /\ MissedMatchNeedsNewerPulses
=============================================================================
