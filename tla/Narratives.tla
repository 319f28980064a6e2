------------------------------ MODULE Narratives ------------------------------
(***************************************************************************)
(* Graph workers.  Final and corrected snapshots of an asset's feature     *)
(* windows arrive on two topics; a worker clusters the posts stored for    *)
(* the window by then, and writes narratives, their revisions, the graph   *)
(* snapshot and the events to publish in one transaction.  The windows     *)
(* start at the same time and differ in length; a post belongs to a window *)
(* if it precedes its end.                                                 *)
(*                                                                         *)
(*   stored       posts in social_posts                                    *)
(*   windowLog    snapshots on each topic: [window, revision]              *)
(*   done, reader offset committed on a topic; its worker                  *)
(*   narratives   the narrative of a cluster, by its first post            *)
(*   revisions    narrative_revisions                                      *)
(*   clustered    narrative events enqueued                                *)
(*   graphs       graph_snapshots                                          *)
(*   barren       snapshots for which no post was stored                   *)
(*   unaccepted   unique constraints that some transaction broke           *)
(*   disordered   a snapshot was stored after one with a higher revision   *)
(***************************************************************************)
EXTENDS Naturals, Sequences, FiniteSets

CONSTANTS Post,           \* posts, numbered by event time
          PostsBefore,    \* PostsBefore[w]: posts before the end of window w
          Theme,          \* Theme[p]: posts of one theme are similar
          MaxRevision,    \* bound on the revisions of a window
          MaxGraphCrashes \* bound on crashes

Window == DOMAIN PostsBefore
FeatureTopic == {"features.market.v1", "features.social.v1"}

ASSUME NarrativesAssumption ==
  /\ Post \subseteq Nat
  /\ \A w \in Window : PostsBefore[w] \subseteq Post
  /\ DOMAIN Theme = Post
  /\ MaxRevision \in Nat /\ MaxGraphCrashes \in Nat

VARIABLES stored, windowLog, done, reader, narratives, revisions, clustered, graphs,
          barren, unaccepted, disordered, graphCrashes

narrativeTables == <<narratives, revisions, clustered, graphs>>
narrativeVars == <<stored, windowLog, done, reader, narrativeTables, barren, unaccepted,
                   disordered, graphCrashes>>

Waiting4Snapshot == [at |-> "poll", posts |-> {}]

NarrativesInit ==
  /\ stored = {}
  /\ windowLog = [t \in FeatureTopic |-> <<>>]
  /\ done = [t \in FeatureTopic |-> 0]
  /\ reader = [t \in FeatureTopic |-> Waiting4Snapshot]
  /\ narratives = [p \in {} |-> 0]
  /\ revisions = {} /\ clustered = {} /\ graphs = {} /\ barren = {}
  /\ unaccepted = {} /\ disordered = FALSE
  /\ graphCrashes = 0
-----------------------------------------------------------------------------
(* The telemetry workers store a post, whenever its two halves are there.  *)
StorePost ==
  /\ \E p \in Post \ stored : stored' = stored \union {p}
  /\ UNCHANGED <<windowLog, done, reader, narrativeTables, barren, unaccepted, disordered,
                 graphCrashes>>

Entries == {<<t, n>> : t \in FeatureTopic, n \in 1..MaxRevision * Cardinality(Window)}
Log == {windowLog[e[1]][e[2]] : e \in {x \in Entries : x[2] <= Len(windowLog[x[1]])}}

(* The feature worker publishes a window's revisions in order, each on the *)
(* topic of the signal that caused it.                                     *)
PublishSnapshot ==
  \E w \in Window, t \in FeatureTopic, r \in 1..MaxRevision :
    /\ \A s \in Log : s.window = w => s.revision < r
    /\ windowLog' = [windowLog EXCEPT ![t] = Append(@, [window |-> w, revision |-> r])]
    /\ UNCHANGED <<stored, done, reader, narrativeTables, barren, unaccepted, disordered,
                   graphCrashes>>
-----------------------------------------------------------------------------
Current(t) == windowLog[t][done[t] + 1]

(* posts_for_window; without posts the snapshot is passed by.              *)
ReadPosts(t) ==
  /\ reader[t].at = "poll" /\ done[t] < Len(windowLog[t])
  /\ LET posts == stored \intersect PostsBefore[Current(t).window]
     IN  /\ reader' = [reader EXCEPT ![t] =
              [at |-> IF posts = {} THEN "commit" ELSE "persist", posts |-> posts]]
         /\ barren' = IF posts = {} THEN barren \union {Current(t)} ELSE barren
  /\ UNCHANGED <<stored, windowLog, done, narrativeTables, unaccepted, disordered, graphCrashes>>

Clusters(posts) == {{q \in posts : Theme[q] = Theme[p]} : p \in posts}
Narrative(c) == CHOOSE p \in c : \A q \in c : p <= q
Revision(c, r) == [narrative |-> Narrative(c), revision |-> r, members |-> c]

(* A narrative's row always takes the new members; its current revision    *)
(* only if that is no lower.                                               *)
OnlyNewer(r, current) ==  \* mutant: a revision that is one newer does not count
  r > current + 1
Supersedes(r, current) == r >= current
Updated(c, r) ==
  IF Narrative(c) \notin DOMAIN narratives
  THEN [members |-> c, current |-> r, current_members |-> c]
  ELSE LET old == narratives[Narrative(c)]
       IN  IF Supersedes(r, old.current)
           THEN [members |-> c, current |-> r, current_members |-> c]
           ELSE [old EXCEPT !.members = c]

(* A revision is identified by its members; its number is the snapshot's,  *)
(* and must be new to the narrative.  The event of a cluster is identified *)
(* by the revision and that number, and must be new too: that is noticed   *)
(* after the revisions are written.                                        *)
NewRevisions(C, r) ==
  {Revision(c, r) : c \in {d \in C : ~\E old \in revisions :
                             old.narrative = Narrative(d) /\ old.members = d}}
BreaksRevisionNumber(C, r) ==
  \E new \in NewRevisions(C, r), old \in revisions :
    old.narrative = new.narrative /\ old.revision = new.revision
BreaksEventTopic(C, r) == \E c \in C : Revision(c, r) \in clustered
Broken(C, r) ==
  IF BreaksRevisionNumber(C, r) THEN {"uq_narrative_revision_number"}
  ELSE IF BreaksEventTopic(C, r) THEN {"uq_outbox_event_topic"} ELSE {}

Goes(t, place) == reader' = [reader EXCEPT ![t].at = place]
PersistGraph(t) ==
  LET s == Current(t)
      C == Clusters(reader[t].posts)
  IN  /\ reader[t].at = "persist"
      /\ \/ /\ s \in graphs
            /\ Goes(t, "commit")
            /\ UNCHANGED <<narrativeTables, unaccepted, disordered>>
         \/ /\ s \notin graphs /\ Broken(C, s.revision) # {}
            /\ reader' = [reader EXCEPT ![t] = Waiting4Snapshot]
            /\ unaccepted' = unaccepted \union Broken(C, s.revision)
            /\ UNCHANGED <<narrativeTables, disordered>>
         \/ /\ s \notin graphs /\ Broken(C, s.revision) = {}
            /\ narratives' =
                 [n \in DOMAIN narratives \union {Narrative(c) : c \in C} |->
                    IF \E c \in C : Narrative(c) = n
                    THEN Updated(CHOOSE c \in C : Narrative(c) = n, s.revision)
                    ELSE narratives[n]]
            /\ revisions' = revisions \union NewRevisions(C, s.revision)
            /\ clustered' = clustered \union {Revision(c, s.revision) : c \in C}
            /\ graphs' = graphs \union {s}
            /\ disordered' = (disordered \/ \E g \in graphs : g.revision > s.revision)
            /\ Goes(t, "commit")
            /\ UNCHANGED unaccepted
      /\ UNCHANGED <<stored, windowLog, done, barren, graphCrashes>>

CommitSnapshot(t) ==
  /\ reader[t].at = "commit"
  /\ done' = [done EXCEPT ![t] = @ + 1]
  /\ reader' = [reader EXCEPT ![t] = Waiting4Snapshot]
  /\ UNCHANGED <<stored, windowLog, narrativeTables, barren, unaccepted, disordered, graphCrashes>>

GraphWorkerCrashes(t) ==
  /\ graphCrashes < MaxGraphCrashes /\ reader[t].at # "poll"
  /\ graphCrashes' = graphCrashes + 1
  /\ reader' = [reader EXCEPT ![t] = Waiting4Snapshot]
  /\ UNCHANGED <<stored, windowLog, done, narrativeTables, barren, unaccepted, disordered>>

NarrativesNext ==
  \/ StorePost \/ PublishSnapshot
  \/ \E t \in FeatureTopic : \/ ReadPosts(t) \/ PersistGraph(t) \/ CommitSnapshot(t)
                             \/ GraphWorkerCrashes(t)

NarrativesSpec == NarrativesInit /\ [][NarrativesNext]_narrativeVars
-----------------------------------------------------------------------------
Handled(t) == {windowLog[t][n] : n \in 1..done[t]}

(* A snapshot the worker has committed has its graph, and an event for     *)
(* every cluster of it, unless none of the window's posts was stored when  *)
(* it was read: the graph worker does not wait for the telemetry workers,  *)
(* and nothing brings such a snapshot back.                                *)
CommittedIsGraphed ==
  \A t \in FeatureTopic : \A s \in Handled(t) :
    \/ s \in barren
    \/ s \in graphs /\ \E e \in clustered :
         e.revision = s.revision /\ e.members \subseteq PostsBefore[s.window]

(* The narrative an analyst reads and the revision it cites have the same  *)
(* members, as long as snapshots are stored in the order of their          *)
(* revisions; the two topics do not see to that.                           *)
NarrativeIsItsRevision ==
  ~disordered => \A n \in DOMAIN narratives :
    /\ narratives[n].members = narratives[n].current_members
    /\ \E r \in revisions : r.narrative = n /\ r.members = narratives[n].members

(* What the graph workers promise of the snapshots they have handled.      *)
NarrativesInv == CommittedIsGraphed /\ NarrativeIsItsRevision

(* The constraint that numbers a narrative's revisions holds of what the   *)
(* code writes: no transaction is rejected for it.  The number is that of  *)
(* the feature window, and windows of different lengths share their        *)
(* narratives: two member sets of one narrative come with one number.      *)
RevisionsAreAccepted == "uq_narrative_revision_number" \notin unaccepted
=============================================================================
