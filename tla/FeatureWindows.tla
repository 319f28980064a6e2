--------------------------- MODULE FeatureWindows ---------------------------
(***************************************************************************)
(* A feature engine that ingests its signals in any order.                 *)
(***************************************************************************)
EXTENDS FeatureEngine

VARIABLE engine

WindowsInit == engine = EmptyEngine

\* ingest(): a signal whose id was seen changes nothing.
IngestSignal(s) ==
  /\ ~Seen(engine.log, s)
  /\ engine' = Ingest(engine, s)

WindowsNext == \E s \in Signal : IngestSignal(s)

WindowsSpec == WindowsInit /\ [][WindowsNext]_engine

-----------------------------------------------------------------------------
(***************************************************************************)
(* What is true of the state e of an engine, however it came about.        *)
(***************************************************************************)
RevisionsAreCurrent(e) ==
  \A w \in Window :
    IF e.revisions[w] = <<>> THEN Own(e.log, w) = {}
    ELSE /\ LastRevision(e, w).features.own = Own(e.log, w)
         /\ LastRevision(e, w).features.earlier = Earlier(e.log, w)

FinalWhenPassed(e) ==
  \A w \in Window :
    e.revisions[w] # <<>> /\ Passed(e.max_event_time, e.source, w)
      => IsFinal(e.revisions[w])

CorrectedOnceFinal(e) ==
  \A w \in Window : \A k \in 1..Len(e.revisions[w]) :
    LET r == e.revisions[w][k] IN
      /\ r.revision = k
      /\ IF k > 1 /\ e.revisions[w][k - 1].revision_state # "PROVISIONAL"
         THEN r.revision_state = "CORRECTED" /\ r.supersedes_revision = k - 1
         ELSE r.revision_state # "CORRECTED" /\ r.supersedes_revision = 0

NeverIdle(e, d) ==
  \A w \in Window : \A k \in 1..Len(e.revisions[w]) :
    ~e.revisions[w][k].features.source[d].idle

FinalAfterLateness(e) ==
  \A w \in Window : IsFinal(e.revisions[w]) =>
    \A d \in Domain : NeverIdle(e, d) =>
      WindowEnd(w) <= e.max_event_time[d] - AllowedLateness

-----------------------------------------------------------------------------
\* The state of the engine has the shape of its tables.
EngineTypeOK == engine \in Engine

\* The last revision of every window is computed from all the signals of the
\* window and all earlier ones, in whatever order they came: ingest()
\* rebuilds the later windows when a late signal changes their baseline.
LatestIsCurrent == RevisionsAreCurrent(engine)

\* No window stays provisional once the fusion watermark has passed it, also
\* when a source turned idle or recovered (_build_revision decides for the
\* windows it rebuilds, _finalize_eligible for the others).
PassedIsFinal == FinalWhenPassed(engine)

\* Revisions are numbered without gaps; after the first final one each is a
\* correction that names its predecessor, even if the watermark moved back.
FinalNeverReopens == CorrectedOnceFinal(engine)

\* Allowed lateness: while a source was never taken for idle, a final window
\* ends AllowedLateness or more before the newest signal of that source, so a
\* signal of it that is at most that late corrects nothing.
LatenessHonoured == FinalAfterLateness(engine)

\* What "final" means to the consumers of a window: the watermark makes it so,
\* nothing takes it back, and the allowed lateness was waited for.
FinalityInv == PassedIsFinal /\ FinalNeverReopens /\ LatenessHonoured
=============================================================================
