---------------------------- MODULE FeatureEngine ----------------------------
(***************************************************************************)
(* FeatureWindowEngine as operators on the state of an engine, for one     *)
(* scope and one asset (every table of the engine is keyed by both).       *)
(*                                                                         *)
(*   log             _signal_log; _seen_event_ids and _events are read off *)
(*   max_event_time  _max_event_time; -1: the domain was never observed    *)
(*   source          _source_states, with the default of a missing one     *)
(*   revisions       _revisions                                            *)
(*                                                                         *)
(* The features of a window are numbers computed from three things, which  *)
(* stand for them: the signals of the window, the signals before it        *)
(* (trailing volumes, prior windows, first posts of the authors) and the   *)
(* states of the sources at that moment.                                   *)
(***************************************************************************)
EXTENDS Integers, Sequences, SequencesExt

CONSTANTS Signal,            \* [id, time, domain, kind, health]
          Horizon,           \* bound on event times
          IntervalOrder,     \* intervals_seconds (60, 300)
          AllowedLateness,   \* allowed_lateness_seconds (120)
          SourceIdleAfter    \* source_idle_after_seconds (300)

Time == 0..Horizon
Interval == {IntervalOrder[k] : k \in DOMAIN IntervalOrder}
Domain == {"market", "social"}
SourceState == [active : BOOLEAN, idle : BOOLEAN, degraded : BOOLEAN]

ASSUME EngineAssumption ==
  /\ Horizon \in Nat
  /\ \A s \in Signal :
       s.time \in Time /\ s.domain \in Domain /\ s.health \in SourceState
  /\ IntervalOrder \in Seq(Nat \ {0})
  /\ AllowedLateness \in Nat
  /\ SourceIdleAfter \in Nat \ {0}

Window == [interval : Interval, start : Time]

_floor_window(time, interval) == time - (time % interval)
WindowOf(s, i) == [interval |-> i, start |-> _floor_window(s.time, i)]
WindowEnd(w) == w.start + w.interval

NotObserved == [active |-> FALSE, idle |-> FALSE, degraded |-> TRUE]
FirstObserved == [active |-> TRUE, idle |-> FALSE, degraded |-> FALSE]
Quiet == [active |-> TRUE, idle |-> TRUE, degraded |-> FALSE]

Features == [own : SUBSET Signal, earlier : SUBSET Signal,
             source : [Domain -> SourceState]]
Snapshot == [window : Window, revision : Nat,
             revision_state : {"PROVISIONAL", "FINAL", "CORRECTED"},
             supersedes_revision : Nat,   \* 0: None
             features : Features]
Engine == [log : Seq(Signal),
           max_event_time : [Domain -> Time \cup {-1}],
           source : [Domain -> SourceState],
           revisions : [Window -> Seq(Snapshot)]]

EmptyEngine ==
  [log |-> <<>>,
   max_event_time |-> [d \in Domain |-> -1],
   source |-> [d \in Domain |-> NotObserved],
   revisions |-> [w \in Window |-> <<>>]]

-----------------------------------------------------------------------------
Logged(log) == {log[k] : k \in DOMAIN log}
Seen(log, s) == \E x \in Logged(log) : x.id = s.id
Own(log, w) == {s \in Logged(log) : WindowOf(s, w.interval) = w}
Earlier(log, w) == {s \in Logged(log) : s.time < w.start}

IsFinal(revisions) ==
  revisions # <<>> /\ revisions[Len(revisions)].revision_state # "PROVISIONAL"

MaxEventTime(e, s) ==
  [e.max_event_time EXCEPT ![s.domain] = IF s.time > @ THEN s.time ELSE @]

GlobalMax(times) ==
  IF times["market"] > times["social"] THEN times["market"] ELSE times["social"]

\* The state of the source of s after s itself.
Observed(e, s) ==
  LET known == IF e.max_event_time[s.domain] = -1 THEN FirstObserved
               ELSE e.source[s.domain]
  IN  [e.source EXCEPT ![s.domain] =
         IF s.kind = "quality" THEN s.health
         ELSE [known EXCEPT !.active = TRUE, !.idle = FALSE]]

\* watermarks() also marks a source idle that fell behind the other one.
WithIdle(times, source) ==
  [d \in Domain |->
     IF ~source[d].degraded /\ GlobalMax(times) - times[d] >= SourceIdleAfter
     THEN Quiet ELSE source[d]]

DomainWatermark(times, source, d) ==
  (IF source[d].idle THEN GlobalMax(times) ELSE times[d]) - AllowedLateness

\* The fusion watermark exists and has reached the end of w.
Passed(times, source, w) ==
  \A d \in Domain : /\ ~source[d].degraded
                    /\ WindowEnd(w) <= DomainWatermark(times, source, d)

-----------------------------------------------------------------------------
NewSnapshot_Reopened(prior, w, log, source, passed) ==  \* mutant: finality forgotten
  [window |-> w,
   revision |-> Len(prior) + 1,
   revision_state |-> IF passed THEN IF IsFinal(prior) THEN "CORRECTED" ELSE "FINAL"
                      ELSE "PROVISIONAL",
   supersedes_revision |-> IF IsFinal(prior) THEN Len(prior) ELSE 0,
   features |-> [own |-> Own(log, w), earlier |-> Earlier(log, w), source |-> source]]
NewSnapshot(prior, w, log, source, passed) ==
  [window |-> w,
   revision |-> Len(prior) + 1,
   revision_state |-> IF IsFinal(prior) THEN "CORRECTED"
                      ELSE IF passed THEN "FINAL" ELSE "PROVISIONAL",
   supersedes_revision |-> IF IsFinal(prior) THEN Len(prior) ELSE 0,
   features |-> [own |-> Own(log, w), earlier |-> Earlier(log, w), source |-> source]]

\* The window of the signal, and the windows after it that already exist.
Touched_OwnOnly(e, s, w) ==  \* mutant: later windows keep the old baseline
  w = WindowOf(s, w.interval)
Touched(e, s, w) ==
  \/ w = WindowOf(s, w.interval)
  \/ e.revisions[w] # <<>> /\ w.start > WindowOf(s, w.interval).start

\* Provisional windows that the watermark has passed.
Eligible(e, s, times, source, w) ==
  /\ e.revisions[w] # <<>>
  /\ ~Touched(e, s, w)
  /\ ~IsFinal(e.revisions[w])
  /\ Passed(times, source, w)

\* ingest() of a signal that was not seen before.
Ingest(e, s) ==
  LET log == Append(e.log, s)
      times == MaxEventTime(e, s)
      source == WithIdle(times, Observed(e, s))
  IN [log |-> log,
      max_event_time |-> times,
      source |-> source,
      revisions |-> [w \in Window |->
        IF Touched(e, s, w) \/ Eligible(e, s, times, source, w)
        THEN Append(e.revisions[w],
                    NewSnapshot(e.revisions[w], w, log, source, Passed(times, source, w)))
        ELSE e.revisions[w]]]

-----------------------------------------------------------------------------
\* The windows that ingest() revises.
ChangedWindows(e, s) ==
  LET times == MaxEventTime(e, s)
      source == WithIdle(times, Observed(e, s))
  IN  {w \in Window : Touched(e, s, w) \/ Eligible(e, s, times, source, w)}
FirstSignal(log, w) ==
  CHOOSE k \in DOMAIN log : /\ WindowOf(log[k], w.interval) = w
                            /\ \A j \in 1 .. k - 1 : WindowOf(log[j], w.interval) # w
Position(i) == CHOOSE k \in DOMAIN IntervalOrder : IntervalOrder[k] = i
InsertedBefore(log, v, w) ==
  \/ FirstSignal(log, v) < FirstSignal(log, w)
  \/ FirstSignal(log, v) = FirstSignal(log, w) /\ Position(v.interval) < Position(w.interval)
\* The order of the list that ingest() returns: per interval the window of the
\* signal and the later windows by start, then the finalized ones by insertion.
ReturnedBefore(e, s, v, w) ==
  CASE Touched(e, s, v) /\ Touched(e, s, w) ->
         \/ Position(v.interval) < Position(w.interval)
         \/ v.interval = w.interval /\ v.start < w.start
    [] ~Touched(e, s, v) /\ ~Touched(e, s, w) -> InsertedBefore(e.log, v, w)
    [] Touched(e, s, v) /\ ~Touched(e, s, w) -> TRUE
    [] ~Touched(e, s, v) /\ Touched(e, s, w) -> FALSE

LastRevision(e, w) == e.revisions[w][Len(e.revisions[w])]
\* That list, as the one element of a set.
Returned(e, s) ==
  {[k \in DOMAIN windows |-> LastRevision(Ingest(e, s), windows[k])] :
     windows \in {q \in SetToSeqs(ChangedWindows(e, s)) :
                    \A j, k \in DOMAIN q : j < k => ReturnedBefore(e, s, q[j], q[k])}}

\* restore_state(): the signals of the log, ingested in order.
IngestNew(e, s) == IF Seen(e.log, s) THEN e ELSE Ingest(e, s)
RestoredEngine(log) ==
  LET replay[n \in 0 .. Len(log)] ==
        IF n = 0 THEN EmptyEngine ELSE IngestNew(replay[n - 1], log[n])
  IN  replay[Len(log)]
=============================================================================
