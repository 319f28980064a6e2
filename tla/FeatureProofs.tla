---------------------------- MODULE FeatureProofs ----------------------------
(***************************************************************************)
(* The feature engine and the worker around it.  The first part is about   *)
(* the state of any engine, for every set of signals, every order of their *)
(* arrival, every choice of intervals and every lateness; the second about *)
(* the worker and its crashes; the third and the fourth about the rows and *)
(* the cache once the worker has caught up.                                *)
(***************************************************************************)
EXTENDS FeatureWorker, SetLemmas

EInv(e) ==
  /\ e \in Engine
  /\ RevisionsAreCurrent(e)
  /\ FinalWhenPassed(e)
  /\ CorrectedOnceFinal(e)
  /\ FinalAfterLateness(e)

-----------------------------------------------------------------------------
\* A window that _floor_window assigns a time to contains it.
LEMMA FloorBounds ==
  ASSUME NEW t \in Nat, NEW i \in Nat \ {0}
  PROVE  /\ _floor_window(t, i) \in 0..t
         /\ t < _floor_window(t, i) + i
<1>1. t % i \in 0..(i - 1) OBVIOUS
<1>2. t % i <= t OBVIOUS
<1> QED BY <1>1, <1>2 DEF _floor_window

\* What a signal adds to the log.
LEMMA LoggedAppend ==
  ASSUME NEW log \in Seq(Signal), NEW s \in Signal
  PROVE  Logged(Append(log, s)) = Logged(log) \cup {s}
<1>1. DOMAIN Append(log, s) = 1..(Len(log) + 1) /\ DOMAIN log = 1..Len(log) OBVIOUS
<1>2. \A k \in 1..Len(log) : Append(log, s)[k] = log[k] OBVIOUS
<1>3. Append(log, s)[Len(log) + 1] = s OBVIOUS
<1> QED BY <1>1, <1>2, <1>3 DEF Logged

LEMMA LoggedIsSignals ==
  ASSUME NEW log \in Seq(Signal)
  PROVE  Logged(log) \subseteq Signal
BY DEF Logged

\* Intervals are positive and signals are in time.
LEMMA ConstantTypes ==
  /\ Interval \subseteq Nat \ {0}
  /\ \A s \in Signal : s.time \in Time /\ s.domain \in Domain /\ s.health \in SourceState
  /\ Time \subseteq Nat
<1>1. Interval \subseteq Nat \ {0}
  BY EngineAssumption DEF Interval
<1> QED BY <1>1, EngineAssumption DEF Time

\* The last snapshot after an append.
LEMMA LastAppended ==
  ASSUME NEW S, NEW q \in Seq(S), NEW x \in S
  PROVE  /\ Append(q, x) \in Seq(S)
         /\ Append(q, x) # <<>>
         /\ Len(Append(q, x)) = Len(q) + 1
         /\ Append(q, x)[Len(Append(q, x))] = x
         /\ \A k \in 1..Len(q) : Append(q, x)[k] = q[k]
OBVIOUS

-----------------------------------------------------------------------------
\* The step of ingest(), component by component.
LEMMA IngestTables ==
  ASSUME NEW e, NEW s, NEW next, next = Ingest(e, s)
  PROVE  /\ next.log = Append(e.log, s)
         /\ next.max_event_time = MaxEventTime(e, s)
         /\ next.source = WithIdle(next.max_event_time, Observed(e, s))
         /\ next = [log |-> next.log, max_event_time |-> next.max_event_time,
                    source |-> next.source, revisions |-> next.revisions]
<1>1. next.log = Append(e.log, s) BY DEF Ingest
<1>2. next.max_event_time = MaxEventTime(e, s) BY DEF Ingest
<1>3. next.source = WithIdle(next.max_event_time, Observed(e, s))
  BY <1>2 DEF Ingest
<1>4. next = [log |-> next.log, max_event_time |-> next.max_event_time,
              source |-> next.source, revisions |-> next.revisions]
  BY DEF Ingest
<1> QED BY <1>1, <1>2, <1>3, <1>4

\* The newest time of a domain never goes back; the states of the sources
\* keep their type.
LEMMA TablesStep ==
  ASSUME NEW e \in Engine, NEW s \in Signal, NEW next, next = Ingest(e, s)
  PROVE  /\ next.max_event_time \in [Domain -> Time \cup {-1}]
         /\ \A d \in Domain : next.max_event_time[d] >= e.max_event_time[d]
         /\ next.source \in [Domain -> SourceState]
<1>1. s.time \in Time /\ s.domain \in Domain /\ s.health \in SourceState /\ Time \subseteq Nat
  BY ConstantTypes
<1>2. e.max_event_time \in [Domain -> Time \cup {-1}] /\ e.source \in [Domain -> SourceState]
  BY DEF Engine
<1>0. /\ next.max_event_time = MaxEventTime(e, s)
      /\ next.source = WithIdle(next.max_event_time, Observed(e, s))
  BY IngestTables
<1>3. /\ next.max_event_time \in [Domain -> Time \cup {-1}]
      /\ \A d \in Domain : next.max_event_time[d] >= e.max_event_time[d]
  <2> DEFINE new == IF s.time > e.max_event_time[s.domain] THEN s.time
                    ELSE e.max_event_time[s.domain]
  <2>0. s.time \in Int /\ \A d \in Domain : e.max_event_time[d] \in Int
    BY <1>1, <1>2, EngineAssumption DEF Time
  <2>1. /\ new \in Time \cup {-1}
        /\ new >= e.max_event_time[s.domain]
    BY <1>1, <1>2, <2>0
  <2>2. next.max_event_time = [e.max_event_time EXCEPT ![s.domain] = new]
    BY <1>0 DEF MaxEventTime
  <2>3. \A d \in Domain : e.max_event_time[d] >= e.max_event_time[d]
    BY <2>0
  <2> HIDE DEF new
  <2> QED BY <1>1, <1>2, <2>1, <2>2, <2>3
<1>4. Observed(e, s) \in [Domain -> SourceState]
  BY <1>1, <1>2 DEF Observed, SourceState, FirstObserved
<1>5. next.source \in [Domain -> SourceState]
  <2>1. Quiet \in SourceState BY DEF Quiet, SourceState
  <2> QED BY <1>4, <1>0, <2>1 DEF WithIdle
<1> QED BY <1>3, <1>5

\* A new snapshot is well formed.
LEMMA NewSnapshotType ==
  ASSUME NEW w \in Window, NEW prior \in Seq(Snapshot), NEW log \in Seq(Signal),
         NEW source \in [Domain -> SourceState], NEW passed \in BOOLEAN
  PROVE  NewSnapshot(prior, w, log, source, passed) \in Snapshot
<1>1. Own(log, w) \subseteq Signal /\ Earlier(log, w) \subseteq Signal
  BY LoggedIsSignals DEF Own, Earlier
<1>2. [own |-> Own(log, w), earlier |-> Earlier(log, w), source |-> source] \in Features
  BY <1>1 DEF Features
<1>3. Len(prior) \in Nat /\ Len(prior) + 1 \in Nat OBVIOUS
<1> QED BY <1>2, <1>3 DEF NewSnapshot, Snapshot

-----------------------------------------------------------------------------
\* The windows that ingest() revises on its way to the state next, and the
\* snapshot each of them gets.
Built(e, s, next, w) ==
  Touched(e, s, w) \/ Eligible(e, s, next.max_event_time, next.source, w)
NewRow(e, next, w) ==
  NewSnapshot(e.revisions[w], w, next.log, next.source,
              Passed(next.max_event_time, next.source, w))

LEMMA IngestRevisions ==
  ASSUME NEW e, NEW s, NEW next, next = Ingest(e, s)
  PROVE  next.revisions = [w \in Window |->
           IF Built(e, s, next, w) THEN Append(e.revisions[w], NewRow(e, next, w))
           ELSE e.revisions[w]]
BY DEF Ingest, Built, NewRow

\* What a step does to one window: nothing, or one more snapshot.
LEMMA WindowStep ==
  ASSUME NEW e \in Engine, NEW s \in Signal, NEW next, next = Ingest(e, s),
         NEW w \in Window
  PROVE  /\ NewRow(e, next, w) \in Snapshot
         /\ Built(e, s, next, w) =>
              /\ next.revisions[w] = Append(e.revisions[w], NewRow(e, next, w))
              /\ next.revisions[w] # <<>>
              /\ LastRevision(next, w) = NewRow(e, next, w)
              /\ Len(next.revisions[w]) = Len(e.revisions[w]) + 1
              /\ next.revisions[w][Len(e.revisions[w]) + 1] = NewRow(e, next, w)
              /\ \A k \in 1..Len(e.revisions[w]) : next.revisions[w][k] = e.revisions[w][k]
         /\ ~Built(e, s, next, w) => next.revisions[w] = e.revisions[w]
<1>1. /\ e.log \in Seq(Signal) /\ e.revisions[w] \in Seq(Snapshot)
  BY DEF Engine
<1>2. next.log \in Seq(Signal)
  <2>1. next.log = Append(e.log, s) BY IngestTables
  <2> QED BY <1>1, <2>1
<1>3. next.source \in [Domain -> SourceState] BY TablesStep
<1>4. NewRow(e, next, w) \in Snapshot
  <2> DEFINE passed == Passed(next.max_event_time, next.source, w)
  <2>1. passed \in BOOLEAN BY DEF Passed
  <2>2. NewRow(e, next, w) = NewSnapshot(e.revisions[w], w, next.log, next.source, passed)
    BY DEF NewRow
  <2> HIDE DEF passed
  <2> QED BY <1>1, <1>2, <1>3, <2>1, <2>2, NewSnapshotType
<1>5. next.revisions[w] = IF Built(e, s, next, w) THEN Append(e.revisions[w], NewRow(e, next, w))
                          ELSE e.revisions[w]
  <2> DEFINE row(v) == IF Built(e, s, next, v) THEN Append(e.revisions[v], NewRow(e, next, v))
                       ELSE e.revisions[v]
  <2>1. next.revisions = [v \in Window |-> row(v)] BY IngestRevisions
  <2>2. next.revisions[w] = row(w)
    <3> HIDE DEF row
    <3> QED BY <2>1
  <2> QED BY <2>2
<1>6. Built(e, s, next, w) =>
        /\ next.revisions[w] = Append(e.revisions[w], NewRow(e, next, w))
        /\ next.revisions[w] # <<>>
        /\ LastRevision(next, w) = NewRow(e, next, w)
        /\ Len(next.revisions[w]) = Len(e.revisions[w]) + 1
        /\ next.revisions[w][Len(e.revisions[w]) + 1] = NewRow(e, next, w)
        /\ \A k \in 1..Len(e.revisions[w]) : next.revisions[w][k] = e.revisions[w][k]
  BY <1>1, <1>4, <1>5, LastAppended DEF LastRevision
<1> QED BY <1>4, <1>5, <1>6

-----------------------------------------------------------------------------
\* ingest() keeps the tables of the e in shape.
LEMMA TypeStep ==
  ASSUME NEW e \in Engine, NEW s \in Signal, NEW next, next = Ingest(e, s)
  PROVE  next \in Engine
<1>1. next.log \in Seq(Signal)
  <2>1. next.log = Append(e.log, s) BY IngestTables
  <2> QED BY <2>1 DEF Engine
<1>2. \A w \in Window : next.revisions[w] \in Seq(Snapshot)
  <2> SUFFICES ASSUME NEW w \in Window PROVE next.revisions[w] \in Seq(Snapshot)
    OBVIOUS
  <2>1. e.revisions[w] \in Seq(Snapshot) BY DEF Engine
  <2>2. PICK snapshot \in Snapshot :
          \/ next.revisions[w] = e.revisions[w]
          \/ next.revisions[w] = Append(e.revisions[w], snapshot)
    BY WindowStep
  <2>3. Append(e.revisions[w], snapshot) \in Seq(Snapshot) BY <2>1, LastAppended
  <2> QED BY <2>1, <2>2, <2>3, Zenon
<1>3. /\ next = [log |-> next.log, max_event_time |-> next.max_event_time,
                    source |-> next.source, revisions |-> next.revisions]
      /\ next.revisions = [w \in Window |-> next.revisions[w]]
  <2> DEFINE row(w) == IF Built(e, s, next, w) THEN Append(e.revisions[w], NewRow(e, next, w))
                       ELSE e.revisions[w]
  <2>0. next.revisions = [w \in Window |-> row(w)] BY IngestRevisions
  <2>1. next.revisions = [w \in Window |-> next.revisions[w]]
    <3> HIDE DEF row
    <3> QED BY <2>0
  <2> QED BY <2>1, IngestTables
<1>4. next.revisions \in [Window -> Seq(Snapshot)] BY <1>2, <1>3
<1>5. /\ next.max_event_time \in [Domain -> Time \cup {-1}]
      /\ next.source \in [Domain -> SourceState]
  BY TablesStep
<1> QED BY <1>1, <1>3, <1>4, <1>5 DEF Engine

\* Every window is rebuilt whose own or earlier signals grow.
LEMMA RevisionsAreCurrentStep ==
  ASSUME NEW e, EInv(e), NEW s \in Signal, NEW next, next = Ingest(e, s)
  PROVE  RevisionsAreCurrent(next)
<1> SUFFICES ASSUME NEW w \in Window
             PROVE  IF next.revisions[w] = <<>> THEN Own(next.log, w) = {}
                    ELSE /\ LastRevision(next, w).features.own = Own(next.log, w)
                         /\ LastRevision(next, w).features.earlier = Earlier(next.log, w)
  BY DEF RevisionsAreCurrent
<1> DEFINE built == Built(e, s, next, w)
           snapshot == NewRow(e, next, w)
<1>1. e \in Engine BY DEF EInv
<1>2. built => next.revisions[w] # <<>> /\ LastRevision(next, w) = snapshot BY <1>1, WindowStep
<1>3. ~built => next.revisions[w] = e.revisions[w] BY <1>1, WindowStep
<1>4. /\ snapshot.features.own = Own(next.log, w)
      /\ snapshot.features.earlier = Earlier(next.log, w)
  BY DEF NewRow, NewSnapshot
<1>5. CASE built BY <1>2, <1>4, <1>5
<1>6. CASE ~built
  <2>1. Logged(next.log) = Logged(e.log) \cup {s}
    <3>1. e.log \in Seq(Signal) BY <1>1 DEF Engine
    <3>2. next.log = Append(e.log, s) BY IngestTables
    <3> QED BY <3>1, <3>2, LoggedAppend
  <2>2. WindowOf(s, w.interval) # w BY <1>6 DEF Built, Touched
  <2>3. Own(next.log, w) = Own(e.log, w) BY <2>1, <2>2 DEF Own
  <2>4. CASE e.revisions[w] = <<>>
    BY <1>3, <1>6, <2>3, <2>4 DEF EInv, RevisionsAreCurrent
  <2>5. CASE e.revisions[w] # <<>>
    <3>1. w.start <= WindowOf(s, w.interval).start
      <4>1. ~(w.start > WindowOf(s, w.interval).start) BY <1>6, <2>5 DEF Built, Touched
      <4>2. w.start \in Nat /\ w.interval \in Nat \ {0} /\ s.time \in Nat
        BY ConstantTypes DEF Window
      <4>3. WindowOf(s, w.interval).start \in Nat BY <4>2, FloorBounds DEF WindowOf
      <4> QED BY <4>1, <4>2, <4>3
    <3>2. w.start <= s.time
      <4>1. w.start \in Nat /\ w.interval \in Nat \ {0} /\ s.time \in Nat
        BY ConstantTypes DEF Window
      <4>2. WindowOf(s, w.interval).start \in 0..s.time BY <4>1, FloorBounds DEF WindowOf
      <4> QED BY <3>1, <4>1, <4>2
    <3>3. ~(s.time < w.start)
      <4>1. w.start \in Nat /\ s.time \in Nat BY ConstantTypes DEF Window
      <4> QED BY <3>2, <4>1
    <3>4. Earlier(next.log, w) = Earlier(e.log, w) BY <2>1, <3>3 DEF Earlier
    <3>5. LastRevision(next, w) = LastRevision(e, w) BY <1>3, <1>6 DEF LastRevision
    <3> QED BY <1>3, <1>6, <2>3, <2>5, <3>4, <3>5 DEF EInv, RevisionsAreCurrent
  <2> QED BY <2>4, <2>5
<1> QED BY <1>5, <1>6

\* The windows that are not rebuilt are swept by _finalize_eligible.
LEMMA FinalWhenPassedStep ==
  ASSUME NEW e, EInv(e), NEW s \in Signal, NEW next, next = Ingest(e, s)
  PROVE  FinalWhenPassed(next)
<1> SUFFICES ASSUME NEW w \in Window, next.revisions[w] # <<>>,
                    Passed(next.max_event_time, next.source, w)
             PROVE  IsFinal(next.revisions[w])
  BY DEF FinalWhenPassed
<1> DEFINE built == Built(e, s, next, w)
           snapshot == NewRow(e, next, w)
<1>1. e \in Engine BY DEF EInv
<1>2. built => next.revisions[w] # <<>> /\ LastRevision(next, w) = snapshot
  BY <1>1, WindowStep
<1>3. ~built => next.revisions[w] = e.revisions[w] BY <1>1, WindowStep
<1>4. CASE built
  <2>1. snapshot.revision_state # "PROVISIONAL" BY DEF NewRow, NewSnapshot
  <2>2. LastRevision(next, w) = next.revisions[w][Len(next.revisions[w])] BY DEF LastRevision
  <2> QED BY <1>2, <1>4, <2>1, <2>2 DEF IsFinal
<1>5. CASE ~built BY <1>3, <1>5 DEF Built, Eligible
<1> QED BY <1>4, <1>5

\* A snapshot after a final one is a correction.
LEMMA CorrectedOnceFinalStep ==
  ASSUME NEW e, EInv(e), NEW s \in Signal, NEW next, next = Ingest(e, s)
  PROVE  CorrectedOnceFinal(next)
<1> DEFINE Follows(q, k) ==
      /\ q[k].revision = k
      /\ IF k > 1 /\ q[k - 1].revision_state # "PROVISIONAL"
         THEN q[k].revision_state = "CORRECTED" /\ q[k].supersedes_revision = k - 1
         ELSE q[k].revision_state # "CORRECTED" /\ q[k].supersedes_revision = 0
<1> SUFFICES ASSUME NEW w \in Window, NEW k \in 1..Len(next.revisions[w])
             PROVE  Follows(next.revisions[w], k)
  BY DEF CorrectedOnceFinal
<1> DEFINE built == Built(e, s, next, w)
           snapshot == NewRow(e, next, w)
           old == e.revisions[w]
           new == next.revisions[w]
<1>1. e \in Engine BY DEF EInv
<1>2. old \in Seq(Snapshot) BY <1>1 DEF Engine
<1>3. \A j \in 1..Len(old) : Follows(old, j) BY DEF EInv, CorrectedOnceFinal
<1>4. ~built => new = old BY <1>1, WindowStep
<1>5. built => /\ Len(new) = Len(old) + 1
               /\ new[Len(old) + 1] = snapshot
               /\ \A j \in 1..Len(old) : new[j] = old[j]
  BY <1>1, WindowStep
<1>6. /\ snapshot.revision = Len(old) + 1
      /\ IF IsFinal(old)
         THEN snapshot.revision_state = "CORRECTED" /\ snapshot.supersedes_revision = Len(old)
         ELSE snapshot.revision_state # "CORRECTED" /\ snapshot.supersedes_revision = 0
  BY DEF NewRow, NewSnapshot
<1>7. CASE ~built BY <1>3, <1>4, <1>7
<1>8. CASE built
  <2> HIDE DEF built, snapshot, old, new
  <2>0. Len(old) \in Nat BY <1>2
  <2>1. CASE k \in 1..Len(old)
    <3>1. new[k] = old[k] /\ (k > 1 => new[k - 1] = old[k - 1]) BY <1>5, <1>8, <2>0, <2>1
    <3>2. Follows(old, k) BY <1>3, <2>1
    <3>3. Follows(new, k) BY <3>1, <3>2
    <3> QED BY <3>3 DEF new
  <2>2. CASE k = Len(old) + 1
    <3>1. new[k] = snapshot BY <1>5, <1>8, <2>2
    <3>2. k > 1 <=> old # <<>> BY <1>2, <2>0, <2>2
    <3>3. k > 1 => new[k - 1] = old[Len(old)] BY <1>5, <1>8, <2>0, <2>2
    <3>4. IsFinal(old) <=> k > 1 /\ new[k - 1].revision_state # "PROVISIONAL"
      BY <3>2, <3>3 DEF IsFinal
    <3>5. k - 1 = Len(old) BY <2>0, <2>2
    <3>6. Follows(new, k) BY <1>6, <2>2, <3>1, <3>4, <3>5
    <3> QED BY <3>6 DEF new
  <2>3. k \in 1..(Len(old) + 1) BY <1>5, <1>8 DEF new
  <2> QED BY <2>0, <2>1, <2>2, <2>3
<1> QED BY <1>7, <1>8

\* A window becomes final under a watermark that, for a source that is not
\* idle, trails its own newest signal.
LEMMA FinalAfterLatenessStep ==
  ASSUME NEW e, EInv(e), NEW s \in Signal, NEW next, next = Ingest(e, s)
  PROVE  FinalAfterLateness(next)
<1> SUFFICES ASSUME NEW w \in Window, IsFinal(next.revisions[w]),
                    NEW d \in Domain, NeverIdle(next, d)
             PROVE  WindowEnd(w) <= next.max_event_time[d] - AllowedLateness
  BY DEF FinalAfterLateness
<1> DEFINE built == Built(e, s, next, w)
           snapshot == NewRow(e, next, w)
<1>1. e \in Engine BY DEF EInv
<1>2. NeverIdle(e, d)
  <2> SUFFICES ASSUME NEW v \in Window, NEW k \in 1..Len(e.revisions[v])
               PROVE  ~e.revisions[v][k].features.source[d].idle
    BY DEF NeverIdle
  <2>1. e.revisions[v] \in Seq(Snapshot) BY <1>1 DEF Engine
  <2>2. /\ Len(next.revisions[v]) >= Len(e.revisions[v])
        /\ next.revisions[v][k] = e.revisions[v][k]
    BY <1>1, <2>1, WindowStep
  <2>3. k \in 1..Len(next.revisions[v])
    <3>1. Len(e.revisions[v]) \in Nat /\ Len(next.revisions[v]) \in Nat
      BY <1>1, <2>1, WindowStep
    <3> QED BY <2>2, <3>1
  <2> QED BY <2>2, <2>3 DEF NeverIdle
<1>3. /\ WindowEnd(w) \in Nat /\ AllowedLateness \in Nat
      /\ e.max_event_time[d] \in Int /\ next.max_event_time[d] \in Int
      /\ next.max_event_time[d] >= e.max_event_time[d]
  <2>1. w.start \in Nat /\ w.interval \in Nat BY ConstantTypes DEF Window
  <2>2. /\ e.max_event_time \in [Domain -> Time \cup {-1}]
        /\ next.max_event_time \in [Domain -> Time \cup {-1}]
    BY <1>1, TablesStep DEF Engine
  <2>3. next.max_event_time[d] >= e.max_event_time[d] BY <1>1, TablesStep
  <2> QED BY <2>1, <2>2, <2>3, EngineAssumption DEF WindowEnd, Time
<1>4. CASE IsFinal(e.revisions[w])
  <2>1. WindowEnd(w) <= e.max_event_time[d] - AllowedLateness
    BY <1>2, <1>4 DEF EInv, FinalAfterLateness
  <2> QED BY <1>3, <2>1
<1>5. CASE ~IsFinal(e.revisions[w])
  <2>1. built
    <3>1. ~built => next.revisions[w] = e.revisions[w] BY <1>1, WindowStep
    <3> QED BY <1>5, <3>1
  <2>2. /\ LastRevision(next, w) = snapshot /\ next.revisions[w] # <<>>
        /\ Len(next.revisions[w]) = Len(e.revisions[w]) + 1
    BY <1>1, <2>1, WindowStep
  <2>3. LastRevision(next, w) = next.revisions[w][Len(next.revisions[w])] BY DEF LastRevision
  <2>4. snapshot.revision_state # "PROVISIONAL" BY <2>2, <2>3 DEF IsFinal
  <2>5. Passed(next.max_event_time, next.source, w) BY <1>5, <2>4 DEF NewRow, NewSnapshot
  <2>6. ~next.source[d].idle
    <3>1. Len(e.revisions[w]) \in Nat
      <4>1. e.revisions[w] \in Seq(Snapshot) BY <1>1 DEF Engine
      <4> QED BY <4>1
    <3>2. Len(next.revisions[w]) \in 1..Len(next.revisions[w]) BY <2>2, <3>1
    <3>3. ~next.revisions[w][Len(next.revisions[w])].features.source[d].idle
      BY <3>2 DEF NeverIdle
    <3>4. snapshot.features.source = next.source BY DEF NewRow, NewSnapshot
    <3> QED BY <2>2, <2>3, <3>3, <3>4
  <2> QED BY <2>5, <2>6 DEF Passed, DomainWatermark
<1> QED BY <1>4, <1>5

-----------------------------------------------------------------------------
\* The engine starts with empty tables.
LEMMA EmptyEInv == EInv(EmptyEngine)
<1> DEFINE e == EmptyEngine
<1>1. e \in Engine
  <2>1. NotObserved \in SourceState BY DEF NotObserved, SourceState
  <2>2. [w \in Window |-> <<>>] \in [Window -> Seq(Snapshot)] OBVIOUS
  <2> QED BY <2>1, <2>2 DEF EmptyEngine, Engine
<1>2. e.log = <<>> /\ \A w \in Window : e.revisions[w] = <<>>
  BY DEF EmptyEngine
<1> HIDE DEF e
<1>3. RevisionsAreCurrent(e) BY <1>2 DEF RevisionsAreCurrent, Own, Logged
<1>4. FinalWhenPassed(e) /\ CorrectedOnceFinal(e) /\ FinalAfterLateness(e)
  BY <1>2 DEF FinalWhenPassed, CorrectedOnceFinal, FinalAfterLateness, IsFinal
<1> QED BY <1>1, <1>3, <1>4 DEF EInv, e

\* Ingesting a signal preserves all of it.
LEMMA IngestEInv ==
  ASSUME NEW e, EInv(e), NEW s \in Signal
  PROVE  EInv(Ingest(e, s))
<1> DEFINE next == Ingest(e, s)
<1>1. e \in Engine BY DEF EInv
<1>2. next \in Engine BY <1>1, TypeStep
<1> QED BY <1>2, RevisionsAreCurrentStep, FinalWhenPassedStep, CorrectedOnceFinalStep,
           FinalAfterLatenessStep DEF EInv

\* The conjunction is an invariant of the engine.
LEMMA EInvariant == WindowsSpec => []EInv(engine)
<1>1. WindowsInit => EInv(engine) BY EmptyEInv DEF WindowsInit
<1>2. EInv(engine) /\ [WindowsNext]_engine => EInv(engine)'
  <2>1. CASE WindowsNext BY <2>1, IngestEInv DEF WindowsNext, IngestSignal
  <2> QED BY <2>1
<1> QED BY <1>1, <1>2, PTL DEF WindowsSpec

\* The tables of the engine keep their shape.
THEOREM EngineTypeOKTheorem == WindowsSpec => []EngineTypeOK
<1>1. EInv(engine) => EngineTypeOK BY DEF EInv, EngineTypeOK
<1> QED BY <1>1, EInvariant, PTL

\* ingest(): the last revision of every window is a function of the set of
\* signals, whatever their order.
THEOREM LatestIsCurrentTheorem == WindowsSpec => []LatestIsCurrent
<1>1. EInv(engine) => LatestIsCurrent BY DEF EInv, LatestIsCurrent
<1> QED BY <1>1, EInvariant, PTL

\* _finalize_eligible(): no window stays provisional behind the watermark.
THEOREM PassedIsFinalTheorem == WindowsSpec => []PassedIsFinal
<1>1. EInv(engine) => PassedIsFinal BY DEF EInv, PassedIsFinal
<1> QED BY <1>1, EInvariant, PTL

\* _build_revision(): revisions are numbered without gaps, and finality is
\* never taken back.
THEOREM FinalNeverReopensTheorem == WindowsSpec => []FinalNeverReopens
<1>1. EInv(engine) => FinalNeverReopens BY DEF EInv, FinalNeverReopens
<1> QED BY <1>1, EInvariant, PTL

\* watermarks(): the allowed lateness of a source that was never idle holds.
THEOREM LatenessHonouredTheorem == WindowsSpec => []LatenessHonoured
<1>1. EInv(engine) => LatenessHonoured BY DEF EInv, LatenessHonoured
<1> QED BY <1>1, EInvariant, PTL

\* The three promises about finality together, as the run checks them.
THEOREM FinalityInvTheorem == WindowsSpec => []FinalityInv
BY PassedIsFinalTheorem, FinalNeverReopensTheorem, LatenessHonouredTheorem, PTL DEF FinalityInv
-----------------------------------------------------------------------------
(***************************************************************************)
(* A restore replays the log from an empty engine.  Nothing is said here   *)
(* of what it computes, only that a longer log is replayed as the shorter  *)
(* one and one signal more.                                                *)
(***************************************************************************)
\* f is the engine after the first m signals of the log, for every m up to n.
IsReplay(f, log, n) ==
  f = [m \in 0 .. n |-> IF m = 0 THEN EmptyEngine ELSE IngestNew(f[m - 1], log[m])]
ReplayOf(log) == CHOOSE f : IsReplay(f, log, Len(log))

LEMMA RestoredIsReplay ==
  ASSUME NEW log
  PROVE  RestoredEngine(log) = ReplayOf(log)[Len(log)]
BY DEF RestoredEngine, ReplayOf, IsReplay

\* Every log can be replayed: the shortest prefix that could not is one signal
\* longer than one that can.
LEMMA ReplayExists ==
  ASSUME NEW log, NEW n \in Nat
  PROVE  \E f : IsReplay(f, log, n)
<1> DEFINE Stuck == {k \in Nat : ~\E f : IsReplay(f, log, k)}
<1> SUFFICES ASSUME Stuck # {} PROVE FALSE OBVIOUS
<1>1. PICK m \in Stuck : \A k \in Stuck : m <= k BY LeastExists
<1>2. m # 0
  <2> DEFINE f == [j \in 0 .. 0 |-> EmptyEngine]
  <2>1. IsReplay(f, log, 0) BY DEF IsReplay
  <2> QED BY <2>1
<1>3. m - 1 \in Nat /\ ~(m <= m - 1) BY <1>2
<1>4. PICK f : IsReplay(f, log, m - 1) BY <1>1, <1>3
<1> DEFINE last == IngestNew(f[m - 1], log[m])
           g == [j \in 0 .. m |-> IF j = m THEN last ELSE f[j]]
<1>5. \A j \in 0 .. m : g[j] = IF j = 0 THEN EmptyEngine ELSE IngestNew(g[j - 1], log[j])
  <2> SUFFICES ASSUME NEW j \in 0 .. m
               PROVE  g[j] = IF j = 0 THEN EmptyEngine ELSE IngestNew(g[j - 1], log[j])
    OBVIOUS
  <2> HIDE DEF last
  <2>1. CASE j = m
    <3>1. g[j - 1] = f[m - 1] /\ j # 0 BY <1>2, <1>3, <2>1
    <3>2. g[j] = last BY <2>1
    <3> QED BY <2>1, <3>1, <3>2 DEF last
  <2>2. CASE j # m
    <3>1. j \in 0 .. m - 1 /\ g[j] = f[j] BY <1>3, <2>2
    <3>2. j # 0 => g[j - 1] = f[j - 1] BY <1>3, <2>2
    <3>3. f[j] = IF j = 0 THEN EmptyEngine ELSE IngestNew(f[j - 1], log[j])
      BY <1>4, <3>1 DEF IsReplay
    <3> QED BY <3>1, <3>2, <3>3
  <2> QED BY <2>1, <2>2
<1>6. g = [j \in 0 .. m |-> g[j]] OBVIOUS
<1>7. IsReplay(g, log, m)
  <2> HIDE DEF g
  <2> QED BY <1>5, <1>6 DEF IsReplay
<1> QED BY <1>7

\* Two replays of logs that agree so far agree so far.
LEMMA ReplaysAgree ==
  ASSUME NEW n \in Nat, NEW log, NEW longer, NEW f, NEW g, NEW m \in Nat, n <= m,
         IsReplay(f, log, n), IsReplay(g, longer, m),
         \A k \in 1 .. n : log[k] = longer[k]
  PROVE  \A k \in 0 .. n : f[k] = g[k]
<1> DEFINE Differ == {k \in 0 .. n : f[k] # g[k]}
<1> SUFFICES ASSUME Differ # {} PROVE FALSE OBVIOUS
<1>1. Differ \in SUBSET Nat OBVIOUS
<1>2. PICK k \in Differ : \A j \in Differ : k <= j BY <1>1, LeastExists
<1>3. /\ f[k] = IF k = 0 THEN EmptyEngine ELSE IngestNew(f[k - 1], log[k])
      /\ g[k] = IF k = 0 THEN EmptyEngine ELSE IngestNew(g[k - 1], longer[k])
  <2>1. k \in 0 .. n /\ k \in 0 .. m OBVIOUS
  <2> QED BY <2>1 DEF IsReplay
<1>4. CASE k = 0 BY <1>3, <1>4
<1>5. CASE k # 0
  <2>1. k - 1 \in 0 .. n /\ ~(k <= k - 1) /\ k \in 1 .. n BY <1>5
  <2>2. f[k - 1] = g[k - 1] BY <1>2, <2>1
  <2> QED BY <1>3, <1>5, <2>1, <2>2
<1> QED BY <1>4, <1>5

LEMMA RestoredEmpty == RestoredEngine(<<>>) = EmptyEngine
<1> DEFINE f == ReplayOf(<<>>)
<1>1. IsReplay(f, <<>>, 0)
  <2>1. \E g : IsReplay(g, <<>>, 0) BY ReplayExists
  <2>2. Len(<<>>) = 0 OBVIOUS
  <2> QED BY <2>1, <2>2 DEF ReplayOf
<1>2. f[0] = EmptyEngine
  <2> HIDE DEF f
  <2> QED BY <1>1 DEF IsReplay
<1> QED BY <1>2, RestoredIsReplay

LEMMA RestoredAppend ==
  ASSUME NEW log \in Seq(Signal), NEW s \in Signal
  PROVE  RestoredEngine(Append(log, s)) = IngestNew(RestoredEngine(log), s)
<1> DEFINE longer == Append(log, s)
           n == Len(log)
           f == ReplayOf(log)
           g == ReplayOf(longer)
<1>1. n \in Nat /\ Len(longer) = n + 1 /\ longer[n + 1] = s OBVIOUS
<1>2. \A k \in 1 .. n : log[k] = longer[k] OBVIOUS
<1>3. IsReplay(f, log, n)
  <2>1. \E h : IsReplay(h, log, n) BY <1>1, ReplayExists
  <2> QED BY <2>1 DEF ReplayOf
<1>4. IsReplay(g, longer, n + 1)
  <2>1. \E h : IsReplay(h, longer, n + 1) BY <1>1, ReplayExists
  <2> QED BY <1>1, <2>1 DEF ReplayOf
<1>5. RestoredEngine(log) = f[n] /\ RestoredEngine(longer) = g[n + 1]
  BY <1>1, RestoredIsReplay
<1> HIDE DEF longer, n, f, g
<1>6. f[n] = g[n]
  <2>1. n <= n + 1 /\ n + 1 \in Nat /\ n \in 0 .. n BY <1>1
  <2> QED BY <1>1, <1>2, <1>3, <1>4, <2>1, ReplaysAgree
<1>7. g[n + 1] = IngestNew(g[n], longer[n + 1])
  <2>1. n + 1 \in 0 .. n + 1 /\ n + 1 # 0 /\ (n + 1) - 1 = n BY <1>1
  <2> QED BY <1>4, <2>1 DEF IsReplay
<1> QED BY <1>1, <1>5, <1>6, <1>7 DEF longer
-----------------------------------------------------------------------------
\* A finite set listed as a sequence: nothing else is in the list, nothing is
\* missing, and it is empty only if the set is.
LEMMA ListOfASet ==
  ASSUME NEW S, IsFiniteSet(S), NEW q \in SetToSeqs(S)
  PROVE  /\ q \in Seq(S)
         /\ {q[k] : k \in DOMAIN q} = S
         /\ S # {} => q # <<>>
<1> DEFINE D == 1 .. Cardinality(S)
<1>1. Cardinality(S) \in Nat BY FS_CardinalityType
<1>2. IsFiniteSet(D) /\ Cardinality(D) = Cardinality(S)
  <2>1. IsFiniteSet(D) BY <1>1, FS_Interval
  <2>2. Cardinality(D) = Cardinality(S)
    <3>1. ExistsBijection(D, S) BY FS_CardinalityType
    <3> QED BY <2>1, <3>1, FS_Bijection
  <2> QED BY <2>1, <2>2
<1>3. q \in [D -> S] /\ \A i, j \in D : i # j => q[i] # q[j] BY DEF SetToSeqs
<1>4. q \in Injection(D, S) BY <1>3 DEF Injection, IsInjective
<1>5. q \in Surjection(D, S) BY <1>2, <1>4, FS_Injection
<1>6. {q[k] : k \in DOMAIN q} = S
  <2>1. \A t \in S : \E k \in D : q[k] = t BY <1>5 DEF Surjection
  <2> QED BY <1>3, <2>1
<1>7. q \in Seq(S) BY <1>1, <1>3
<1> QED BY <1>6, <1>7

\* The windows are finitely many: the intervals are listed, the times bounded.
LEMMA WindowsAreFinite == IsFiniteSet(Window)
<1>1. IsFiniteSet(Interval)
  <2> DEFINE D == DOMAIN IntervalOrder
  <2>1. D = 1 .. Len(IntervalOrder) /\ Len(IntervalOrder) \in Nat BY EngineAssumption
  <2>2. IsFiniteSet(D) BY <2>1, FS_Interval
  <2>3. IntervalOrder \in Surjection(D, Interval)
    <3>1. IntervalOrder \in [D -> Interval] BY <2>1, EngineAssumption DEF Interval
    <3> QED BY <3>1 DEF Surjection, Interval
  <2> HIDE DEF D
  <2> QED BY <2>2, <2>3, FS_Surjection
<1>2. IsFiniteSet(Time) BY EngineAssumption, FS_Interval DEF Time
<1> DEFINE P == Interval \X Time
           f == [p \in P |-> [interval |-> p[1], start |-> p[2]]]
<1>3. IsFiniteSet(P) BY <1>1, <1>2, FS_Product
<1>4. f \in Surjection(P, Window)
  <2>1. f \in [P -> Window] BY DEF Window
  <2>2. \A w \in Window : \E p \in P : f[p] = w
    <3> SUFFICES ASSUME NEW w \in Window PROVE \E p \in P : f[p] = w OBVIOUS
    <3>1. <<w.interval, w.start>> \in P /\ w = [interval |-> w.interval, start |-> w.start]
      BY DEF Window
    <3>2. f[<<w.interval, w.start>>] = w BY <3>1
    <3> QED BY <3>1, <3>2
  <2> QED BY <2>1, <2>2 DEF Surjection
<1> HIDE DEF P, f
<1> QED BY <1>3, <1>4, FS_Surjection

\* What ingest() returns: the last revisions of the windows that it built, in
\* its order.
LEMMA ReturnedIsBuilt ==
  ASSUME NEW e \in Engine, NEW s \in Signal, NEW next, next = Ingest(e, s),
         NEW q \in Returned(e, s)
  PROVE  /\ q \in Seq(Snapshot)
         /\ \A k \in DOMAIN q : /\ q[k].window \in Window
                                /\ q[k].revision = Len(next.revisions[q[k].window])
                                /\ q[k] = LastRevision(next, q[k].window)
                                /\ Built(e, s, next, q[k].window)
         /\ \A w \in Window : Built(e, s, next, w) => \E k \in DOMAIN q : q[k].window = w
         /\ \A j, k \in DOMAIN q : j < k => ReturnedBefore(e, s, q[j].window, q[k].window)
<1> DEFINE W == ChangedWindows(e, s)
<1>1. W = {w \in Window : Built(e, s, next, w)}
  <2>1. /\ next.max_event_time = MaxEventTime(e, s)
        /\ next.source = WithIdle(next.max_event_time, Observed(e, s))
    BY IngestTables
  <2> QED BY <2>1 DEF ChangedWindows, Built
<1>2. IsFiniteSet(W) BY <1>1, WindowsAreFinite, FS_Subset
<1>3. PICK windows \in SetToSeqs(W) :
        /\ q = [k \in DOMAIN windows |-> LastRevision(next, windows[k])]
        /\ \A j, k \in DOMAIN windows : j < k => ReturnedBefore(e, s, windows[j], windows[k])
  BY DEF Returned
<1>4. windows \in Seq(W) /\ {windows[k] : k \in DOMAIN windows} = W
  <2> HIDE DEF W
  <2> QED BY <1>2, ListOfASet
<1>5. \A w \in W : /\ LastRevision(next, w) \in Snapshot
                   /\ LastRevision(next, w).window = w
                   /\ LastRevision(next, w).revision = Len(next.revisions[w])
  <2> SUFFICES ASSUME NEW w \in W
               PROVE  /\ LastRevision(next, w) \in Snapshot
                      /\ LastRevision(next, w).window = w
                      /\ LastRevision(next, w).revision = Len(next.revisions[w])
    OBVIOUS
  <2>1. w \in Window /\ Built(e, s, next, w) BY <1>1
  <2>2. /\ LastRevision(next, w) = NewRow(e, next, w) /\ NewRow(e, next, w) \in Snapshot
        /\ Len(next.revisions[w]) = Len(e.revisions[w]) + 1
    BY <2>1, WindowStep
  <2>3. NewRow(e, next, w).window = w /\ NewRow(e, next, w).revision = Len(e.revisions[w]) + 1
    BY DEF NewRow, NewSnapshot
  <2> QED BY <2>2, <2>3
<1>6. W \subseteq Window BY <1>1
<1> HIDE DEF W
<1>7. DOMAIN q = DOMAIN windows /\ DOMAIN windows = 1 .. Len(windows) /\ Len(windows) \in Nat
  BY <1>3, <1>4
<1>8. \A k \in DOMAIN q : windows[k] \in W /\ q[k] = LastRevision(next, windows[k])
  <2> SUFFICES ASSUME NEW k \in DOMAIN q
               PROVE  windows[k] \in W /\ q[k] = LastRevision(next, windows[k])
    OBVIOUS
  <2>1. windows[k] \in W BY <1>4, <1>7
  <2> QED BY <1>3, <1>7, <2>1
<1>9. q \in Seq(Snapshot)
  <2>1. q \in [1 .. Len(windows) -> Snapshot] BY <1>3, <1>5, <1>7, <1>8
  <2> QED BY <1>7, <2>1
<1>10. \A w \in W : \E k \in DOMAIN q : q[k].window = w BY <1>4, <1>5, <1>7, <1>8
<1>11. \A k \in DOMAIN q : q[k].window = windows[k] BY <1>5, <1>8
<1>12. \A j, k \in DOMAIN q : j < k => ReturnedBefore(e, s, q[j].window, q[k].window)
  BY <1>3, <1>7, <1>11
<1> QED BY <1>1, <1>5, <1>6, <1>8, <1>9, <1>10, <1>11, <1>12
-----------------------------------------------------------------------------
(***************************************************************************)
(* The second part: the worker, for any records, batches, readings of the  *)
(* health and crashes.  Its engine is at any time the one that a restore   *)
(* of its own log would build, so a restart from the checkpoint goes back  *)
(* to a state the engine was in, all of whose revisions are stored.        *)
(***************************************************************************)
\* A record by its partition and offset.
Entry == UNION {{<<p, k>> : k \in 1 .. Len(Records[p])} : p \in Partition}
RecordAt(a) == Records[a[1]][a[2]]
RecordsOf(E) == {RecordAt(a) : a \in E}
UpTo(n) == {a \in Entry : a[2] <= n[a[1]]}

ConsumerTypeOK ==
  /\ WorkerTypeOK
  /\ batch \in Seq(Entry) /\ partitions \in Seq(Entry)
  /\ signals \in Seq(Signal) /\ pending \in Seq(Snapshot)
  /\ latest \in [Interval -> Seq(Snapshot)]

\* What is in hand at each place of run(), and where the offsets are.
PhaseInv ==
  /\ \A p \in Partition : committed[p] <= position[p] /\ position[p] <= Len(Records[p])
  /\ \A k \in DOMAIN batch : committed[batch[k][1]] < batch[k][2]
  /\ \A k \in DOMAIN partitions : partitions[k][2] <= position[partitions[k][1]]
  /\ pc \in {"fetch", "save", "commit"} => batch = <<>> /\ signals = <<>>
  /\ pc # "fetch" => partitions # <<>>
  /\ pending = <<>> <=> pc \in {"fetch", "process", "save", "commit"}

\* A restore of the log gives the engine, and one of the checkpoint its log.
RestoreInv ==
  /\ EInv(engine) /\ engine = RestoredEngine(engine.log)
  /\ EInv(RestoredEngine(checkpoint)) /\ RestoredEngine(checkpoint).log = checkpoint
  /\ pc = "commit" => checkpoint = engine.log

\* The records that were taken from the batch, and those that count as done:
\* before a fetch all that were read.
InBatch == {batch[k] : k \in DOMAIN batch}
Processed == UpTo(position) \ InBatch
Settled == IF pc = "fetch" THEN position ELSE committed

\* Market records and social records whose other half is there as well.
Whole(read) ==
  {r \in read : r.domain = "market"
                \/ \A half \in {"post", "mention"} : [r EXCEPT !.half = half] \in read}
SignalId(r) == SignalsOf(r, <<>>)[1].id
InHand(r) ==
  \/ \E s \in Logged(engine.log) : s.id = SignalId(r)
  \/ \E k \in DOMAIN signals : signals[k].id = SignalId(r)

\* A half that was processed is in Redis; what the processed records
\* contribute is in the engine or about to be, what the settled ones do in
\* the checkpoint.
LogInv ==
  /\ \A a \in Processed : RecordAt(a).domain = "social" =>
       <<RecordAt(a).key, RecordAt(a).half>> \in join
  /\ \A r \in Whole(RecordsOf(Processed)) : InHand(r)
  /\ \A r \in Whole(RecordsOf(UpTo(Settled))) : Checkpointed(r)

\* A snapshot in hand is the last revision of its window, and only a window
\* with such a snapshot is ahead of the rows, by one; a checkpoint never is.
RowsInv ==
  /\ \A k \in DOMAIN pending :
       pending[k].revision = Len(engine.revisions[pending[k].window])
  /\ \A w \in Window :
       /\ Len(engine.revisions[w]) <= Len(stored[w]) + 1
       /\ (\A k \in DOMAIN pending : pending[k].window # w) =>
            Len(engine.revisions[w]) <= Len(stored[w])
       /\ Len(RestoredEngine(checkpoint).revisions[w]) <= Len(stored[w])
  /\ pc \in {"cache", "publish"} => pending[1].revision <= Len(stored[pending[1].window])
  /\ StoredHasNoGaps /\ PublishedIsStored

WInv == ConsumerTypeOK /\ PhaseInv /\ RestoreInv /\ LogInv /\ RowsInv

-----------------------------------------------------------------------------
LEMMA RecordTypes ==
  /\ Partition \subseteq Nat /\ IsFiniteSet(Partition)
  /\ \A p \in Partition : Records[p] \in Seq(AllRecords) /\ Len(Records[p]) \in Nat
  /\ \A a \in Entry : /\ a[1] \in Partition /\ a[2] \in 1 .. Len(Records[a[1]])
                      /\ RecordAt(a) \in AllRecords
<1>1. Partition = 1 .. Len(Records) /\ Len(Records) \in Nat
  BY RecordsAssumption DEF Partition
<1>2. IsFiniteSet(Partition) BY <1>1, FS_Interval
<1>3. \A p \in Partition : Records[p] \in Seq(AllRecords) /\ Len(Records[p]) \in Nat
  BY <1>1, RecordsAssumption
<1>4. \A a \in Entry : /\ a[1] \in Partition /\ a[2] \in 1 .. Len(Records[a[1]])
                       /\ RecordAt(a) \in AllRecords
  <2> SUFFICES ASSUME NEW p \in Partition, NEW k \in 1 .. Len(Records[p])
               PROVE  Records[p][k] \in AllRecords
    BY DEF Entry, RecordAt
  <2>1. Records[p] \in Seq(AllRecords) BY <1>3
  <2> QED BY <2>1
<1> QED BY <1>1, <1>2, <1>3, <1>4

\* The records up to the offsets n, and how they grow.
LEMMA UpToGrows ==
  ASSUME NEW m \in [Partition -> Nat], NEW n \in [Partition -> Nat],
         \A p \in Partition : m[p] <= n[p]
  PROVE  UpTo(m) \subseteq UpTo(n)
<1> SUFFICES ASSUME NEW a \in Entry, a[2] <= m[a[1]] PROVE a[2] <= n[a[1]] BY DEF UpTo
<1>1. a[1] \in Partition /\ a[2] \in 1 .. Len(Records[a[1]]) BY RecordTypes
<1>2. a[2] \in Nat /\ m[a[1]] \in Nat /\ n[a[1]] \in Nat /\ m[a[1]] <= n[a[1]]
  BY <1>1, RecordTypes
<1> QED BY <1>2

LEMMA WholeGrows ==
  ASSUME NEW A, NEW B, A \subseteq B
  PROVE  Whole(A) \subseteq Whole(B)
BY DEF Whole

LEMMA WholeRecordsGrow ==
  ASSUME NEW A, NEW B, A \subseteq B
  PROVE  Whole(RecordsOf(A)) \subseteq Whole(RecordsOf(B))
<1>1. RecordsOf(A) \subseteq RecordsOf(B) BY DEF RecordsOf
<1> QED BY <1>1, WholeGrows

LEMMA ContributingIsWhole ==
  ASSUME NEW n \in [Partition -> Nat], \A p \in Partition : n[p] <= Len(Records[p])
  PROVE  Contributing(n) = Whole(RecordsOf(UpTo(n)))
<1> DEFINE read == UNION {{Records[p][k] : k \in 1 .. n[p]} : p \in Partition}
<1>1. read = RecordsOf(UpTo(n))
  <2>1. ASSUME NEW r \in read PROVE r \in RecordsOf(UpTo(n))
    <3>1. PICK p \in Partition : \E k \in 1 .. n[p] : r = Records[p][k] OBVIOUS
    <3>0. PICK k \in 1 .. n[p] : r = Records[p][k] BY <3>1
    <3>2. k \in 1 .. Len(Records[p]) /\ k <= n[p]
      <4>1. n[p] \in Nat /\ Len(Records[p]) \in Nat /\ n[p] <= Len(Records[p]) BY RecordTypes
      <4> QED BY <4>1
    <3>3. <<p, k>> \in UpTo(n) BY <3>2 DEF UpTo, Entry
    <3>4. RecordAt(<<p, k>>) = r BY <3>0 DEF RecordAt
    <3> QED BY <3>3, <3>4 DEF RecordsOf
  <2>2. ASSUME NEW r \in RecordsOf(UpTo(n)) PROVE r \in read
    <3>1. PICK a \in UpTo(n) : r = Records[a[1]][a[2]] BY DEF RecordsOf, RecordAt
    <3>2. a[1] \in Partition /\ a[2] \in 1 .. n[a[1]]
      <4>1. a[1] \in Partition /\ a[2] \in 1 .. Len(Records[a[1]]) /\ a[2] <= n[a[1]]
        BY RecordTypes DEF UpTo
      <4>2. n[a[1]] \in Nat /\ Len(Records[a[1]]) \in Nat BY <4>1, RecordTypes
      <4> QED BY <4>1, <4>2
    <3> QED BY <3>1, <3>2
  <2> QED BY <2>1, <2>2
<1>2. Contributing(n) = Whole(read) BY DEF Contributing, Whole
<1> QED BY <1>1, <1>2

\* What a fetch puts into the batch: exactly the records it read on.
LEMMA FetchedBatch ==
  ASSUME ConsumerTypeOK, PhaseInv, NEW upto \in Offsets, Fetch(upto)
  PROVE  /\ batch' \in Seq(Entry) /\ partitions' \in Seq(Entry)
         /\ partitions' # <<>>
         /\ InBatch' = UpTo(upto) \ UpTo(position)
         /\ \A k \in DOMAIN partitions' : partitions'[k] \in InBatch'
         /\ upto \in [Partition -> Nat]
         /\ \A p \in Partition : position[p] <= upto[p] /\ upto[p] <= Len(Records[p])
<1> DEFINE read(p) == {<<p, k>> : k \in position[p] + 1 .. upto[p]}
           chosen == UNION {read(p) : p \in Partition}
<1>1. /\ \A p \in Partition : upto[p] \in position[p] .. Len(Records[p])
      /\ chosen # {} /\ batch' \in Sorted(chosen) /\ partitions' \in LatestByPartition(batch')
  BY DEF Fetch
<1>2. position \in [Partition -> Nat] BY DEF ConsumerTypeOK, WorkerTypeOK
<1>3. upto \in [Partition -> Nat]
  <2>1. upto = [p \in Partition |-> upto[p]] BY DEF Offsets
  <2>2. \A p \in Partition : upto[p] \in Nat
    <3> SUFFICES ASSUME NEW p \in Partition PROVE upto[p] \in Nat OBVIOUS
    <3>1. position[p] \in Nat /\ Len(Records[p]) \in Nat BY <1>2, RecordTypes
    <3>2. upto[p] \in position[p] .. Len(Records[p]) BY <1>1
    <3> QED BY <3>1, <3>2
  <2> QED BY <2>1, <2>2
<1>4. \A p \in Partition : position[p] <= upto[p] /\ upto[p] <= Len(Records[p])
  <2> SUFFICES ASSUME NEW p \in Partition
               PROVE  position[p] <= upto[p] /\ upto[p] <= Len(Records[p])
    OBVIOUS
  <2>1. position[p] \in Nat /\ Len(Records[p]) \in Nat BY <1>2, RecordTypes
  <2>2. upto[p] \in position[p] .. Len(Records[p]) BY <1>1
  <2> QED BY <2>1, <2>2
<1>5. chosen = UpTo(upto) \ UpTo(position)
  <2>1. ASSUME NEW a \in chosen PROVE a \in UpTo(upto) \ UpTo(position)
    <3>1. PICK p \in Partition : \E k \in position[p] + 1 .. upto[p] : a = <<p, k>> OBVIOUS
    <3>0. PICK k \in position[p] + 1 .. upto[p] : a = <<p, k>> BY <3>1
    <3>2. /\ position[p] \in Nat /\ upto[p] \in Nat /\ Len(Records[p]) \in Nat
          /\ upto[p] <= Len(Records[p])
      BY <1>2, <1>3, <1>4, RecordTypes
    <3>3. k \in 1 .. Len(Records[p]) /\ k <= upto[p] /\ ~(k <= position[p]) BY <3>2
    <3>4. a[1] = p /\ a[2] = k BY <3>0
    <3> QED BY <3>0, <3>3, <3>4 DEF UpTo, Entry
  <2>2. ASSUME NEW a \in UpTo(upto) \ UpTo(position) PROVE a \in chosen
    <3>1. /\ a \in Entry /\ a[2] <= upto[a[1]] /\ ~(a[2] <= position[a[1]]) BY DEF UpTo
    <3>2. PICK p \in Partition : \E k \in 1 .. Len(Records[p]) : a = <<p, k>> BY <3>1 DEF Entry
    <3>6. PICK k \in 1 .. Len(Records[p]) : a = <<p, k>> BY <3>2
    <3>3. position[p] \in Nat /\ upto[p] \in Nat /\ Len(Records[p]) \in Nat
      BY <1>2, <1>3, RecordTypes
    <3>4. k <= upto[p] /\ ~(k <= position[p]) BY <3>1, <3>6
    <3>5. k \in position[p] + 1 .. upto[p] BY <3>3, <3>4
    <3> QED BY <3>5, <3>6
  <2> QED BY <2>1, <2>2
<1>6. IsFiniteSet(chosen)
  <2>1. \A p \in Partition : IsFiniteSet(read(p))
    <3> SUFFICES ASSUME NEW p \in Partition PROVE IsFiniteSet(read(p)) OBVIOUS
    <3> DEFINE D == position[p] + 1 .. upto[p]
               f == [k \in D |-> <<p, k>>]
    <3>1. position[p] + 1 \in Int /\ upto[p] \in Int BY <1>2, <1>3
    <3>2. IsFiniteSet(D) BY <3>1, FS_Interval
    <3>3. f \in Surjection(D, read(p)) BY DEF Surjection
    <3> HIDE DEF D, f, read
    <3> QED BY <3>2, <3>3, FS_Surjection
  <2> DEFINE R == {read(p) : p \in Partition}
             g == [p \in Partition |-> read(p)]
  <2>2. g \in Surjection(Partition, R) BY DEF Surjection
  <2>3. IsFiniteSet(R)
    <3> HIDE DEF R, g
    <3> QED BY <2>2, RecordTypes, FS_Surjection
  <2>4. \A T \in R : IsFiniteSet(T) BY <2>1
  <2> HIDE DEF R
  <2>5. IsFiniteSet(UNION R) BY <2>3, <2>4, FS_UNION
  <2> QED BY <2>5 DEF R
<1> HIDE DEF chosen
<1>7. batch' \in Seq(chosen) /\ {batch'[k] : k \in DOMAIN batch'} = chosen /\ batch' # <<>>
  BY <1>1, <1>6, ListOfASet DEF Sorted
<1>8. InBatch' = chosen BY <1>7 DEF InBatch
<1> DEFINE last == {k \in DOMAIN batch' :
                      \A j \in DOMAIN batch' : j > k => batch'[j][1] # batch'[k][1]}
           lasts == {batch'[k] : k \in last}
<1>9. partitions' \in SetToSeqs(lasts) BY <1>1 DEF LatestByPartition
<1>10. IsFiniteSet(lasts) /\ lasts \subseteq chosen /\ lasts # {}
  <2>1. lasts \subseteq chosen BY <1>7
  <2>2. Len(batch') \in last
    <3>1. DOMAIN batch' = 1 .. Len(batch') /\ Len(batch') \in Nat /\ Len(batch') # 0 BY <1>7
    <3> QED BY <3>1
  <2>3. lasts # {} BY <2>2
  <2> HIDE DEF lasts, last
  <2> QED BY <1>6, <2>1, <2>3, FS_Subset
<1> HIDE DEF lasts
<1>11. partitions' \in Seq(lasts) /\ partitions' # <<>> BY <1>9, <1>10, ListOfASet
<1>12. chosen \subseteq Entry BY <1>5 DEF UpTo
<1>13. batch' \in Seq(Entry) /\ partitions' \in Seq(Entry)
  BY <1>7, <1>10, <1>11, <1>12, SequenceOfMore
<1>14. \A k \in DOMAIN partitions' : partitions'[k] \in InBatch' BY <1>8, <1>10, <1>11
<1> QED BY <1>3, <1>4, <1>5, <1>8, <1>11, <1>13, <1>14
-----------------------------------------------------------------------------
LEMMA WorkerInit ==
  ASSUME Init
  PROVE  WInv
<1>1. EInv(EmptyEngine) /\ EmptyEngine \in Engine /\ EmptyEngine.log = <<>>
      /\ \A w \in Window : EmptyEngine.revisions[w] = <<>>
  BY EmptyEInv DEF EInv, EmptyEngine
<1>2. \A p \in Partition : position[p] = 0 /\ committed[p] = 0 BY DEF Init
<1>3. ConsumerTypeOK
  <2>1. position \in [Partition -> Nat] /\ committed \in [Partition -> Nat] BY DEF Init
  <2>2. stored \in [Window -> Seq(Snapshot)] /\ latest \in [Interval -> Seq(Snapshot)]
    BY DEF Init
  <2>3. checkpoint \in Seq(Signal) /\ published \subseteq Snapshot /\ engine \in Engine
    BY <1>1 DEF Init
  <2>4. pc \in {"fetch", "process", "persist", "cache", "publish", "save", "commit"} BY DEF Init
  <2>5. /\ batch \in Seq(Entry) /\ partitions \in Seq(Entry)
        /\ signals \in Seq(Signal) /\ pending \in Seq(Snapshot)
    BY DEF Init
  <2> QED BY <2>1, <2>2, <2>3, <2>4, <2>5 DEF ConsumerTypeOK, WorkerTypeOK
<1>4. PhaseInv
  <2>1. \A p \in Partition : committed[p] <= position[p] /\ position[p] <= Len(Records[p])
    BY <1>2, RecordTypes
  <2> QED BY <2>1 DEF PhaseInv, Init
<1>5. RestoreInv BY <1>1, RestoredEmpty DEF RestoreInv, Init
<1>6. LogInv
  <2>1. UpTo(position) = {}
    <3> SUFFICES ASSUME NEW a \in Entry, a[2] <= position[a[1]] PROVE FALSE BY DEF UpTo
    <3>1. a[1] \in Partition /\ a[2] \in 1 .. Len(Records[a[1]]) BY RecordTypes
    <3>2. position[a[1]] = 0 BY <1>2, <3>1
    <3> QED BY <3>1, <3>2
  <2>2. Processed = {} /\ Settled = position BY <2>1 DEF Processed, Settled, Init
  <2>3. RecordsOf({}) = {} /\ Whole({}) = {} BY DEF RecordsOf, Whole
  <2> QED BY <2>1, <2>2, <2>3 DEF LogInv
<1>7. RowsInv
  <2>1. \A w \in Window : engine.revisions[w] = <<>> /\ stored[w] = <<>>
                          /\ RestoredEngine(checkpoint).revisions[w] = <<>>
    BY <1>1, RestoredEmpty DEF Init
  <2>2. pending = <<>> /\ published = {} /\ (\A i \in Interval : latest[i] = <<>>) /\ pc = "fetch"
    BY DEF Init
  <2> QED BY <2>1, <2>2 DEF RowsInv, StoredHasNoGaps, PublishedIsStored
<1> QED BY <1>3, <1>4, <1>5, <1>6, <1>7 DEF WInv

-----------------------------------------------------------------------------
\* What ProcessSignal does to the engine: nothing if the id was seen, else an
\* ingest whose snapshots are then in hand.
LEMMA SignalEffect ==
  ASSUME ConsumerTypeOK, RestoreInv, ProcessSignal
  PROVE  /\ Head(signals) \in Signal
         /\ EInv(engine') /\ engine' = RestoredEngine(engine'.log)
         /\ engine'.log = engine.log \/ engine'.log = Append(engine.log, Head(signals))
         /\ \E s \in Logged(engine'.log) : s.id = Head(signals).id
         /\ \/ engine' = engine /\ pending' = <<>>
            \/ /\ engine' = Ingest(engine, Head(signals))
               /\ pending' \in Returned(engine, Head(signals))
<1> DEFINE s == Head(signals)
<1>1. s \in Signal
  <2>1. signals \in Seq(Signal) /\ signals # <<>> BY DEF ConsumerTypeOK, ProcessSignal
  <2> QED BY <2>1
<1> HIDE DEF s
<1>2. /\ engine' = IngestNew(engine, s)
      /\ pending' \in IF Seen(engine.log, s) THEN {<<>>} ELSE Returned(engine, s)
  BY DEF ProcessSignal, s
<1>3. engine \in Engine /\ engine.log \in Seq(Signal) /\ EInv(engine)
      /\ engine = RestoredEngine(engine.log)
  BY DEF RestoreInv, EInv, Engine
<1>4. CASE Seen(engine.log, s)
  <2>1. engine' = engine BY <1>2, <1>4 DEF IngestNew
  <2>2. \E x \in Logged(engine.log) : x.id = s.id BY <1>4 DEF Seen
  <2>3. pending' = <<>> BY <1>2, <1>4
  <2> QED BY <1>1, <1>3, <2>1, <2>2, <2>3 DEF s
<1>5. CASE ~Seen(engine.log, s)
  <2>1. engine' = Ingest(engine, s) BY <1>2, <1>5 DEF IngestNew
  <2>2. EInv(engine') BY <1>1, <1>3, <2>1, IngestEInv
  <2>3. engine'.log = Append(engine.log, s) BY <2>1, IngestTables
  <2>4. engine' = RestoredEngine(engine'.log) BY <1>1, <1>2, <1>3, <2>3, RestoredAppend
  <2>5. \E x \in Logged(engine'.log) : x.id = s.id BY <1>1, <1>3, <2>3, LoggedAppend
  <2>6. pending' \in Returned(engine, s) BY <1>2, <1>5
  <2> QED BY <1>1, <2>1, <2>2, <2>3, <2>4, <2>5, <2>6 DEF s
<1> QED BY <1>4, <1>5

\* A crash goes back to the engine of the checkpoint.
LEMMA RestoreStep ==
  ASSUME ConsumerTypeOK, RestoreInv, Next
  PROVE  RestoreInv'
<1>1. CASE \E upto \in Offsets : Fetch(upto)
  BY <1>1 DEF Fetch, durable, RestoreInv
<1>2. CASE \E report \in {<<>>} \cup {<<h>> : h \in Health} : ProcessEvent(report)
  BY <1>2 DEF ProcessEvent, durable, RestoreInv
<1>3. CASE ProcessSignal
  <2>1. EInv(engine') /\ engine' = RestoredEngine(engine'.log) BY <1>3, SignalEffect
  <2>2. checkpoint' = checkpoint /\ pc' # "commit" BY <1>3 DEF ProcessSignal, durable
  <2> QED BY <2>1, <2>2 DEF RestoreInv
<1>4. CASE Persist BY <1>4 DEF Persist, durable, RestoreInv
<1>5. CASE Cache BY <1>5 DEF Cache, durable, RestoreInv
<1>6. CASE Publish BY <1>6 DEF Publish, durable, RestoreInv
<1>7. CASE BatchDone BY <1>7 DEF BatchDone, durable, RestoreInv
<1>8. CASE SaveCheckpoint
  <2>1. checkpoint' = engine.log /\ engine' = engine BY <1>8 DEF SaveCheckpoint
  <2>2. RestoredEngine(checkpoint') = engine BY <2>1 DEF RestoreInv
  <2> QED BY <2>1, <2>2 DEF RestoreInv
<1>9. CASE CommitOffset BY <1>9 DEF CommitOffset, RestoreInv
<1>10. CASE Crash
  <2>1. engine' = RestoredEngine(checkpoint) /\ checkpoint' = checkpoint /\ pc' # "commit"
    BY <1>10 DEF Crash, durable
  <2>2. engine'.log = checkpoint BY <2>1 DEF RestoreInv
  <2> QED BY <2>1, <2>2 DEF RestoreInv
<1>11. CASE Done BY <1>11 DEF Done, vars, consumer, durable, RestoreInv
<1> QED BY <1>1, <1>2, <1>3, <1>4, <1>5, <1>6, <1>7, <1>8, <1>9, <1>10, <1>11 DEF Next, Step
-----------------------------------------------------------------------------
LEMMA HeadAndTail ==
  ASSUME NEW S, NEW q \in Seq(S), q # <<>>
  PROVE  /\ Head(q) \in S /\ Head(q) = q[1]
         /\ Tail(q) \in Seq(S)
         /\ 1 \in DOMAIN q
         /\ \A k \in DOMAIN Tail(q) : k + 1 \in DOMAIN q /\ Tail(q)[k] = q[k + 1]
         /\ \A k \in DOMAIN q : k = 1 \/ (k - 1 \in DOMAIN Tail(q) /\ Tail(q)[k - 1] = q[k])
OBVIOUS

\* The signals that a record contributes.
LEMMA SignalsOfRecord ==
  ASSUME NEW r \in AllRecords, NEW report \in {<<>>} \cup {<<h>> : h \in Health}
  PROVE  /\ SignalsOf(r, report) \in Seq(Signal)
         /\ 1 \in DOMAIN SignalsOf(r, report)
         /\ SignalsOf(r, report)[1].id = SignalId(r)
         /\ SignalId(r) = IF r.domain = "market" THEN <<r.key, "datum">> ELSE <<r.key, "post">>
<1>1. SignalsOf(r, report) \in Seq(Signal) BY RecordsAssumption
<1> DEFINE data == IF r.domain = "market" THEN <<NewSignal("datum", r, "data", FirstObserved)>>
                   ELSE <<NewSignal("post", r, "data", FirstObserved),
                          NewSignal("mention", r, "data", FirstObserved)>>
           id == IF r.domain = "market" THEN <<r.key, "datum">> ELSE <<r.key, "post">>
<1>2. /\ data \in Seq({data[k] : k \in DOMAIN data}) /\ data # <<>>
      /\ data[1].id = id
  <2>1. CASE r.domain = "market" BY <2>1 DEF NewSignal
  <2>2. CASE r.domain # "market" BY <2>2 DEF NewSignal
  <2> QED BY <2>1, <2>2
<1>3. ASSUME NEW rep \in {<<>>} \cup {<<h>> : h \in Health}
      PROVE  1 \in DOMAIN SignalsOf(r, rep) /\ SignalsOf(r, rep)[1].id = id
  <2>1. SignalsOf(r, rep) = data \o QualitySignals(r, rep) BY DEF SignalsOf
  <2>2. CASE rep = <<>>
    <3>1. QualitySignals(r, rep) = <<>> BY <2>2 DEF QualitySignals
    <3> HIDE DEF data
    <3>2. data \o <<>> = data /\ 1 \in DOMAIN data BY <1>2
    <3> QED BY <1>2, <2>1, <3>1, <3>2
  <2>3. ASSUME NEW h, rep = <<h>>
        PROVE  1 \in DOMAIN SignalsOf(r, rep) /\ SignalsOf(r, rep)[1].id = id
    <3>1. PICK q : q = NewSignal("quality", r, "quality", h) OBVIOUS
    <3>2. QualitySignals(r, rep) = <<q>> BY <2>3, <3>1 DEF QualitySignals
    <3>3. PICK d : d = data /\ d \in Seq({d[k] : k \in DOMAIN d}) /\ d # <<>> BY <1>2
    <3> HIDE DEF data
    <3>4. (d \o <<q>>)[1] = d[1] /\ 1 \in DOMAIN (d \o <<q>>) BY <3>3
    <3> QED BY <1>2, <2>1, <3>2, <3>3, <3>4
  <2> QED BY <2>2, <2>3
<1>4. SignalId(r) = id
  <2>1. <<>> \in {<<>>} \cup {<<h>> : h \in Health} OBVIOUS
  <2> HIDE DEF id, data
  <2>2. SignalsOf(r, <<>>)[1].id = id BY <1>3, <2>1
  <2> QED BY <2>2 DEF SignalId
<1>5. 1 \in DOMAIN SignalsOf(r, report) /\ SignalsOf(r, report)[1].id = id BY <1>3
<1> HIDE DEF data
<1> QED BY <1>1, <1>4, <1>5

\* What ProcessEvent does: one record leaves the batch; a market record or the
\* second half of a pair puts its signals in hand.
LEMMA EventEffect ==
  ASSUME ConsumerTypeOK, NEW report \in {<<>>} \cup {<<h>> : h \in Health},
         ProcessEvent(report), NEW a, NEW r, a = batch[1], r = RecordAt(a)
  PROVE  /\ a \in Entry /\ r \in AllRecords
         /\ batch' = Tail(batch) /\ batch # <<>> /\ signals = <<>>
         /\ signals' \in Seq(Signal)
         /\ join' = IF r.domain = "market" THEN join ELSE join \cup {<<r.key, r.half>>}
         /\ r.domain = "market" \/ Paired(r, join')
              => \E k \in DOMAIN signals' : signals'[k].id = SignalId(r)
<1>1. /\ r = Records[batch[1][1]][batch[1][2]]
      /\ batch # <<>> /\ signals = <<>> /\ batch' = Tail(batch)
  BY DEF ProcessEvent, RecordAt
<1>2. a \in Entry /\ r \in AllRecords
  <2>1. batch \in Seq(Entry) BY DEF ConsumerTypeOK
  <2>2. a \in Entry BY <1>1, <2>1
  <2> QED BY <2>2, RecordTypes
<1>3. /\ SignalsOf(r, report) \in Seq(Signal)
      /\ \E k \in DOMAIN SignalsOf(r, report) : SignalsOf(r, report)[k].id = SignalId(r)
  BY <1>2, SignalsOfRecord
<1>4. CASE r.domain = "market"
  <2>1. signals' = SignalsOf(r, report) /\ join' = join BY <1>1, <1>4 DEF ProcessEvent
  <2> QED BY <1>1, <1>2, <1>3, <1>4, <2>1
<1>5. CASE r.domain # "market"
  <2>1. /\ join' = join \cup {<<r.key, r.half>>}
        /\ signals' = IF Paired(r, join') THEN SignalsOf(r, report) ELSE <<>>
    BY <1>1, <1>5 DEF ProcessEvent
  <2>2. signals' \in Seq(Signal) BY <1>3, <2>1
  <2> QED BY <1>1, <1>2, <1>3, <1>5, <2>1, <2>2
<1> QED BY <1>4, <1>5

LEMMA TypesStep ==
  ASSUME ConsumerTypeOK, PhaseInv, RestoreInv, RestoreInv', Next
  PROVE  ConsumerTypeOK'
<1> DEFINE T1 == position \in [Partition -> Nat] /\ committed \in [Partition -> Nat]
           T2 == pc \in {"fetch", "process", "persist", "cache", "publish", "save", "commit"}
           T3 == stored \in [Window -> Seq(Snapshot)]
           T4 == published \subseteq Snapshot
           T5 == checkpoint \in Seq(Signal)
           T6 == batch \in Seq(Entry) /\ partitions \in Seq(Entry)
           T7 == signals \in Seq(Signal)
           T8 == pending \in Seq(Snapshot)
           T9 == latest \in [Interval -> Seq(Snapshot)]
<1>0. T1 /\ T2 /\ T3 /\ T4 /\ T5 /\ T6 /\ T7 /\ T8 /\ T9
  BY DEF ConsumerTypeOK, WorkerTypeOK
<1> SUFFICES T1' /\ T2' /\ T3' /\ T4' /\ T5' /\ T6' /\ T7' /\ T8' /\ T9'
  <2>1. (engine \in Engine)' BY DEF RestoreInv, EInv
  <2> QED BY <2>1 DEF ConsumerTypeOK, WorkerTypeOK
<1>1. ASSUME NEW upto \in Offsets, Fetch(upto)
      PROVE  T1' /\ T2' /\ T3' /\ T4' /\ T5' /\ T6' /\ T7' /\ T8' /\ T9'
  <2>1. T6' /\ upto \in [Partition -> Nat] BY <1>1, FetchedBatch
  <2> QED BY <1>0, <1>1, <2>1 DEF Fetch, stores, durable
<1>2. ASSUME NEW report \in {<<>>} \cup {<<h>> : h \in Health}, ProcessEvent(report)
      PROVE  T1' /\ T2' /\ T3' /\ T4' /\ T5' /\ T6' /\ T7' /\ T8' /\ T9'
  <2>0. PICK a, r : a = batch[1] /\ r = RecordAt(a) OBVIOUS
  <2>1. T7' /\ batch' = Tail(batch) /\ batch # <<>> BY <1>2, <2>0, EventEffect
  <2>2. T6'
    <3>1. Tail(batch) \in Seq(Entry) BY <1>0, <2>1, HeadAndTail
    <3>2. partitions' = partitions BY <1>2 DEF ProcessEvent
    <3> QED BY <1>0, <2>1, <3>1, <3>2
  <2> QED BY <1>0, <1>2, <2>1, <2>2 DEF ProcessEvent, durable
<1>3. CASE ProcessSignal
  <2>1. T8'
    <3>1. engine \in Engine /\ Head(signals) \in Signal
      BY <1>3, SignalEffect DEF ConsumerTypeOK, WorkerTypeOK
    <3>2. pending' = <<>> \/ pending' \in Returned(engine, Head(signals))
      BY <1>3, SignalEffect
    <3>3. CASE pending' = <<>> BY <3>3
    <3>4. CASE pending' \in Returned(engine, Head(signals)) BY <3>1, <3>4, ReturnedIsBuilt
    <3> QED BY <3>2, <3>3, <3>4
  <2>2. T7' BY <1>0, <1>3, HeadAndTail DEF ProcessSignal
  <2> QED BY <1>0, <1>3, <2>1, <2>2 DEF ProcessSignal, stores, durable
<1>4. CASE Persist
  <2>1. pending # <<>> BY <1>4 DEF Persist, PhaseInv
  <2>2. Head(pending) \in Snapshot BY <1>0, <2>1, HeadAndTail
  <2>3. T3'
    <3>1. Head(pending).window \in Window BY <2>2 DEF Snapshot
    <3>2. Append(stored[Head(pending).window], Head(pending)) \in Seq(Snapshot)
      BY <1>0, <2>2, <3>1, LastAppended
    <3>3. \/ stored' = stored
          \/ stored' = [stored EXCEPT ![Head(pending).window] =
                          Append(stored[Head(pending).window], Head(pending))]
      BY <1>4 DEF Persist
    <3> QED BY <1>0, <3>2, <3>3
  <2> QED BY <1>0, <1>4, <2>3 DEF Persist, durable
<1>5. CASE Cache
  <2>1. pending # <<>> BY <1>5 DEF Cache, PhaseInv
  <2>2. Head(pending) \in Snapshot BY <1>0, <2>1, HeadAndTail
  <2>3. T9'
    <3>1. <<Head(pending)>> \in Seq(Snapshot) BY <2>2
    <3>2. latest' = [latest EXCEPT ![Head(pending).window.interval] = <<Head(pending)>>]
      BY <1>5 DEF Cache
    <3> QED BY <1>0, <3>1, <3>2
  <2> QED BY <1>0, <1>5, <2>3 DEF Cache, durable
<1>6. CASE Publish
  <2>1. pending # <<>> BY <1>6 DEF Publish, PhaseInv
  <2>2. Head(pending) \in Snapshot /\ Tail(pending) \in Seq(Snapshot) BY <1>0, <2>1, HeadAndTail
  <2>3. T4' /\ T8' BY <1>0, <1>6, <2>2 DEF Publish
  <2> QED BY <1>0, <1>6, <2>3 DEF Publish, durable
<1>7. CASE BatchDone BY <1>0, <1>7 DEF BatchDone, stores, durable
<1>8. CASE SaveCheckpoint
  <2>1. T5'
    <3>1. engine.log \in Seq(Signal) BY DEF RestoreInv, EInv, Engine
    <3> QED BY <1>8, <3>1 DEF SaveCheckpoint
  <2> QED BY <1>0, <1>8, <2>1 DEF SaveCheckpoint, stores
<1>9. CASE CommitOffset
  <2>1. partitions # <<>> BY <1>9 DEF CommitOffset, PhaseInv
  <2>2. T6' BY <1>0, <1>9, <2>1, HeadAndTail DEF CommitOffset
  <2>3. T1'
    <3>1. partitions[1] \in Entry BY <1>0, <2>1, HeadAndTail
    <3>2. partitions[1][2] \in Nat
      <4>1. /\ partitions[1][1] \in Partition
            /\ partitions[1][2] \in 1 .. Len(Records[partitions[1][1]])
        BY <3>1, RecordTypes
      <4> QED BY <4>1
    <3>3. committed' = [committed EXCEPT ![partitions[1][1]] = partitions[1][2]]
      BY <1>9 DEF CommitOffset
    <3> QED BY <1>0, <1>9, <3>2, <3>3 DEF CommitOffset
  <2> QED BY <1>0, <1>9, <2>2, <2>3 DEF CommitOffset, stores
<1>10. CASE Crash BY <1>0, <1>10 DEF Crash, stores, durable
<1>11. CASE Done BY <1>0, <1>11 DEF Done, vars, consumer, stores, durable
<1> HIDE DEF T1, T2, T3, T4, T5, T6, T7, T8, T9
<1> QED
  BY <1>1, <1>2, <1>3, <1>4, <1>5, <1>6, <1>7, <1>8, <1>9, <1>10, <1>11 DEF Next, Step
-----------------------------------------------------------------------------
\* The batch holds records that no commit covers, the partitions offsets that
\* were read, and a snapshot is in hand while its three writes are under way.
LEMMA PhaseStep ==
  ASSUME ConsumerTypeOK, ConsumerTypeOK', PhaseInv, RestoreInv, Next
  PROVE  PhaseInv'
<1> DEFINE P1 == \A p \in Partition : committed[p] <= position[p] /\ position[p] <= Len(Records[p])
           P2 == \A k \in DOMAIN batch : committed[batch[k][1]] < batch[k][2]
           P3 == \A k \in DOMAIN partitions : partitions[k][2] <= position[partitions[k][1]]
           P4 == pc \in {"fetch", "save", "commit"} => batch = <<>> /\ signals = <<>>
           P5 == pc # "fetch" => partitions # <<>>
           P6 == pending = <<>> <=> pc \in {"fetch", "process", "save", "commit"}
<1>0. P1 /\ P2 /\ P3 /\ P4 /\ P5 /\ P6 BY DEF PhaseInv
<1> SUFFICES P1' /\ P2' /\ P3' /\ P4' /\ P5' /\ P6' BY DEF PhaseInv
<1>t. /\ position \in [Partition -> Nat] /\ committed \in [Partition -> Nat]
      /\ batch \in Seq(Entry) /\ partitions \in Seq(Entry)
      /\ signals \in Seq(Signal) /\ pending \in Seq(Snapshot)
  BY DEF ConsumerTypeOK, WorkerTypeOK
<1>1. ASSUME NEW upto \in Offsets, Fetch(upto)
      PROVE  P1' /\ P2' /\ P3' /\ P4' /\ P5' /\ P6'
  <2>1. /\ partitions' # <<>> /\ InBatch' = UpTo(upto) \ UpTo(position)
        /\ \A k \in DOMAIN partitions' : partitions'[k] \in InBatch'
        /\ upto \in [Partition -> Nat]
        /\ \A p \in Partition : position[p] <= upto[p] /\ upto[p] <= Len(Records[p])
    BY <1>1, FetchedBatch
  <2>2. position' = upto /\ committed' = committed /\ pc = "fetch" /\ pc' = "process"
        /\ pending' = pending
    BY <1>1 DEF Fetch, durable
  <2>3. P1'
    <3> SUFFICES ASSUME NEW p \in Partition
                 PROVE  committed[p] <= upto[p] /\ upto[p] <= Len(Records[p])
      BY <2>2
    <3>1. committed[p] \in Nat /\ position[p] \in Nat /\ upto[p] \in Nat BY <1>t, <2>1
    <3>2. committed[p] <= position[p] /\ position[p] <= upto[p] BY <1>0, <2>1
    <3> QED BY <2>1, <3>1, <3>2
  <2>4. P2'
    <3> SUFFICES ASSUME NEW k \in DOMAIN batch'
                 PROVE  committed[batch'[k][1]] < batch'[k][2]
      BY <2>2
    <3>1. PICK a : a = batch'[k] OBVIOUS
    <3>2. a \in InBatch' BY <3>1 DEF InBatch
    <3>3. a \in Entry /\ ~(a[2] <= position[a[1]]) BY <2>1, <3>2 DEF UpTo
    <3>4. a[1] \in Partition /\ a[2] \in 1 .. Len(Records[a[1]]) BY <3>3, RecordTypes
    <3>5. committed[a[1]] \in Nat /\ position[a[1]] \in Nat /\ a[2] \in Nat
          /\ committed[a[1]] <= position[a[1]]
      BY <1>0, <1>t, <3>4
    <3>6. committed[a[1]] < a[2] BY <3>3, <3>5
    <3> QED BY <3>1, <3>6
  <2>5. P3'
    <3> SUFFICES ASSUME NEW k \in DOMAIN partitions'
                 PROVE  partitions'[k][2] <= upto[partitions'[k][1]]
      BY <2>2
    <3>1. partitions'[k] \in UpTo(upto) BY <2>1
    <3> QED BY <3>1 DEF UpTo
  <2> QED BY <1>0, <2>1, <2>2, <2>3, <2>4, <2>5
<1>2. ASSUME NEW report \in {<<>>} \cup {<<h>> : h \in Health}, ProcessEvent(report)
      PROVE  P1' /\ P2' /\ P3' /\ P4' /\ P5' /\ P6'
  <2>1. /\ batch # <<>> /\ batch' = Tail(batch) /\ committed' = committed /\ position' = position
        /\ pc = "process" /\ pc' = "process" /\ partitions' = partitions /\ pending' = pending
    BY <1>2 DEF ProcessEvent, durable
  <2>2. P2' BY <1>0, <1>t, <2>1, HeadAndTail
  <2> QED BY <1>0, <2>1, <2>2
<1>3. CASE ProcessSignal
  <2>1. /\ batch' = batch /\ committed' = committed /\ position' = position
        /\ partitions' = partitions /\ pc = "process"
        /\ pc' = IF pending' = <<>> THEN "process" ELSE "persist"
    BY <1>3 DEF ProcessSignal, durable
  <2> QED BY <1>0, <2>1
<1>4. CASE Persist BY <1>0, <1>4 DEF Persist, durable
<1>5. CASE Cache BY <1>0, <1>5 DEF Cache, durable
<1>6. CASE Publish
  <2>1. /\ batch' = batch /\ committed' = committed /\ position' = position
        /\ partitions' = partitions /\ pc = "publish" /\ pending' = Tail(pending)
        /\ pc' = IF pending' = <<>> THEN "process" ELSE "persist"
    BY <1>6 DEF Publish, durable
  <2> QED BY <1>0, <2>1
<1>7. CASE BatchDone BY <1>0, <1>7 DEF BatchDone, stores, durable
<1>8. CASE SaveCheckpoint BY <1>0, <1>8 DEF SaveCheckpoint, stores
<1>9. CASE CommitOffset
  <2>1. /\ batch' = batch /\ position' = position /\ signals' = signals /\ pending' = pending
        /\ partitions # <<>> /\ partitions' = Tail(partitions) /\ pc = "commit"
        /\ pc' = IF partitions' = <<>> THEN "fetch" ELSE "save"
        /\ committed' = [committed EXCEPT ![partitions[1][1]] = partitions[1][2]]
    BY <1>0, <1>9 DEF CommitOffset
  <2>2. PICK a : a = partitions[1] OBVIOUS
  <2>3. a \in Entry /\ a[2] <= position[a[1]]
    <3>1. 1 \in DOMAIN partitions /\ partitions[1] \in Entry BY <1>t, <2>1, HeadAndTail
    <3> QED BY <1>0, <2>2, <3>1
  <2>4. P1'
    <3> SUFFICES ASSUME NEW p \in Partition PROVE committed'[p] <= position[p]
      BY <1>0, <2>1
    <3>1. committed'[p] = IF p = a[1] THEN a[2] ELSE committed[p] BY <1>t, <2>1, <2>2
    <3> QED BY <1>0, <2>3, <3>1
  <2>5. P3' BY <1>0, <1>t, <2>1, HeadAndTail
  <2>6. batch' = <<>> /\ signals' = <<>> /\ pending' = <<>> BY <1>0, <2>1
  <2> QED BY <2>1, <2>4, <2>5, <2>6
<1>10. CASE Crash
  <2>1. /\ position' = committed /\ committed' = committed
        /\ batch' = <<>> /\ partitions' = <<>> /\ signals' = <<>> /\ pending' = <<>>
        /\ pc' = "fetch"
    BY <1>10 DEF Crash, durable
  <2>2. P1'
    <3> SUFFICES ASSUME NEW p \in Partition
                 PROVE  committed[p] <= committed[p] /\ committed[p] <= Len(Records[p])
      BY <2>1
    <3>1. committed[p] \in Nat /\ position[p] \in Nat /\ Len(Records[p]) \in Nat
      BY <1>t, RecordTypes
    <3>2. committed[p] <= position[p] /\ position[p] <= Len(Records[p]) BY <1>0
    <3> QED BY <3>1, <3>2
  <2> QED BY <2>1, <2>2
<1>11. CASE Done BY <1>0, <1>11 DEF Done, vars, consumer, durable
<1> HIDE DEF P1, P2, P3, P4, P5, P6
<1> QED
  BY <1>1, <1>2, <1>3, <1>4, <1>5, <1>6, <1>7, <1>8, <1>9, <1>10, <1>11 DEF Next, Step

-----------------------------------------------------------------------------
\* A pair is whole once its second half is processed: whichever of the two
\* comes last finds the other one in Redis.
LEMMA PairCompleted ==
  ASSUME NEW read \in SUBSET AllRecords, NEW halves, NEW r \in AllRecords,
         NEW x \in Whole(read \cup {r}), x \notin Whole(read),
         \A y \in read : y.domain = "social" => <<y.key, y.half>> \in halves
  PROVE  /\ SignalId(x) = SignalId(r)
         /\ r.domain = "market" \/ Paired(r, halves \cup {<<r.key, r.half>>})
<1>1. x \in AllRecords BY DEF Whole
<1>2. \A y \in AllRecords :
        /\ y.domain \in {"market", "social"}
        /\ y = [key |-> y.key, time |-> y.time, domain |-> y.domain, half |-> y.half]
        /\ y.domain # "market" => y.half \in {"post", "mention"}
  BY RecordsAssumption DEF Domain
<1>3. CASE x.domain = "market"
  <2>1. x = r BY <1>3 DEF Whole
  <2> QED BY <1>3, <2>1
<1>4. CASE x.domain # "market"
  <2>1. x.domain = "social" BY <1>1, <1>2, <1>4
  <2> DEFINE twin(half) == [x EXCEPT !.half = half]
  <2>2. \A half \in {"post", "mention"} : twin(half) \in read \cup {r} BY <1>4 DEF Whole
  <2>3. \A half : twin(half).key = x.key /\ twin(half).domain = x.domain /\ twin(half).half = half
    BY <1>1, <1>2
  <2>4. \E half \in {"post", "mention"} : twin(half) = r
    <3> SUFFICES ASSUME \A half \in {"post", "mention"} : twin(half) # r PROVE FALSE OBVIOUS
    <3>1. \A half \in {"post", "mention"} : twin(half) \in read BY <2>2
    <3>2. x.half \in {"post", "mention"} /\ twin(x.half) = x BY <1>1, <1>2, <1>4
    <3>3. x \in read BY <3>1, <3>2
    <3> QED BY <3>1, <3>3 DEF Whole
  <2> HIDE DEF twin
  <2>5. r.key = x.key /\ r.domain = "social" /\ r.half \in {"post", "mention"}
    BY <2>1, <2>3, <2>4
  <2>6. Paired(r, halves \cup {<<r.key, r.half>>})
    <3> SUFFICES ASSUME NEW half \in {"post", "mention"}, half # r.half
                 PROVE  <<r.key, half>> \in halves
      BY DEF Paired
    <3>1. twin(half) \in read BY <2>2, <2>3
    <3>2. twin(half).key = r.key /\ twin(half).domain = "social" /\ twin(half).half = half
      BY <2>1, <2>3, <2>5
    <3> QED BY <3>1, <3>2
  <2>7. SignalId(x) = <<x.key, "post">> /\ SignalId(r) = <<r.key, "post">>
    <3>1. <<>> \in {<<>>} \cup {<<h>> : h \in Health} OBVIOUS
    <3>2. r.domain # "market" BY <2>5
    <3> QED BY <1>1, <1>4, <3>1, <3>2, SignalsOfRecord
  <2> QED BY <2>5, <2>6, <2>7
<1> QED BY <1>3, <1>4
-----------------------------------------------------------------------------
\* What a crash takes from the engine it takes only if it is in no commit.
LEMMA LogStep ==
  ASSUME ConsumerTypeOK, ConsumerTypeOK', PhaseInv, PhaseInv', RestoreInv, LogInv, Next
  PROVE  LogInv'
<1> DEFINE L1 == \A a \in Processed : RecordAt(a).domain = "social" =>
                   <<RecordAt(a).key, RecordAt(a).half>> \in join
           L2 == \A r \in Whole(RecordsOf(Processed)) : InHand(r)
           L3 == \A r \in Whole(RecordsOf(UpTo(Settled))) : Checkpointed(r)
<1>a. L1 /\ L2 /\ L3 BY DEF LogInv
<1> SUFFICES L1' /\ L2' /\ L3' BY DEF LogInv
<1>b. /\ position \in [Partition -> Nat] /\ committed \in [Partition -> Nat]
      /\ position' \in [Partition -> Nat] /\ committed' \in [Partition -> Nat]
      /\ batch \in Seq(Entry) /\ signals \in Seq(Signal)
  BY DEF ConsumerTypeOK, WorkerTypeOK
<1>c. UpTo(committed) \subseteq UpTo(position) /\ UpTo(committed') \subseteq UpTo(position')
  <2>1. \A p \in Partition : committed[p] <= position[p] BY DEF PhaseInv
  <2>2. \A p \in Partition : committed'[p] <= position'[p] BY DEF PhaseInv
  <2> QED BY <1>b, <2>1, <2>2, UpToGrows
<1>d. UpTo(committed) \subseteq UpTo(Settled) BY <1>c DEF Settled
<1>e. \A A, B : A \subseteq B => Whole(RecordsOf(A)) \subseteq Whole(RecordsOf(B))
  BY WholeRecordsGrow
<1>f. UpTo(committed) \subseteq Processed
  <2> SUFFICES ASSUME NEW k \in DOMAIN batch, batch[k] \in UpTo(committed) PROVE FALSE
    BY <1>c DEF Processed, InBatch
  <2>1. PICK a : a = batch[k] OBVIOUS
  <2>2. committed[a[1]] < a[2] /\ a \in Entry /\ a[2] <= committed[a[1]]
    BY <1>b, <2>1 DEF PhaseInv, UpTo
  <2>3. a[1] \in Partition /\ a[2] \in 1 .. Len(Records[a[1]]) BY <2>2, RecordTypes
  <2>4. committed[a[1]] \in Nat /\ a[2] \in Nat BY <1>b, <2>3
  <2> QED BY <2>2, <2>4
<1>g. batch = <<>> => Processed = UpTo(position) BY DEF Processed, InBatch
<1>h. ASSUME Processed' = Processed, join' = join, UpTo(Settled') \subseteq UpTo(Settled),
             engine'.log = engine.log, signals' = signals, checkpoint' = checkpoint
      PROVE  L1' /\ L2' /\ L3'
  <2>1. L1' BY <1>a, <1>h
  <2>2. L2' BY <1>a, <1>h DEF InHand
  <2>3. L3'
    <3> SUFFICES ASSUME NEW r \in Whole(RecordsOf(UpTo(Settled'))) PROVE Checkpointed(r)'
      OBVIOUS
    <3>1. Checkpointed(r) BY <1>a, <1>e, <1>h
    <3> QED BY <1>h, <3>1 DEF Checkpointed
  <2> QED BY <2>1, <2>2, <2>3
<1>1. ASSUME NEW upto \in Offsets, Fetch(upto)
      PROVE  L1' /\ L2' /\ L3'
  <2>1. /\ position' = upto /\ committed' = committed /\ pc' = "process" /\ join' = join
        /\ engine' = engine /\ signals' = signals /\ checkpoint' = checkpoint /\ batch = <<>>
    BY <1>1 DEF Fetch, stores, durable, PhaseInv
  <2>2. InBatch' = UpTo(upto) \ UpTo(position) /\ UpTo(position) \subseteq UpTo(upto)
    <3>1. InBatch' = UpTo(upto) \ UpTo(position) BY <1>1, FetchedBatch
    <3>2. upto \in [Partition -> Nat] /\ \A p \in Partition : position[p] <= upto[p]
      BY <1>1, FetchedBatch
    <3> QED BY <1>b, <3>1, <3>2, UpToGrows
  <2>3. Processed' = Processed BY <1>g, <2>1, <2>2 DEF Processed
  <2>4. Settled' = committed BY <2>1 DEF Settled
  <2> QED BY <1>d, <1>h, <2>1, <2>3, <2>4
<1>2. ASSUME NEW report \in {<<>>} \cup {<<h>> : h \in Health}, ProcessEvent(report)
      PROVE  L1' /\ L2' /\ L3'
  <2>0. PICK a, r : a = batch[1] /\ r = RecordAt(a) OBVIOUS
  <2>1. /\ a \in Entry /\ r \in AllRecords /\ batch' = Tail(batch) /\ batch # <<>>
        /\ signals = <<>>
        /\ join' = IF r.domain = "market" THEN join ELSE join \cup {<<r.key, r.half>>}
        /\ r.domain = "market" \/ Paired(r, join')
             => \E k \in DOMAIN signals' : signals'[k].id = SignalId(r)
    BY <1>2, <2>0, EventEffect
  <2>2. /\ position' = position /\ committed' = committed /\ engine' = engine
        /\ checkpoint' = checkpoint /\ pc' = pc /\ pc = "process"
    BY <1>2 DEF ProcessEvent, durable
  <2>3. Processed' \subseteq Processed \cup {a}
    <3>1. \A k \in DOMAIN batch :
            k = 1 \/ (k - 1 \in DOMAIN batch' /\ batch'[k - 1] = batch[k])
      BY <1>b, <2>1, HeadAndTail
    <3>2. ASSUME NEW k \in DOMAIN batch PROVE batch[k] \in InBatch' \cup {a}
      <4>1. CASE k = 1 BY <2>0, <4>1
      <4>2. CASE k # 1 BY <3>1, <4>2 DEF InBatch
      <4> QED BY <4>1, <4>2
    <3>3. InBatch \subseteq InBatch' \cup {a} BY <3>2 DEF InBatch
    <3> QED BY <2>2, <3>3 DEF Processed
  <2>4. RecordsOf(Processed') \subseteq RecordsOf(Processed) \cup {r}
    BY <2>0, <2>3 DEF RecordsOf
  <2>5. RecordsOf(Processed) \subseteq AllRecords
    BY RecordTypes DEF RecordsOf, Processed, UpTo
  <2>6. \A y \in RecordsOf(Processed) : y.domain = "social" => <<y.key, y.half>> \in join
    BY <1>a DEF RecordsOf
  <2>7. L1'
    <3> SUFFICES ASSUME NEW b \in Processed', RecordAt(b).domain = "social"
                 PROVE  <<RecordAt(b).key, RecordAt(b).half>> \in join'
      OBVIOUS
    <3>1. CASE b = a BY <2>0, <2>1, <3>1
    <3>2. CASE b # a BY <1>a, <2>1, <2>3, <3>2
    <3> QED BY <3>1, <3>2
  <2>8. L2'
    <3> SUFFICES ASSUME NEW x \in Whole(RecordsOf(Processed')) PROVE InHand(x)'
      OBVIOUS
    <3>1. CASE x \in Whole(RecordsOf(Processed))
      <4>1. \E s \in Logged(engine.log) : s.id = SignalId(x) BY <1>a, <2>1, <3>1 DEF InHand
      <4> QED BY <2>2, <4>1 DEF InHand
    <3>2. CASE x \notin Whole(RecordsOf(Processed))
      <4>1. x \in Whole(RecordsOf(Processed) \cup {r}) BY <2>4, WholeGrows
      <4>2. /\ SignalId(x) = SignalId(r)
            /\ r.domain = "market" \/ Paired(r, join \cup {<<r.key, r.half>>})
        BY <2>1, <2>5, <2>6, <3>2, <4>1, PairCompleted
      <4>3. r.domain = "market" \/ Paired(r, join') BY <2>1, <4>2
      <4> QED BY <2>1, <4>2, <4>3 DEF InHand
    <3> QED BY <3>1, <3>2
  <2>9. L3' BY <1>a, <2>2 DEF Settled, Checkpointed
  <2> QED BY <2>7, <2>8, <2>9
<1>3. CASE ProcessSignal
  <2>1. /\ batch' = batch /\ position' = position /\ committed' = committed
        /\ checkpoint' = checkpoint /\ join' = join /\ signals # <<>> /\ signals' = Tail(signals)
        /\ pc # "fetch" /\ pc' # "fetch"
    BY <1>3 DEF ProcessSignal, stores, durable
  <2>2. /\ Logged(engine.log) \subseteq Logged(engine'.log)
        /\ \E s \in Logged(engine'.log) : s.id = Head(signals).id
    <3>1. /\ Head(signals) \in Signal
          /\ engine'.log = engine.log \/ engine'.log = Append(engine.log, Head(signals))
          /\ \E s \in Logged(engine'.log) : s.id = Head(signals).id
      BY <1>3, SignalEffect
    <3>2. engine.log \in Seq(Signal) BY DEF RestoreInv, EInv, Engine
    <3> QED BY <3>1, <3>2, LoggedAppend
  <2>3. Processed' = Processed BY <2>1 DEF Processed, InBatch
  <2>4. L1' BY <1>a, <2>1, <2>3
  <2>5. L2'
    <3> SUFFICES ASSUME NEW r \in Whole(RecordsOf(Processed)) PROVE InHand(r)' BY <2>3
    <3>1. CASE \E s \in Logged(engine.log) : s.id = SignalId(r) BY <2>2, <3>1 DEF InHand
    <3>2. ASSUME NEW k \in DOMAIN signals, signals[k].id = SignalId(r) PROVE InHand(r)'
      <4>1. CASE k = 1
        <5>1. Head(signals) = signals[1] BY <1>b, <2>1, HeadAndTail
        <5> QED BY <2>2, <3>2, <4>1, <5>1 DEF InHand
      <4>2. CASE k # 1
        <5>1. k - 1 \in DOMAIN signals' /\ signals'[k - 1] = signals[k]
          BY <1>b, <2>1, <4>2, HeadAndTail
        <5> QED BY <3>2, <5>1 DEF InHand
      <4> QED BY <4>1, <4>2
    <3> QED BY <1>a, <3>1, <3>2 DEF InHand
  <2>6. L3' BY <1>a, <2>1 DEF Settled, Checkpointed
  <2> QED BY <2>4, <2>5, <2>6
<1>4. CASE Persist
  BY <1>4, <1>h DEF Persist, durable, Processed, InBatch, Settled
<1>5. CASE Cache
  BY <1>5, <1>h DEF Cache, durable, Processed, InBatch, Settled
<1>6. CASE Publish
  BY <1>6, <1>h DEF Publish, durable, Processed, InBatch, Settled
<1>7. CASE BatchDone
  BY <1>7, <1>h DEF BatchDone, stores, durable, Processed, InBatch, Settled
<1>8. CASE SaveCheckpoint
  <2>1. /\ batch' = batch /\ position' = position /\ committed' = committed
        /\ checkpoint' = engine.log /\ engine' = engine /\ join' = join /\ signals' = signals
        /\ pc # "fetch" /\ pc' # "fetch" /\ batch = <<>> /\ signals = <<>>
    BY <1>8 DEF SaveCheckpoint, stores, PhaseInv
  <2>2. Processed' = Processed BY <2>1 DEF Processed, InBatch
  <2>3. L1' /\ L2' BY <1>a, <2>1, <2>2 DEF InHand
  <2>4. L3'
    <3> SUFFICES ASSUME NEW r \in Whole(RecordsOf(UpTo(committed))) PROVE Checkpointed(r)'
      BY <2>1 DEF Settled
    <3>1. r \in Whole(RecordsOf(Processed)) BY <1>e, <1>f
    <3>2. \E s \in Logged(engine.log) : s.id = SignalId(r) BY <1>a, <2>1, <3>1 DEF InHand
    <3> QED BY <2>1, <3>2 DEF Checkpointed, SignalId
  <2> QED BY <2>3, <2>4
<1>9. CASE CommitOffset
  <2>1. /\ batch' = batch /\ position' = position /\ checkpoint' = checkpoint
        /\ engine' = engine /\ join' = join /\ signals' = signals
        /\ batch = <<>> /\ signals = <<>> /\ checkpoint = engine.log
    BY <1>9 DEF CommitOffset, stores, PhaseInv, RestoreInv
  <2>2. Processed' = Processed BY <2>1 DEF Processed, InBatch
  <2>3. L1' /\ L2' BY <1>a, <2>1, <2>2 DEF InHand
  <2>4. L3'
    <3> SUFFICES ASSUME NEW r \in Whole(RecordsOf(UpTo(Settled'))) PROVE Checkpointed(r)'
      OBVIOUS
    <3>1. UpTo(Settled') \subseteq UpTo(position) BY <1>c, <2>1 DEF Settled
    <3>2. r \in Whole(RecordsOf(Processed)) BY <1>e, <1>g, <2>1, <3>1
    <3>3. \E s \in Logged(engine.log) : s.id = SignalId(r) BY <1>a, <2>1, <3>2 DEF InHand
    <3> QED BY <2>1, <3>3 DEF Checkpointed, SignalId
  <2> QED BY <2>3, <2>4
<1>10. CASE Crash
  <2>1. /\ position' = committed /\ join' = join /\ checkpoint' = checkpoint
        /\ batch' = <<>> /\ pc' = "fetch" /\ engine'.log = checkpoint
    BY <1>10 DEF Crash, stores, durable, RestoreInv
  <2>2. Processed' = UpTo(committed) BY <2>1 DEF Processed, InBatch
  <2>3. L1' BY <1>a, <1>f, <2>1, <2>2
  <2>4. \A r \in Whole(RecordsOf(UpTo(committed))) : Checkpointed(r) BY <1>a, <1>d, <1>e
  <2>5. L2'
    <3> SUFFICES ASSUME NEW r \in Whole(RecordsOf(UpTo(committed))) PROVE InHand(r)' BY <2>2
    <3>1. \E s \in Logged(checkpoint) : s.id = SignalId(r) BY <2>4 DEF Checkpointed, SignalId
    <3> QED BY <2>1, <3>1 DEF InHand
  <2>6. L3'
    <3>1. Settled' = committed BY <2>1 DEF Settled
    <3> QED BY <2>1, <2>4, <3>1 DEF Checkpointed
  <2> QED BY <2>3, <2>5, <2>6
<1>11. CASE Done
  BY <1>11, <1>h DEF Done, vars, consumer, stores, durable, Processed, InBatch, Settled
<1> HIDE DEF L1, L2, L3
<1> QED
  BY <1>1, <1>2, <1>3, <1>4, <1>5, <1>6, <1>7, <1>8, <1>9, <1>10, <1>11 DEF Next, Step
-----------------------------------------------------------------------------
\* Rows are written one revision at a time, each before it is announced and
\* before the next signal can put the engine further ahead.
LEMMA RowsStep ==
  ASSUME ConsumerTypeOK, ConsumerTypeOK', PhaseInv, PhaseInv', RestoreInv, RowsInv, Next
  PROVE  RowsInv'
<1> DEFINE R1 == \A k \in DOMAIN pending :
                   pending[k].revision = Len(engine.revisions[pending[k].window])
           R2 == \A w \in Window : Len(engine.revisions[w]) <= Len(stored[w]) + 1
           R3 == \A w \in Window : (\A k \in DOMAIN pending : pending[k].window # w) =>
                   Len(engine.revisions[w]) <= Len(stored[w])
           R4 == \A w \in Window : Len(RestoredEngine(checkpoint).revisions[w]) <= Len(stored[w])
           R5 == pc \in {"cache", "publish"} =>
                   pending[1].revision <= Len(stored[pending[1].window])
<1>a. R1 /\ R2 /\ R3 /\ R4 /\ R5 /\ StoredHasNoGaps /\ PublishedIsStored BY DEF RowsInv
<1> SUFFICES R1' /\ R2' /\ R3' /\ R4' /\ R5' /\ StoredHasNoGaps' /\ PublishedIsStored'
  BY DEF RowsInv
<1>b. /\ pending \in Seq(Snapshot) /\ pending' \in Seq(Snapshot)
      /\ stored \in [Window -> Seq(Snapshot)] /\ engine \in Engine
      /\ latest \in [Interval -> Seq(Snapshot)] /\ published \subseteq Snapshot
  BY DEF ConsumerTypeOK, WorkerTypeOK
<1>c. \A w \in Window : stored[w] \in Seq(Snapshot) /\ Len(stored[w]) \in Nat
                        /\ engine.revisions[w] \in Seq(Snapshot)
                        /\ Len(engine.revisions[w]) \in Nat
                        /\ Len(RestoredEngine(checkpoint).revisions[w]) \in Nat
  <2>1. RestoredEngine(checkpoint) \in Engine BY DEF RestoreInv, EInv
  <2> QED BY <1>b, <2>1 DEF Engine
<1>d. \A x \in Snapshot : x.window \in Window /\ x.revision \in Nat
                          /\ x.window.interval \in Interval
  BY DEF Snapshot, Window
<1>e. ASSUME pending' = pending, engine' = engine, stored' = stored, checkpoint' = checkpoint,
             published' = published, latest' = latest,
             pc' \in {"cache", "publish"} => pc \in {"cache", "publish"}
      PROVE  R1' /\ R2' /\ R3' /\ R4' /\ R5' /\ StoredHasNoGaps' /\ PublishedIsStored'
  BY <1>a, <1>e DEF StoredHasNoGaps, PublishedIsStored
<1>1. ASSUME NEW upto \in Offsets, Fetch(upto)
      PROVE  R1' /\ R2' /\ R3' /\ R4' /\ R5' /\ StoredHasNoGaps' /\ PublishedIsStored'
  BY <1>1, <1>e DEF Fetch, stores, durable
<1>2. ASSUME NEW report \in {<<>>} \cup {<<h>> : h \in Health}, ProcessEvent(report)
      PROVE  R1' /\ R2' /\ R3' /\ R4' /\ R5' /\ StoredHasNoGaps' /\ PublishedIsStored'
  BY <1>2, <1>e DEF ProcessEvent, durable
<1>3. CASE ProcessSignal
  <2>0. PICK s, next : s = Head(signals) /\ next = engine' OBVIOUS
  <2>1. /\ stored' = stored /\ checkpoint' = checkpoint /\ published' = published
        /\ latest' = latest /\ pc = "process" /\ pc' \notin {"cache", "publish"}
    BY <1>3 DEF ProcessSignal, stores, durable
  <2>2. pending = <<>> BY <2>1 DEF PhaseInv
  <2>3. /\ s \in Signal
        /\ \/ next = engine /\ pending' = <<>>
           \/ next = Ingest(engine, s) /\ pending' \in Returned(engine, s)
    BY <1>3, <2>0, SignalEffect
  <2>4. \A w \in Window : Len(engine.revisions[w]) <= Len(stored[w]) BY <1>a, <2>2
  <2>5. R4' /\ R5' /\ StoredHasNoGaps' /\ PublishedIsStored'
    BY <1>a, <2>1 DEF StoredHasNoGaps, PublishedIsStored
  <2>6. CASE next = engine /\ pending' = <<>>
    <3>1. R1' /\ R2' /\ R3' BY <1>a, <2>0, <2>1, <2>4, <2>6
    <3> QED BY <2>5, <3>1
  <2>7. CASE next = Ingest(engine, s) /\ pending' \in Returned(engine, s)
    <3>1. /\ \A k \in DOMAIN pending' :
               pending'[k].revision = Len(next.revisions[pending'[k].window])
          /\ \A w \in Window : Built(engine, s, next, w) =>
               \E k \in DOMAIN pending' : pending'[k].window = w
      BY <1>b, <2>3, <2>7, ReturnedIsBuilt
    <3>2. \A w \in Window :
            /\ Built(engine, s, next, w) => Len(next.revisions[w]) = Len(engine.revisions[w]) + 1
            /\ ~Built(engine, s, next, w) => next.revisions[w] = engine.revisions[w]
      BY <1>b, <2>3, <2>7, WindowStep
    <3>3. R1' BY <2>0, <3>1
    <3>4. R2'
      <4> SUFFICES ASSUME NEW w \in Window
                   PROVE  Len(next.revisions[w]) <= Len(stored[w]) + 1
        BY <2>0, <2>1
      <4>1. Len(next.revisions[w]) = Len(engine.revisions[w]) + 1
            \/ Len(next.revisions[w]) = Len(engine.revisions[w])
        BY <3>2
      <4> QED BY <1>c, <2>4, <4>1
    <3>5. R3'
      <4> SUFFICES ASSUME NEW w \in Window, \A k \in DOMAIN pending' : pending'[k].window # w
                   PROVE  Len(next.revisions[w]) <= Len(stored[w])
        BY <2>0, <2>1
      <4>1. next.revisions[w] = engine.revisions[w] BY <3>1, <3>2
      <4> QED BY <2>4, <4>1
    <3> QED BY <2>5, <3>3, <3>4, <3>5
  <2> QED BY <2>3, <2>6, <2>7
<1>4. CASE Persist
  <2> DEFINE x == Head(pending)
             w == x.window
  <2>0. pending # <<>> /\ pc = "persist" /\ pc' = "cache" /\ pending' = pending
        /\ engine' = engine /\ checkpoint' = checkpoint /\ published' = published
        /\ latest' = latest
    BY <1>4 DEF Persist, PhaseInv, durable
  <2>1. x = pending[1] /\ x \in Snapshot /\ 1 \in DOMAIN pending BY <1>b, <2>0, HeadAndTail
  <2>2. w \in Window /\ x.revision = Len(engine.revisions[w]) /\ x.window = w
    BY <1>a, <1>d, <2>1
  <2>3. \/ stored' = stored /\ x.revision <= Len(stored[w])
        \/ /\ stored' = [stored EXCEPT ![w] = Append(stored[w], x)]
           /\ x.revision = Len(stored[w]) + 1
    <3> DEFINE rows == stored[w]
               current == IF rows = <<>> THEN 0 ELSE rows[Len(rows)].revision
    <3>1. stored' = IF current >= x.revision THEN stored
                    ELSE [stored EXCEPT ![w] = Append(stored[w], x)]
      BY <1>4 DEF Persist
    <3>2. current = Len(rows)
      <4>1. rows # <<>> => Len(rows) \in 1 .. Len(rows) BY <1>c, <2>2
      <4>2. rows = <<>> => Len(rows) = 0 OBVIOUS
      <4> QED BY <1>a, <2>2, <4>1, <4>2 DEF StoredHasNoGaps
    <3>3. x.revision <= Len(rows) + 1 /\ x.revision \in Nat /\ Len(rows) \in Nat
      BY <1>a, <1>c, <2>2
    <3> HIDE DEF current, rows, x, w
    <3>4. CASE current >= x.revision BY <3>1, <3>2, <3>3, <3>4 DEF rows
    <3>5. CASE ~(current >= x.revision)
      <4>1. x.revision = Len(rows) + 1 BY <3>2, <3>3, <3>5
      <4> QED BY <3>1, <3>5, <4>1 DEF rows
    <3> QED BY <3>4, <3>5
  <2> HIDE DEF x, w
  <2>4. CASE stored' = stored /\ x.revision <= Len(stored[w])
    <3>1. R5' BY <2>0, <2>1, <2>2, <2>4
    <3> QED BY <1>a, <2>0, <2>4, <3>1 DEF StoredHasNoGaps, PublishedIsStored
  <2>5. CASE /\ stored' = [stored EXCEPT ![w] = Append(stored[w], x)]
             /\ x.revision = Len(stored[w]) + 1
    <3>1. /\ stored'[w] = Append(stored[w], x)
          /\ \A v \in Window : v # w => stored'[v] = stored[v]
      BY <1>b, <2>2, <2>5
    <3>2. /\ Len(stored'[w]) = Len(stored[w]) + 1 /\ stored'[w][Len(stored[w]) + 1] = x
          /\ \A k \in 1 .. Len(stored[w]) : stored'[w][k] = stored[w][k]
      <4>1. stored[w] \in Seq(Snapshot) BY <1>c, <2>2
      <4>2. PICK longer : longer = Append(stored[w], x) OBVIOUS
      <4>3. /\ Len(longer) = Len(stored[w]) + 1 /\ longer[Len(longer)] = x
            /\ \A k \in 1 .. Len(stored[w]) : longer[k] = stored[w][k]
        BY <2>1, <4>1, <4>2, LastAppended
      <4> QED BY <3>1, <4>2, <4>3
    <3>3. \A v \in Window : Len(stored'[v]) >= Len(stored[v]) /\ Len(stored'[v]) \in Nat
      <4> SUFFICES ASSUME NEW v \in Window
                   PROVE  Len(stored'[v]) >= Len(stored[v]) /\ Len(stored'[v]) \in Nat
        OBVIOUS
      <4>1. Len(stored'[v]) = Len(stored[v]) + 1 \/ Len(stored'[v]) = Len(stored[v])
        BY <3>1, <3>2
      <4> QED BY <1>c, <4>1
    <3>4. R2' /\ R3' /\ R4'
      <4> SUFFICES ASSUME NEW v \in Window
                   PROVE  /\ Len(engine.revisions[v]) <= Len(stored'[v]) + 1
                          /\ (\A k \in DOMAIN pending : pending[k].window # v) =>
                               Len(engine.revisions[v]) <= Len(stored'[v])
                          /\ Len(RestoredEngine(checkpoint).revisions[v]) <= Len(stored'[v])
        BY <2>0
      <4>1. Len(stored'[v]) >= Len(stored[v]) /\ Len(stored'[v]) \in Nat BY <3>3
      <4>2. /\ Len(engine.revisions[v]) <= Len(stored[v]) + 1
            /\ (\A k \in DOMAIN pending : pending[k].window # v) =>
                 Len(engine.revisions[v]) <= Len(stored[v])
            /\ Len(RestoredEngine(checkpoint).revisions[v]) <= Len(stored[v])
        BY <1>a
      <4>3. \A ahead, before, after \in Nat :
              after >= before => /\ ahead <= before => ahead <= after
                                 /\ ahead <= before + 1 => ahead <= after + 1
        OBVIOUS
      <4>4. /\ Len(engine.revisions[v]) \in Nat /\ Len(stored[v]) \in Nat
            /\ Len(RestoredEngine(checkpoint).revisions[v]) \in Nat
        BY <1>c
      <4> QED BY <4>1, <4>2, <4>3, <4>4, Zenon
    <3>5. R1' BY <1>a, <2>0
    <3>6. R5' BY <1>c, <2>0, <2>1, <2>2, <2>5, <3>2
    <3>7. StoredHasNoGaps'
      <4> SUFFICES ASSUME NEW v \in Window, NEW k \in 1 .. Len(stored'[v])
                   PROVE  stored'[v][k].revision = k /\ stored'[v][k].window = v
        BY DEF StoredHasNoGaps
      <4>1. CASE v # w BY <1>a, <3>1, <4>1 DEF StoredHasNoGaps
      <4>2. CASE v = w /\ k = Len(stored[w]) + 1 BY <2>2, <2>5, <3>2, <4>2
      <4>3. CASE v = w /\ k # Len(stored[w]) + 1
        <5>1. k \in 1 .. Len(stored[w]) BY <1>c, <2>2, <3>2, <4>3
        <5> QED BY <1>a, <3>2, <4>3, <5>1 DEF StoredHasNoGaps
      <4> QED BY <4>1, <4>2, <4>3
    <3>8. PublishedIsStored'
      <4>1. \A y \in Snapshot : y.revision <= Len(stored[y.window])
                                => y.revision <= Len(stored'[y.window])
        <5> SUFFICES ASSUME NEW y \in Snapshot, y.revision <= Len(stored[y.window])
                     PROVE  y.revision <= Len(stored'[y.window])
          OBVIOUS
        <5> QED BY <1>c, <1>d, <3>3
      <4>2. \A y \in published : y.revision <= Len(stored'[y.window])
        BY <1>a, <1>b, <4>1 DEF PublishedIsStored
      <4>3. \A i \in Interval : \A k \in DOMAIN latest[i] :
              latest[i][k].revision <= Len(stored'[latest[i][k].window])
        <5> SUFFICES ASSUME NEW i \in Interval, NEW k \in DOMAIN latest[i]
                     PROVE  latest[i][k].revision <= Len(stored'[latest[i][k].window])
          OBVIOUS
        <5>1. latest[i][k] \in Snapshot
          <6>1. latest[i] \in Seq(Snapshot) BY <1>b
          <6> QED BY <6>1
        <5>2. latest[i][k].revision <= Len(stored[latest[i][k].window])
          BY <1>a DEF PublishedIsStored
        <5> QED BY <4>1, <5>1, <5>2
      <4> QED BY <2>0, <4>2, <4>3 DEF PublishedIsStored
    <3> QED BY <3>4, <3>5, <3>6, <3>7, <3>8
  <2> QED BY <2>3, <2>4, <2>5
<1>5. CASE Cache
  <2>0. pending # <<>> /\ pc = "cache" /\ pc' = "publish" /\ pending' = pending
        /\ engine' = engine /\ checkpoint' = checkpoint /\ published' = published
        /\ stored' = stored
    BY <1>5 DEF Cache, PhaseInv, durable
  <2>1. PICK x : x = Head(pending) OBVIOUS
  <2>2. x = pending[1] /\ x \in Snapshot BY <1>b, <2>0, <2>1, HeadAndTail
  <2>3. x.revision <= Len(stored[x.window]) BY <1>a, <2>0, <2>2
  <2>4. \A i \in Interval : latest'[i] = latest[i] \/ latest'[i] = <<x>>
    <3>1. latest' = [latest EXCEPT ![x.window.interval] = <<x>>] BY <1>5, <2>1 DEF Cache
    <3> QED BY <1>b, <3>1
  <2>5. \A i \in Interval : \A k \in DOMAIN latest'[i] :
          latest'[i][k].revision <= Len(stored[latest'[i][k].window])
    <3> SUFFICES ASSUME NEW i \in Interval, NEW k \in DOMAIN latest'[i]
                 PROVE  latest'[i][k].revision <= Len(stored[latest'[i][k].window])
      OBVIOUS
    <3>1. CASE latest'[i] = latest[i] BY <1>a, <3>1 DEF PublishedIsStored
    <3>2. CASE latest'[i] = <<x>>
      <4>1. latest'[i][k] = x BY <3>2
      <4> QED BY <2>3, <4>1
    <3> QED BY <2>4, <3>1, <3>2
  <2>6. PublishedIsStored' BY <1>a, <2>0, <2>5 DEF PublishedIsStored
  <2> QED BY <1>a, <2>0, <2>6 DEF StoredHasNoGaps
<1>6. CASE Publish
  <2>0. pending # <<>> /\ pc = "publish" /\ pc' \notin {"cache", "publish"}
        /\ pending' = Tail(pending) /\ published' = published \cup {Head(pending)}
        /\ engine' = engine /\ checkpoint' = checkpoint /\ stored' = stored /\ latest' = latest
    BY <1>6 DEF Publish, PhaseInv, durable
  <2>1. PICK x : x = Head(pending) OBVIOUS
  <2>2. x = pending[1] /\ x \in Snapshot /\ 1 \in DOMAIN pending BY <1>b, <2>0, <2>1, HeadAndTail
  <2>3. /\ x.revision <= Len(stored[x.window]) /\ x.revision = Len(engine.revisions[x.window])
    BY <1>a, <2>0, <2>2
  <2>4. \A k \in DOMAIN pending : k = 1 \/ (k - 1 \in DOMAIN pending'
                                            /\ pending'[k - 1] = pending[k])
    BY <1>b, <2>0, HeadAndTail
  <2>5. \A k \in DOMAIN pending' : k + 1 \in DOMAIN pending /\ pending'[k] = pending[k + 1]
    BY <1>b, <2>0, HeadAndTail
  <2>6. R1' BY <1>a, <2>0, <2>5
  <2>7. R3'
    <3> SUFFICES ASSUME NEW w \in Window, \A k \in DOMAIN pending' : pending'[k].window # w
                 PROVE  Len(engine.revisions[w]) <= Len(stored[w])
      BY <2>0
    <3>1. CASE x.window = w BY <2>3, <3>1
    <3>2. CASE x.window # w
      <4>1. \A k \in DOMAIN pending : pending[k].window # w BY <2>2, <2>4, <3>2
      <4> QED BY <1>a, <4>1
    <3> QED BY <3>1, <3>2
  <2>8. PublishedIsStored' BY <1>a, <2>0, <2>1, <2>3 DEF PublishedIsStored
  <2> QED BY <1>a, <2>0, <2>6, <2>7, <2>8 DEF StoredHasNoGaps
<1>7. CASE BatchDone BY <1>7, <1>e DEF BatchDone, stores, durable
<1>8. CASE SaveCheckpoint
  <2>1. /\ pending' = pending /\ engine' = engine /\ stored' = stored
        /\ published' = published /\ latest' = latest /\ pc' = "commit" /\ pc = "save"
        /\ checkpoint' = engine.log
    BY <1>8 DEF SaveCheckpoint, stores
  <2>2. pending = <<>> BY <2>1 DEF PhaseInv
  <2>3. RestoredEngine(checkpoint') = engine BY <2>1 DEF RestoreInv
  <2>4. R4' BY <1>a, <2>1, <2>2, <2>3
  <2> QED BY <1>a, <2>1, <2>4 DEF StoredHasNoGaps, PublishedIsStored
<1>9. CASE CommitOffset BY <1>9, <1>e DEF CommitOffset, stores
<1>10. CASE Crash
  <2>1. /\ engine' = RestoredEngine(checkpoint) /\ checkpoint' = checkpoint /\ stored' = stored
        /\ published' = published /\ latest' = latest /\ pc' = "fetch" /\ pending' = <<>>
    BY <1>10 DEF Crash, stores, durable
  <2>2. \A w \in Window : Len(engine'.revisions[w]) <= Len(stored[w]) BY <1>a, <2>1
  <2>3. R2'
    <3> SUFFICES ASSUME NEW w \in Window
                 PROVE  Len(engine'.revisions[w]) <= Len(stored[w]) + 1
      BY <2>1
    <3>1. Len(engine'.revisions[w]) \in Nat BY <1>c, <2>1
    <3> QED BY <1>c, <2>2, <3>1
  <2> QED BY <1>a, <2>1, <2>2, <2>3 DEF StoredHasNoGaps, PublishedIsStored
<1>11. CASE Done BY <1>11, <1>e DEF Done, vars, consumer, stores, durable
<1> HIDE DEF R1, R2, R3, R4, R5
<1> QED
  BY <1>1, <1>2, <1>3, <1>4, <1>5, <1>6, <1>7, <1>8, <1>9, <1>10, <1>11 DEF Next, Step

-----------------------------------------------------------------------------
LEMMA WInvariant == Spec => []WInv
<1>1. Init => WInv BY WorkerInit
<1>2. WInv /\ Next => WInv'
  <2> SUFFICES ASSUME WInv, Next PROVE WInv' OBVIOUS
  <2>1. ConsumerTypeOK /\ PhaseInv /\ RestoreInv /\ LogInv /\ RowsInv BY DEF WInv
  <2>2. RestoreInv' BY <2>1, RestoreStep
  <2>3. ConsumerTypeOK' BY <2>1, <2>2, TypesStep
  <2>4. PhaseInv' BY <2>1, <2>3, PhaseStep
  <2>5. LogInv' BY <2>1, <2>3, <2>4, LogStep
  <2>6. RowsInv' BY <2>1, <2>3, <2>4, RowsStep
  <2> QED BY <2>2, <2>3, <2>4, <2>5, <2>6 DEF WInv
<1>3. WInv /\ UNCHANGED vars => WInv'
  <2> SUFFICES ASSUME WInv, UNCHANGED vars PROVE WInv' OBVIOUS
  <2>1. /\ UNCHANGED <<position, batch, partitions, signals, pending, pc, engine>>
        /\ UNCHANGED <<join, reported, latest, stored, published>>
        /\ UNCHANGED <<committed, checkpoint>>
    BY DEF vars, consumer, stores, durable
  <2>2. ConsumerTypeOK' /\ PhaseInv' /\ RestoreInv'
    BY <2>1 DEF WInv, ConsumerTypeOK, WorkerTypeOK, PhaseInv, RestoreInv
  <2>3. LogInv'
    BY <2>1 DEF WInv, LogInv, Processed, InBatch, Settled, InHand, Checkpointed
  <2>4. RowsInv' BY <2>1 DEF WInv, RowsInv, StoredHasNoGaps, PublishedIsStored
  <2> QED BY <2>2, <2>3, <2>4 DEF WInv
<1> QED BY <1>1, <1>2, <1>3, PTL DEF Spec

\* The rows and the announcements of the worker, wherever it dies.
THEOREM StoreInvTheorem == Spec => []StoreInv
<1>1. WInv => StoreInv BY DEF WInv, ConsumerTypeOK, RowsInv, StoreInv
<1> QED BY <1>1, WInvariant, PTL

\* save_checkpoint() and commit(): no committed record is lost, nor any record
\* that was read before the next batch is fetched.
THEOREM CommittedIsCheckpointedTheorem == Spec => []CommittedIsCheckpointed
<1>1. WInv => CommittedIsCheckpointed
  <2> SUFFICES ASSUME WInv PROVE CommittedIsCheckpointed OBVIOUS
  <2>1. Settled \in [Partition -> Nat] /\ \A p \in Partition : Settled[p] <= Len(Records[p])
    <3>1. position \in [Partition -> Nat] /\ committed \in [Partition -> Nat]
      BY DEF WInv, ConsumerTypeOK, WorkerTypeOK
    <3>2. \A p \in Partition : committed[p] <= position[p] /\ position[p] <= Len(Records[p])
      BY DEF WInv, PhaseInv
    <3>3. \A p \in Partition : committed[p] <= Len(Records[p])
      <4> SUFFICES ASSUME NEW p \in Partition PROVE committed[p] <= Len(Records[p]) OBVIOUS
      <4>1. committed[p] \in Nat /\ position[p] \in Nat /\ Len(Records[p]) \in Nat
        BY <3>1, RecordTypes
      <4> QED BY <3>2, <4>1
    <3> QED BY <3>1, <3>2, <3>3 DEF Settled
  <2>2. \A r \in Contributing(Settled) : Checkpointed(r)
    BY <2>1, ContributingIsWhole DEF WInv, LogInv
  <2> QED BY <2>2 DEF CommittedIsCheckpointed, Settled
<1> QED BY <1>1, WInvariant, PTL

\* The engine of the worker keeps the promises of the first part, also when it
\* was restored from a checkpoint.
THEOREM RestartKeepsFinality == Spec => [](LatestIsCurrent /\ FinalityInv)
<1>1. WInv => LatestIsCurrent /\ FinalityInv
  BY DEF WInv, RestoreInv, EInv, LatestIsCurrent, FinalityInv, PassedIsFinal,
         FinalNeverReopens, LatenessHonoured
<1> QED BY <1>1, WInvariant, PTL

\* A restore of the worker's own log at any time gives the engine it has, with
\* every revision that was computed on the way.
THEOREM RestartLosesNoRevision == Spec => [](engine = RestoredEngine(engine.log))
<1>1. WInv => engine = RestoredEngine(engine.log) BY DEF WInv, RestoreInv
<1> QED BY <1>1, WInvariant, PTL
-----------------------------------------------------------------------------
(***************************************************************************)
(* The third part: what is left once the worker has caught up.  The key of *)
(* a record identifies its event, and every source has reported, so each   *)
(* record ends with a signal of its own about the quality of its source.   *)
(***************************************************************************)
\* The records that contribute, and the ids and the signals of one of them.
Contributors == Whole(AllRecords)
RecordIds(r) ==
  {<<r.key, id>> : id \in (IF r.domain = "market" THEN {"datum"} ELSE {"post", "mention"})
                          \cup {"quality"}}
SignalSet(r) ==
  {NewSignal(id, r, "data", FirstObserved) :
     id \in IF r.domain = "market" THEN {"datum"} ELSE {"post", "mention"}}
  \cup {NewSignal("quality", r, "quality", h) : h \in Health}
FromRecord(S) == \A x \in S : \E r \in Contributors : x \in SignalSet(r)

\* Of every record all the ids or none.
Atomic(ids) == \A r \in AllRecords : \A a, b \in RecordIds(r) : a \in ids => b \in ids

OwnIds(log, w) == IdsOf(Own(log, w))
EarlierIds(log, w) == IdsOf(Earlier(log, w))
InHandIds == {signals[k].id : k \in DOMAIN signals}

\* Nothing that is left of the batch is earlier than t.
LeftFrom(t) ==
  /\ \A k \in DOMAIN signals : signals[k].time >= t
  /\ \A k \in DOMAIN batch : RecordAt(batch[k]).time >= t

\* The records of a batch are in the order of their times, those behind the
\* signals in hand first, and a batch starts from the checkpoint.
OrderInv ==
  /\ Domain \subseteq reported
  /\ pc = "fetch" => checkpoint = engine.log
  /\ \A j, k \in DOMAIN batch : j < k => RecordAt(batch[j]).time <= RecordAt(batch[k]).time
  /\ \A j \in DOMAIN signals : LeftFrom(signals[j].time)

\* Signals come from records; the log has whole records, but for the one in hand.
OriginInv ==
  /\ \A j \in join : \E r \in AllRecords : r.domain = "social" /\ j = <<r.key, r.half>>
  /\ FromRecord(Logged(engine.log)) /\ FromRecord({signals[k] : k \in DOMAIN signals})
  /\ Atomic(IdsOf(Logged(checkpoint)))
  /\ Atomic(IdsOf(Logged(engine.log)) \cup InHandIds)
  /\ Logged(checkpoint) \subseteq Logged(engine.log)

\* The revisions of a window since the checkpoint: one for each new signal of
\* the window, one for each new earlier signal if the window was there, and at
\* most one more that made it final, after which the batch leaves it alone.
Since(e, base, w) ==
  IF base.revisions[w] = <<>> THEN {} ELSE EarlierIds(e.log, w) \ EarlierIds(base.log, w)
Counted(e, base, w, d) ==
  Len(e.revisions[w]) + Cardinality(OwnIds(base.log, w))
    = Len(base.revisions[w]) + Cardinality(OwnIds(e.log, w)) + Cardinality(Since(e, base, w)) + d
Base == RestoredEngine(checkpoint)
CountInv ==
  \A w \in Window :
    /\ \E d \in {0, 1} :
         /\ Counted(engine, Base, w, d)
         /\ d = 1 => IsFinal(engine.revisions[w]) /\ LeftFrom(WindowEnd(w))
    /\ \A e \in {engine, Base} : e.revisions[w] # <<>> => Own(e.log, w) # {}
    /\ Base.revisions[w] = <<>> /\ engine.revisions[w] # <<>> => LeftFrom(w.start)
    /\ Base.revisions[w] # <<>> => engine.revisions[w] # <<>>

\* The number of the last row of a window is accounted for in the same way,
\* also when the engine that wrote it is gone.
RowCounted(base, w, row) ==
  LET own == IdsOf(row.features.own)
      earlier == IF base.revisions[w] = <<>> THEN {}
                 ELSE IdsOf(row.features.earlier) \ EarlierIds(base.log, w)
  IN  /\ FromRecord(row.features.own) /\ FromRecord(row.features.earlier)
      /\ IsFiniteSet(row.features.own) /\ IsFiniteSet(row.features.earlier)
      /\ row.features.own \subseteq {s \in Signal : WindowOf(s, w.interval) = w}
      /\ row.features.earlier \subseteq {s \in Signal : s.time < w.start}
      /\ row.revision + Cardinality(OwnIds(base.log, w))
           <= Len(base.revisions[w]) + Cardinality(own)
                + Cardinality(earlier) + (IF Atomic(own) THEN 1 ELSE 0)
LastRowInv ==
  /\ \A k \in DOMAIN pending : pending[k] = LastRevision(engine, pending[k].window)
  /\ \A w \in Window : stored[w] # <<>> => RowCounted(Base, w, stored[w][Len(stored[w])])

CInv == OrderInv /\ OriginInv /\ CountInv /\ LastRowInv
-----------------------------------------------------------------------------
\* What \div and % have to do with each other.
LEMMA DivisionWithRemainder ==
  ASSUME NEW n \in Int, NEW i \in Int, i > 0
  PROVE  n = i * (n \div i) + (n % i)
BY Z3

\* Windows are aligned: a later one starts where an earlier one has ended.
LEMMA FloorSteps ==
  ASSUME NEW t \in Nat, NEW u \in Nat, NEW i \in Nat \ {0},
         _floor_window(t, i) < _floor_window(u, i)
  PROVE  _floor_window(t, i) + i <= _floor_window(u, i)
<1>1. PICK a \in Nat, b \in Nat : a = t \div i /\ b = u \div i OBVIOUS
<1>2. t % i \in 0 .. i - 1 /\ u % i \in 0 .. i - 1 OBVIOUS
<1>0. i \in Int /\ i > 0 /\ t \in Int /\ u \in Int OBVIOUS
<1>3. t = i * a + (t % i) /\ u = i * b + (u % i) BY <1>0, <1>1, DivisionWithRemainder, Zenon
<1>4. _floor_window(t, i) = i * a /\ _floor_window(u, i) = i * b BY <1>2, <1>3 DEF _floor_window
<1>5. i * a < i * b BY <1>4
<1>6. ~(b <= a)
  <2>1. ASSUME b <= a PROVE i * b <= i * a BY <2>1
  <2> QED BY <1>5, <2>1
<1>7. a + 1 <= b BY <1>6
<1>8. i * (a + 1) <= i * b BY <1>7
<1>9. i * (a + 1) = i * a + i OBVIOUS
<1> QED BY <1>4, <1>8, <1>9

\* Where a signal lies that is not in a window which has a signal y of its own.
LEMMA WindowPosition ==
  ASSUME NEW w \in Window, NEW s \in Signal, NEW y \in Signal, WindowOf(y, w.interval) = w
  PROVE  /\ w.start \in Nat /\ WindowEnd(w) \in Nat /\ s.time \in Nat
         /\ w.start < WindowEnd(w)
         /\ WindowOf(s, w.interval) = w => w.start <= s.time /\ s.time < WindowEnd(w)
         /\ w.start > WindowOf(s, w.interval).start => s.time < w.start
         /\ WindowOf(s, w.interval) # w /\ ~(w.start > WindowOf(s, w.interval).start)
              => WindowEnd(w) <= s.time
<1>0. /\ w.start \in Nat /\ w.interval \in Nat \ {0} /\ s.time \in Nat /\ y.time \in Nat
      /\ w = [interval |-> w.interval, start |-> w.start]
  BY ConstantTypes DEF Window
<1>1. PICK i \in Nat \ {0} : i = w.interval BY <1>0
<1>2. PICK f \in Nat, g \in Nat : f = _floor_window(s.time, i) /\ g = _floor_window(y.time, i)
  BY <1>0, FloorBounds
<1>3. g = w.start BY <1>1, <1>2 DEF WindowOf
<1>4. /\ WindowOf(s, w.interval).start = f
      /\ WindowOf(s, w.interval) = w <=> f = w.start
  BY <1>0, <1>1, <1>2 DEF WindowOf
<1>5. f <= s.time /\ s.time < f + i BY <1>0, <1>2, FloorBounds
<1>6. f < g => f + i <= g BY <1>0, <1>2, FloorSteps
<1>7. g < f => g + i <= f BY <1>0, <1>2, FloorSteps
<1>8. WindowEnd(w) = g + i BY <1>1, <1>3 DEF WindowEnd
<1> QED BY <1>0, <1>3, <1>4, <1>5, <1>6, <1>7, <1>8

-----------------------------------------------------------------------------
\* A log is finite, so its signals and their ids can be counted.
LEMMA LogIsFinite ==
  ASSUME NEW log \in Seq(Signal)
  PROVE  IsFiniteSet(Logged(log))
<1>1. DOMAIN log = 1 .. Len(log) /\ Len(log) \in Nat OBVIOUS
<1>2. IsFiniteSet(DOMAIN log) BY <1>1, FS_Interval
<1>3. log \in Surjection(DOMAIN log, Logged(log)) BY <1>1 DEF Surjection, Logged
<1> QED BY <1>2, <1>3, FS_Surjection

\* The ids of finitely many signals are finitely many.
LEMMA IdsAreFinite ==
  ASSUME NEW S, IsFiniteSet(S)
  PROVE  IsFiniteSet(IdsOf(S)) /\ Cardinality(IdsOf(S)) \in Nat
<1> DEFINE f == [s \in S |-> s.id]
<1>1. f \in Surjection(S, IdsOf(S)) BY DEF Surjection, IdsOf
<1> HIDE DEF f
<1>2. IsFiniteSet(IdsOf(S)) BY <1>1, FS_Surjection
<1> QED BY <1>2, FS_CardinalityType

\* The ids of a window, and those before it, can be counted.
LEMMA WindowIdsAreFinite ==
  ASSUME NEW log \in Seq(Signal), NEW w
  PROVE  /\ IsFiniteSet(Own(log, w)) /\ IsFiniteSet(Earlier(log, w))
         /\ IsFiniteSet(OwnIds(log, w)) /\ Cardinality(OwnIds(log, w)) \in Nat
         /\ IsFiniteSet(EarlierIds(log, w)) /\ Cardinality(EarlierIds(log, w)) \in Nat
<1>1. IsFiniteSet(Own(log, w)) /\ IsFiniteSet(Earlier(log, w))
  <2>1. Own(log, w) \in SUBSET Logged(log) /\ Earlier(log, w) \in SUBSET Logged(log)
    BY DEF Own, Earlier
  <2> QED BY <2>1, LogIsFinite, FS_Subset
<1> QED BY <1>1, IdsAreFinite DEF OwnIds, EarlierIds

\* What one more signal adds to the ids of a window.
LEMMA IdsGrow ==
  ASSUME NEW log \in Seq(Signal), NEW s \in Signal, ~Seen(log, s), NEW w
  PROVE  /\ s.id \notin OwnIds(log, w) /\ s.id \notin EarlierIds(log, w)
         /\ OwnIds(Append(log, s), w) = IF WindowOf(s, w.interval) = w THEN OwnIds(log, w) \cup {s.id}
                                ELSE OwnIds(log, w)
         /\ EarlierIds(Append(log, s), w) = IF s.time < w.start THEN EarlierIds(log, w) \cup {s.id}
                                    ELSE EarlierIds(log, w)
<1>0. PICK longer : longer = Append(log, s) OBVIOUS
<1>1. Logged(longer) = Logged(log) \cup {s} BY <1>0, LoggedAppend
<1>2. \A x \in Logged(log) : x.id # s.id BY DEF Seen
<1>3. /\ Own(longer, w) = IF WindowOf(s, w.interval) = w THEN Own(log, w) \cup {s} ELSE Own(log, w)
      /\ Earlier(longer, w) = IF s.time < w.start THEN Earlier(log, w) \cup {s} ELSE Earlier(log, w)
  BY <1>1 DEF Own, Earlier
<1>4. \A S : IdsOf(S \cup {s}) = IdsOf(S) \cup {s.id} BY DEF IdsOf
<1>5. s.id \notin OwnIds(log, w) /\ s.id \notin EarlierIds(log, w)
  BY <1>2 DEF OwnIds, EarlierIds, IdsOf, Own, Earlier
<1> QED BY <1>0, <1>3, <1>4, <1>5 DEF OwnIds, EarlierIds

\* What is true of the number of revisions of w as long as no signal before the
\* time t comes.
CountedUpTo(e, base, w, t) ==
  /\ \E d \in {0, 1} :
       /\ Counted(e, base, w, d)
       /\ d = 1 => IsFinal(e.revisions[w]) /\ WindowEnd(w) <= t
  /\ e.revisions[w] # <<>> => Own(e.log, w) # {}
  /\ base.revisions[w] = <<>> /\ e.revisions[w] # <<>> => w.start <= t
  /\ base.revisions[w] # <<>> => e.revisions[w] # <<>>

\* One ingest adds one revision for a signal of the window or an earlier one,
\* and one more at most, when it makes the window final: then the signal lies
\* behind the window.
LEMMA CountedStep ==
  ASSUME NEW e, EInv(e), NEW base \in Engine, Logged(base.log) \subseteq Logged(e.log),
         NEW s \in Signal, ~Seen(e.log, s), NEW next, next = Ingest(e, s),
         NEW w \in Window, CountedUpTo(e, base, w, s.time)
  PROVE  CountedUpTo(next, base, w, s.time)
<1>p. PICK d \in {0, 1} :
        /\ Counted(e, base, w, d)
        /\ d = 1 => IsFinal(e.revisions[w]) /\ WindowEnd(w) <= s.time
  BY DEF CountedUpTo
<1>q. /\ e.revisions[w] # <<>> => Own(e.log, w) # {}
      /\ base.revisions[w] = <<>> /\ e.revisions[w] # <<>> => w.start <= s.time
      /\ base.revisions[w] # <<>> => e.revisions[w] # <<>>
  BY DEF CountedUpTo
<1> USE <1>p, <1>q
<1> SUFFICES /\ \E f \in {0, 1} :
                  /\ Counted(next, base, w, f)
                  /\ f = 1 => IsFinal(next.revisions[w]) /\ WindowEnd(w) <= s.time
             /\ next.revisions[w] # <<>> => Own(next.log, w) # {}
             /\ base.revisions[w] = <<>> /\ next.revisions[w] # <<>> => w.start <= s.time
             /\ base.revisions[w] # <<>> => next.revisions[w] # <<>>
  BY DEF CountedUpTo
<1>1. /\ e \in Engine /\ e.log \in Seq(Signal) /\ e.revisions[w] \in Seq(Snapshot)
      /\ base.log \in Seq(Signal) /\ base.revisions[w] \in Seq(Snapshot)
      /\ Len(base.revisions[w]) \in Nat /\ Len(e.revisions[w]) \in Nat
  BY DEF EInv, Engine
<1>2. next.log = Append(e.log, s) /\ next.log \in Seq(Signal)
  <2>1. next.log = Append(e.log, s) BY IngestTables
  <2> QED BY <1>1, <2>1
<1>3. /\ Built(e, s, next, w) => /\ Len(next.revisions[w]) = Len(e.revisions[w]) + 1
                                 /\ next.revisions[w] # <<>>
      /\ ~Built(e, s, next, w) => next.revisions[w] = e.revisions[w]
  BY <1>1, WindowStep
<1>4. EInv(next) BY IngestEInv
<1>5. Own(next.log, w) = IF WindowOf(s, w.interval) = w THEN Own(e.log, w) \cup {s} ELSE Own(e.log, w)
  <2>1. Logged(next.log) = Logged(e.log) \cup {s} BY <1>1, <1>2, LoggedAppend
  <2> QED BY <2>1 DEF Own
<1>a. /\ s.id \notin OwnIds(e.log, w) /\ s.id \notin EarlierIds(e.log, w)
      /\ OwnIds(next.log, w) = IF WindowOf(s, w.interval) = w THEN OwnIds(e.log, w) \cup {s.id}
                               ELSE OwnIds(e.log, w)
      /\ EarlierIds(next.log, w) = IF s.time < w.start THEN EarlierIds(e.log, w) \cup {s.id}
                                   ELSE EarlierIds(e.log, w)
  <2>1. PICK old : old = e.log OBVIOUS
  <2>2. old \in Seq(Signal) /\ ~Seen(old, s) BY <1>1, <2>1
  <2>3. /\ s.id \notin OwnIds(old, w) /\ s.id \notin EarlierIds(old, w)
        /\ OwnIds(Append(old, s), w) =
             IF WindowOf(s, w.interval) = w THEN OwnIds(old, w) \cup {s.id} ELSE OwnIds(old, w)
        /\ EarlierIds(Append(old, s), w) =
             IF s.time < w.start THEN EarlierIds(old, w) \cup {s.id} ELSE EarlierIds(old, w)
    BY <2>2, IdsGrow
  <2> QED BY <1>2, <2>1, <2>3
<1>6. PICK own, added, own2, added2, base0, n, n2, n0 :
        /\ own = Cardinality(OwnIds(e.log, w)) /\ added = Cardinality(Since(e, base, w))
        /\ own2 = Cardinality(OwnIds(next.log, w)) /\ added2 = Cardinality(Since(next, base, w))
        /\ base0 = Cardinality(OwnIds(base.log, w))
        /\ n = Len(e.revisions[w]) /\ n2 = Len(next.revisions[w]) /\ n0 = Len(base.revisions[w])
  OBVIOUS
<1>7. /\ own \in Nat /\ base0 \in Nat
      /\ own2 = IF WindowOf(s, w.interval) = w THEN own + 1 ELSE own
  <2>1. /\ s.id \notin OwnIds(e.log, w)
        /\ OwnIds(next.log, w) = IF WindowOf(s, w.interval) = w THEN OwnIds(e.log, w) \cup {s.id}
                                 ELSE OwnIds(e.log, w)
    BY <1>a
  <2>2. IsFiniteSet(OwnIds(e.log, w)) /\ own \in Nat /\ base0 \in Nat
    BY <1>1, <1>6, WindowIdsAreFinite
  <2>3. Cardinality(OwnIds(e.log, w) \cup {s.id}) = own + 1
    BY <1>6, <2>1, <2>2, FS_AddElement
  <2> QED BY <1>6, <2>1, <2>2, <2>3
<1>8. /\ added \in Nat
      /\ added2 = IF base.revisions[w] # <<>> /\ s.time < w.start THEN added + 1 ELSE added
  <2>1. CASE base.revisions[w] = <<>>
    <3>1. Since(e, base, w) = {} /\ Since(next, base, w) = {} BY <2>1 DEF Since
    <3> QED BY <1>6, <2>1, <3>1, FS_EmptySet
  <2>2. CASE base.revisions[w] # <<>>
    <3>1. PICK A, B : A = EarlierIds(e.log, w) /\ B = EarlierIds(base.log, w) OBVIOUS
    <3>2. Since(e, base, w) = A \ B /\ Since(next, base, w) = EarlierIds(next.log, w) \ B
      BY <2>2, <3>1 DEF Since
    <3>3. s.id \notin A /\ s.id \notin B
          /\ EarlierIds(next.log, w) = IF s.time < w.start THEN A \cup {s.id} ELSE A
      <4>1. s.id \notin B
        <5>1. \A x \in Logged(e.log) : x.id # s.id BY DEF Seen
        <5> QED BY <3>1, <5>1 DEF EarlierIds, IdsOf, Earlier
      <4> QED BY <1>a, <3>1, <4>1
    <3>4. IsFiniteSet(A \ B) /\ Cardinality(A \ B) \in Nat
      <4>1. IsFiniteSet(A) BY <1>1, <3>1, WindowIdsAreFinite
      <4>2. A \ B \in SUBSET A OBVIOUS
      <4>3. IsFiniteSet(A \ B) BY <4>1, <4>2, FS_Subset
      <4> QED BY <4>3, FS_CardinalityType
    <3>5. (A \cup {s.id}) \ B = (A \ B) \cup {s.id} /\ s.id \notin A \ B BY <3>3
    <3>6. Cardinality((A \ B) \cup {s.id}) = Cardinality(A \ B) + 1 BY <3>4, <3>5, FS_AddElement
    <3>7. CASE s.time < w.start BY <1>6, <2>2, <3>2, <3>3, <3>4, <3>5, <3>6, <3>7
    <3>8. CASE ~(s.time < w.start) BY <1>6, <2>2, <3>2, <3>3, <3>4, <3>8
    <3> QED BY <3>7, <3>8
  <2> QED BY <2>1, <2>2
<1>9. n + base0 = n0 + own + added + d /\ n \in Nat /\ n0 \in Nat
  BY <1>1, <1>6 DEF Counted
<1>10. \A f \in {0, 1} : Counted(next, base, w, f) <=> n2 + base0 = n0 + own2 + added2 + f
  BY <1>6 DEF Counted
<1>11. w.start \in Nat /\ s.time \in Nat BY ConstantTypes DEF Window
<1>12. CASE WindowOf(s, w.interval) = w
  <2>1. w.start <= s.time /\ s.time < WindowEnd(w) /\ WindowEnd(w) \in Nat
    BY <1>12, WindowPosition
  <2>2. d = 0 BY <1>11, <2>1
  <2>3. Built(e, s, next, w) BY <1>12 DEF Built, Touched
  <2>4. n2 = n + 1 BY <1>3, <1>6, <2>3
  <2>5. own2 = own + 1 /\ added2 = added BY <1>7, <1>8, <1>11, <1>12, <2>1
  <2>6. Counted(next, base, w, 0)
    <3>1. n2 + base0 = n0 + own2 + added2 + 0 BY <1>7, <1>8, <1>9, <2>2, <2>4, <2>5
    <3> QED BY <1>10, <3>1
  <2> QED BY <1>3, <1>5, <1>12, <2>1, <2>3, <2>6
<1>13. CASE WindowOf(s, w.interval) # w /\ e.revisions[w] = <<>>
  <2>1. ~Built(e, s, next, w) BY <1>13 DEF Built, Touched, Eligible
  <2>2. n2 = n BY <1>3, <1>6, <2>1
  <2>3. own2 = own /\ added2 = added /\ base.revisions[w] = <<>> BY <1>7, <1>8, <1>13
  <2>4. Counted(next, base, w, d)
    <3>1. n2 + base0 = n0 + own2 + added2 + d BY <1>9, <2>2, <2>3
    <3> QED BY <1>10, <3>1
  <2> QED BY <1>3, <1>13, <2>1, <2>3, <2>4
<1>14. CASE WindowOf(s, w.interval) # w /\ e.revisions[w] # <<>>
  <2>1. PICK y \in Own(e.log, w) : TRUE BY <1>14
  <2>2. y \in Signal /\ WindowOf(y, w.interval) = w BY <1>1, LoggedIsSignals DEF Own
  <2>3. /\ WindowEnd(w) \in Nat /\ w.start < WindowEnd(w)
        /\ w.start > WindowOf(s, w.interval).start => s.time < w.start
        /\ ~(w.start > WindowOf(s, w.interval).start) => WindowEnd(w) <= s.time
    BY <1>14, <2>2, WindowPosition
  <2>4. own2 = own BY <1>7, <1>14
  <2>5. CASE w.start > WindowOf(s, w.interval).start
    <3>1. s.time < w.start /\ base.revisions[w] # <<>> BY <1>11, <1>14, <2>3, <2>5
    <3>2. d = 0 BY <1>11, <2>3, <3>1
    <3>3. Built(e, s, next, w) BY <1>14, <2>5 DEF Built, Touched
    <3>4. n2 = n + 1 BY <1>3, <1>6, <3>3
    <3>5. added2 = added + 1 BY <1>8, <3>1
    <3>6. Counted(next, base, w, 0)
      <4>1. n2 + base0 = n0 + own2 + added2 + 0 BY <1>7, <1>8, <1>9, <2>4, <3>2, <3>4, <3>5
      <4> QED BY <1>10, <4>1
    <3> QED BY <1>3, <1>5, <1>14, <3>1, <3>3, <3>6
  <2>6. CASE ~(w.start > WindowOf(s, w.interval).start)
    <3>1. WindowEnd(w) <= s.time /\ w.start <= s.time /\ ~(s.time < w.start) BY <1>11, <2>3, <2>6
    <3>2. added2 = added BY <1>8, <3>1
    <3>3. CASE Built(e, s, next, w)
      <4>1. Eligible(e, s, next.max_event_time, next.source, w)
        BY <1>14, <2>6, <3>3 DEF Built, Touched
      <4>2. d = 0 /\ Passed(next.max_event_time, next.source, w) BY <4>1 DEF Eligible
      <4>3. IsFinal(next.revisions[w])
        BY <1>3, <1>4, <3>3, <4>2 DEF EInv, FinalWhenPassed
      <4>4. n2 = n + 1 BY <1>3, <1>6, <3>3
      <4>5. Counted(next, base, w, 1)
        <5>1. n2 + base0 = n0 + own2 + added2 + 1 BY <1>7, <1>8, <1>9, <2>4, <3>2, <4>2, <4>4
        <5> QED BY <1>10, <5>1
      <4> QED BY <1>3, <1>5, <1>14, <3>1, <3>3, <4>3, <4>5
    <3>4. CASE ~Built(e, s, next, w)
      <4>1. n2 = n BY <1>3, <1>6, <3>4
      <4>2. Counted(next, base, w, d)
        <5>1. n2 + base0 = n0 + own2 + added2 + d BY <1>9, <2>4, <3>2, <4>1
        <5> QED BY <1>10, <5>1
      <4> QED BY <1>3, <1>5, <1>14, <3>1, <3>4, <4>2
    <3> QED BY <3>3, <3>4
  <2> QED BY <2>5, <2>6
<1> QED BY <1>12, <1>13, <1>14
-----------------------------------------------------------------------------
\* The signals and the ids of a record, and what the key identifies.
LEMMA SignalSetFacts ==
  ASSUME NEW r, NEW x \in SignalSet(r)
  PROVE  /\ x.id \in RecordIds(r) /\ x.id[1] = r.key
         /\ x.time = r.time /\ x.domain = r.domain
<1>1. CASE \E id \in IF r.domain = "market" THEN {"datum"} ELSE {"post", "mention"} :
             x = NewSignal(id, r, "data", FirstObserved)
  BY <1>1 DEF NewSignal, RecordIds
<1>2. CASE \E h \in Health : x = NewSignal("quality", r, "quality", h)
  BY <1>2 DEF NewSignal, RecordIds
<1> QED BY <1>1, <1>2 DEF SignalSet

\* Signals of records that share an id are at one time of one domain.
LEMMA IdsNameTheEvent ==
  ASSUME KeysIdentifyEvents, NEW r \in AllRecords, NEW q \in AllRecords,
         NEW a \in RecordIds(r), NEW b \in RecordIds(q), a[1] = b[1]
  PROVE  r.time = q.time /\ RecordIds(r) = RecordIds(q)
<1>1. a[1] = r.key /\ b[1] = q.key BY DEF RecordIds
<1>2. r.key = q.key BY <1>1
<1>3. r.time = q.time /\ r.domain = q.domain BY <1>2 DEF KeysIdentifyEvents
<1> QED BY <1>2, <1>3 DEF RecordIds

\* A whole record more leaves a set of ids whole.
LEMMA AtomicWithRecord ==
  ASSUME KeysIdentifyEvents, NEW ids, Atomic(ids), NEW r \in AllRecords
  PROVE  Atomic(ids \cup RecordIds(r))
<1> SUFFICES ASSUME NEW q \in AllRecords, NEW a \in RecordIds(q), NEW b \in RecordIds(q),
                    a \in ids \cup RecordIds(r)
             PROVE  b \in ids \cup RecordIds(r)
  BY DEF Atomic
<1>1. CASE a \in ids BY <1>1 DEF Atomic
<1>2. CASE a \in RecordIds(r)
  <2>1. RecordIds(r) = RecordIds(q) BY <1>2, IdsNameTheEvent
  <2> QED BY <2>1
<1> QED BY <1>1, <1>2

\* What social_signals and market_signal make of a record, and the quality
\* signal that follows because the source has reported.
LEMMA ReportedSignals ==
  ASSUME NEW r \in AllRecords, NEW h \in Health, NEW made, made = SignalsOf(r, <<h>>)
  PROVE  /\ made # <<>>
         /\ \A k \in DOMAIN made : made[k] \in SignalSet(r)
         /\ {made[k].id : k \in DOMAIN made} = RecordIds(r)
         /\ \A k \in DOMAIN made : made[k].kind = "quality" => k = Len(made)
<1>1. PICK a, b, c, q :
        /\ a = NewSignal("datum", r, "data", FirstObserved)
        /\ b = NewSignal("post", r, "data", FirstObserved)
        /\ c = NewSignal("mention", r, "data", FirstObserved)
        /\ q = NewSignal("quality", r, "quality", h)
  OBVIOUS
<1>2. /\ a.id = <<r.key, "datum">> /\ b.id = <<r.key, "post">> /\ c.id = <<r.key, "mention">>
      /\ q.id = <<r.key, "quality">> /\ q \in SignalSet(r)
      /\ a.kind = "data" /\ b.kind = "data" /\ c.kind = "data"
  BY <1>1 DEF NewSignal, SignalSet
<1>3. QualitySignals(r, <<h>>) = <<q>> BY <1>1 DEF QualitySignals
<1>4. CASE r.domain = "market"
  <2>0. made = <<NewSignal("datum", r, "data", FirstObserved)>> \o QualitySignals(r, <<h>>)
    BY <1>4 DEF SignalsOf
  <2>1. made = <<a>> \o <<q>> BY <1>1, <1>3, <2>0, Zenon
  <2>3. a \in SignalSet(r) BY <1>1, <1>4 DEF SignalSet
  <2>2. DOMAIN made = 1 .. 2 /\ made[1] = a /\ made[2] = q /\ Len(made) = 2 BY <1>2, <2>1, <2>3
  <2>4. RecordIds(r) = {a.id, q.id} BY <1>2, <1>4 DEF RecordIds
  <2>5. made # <<>> /\ \A k \in DOMAIN made : k = 1 \/ k = 2 BY <2>2
  <2>6. {made[k].id : k \in DOMAIN made} = {a.id, q.id}
    <3>1. 1 \in DOMAIN made /\ 2 \in DOMAIN made BY <2>2
    <3> QED BY <2>2, <2>5, <3>1
  <2> QED BY <1>2, <2>2, <2>3, <2>4, <2>5, <2>6
<1>5. CASE r.domain # "market"
  <2>0. made = <<NewSignal("post", r, "data", FirstObserved),
                 NewSignal("mention", r, "data", FirstObserved)>> \o QualitySignals(r, <<h>>)
    BY <1>5 DEF SignalsOf
  <2>1. made = <<b, c>> \o <<q>> BY <1>1, <1>3, <2>0, Zenon
  <2>3. b \in SignalSet(r) /\ c \in SignalSet(r) BY <1>1, <1>5 DEF SignalSet
  <2>2. DOMAIN made = 1 .. 3 /\ made[1] = b /\ made[2] = c /\ made[3] = q /\ Len(made) = 3
    BY <1>2, <2>1, <2>3
  <2>4. RecordIds(r) = {b.id, c.id, q.id} BY <1>2, <1>5 DEF RecordIds
  <2>5. made # <<>> /\ \A k \in DOMAIN made : k = 1 \/ k = 2 \/ k = 3 BY <2>2
  <2>6. {made[k].id : k \in DOMAIN made} = {b.id, c.id, q.id}
    <3>1. 1 \in DOMAIN made /\ 2 \in DOMAIN made /\ 3 \in DOMAIN made BY <2>2
    <3> QED BY <2>2, <2>5, <3>1
  <2> QED BY <1>2, <2>2, <2>3, <2>4, <2>5, <2>6
<1> QED BY <1>4, <1>5

\* A market record or a half whose other half was read contributes.
LEMMA PairContributes ==
  ASSUME KeysIdentifyEvents, NEW r \in AllRecords, NEW halves,
         \A j \in halves : \E q \in AllRecords : q.domain = "social" /\ j = <<q.key, q.half>>,
         r.domain = "market" \/ Paired(r, halves)
  PROVE  r \in Contributors
<1>1. CASE r.domain = "market" BY <1>1 DEF Contributors, Whole
<1>2. CASE Paired(r, halves)
  <2> SUFFICES ASSUME NEW half \in {"post", "mention"} PROVE [r EXCEPT !.half = half] \in AllRecords
    BY DEF Contributors, Whole
  <2>1. <<r.key, half>> \in halves BY <1>2 DEF Paired
  <2>2. PICK q \in AllRecords : q.key = r.key /\ q.half = half BY <2>1
  <2>3. q.time = r.time /\ q.domain = r.domain BY <2>2 DEF KeysIdentifyEvents
  <2>4. /\ q = [key |-> q.key, time |-> q.time, domain |-> q.domain, half |-> q.half]
        /\ r = [key |-> r.key, time |-> r.time, domain |-> r.domain, half |-> r.half]
    BY RecordsAssumption
  <2>5. [r EXCEPT !.half = half] = [key |-> r.key, time |-> r.time, domain |-> r.domain, half |-> half]
    BY <2>4
  <2> QED BY <2>2, <2>3, <2>4, <2>5
<1> QED BY <1>1, <1>2

\* Once all that is in hand lies behind a window, the window has whole records.
LEMMA OwnIdsAreAtomic ==
  ASSUME KeysIdentifyEvents, NEW log \in Seq(Signal), FromRecord(Logged(log)),
         NEW hand \in SUBSET Signal, FromRecord(hand), Atomic(IdsOf(Logged(log)) \cup IdsOf(hand)),
         NEW w \in Window, \A x \in hand : WindowEnd(w) <= x.time
  PROVE  Atomic(OwnIds(log, w))
<1> SUFFICES ASSUME NEW r \in AllRecords, NEW a \in RecordIds(r), NEW b \in RecordIds(r),
                    a \in OwnIds(log, w)
             PROVE  b \in OwnIds(log, w)
  BY DEF Atomic
<1>1. PICK x \in Own(log, w) : x.id = a BY DEF OwnIds, IdsOf
<1>2. x \in Logged(log) /\ x \in Signal /\ WindowOf(x, w.interval) = w
  BY <1>1, LoggedIsSignals DEF Own
<1>3. a \in IdsOf(Logged(log)) BY <1>1, <1>2 DEF IdsOf
<1>4. b \in IdsOf(Logged(log)) \cup IdsOf(hand) BY <1>3 DEF Atomic
<1>5. PICK y \in Logged(log) \cup hand : y.id = b BY <1>4 DEF IdsOf
<1>6. y.time = x.time
  <2>1. PICK q \in Contributors : x \in SignalSet(q) BY <1>2 DEF FromRecord
  <2>2. PICK p \in Contributors : y \in SignalSet(p) BY DEF FromRecord
  <2>3. q \in AllRecords /\ p \in AllRecords BY DEF Contributors, Whole
  <2>4. x.id \in RecordIds(q) /\ y.id \in RecordIds(p) /\ x.time = q.time /\ y.time = p.time
    BY <2>1, <2>2, SignalSetFacts
  <2>5. a[1] = b[1] BY DEF RecordIds
  <2> QED BY <1>1, <1>5, <2>3, <2>4, <2>5, IdsNameTheEvent
<1>7. y \notin hand
  <2>1. x.time < WindowEnd(w) /\ x.time \in Nat /\ WindowEnd(w) \in Nat BY <1>2, WindowPosition
  <2> QED BY <1>6, <2>1
<1>8. y \in Own(log, w)
  <2>1. WindowOf(y, w.interval) = WindowOf(x, w.interval) BY <1>6 DEF WindowOf
  <2> QED BY <1>2, <1>7, <2>1 DEF Own
<1> QED BY <1>5, <1>8 DEF OwnIds, IdsOf
-----------------------------------------------------------------------------
\* What ProcessEvent puts in hand: all the signals of a record that contributes.
LEMMA EventMakes ==
  ASSUME KeysIdentifyEvents, ConsumerTypeOK, OrderInv, OriginInv,
         NEW report \in {<<>>} \cup {<<h>> : h \in Health}, ProcessEvent(report),
         NEW r, r = RecordAt(batch[1])
  PROVE  /\ batch # <<>> /\ signals = <<>> /\ batch' = Tail(batch) /\ r \in AllRecords
         /\ \A j \in join' : \E q \in AllRecords : q.domain = "social" /\ j = <<q.key, q.half>>
         /\ \/ signals' = <<>>
            \/ /\ r \in Contributors
               /\ \E h \in Health : signals' = SignalsOf(r, <<h>>)
<1>0. PICK a : a = batch[1] OBVIOUS
<1>1. /\ r \in AllRecords /\ batch' = Tail(batch) /\ batch # <<>> /\ signals = <<>>
      /\ join' = IF r.domain = "market" THEN join ELSE join \cup {<<r.key, r.half>>}
  BY <1>0, EventEffect
<1>2. r = Records[batch[1][1]][batch[1][2]] BY DEF RecordAt
<1>3. r.domain \in Domain BY <1>1, RecordsAssumption
<1>4. \A j \in join' : \E q \in AllRecords : q.domain = "social" /\ j = <<q.key, q.half>>
  <2> SUFFICES ASSUME NEW j \in join'
               PROVE  \E q \in AllRecords : q.domain = "social" /\ j = <<q.key, q.half>>
    OBVIOUS
  <2>1. CASE j \in join BY <2>1 DEF OriginInv
  <2>2. CASE j \notin join
    <3>1. r.domain # "market" /\ j = <<r.key, r.half>> BY <1>1, <2>2
    <3> QED BY <1>1, <1>3, <3>1 DEF Domain
  <2> QED BY <2>1, <2>2
<1>5. \E h \in Health : report = <<h>>
  <2>1. r.domain \in reported BY <1>3 DEF OrderInv
  <2>2. report \in Reports(r.domain) BY <1>2 DEF ProcessEvent
  <2> QED BY <2>1, <2>2 DEF Reports
<1>6. signals' = <<>> \/ (signals' = SignalsOf(r, report)
                          /\ (r.domain = "market" \/ Paired(r, join')))
  BY <1>2 DEF ProcessEvent
<1>7. r.domain = "market" \/ Paired(r, join') => r \in Contributors
  BY <1>1, <1>4, PairContributes
<1> QED BY <1>1, <1>4, <1>5, <1>6, <1>7

\* A batch is worked off in the order of event times: every step keeps it.
LEMMA OrderStep ==
  ASSUME KeysIdentifyEvents, ConsumerTypeOK, PhaseInv, RestoreInv, OrderInv, OriginInv, Next
  PROVE  OrderInv'
<1> DEFINE O1 == Domain \subseteq reported
           O2 == pc = "fetch" => checkpoint = engine.log
           O3 == \A j, k \in DOMAIN batch :
                   j < k => RecordAt(batch[j]).time <= RecordAt(batch[k]).time
           O4 == \A j \in DOMAIN signals : LeftFrom(signals[j].time)
<1>a. O1 /\ O2 /\ O3 /\ O4 BY DEF OrderInv
<1> SUFFICES O1' /\ O2' /\ O3' /\ O4' BY DEF OrderInv
<1>b. batch \in Seq(Entry) /\ signals \in Seq(Signal) BY DEF ConsumerTypeOK
<1>c. \A a \in Entry : RecordAt(a).time \in Nat
  <2> SUFFICES ASSUME NEW a \in Entry PROVE RecordAt(a).time \in Nat OBVIOUS
  <2>1. RecordAt(a) \in AllRecords BY RecordTypes
  <2>2. RecordAt(a).time \in Time BY <2>1, RecordsAssumption
  <2> QED BY <2>2, ConstantTypes
<1>e. ASSUME batch' = batch, signals' = signals, reported' = reported
      PROVE  O1' /\ O3' /\ O4'
  BY <1>a, <1>e DEF LeftFrom
<1>1. ASSUME NEW upto \in Offsets, Fetch(upto)
      PROVE  O1' /\ O2' /\ O3' /\ O4'
  <2>1. pc' # "fetch" /\ reported' = reported /\ signals' = <<>>
    BY <1>1 DEF Fetch, stores, PhaseInv
  <2>2. PICK chosen : batch' \in Sorted(chosen) BY <1>1 DEF Fetch
  <2>3. batch' \in Seq(Entry) BY <1>1, FetchedBatch
  <2>4. \A j, k \in DOMAIN batch' : j < k => Before(batch'[j], batch'[k]) BY <2>2 DEF Sorted
  <2>5. O3'
    <3> SUFFICES ASSUME NEW j \in DOMAIN batch', NEW k \in DOMAIN batch', j < k
                 PROVE  RecordAt(batch'[j]).time <= RecordAt(batch'[k]).time
      OBVIOUS
    <3>1. RecordAt(batch'[j]).time < RecordAt(batch'[k]).time
          \/ RecordAt(batch'[j]).time = RecordAt(batch'[k]).time
      BY <2>4 DEF Before, RecordAt
    <3>2. RecordAt(batch'[j]).time \in Nat /\ RecordAt(batch'[k]).time \in Nat BY <1>c, <2>3
    <3> QED BY <3>1, <3>2
  <2> QED BY <1>a, <2>1, <2>5
<1>2. ASSUME NEW report \in {<<>>} \cup {<<h>> : h \in Health}, ProcessEvent(report)
      PROVE  O1' /\ O2' /\ O3' /\ O4'
  <2>0. PICK r : r = RecordAt(batch[1]) OBVIOUS
  <2>1. /\ batch # <<>> /\ batch' = Tail(batch) /\ r \in AllRecords
        /\ signals' = <<>> \/ (r \in Contributors /\ \E h \in Health : signals' = SignalsOf(r, <<h>>))
    BY <1>2, <2>0, EventMakes
  <2>2. O1' BY <1>a, <1>2 DEF ProcessEvent
  <2>3. O2' BY <1>a, <1>2 DEF ProcessEvent
  <2>4. /\ 1 \in DOMAIN batch
        /\ \A k \in DOMAIN batch' : k + 1 \in DOMAIN batch /\ batch'[k] = batch[k + 1] /\ k \in Nat
               /\ 1 < k + 1
    BY <1>b, <2>1, HeadAndTail
  <2>5. O3'
    <3> SUFFICES ASSUME NEW j \in DOMAIN batch', NEW k \in DOMAIN batch', j < k
                 PROVE  RecordAt(batch'[j]).time <= RecordAt(batch'[k]).time
      OBVIOUS
    <3>1. j + 1 < k + 1 BY <2>4
    <3>2. RecordAt(batch[j + 1]).time <= RecordAt(batch[k + 1]).time BY <1>a, <2>4, <3>1
    <3> QED BY <2>4, <3>2
  <2>6. \A k \in DOMAIN batch' : RecordAt(batch'[k]).time >= r.time
    <3> SUFFICES ASSUME NEW k \in DOMAIN batch' PROVE RecordAt(batch'[k]).time >= r.time OBVIOUS
    <3>1. r.time <= RecordAt(batch[k + 1]).time BY <1>a, <2>0, <2>4
    <3>2. r.time \in Nat /\ RecordAt(batch[k + 1]).time \in Nat BY <1>b, <1>c, <2>0, <2>4
    <3> QED BY <2>4, <3>1, <3>2
  <2>7. \A k \in DOMAIN signals' : signals'[k].time = r.time
    <3>1. CASE signals' = <<>> BY <3>1
    <3>2. ASSUME NEW h \in Health, signals' = SignalsOf(r, <<h>>)
          PROVE  \A k \in DOMAIN signals' : signals'[k].time = r.time
      <4>1. PICK made : made = SignalsOf(r, <<h>>) OBVIOUS
      <4>2. \A k \in DOMAIN made : made[k] \in SignalSet(r) BY <2>1, <4>1, ReportedSignals
      <4>3. \A k \in DOMAIN made : made[k].time = r.time BY <4>2, SignalSetFacts
      <4> QED BY <3>2, <4>1, <4>3
    <3> QED BY <2>1, <3>1, <3>2
  <2>8. r.time \in Nat BY <1>b, <1>c, <2>0, <2>4
  <2>9. O4'
    <3>1. r.time >= r.time BY <2>8
    <3> QED BY <2>6, <2>7, <3>1 DEF LeftFrom
  <2> QED BY <2>2, <2>3, <2>5, <2>9
<1>3. CASE ProcessSignal
  <2>1. /\ signals # <<>> /\ signals' = Tail(signals) /\ batch' = batch /\ reported' = reported
        /\ pc' # "fetch"
    BY <1>3 DEF ProcessSignal, stores
  <2>2. \A k \in DOMAIN signals' : k + 1 \in DOMAIN signals /\ signals'[k] = signals[k + 1]
    BY <1>b, <2>1, HeadAndTail
  <2>3. O4'
    <3> SUFFICES ASSUME NEW j \in DOMAIN signals'
                 PROVE  /\ \A k \in DOMAIN signals' : signals'[k].time >= signals'[j].time
                        /\ \A k \in DOMAIN batch' : RecordAt(batch'[k]).time >= signals'[j].time
      BY DEF LeftFrom
    <3>1. LeftFrom(signals[j + 1].time) BY <1>a, <2>2
    <3> QED BY <2>1, <2>2, <3>1 DEF LeftFrom
  <2> QED BY <1>a, <2>1, <2>3
<1>4. CASE Persist BY <1>4, <1>e DEF Persist
<1>5. CASE Cache BY <1>5, <1>e DEF Cache
<1>6. CASE Publish BY <1>6, <1>e DEF Publish
<1>7. CASE BatchDone BY <1>7, <1>e DEF BatchDone, stores
<1>8. CASE SaveCheckpoint BY <1>8, <1>e DEF SaveCheckpoint, stores
<1>9. CASE CommitOffset
  <2>1. checkpoint = engine.log /\ checkpoint' = checkpoint /\ engine' = engine
    BY <1>9 DEF CommitOffset, RestoreInv
  <2> QED BY <1>9, <1>e, <2>1 DEF CommitOffset, stores
<1>10. CASE Crash
  <2>1. batch' = <<>> /\ signals' = <<>> /\ reported' = reported /\ engine'.log = checkpoint'
    BY <1>10 DEF Crash, stores, durable, RestoreInv
  <2> QED BY <1>a, <2>1
<1>11. CASE Done BY <1>11, <1>a, <1>e DEF Done, vars, consumer, stores, durable
<1> HIDE DEF O1, O2, O3, O4
<1> QED
  BY <1>1, <1>2, <1>3, <1>4, <1>5, <1>6, <1>7, <1>8, <1>9, <1>10, <1>11 DEF Next, Step
-----------------------------------------------------------------------------
\* Records enter the log and the checkpoint whole: every step keeps it.
LEMMA OriginStep ==
  ASSUME KeysIdentifyEvents, ConsumerTypeOK, PhaseInv, RestoreInv, OrderInv, OriginInv, Next
  PROVE  OriginInv'
<1> DEFINE O1 == \A j \in join : \E r \in AllRecords : r.domain = "social" /\ j = <<r.key, r.half>>
           O2 == FromRecord(Logged(engine.log))
           O3 == FromRecord({signals[k] : k \in DOMAIN signals})
           O4 == Atomic(IdsOf(Logged(checkpoint)))
           O5 == Atomic(IdsOf(Logged(engine.log)) \cup InHandIds)
           O6 == Logged(checkpoint) \subseteq Logged(engine.log)
<1>a. O1 /\ O2 /\ O3 /\ O4 /\ O5 /\ O6 BY DEF OriginInv
<1> SUFFICES O1' /\ O2' /\ O3' /\ O4' /\ O5' /\ O6' BY DEF OriginInv
<1>b. batch \in Seq(Entry) /\ signals \in Seq(Signal) /\ engine.log \in Seq(Signal)
  BY DEF ConsumerTypeOK, WorkerTypeOK, Engine
<1>e. ASSUME signals' = signals, engine' = engine, checkpoint' = checkpoint, join' = join
      PROVE  O1' /\ O2' /\ O3' /\ O4' /\ O5' /\ O6'
  BY <1>a, <1>e DEF InHandIds
<1>1. CASE \E upto \in Offsets : Fetch(upto)
  BY <1>1, <1>e DEF Fetch, stores, durable
<1>2. ASSUME NEW report \in {<<>>} \cup {<<h>> : h \in Health}, ProcessEvent(report)
      PROVE  O1' /\ O2' /\ O3' /\ O4' /\ O5' /\ O6'
  <2>0. PICK r : r = RecordAt(batch[1]) OBVIOUS
  <2>1. /\ signals = <<>> /\ r \in AllRecords /\ O1'
        /\ signals' = <<>> \/ (r \in Contributors /\ \E h \in Health : signals' = SignalsOf(r, <<h>>))
    BY <1>2, <2>0, EventMakes
  <2>2. engine' = engine /\ checkpoint' = checkpoint BY <1>2 DEF ProcessEvent, durable
  <2>3. InHandIds = {} BY <2>1 DEF InHandIds
  <2>4. O3' /\ O5'
    <3>1. CASE signals' = <<>>
      <4>1. InHandIds' = {} BY <3>1 DEF InHandIds
      <4>2. O3' BY <3>1 DEF FromRecord
      <4> QED BY <1>a, <2>2, <2>3, <4>1, <4>2
    <3>2. ASSUME r \in Contributors, NEW h \in Health, signals' = SignalsOf(r, <<h>>)
          PROVE  O3' /\ O5'
      <4>1. PICK made : made = SignalsOf(r, <<h>>) OBVIOUS
      <4>2. /\ \A k \in DOMAIN made : made[k] \in SignalSet(r)
            /\ {made[k].id : k \in DOMAIN made} = RecordIds(r)
        BY <2>1, <4>1, ReportedSignals
      <4>3. O3' BY <3>2, <4>1, <4>2 DEF FromRecord
      <4>4. InHandIds' = RecordIds(r) BY <3>2, <4>1, <4>2 DEF InHandIds
      <4>5. PICK ids : ids = IdsOf(Logged(engine.log)) OBVIOUS
      <4>6. Atomic(ids) BY <1>a, <2>3, <4>5
      <4>7. Atomic(ids \cup RecordIds(r)) BY <2>1, <4>6, AtomicWithRecord
      <4> QED BY <2>2, <4>3, <4>4, <4>5, <4>7
    <3> QED BY <2>1, <3>1, <3>2
  <2> QED BY <1>a, <2>1, <2>2, <2>4
<1>3. CASE ProcessSignal
  <2>0. signals # <<>> /\ signals' = Tail(signals) /\ checkpoint' = checkpoint /\ join' = join
    BY <1>3 DEF ProcessSignal, stores, durable
  <2>1. PICK s : s = Head(signals) OBVIOUS
  <2>2. /\ s \in Signal /\ s = signals[1] /\ 1 \in DOMAIN signals
        /\ \A k \in DOMAIN signals' : k + 1 \in DOMAIN signals /\ signals'[k] = signals[k + 1]
        /\ \A k \in DOMAIN signals : k = 1 \/ (k - 1 \in DOMAIN signals' /\ signals'[k - 1] = signals[k])
    BY <1>b, <2>0, <2>1, HeadAndTail
  <2>3. /\ engine'.log = engine.log \/ engine'.log = Append(engine.log, s)
        /\ \E x \in Logged(engine'.log) : x.id = s.id
    BY <1>3, <2>1, SignalEffect
  <2>4. /\ Logged(engine.log) \subseteq Logged(engine'.log)
        /\ Logged(engine'.log) \subseteq Logged(engine.log) \cup {s}
    <3>1. PICK log : log = engine.log OBVIOUS
    <3>2. Logged(Append(log, s)) = Logged(log) \cup {s} BY <1>b, <2>2, <3>1, LoggedAppend
    <3> QED BY <2>3, <3>1, <3>2
  <2>5. O2'
    <3>1. \E r \in Contributors : s \in SignalSet(r) BY <1>a, <2>2 DEF FromRecord
    <3> QED BY <1>a, <2>4, <3>1 DEF FromRecord
  <2>6. O3' BY <1>a, <2>2 DEF FromRecord
  <2>7. IdsOf(Logged(engine'.log)) \cup InHandIds' = IdsOf(Logged(engine.log)) \cup InHandIds
    <3>1. ASSUME NEW i \in IdsOf(Logged(engine'.log)) \cup InHandIds'
          PROVE  i \in IdsOf(Logged(engine.log)) \cup InHandIds
      <4>1. CASE i \in InHandIds' BY <2>2, <4>1 DEF InHandIds
      <4>2. CASE i \in IdsOf(Logged(engine'.log))
        <5>1. PICK x \in Logged(engine.log) \cup {s} : x.id = i BY <2>4, <4>2 DEF IdsOf
        <5>2. s.id \in InHandIds BY <2>2 DEF InHandIds
        <5>3. x \in Logged(engine.log) => i \in IdsOf(Logged(engine.log)) BY <5>1 DEF IdsOf
        <5> QED BY <5>1, <5>2, <5>3
      <4> QED BY <3>1, <4>1, <4>2
    <3>2. ASSUME NEW i \in IdsOf(Logged(engine.log)) \cup InHandIds
          PROVE  i \in IdsOf(Logged(engine'.log)) \cup InHandIds'
      <4>1. CASE i \in IdsOf(Logged(engine.log)) BY <2>4, <4>1 DEF IdsOf
      <4>2. CASE i \in InHandIds
        <5>1. PICK k \in DOMAIN signals : signals[k].id = i BY <4>2 DEF InHandIds
        <5>2. CASE k = 1 BY <2>2, <2>3, <5>1, <5>2 DEF IdsOf
        <5>3. CASE k # 1 BY <2>2, <5>1, <5>3 DEF InHandIds
        <5> QED BY <5>2, <5>3
      <4> QED BY <3>2, <4>1, <4>2
    <3> QED BY <3>1, <3>2
  <2>8. O5' BY <1>a, <2>7
  <2> QED BY <1>a, <2>0, <2>4, <2>5, <2>6, <2>8
<1>4. CASE Persist BY <1>4, <1>e DEF Persist, durable
<1>5. CASE Cache BY <1>5, <1>e DEF Cache, durable
<1>6. CASE Publish BY <1>6, <1>e DEF Publish, durable
<1>7. CASE BatchDone BY <1>7, <1>e DEF BatchDone, stores, durable
<1>8. CASE SaveCheckpoint
  <2>1. /\ checkpoint' = engine.log /\ engine' = engine /\ signals' = signals /\ join' = join
        /\ signals = <<>>
    BY <1>8 DEF SaveCheckpoint, stores, PhaseInv
  <2>2. InHandIds = {} /\ InHandIds' = {} BY <2>1 DEF InHandIds
  <2>3. O4' BY <1>a, <2>1, <2>2
  <2>4. O5' BY <1>a, <2>1, <2>2
  <2> QED BY <1>a, <2>1, <2>3, <2>4
<1>9. CASE CommitOffset BY <1>9, <1>e DEF CommitOffset, stores
<1>10. CASE Crash
  <2>1. /\ signals' = <<>> /\ engine'.log = checkpoint /\ checkpoint' = checkpoint /\ join' = join
    BY <1>10 DEF Crash, stores, durable, RestoreInv
  <2>2. InHandIds' = {} BY <2>1 DEF InHandIds
  <2>3. O2' BY <1>a, <2>1 DEF FromRecord
  <2>4. O3' BY <2>1 DEF FromRecord
  <2>5. O5' BY <1>a, <2>1, <2>2
  <2> QED BY <1>a, <2>1, <2>3, <2>4, <2>5
<1>11. CASE Done BY <1>11, <1>e DEF Done, vars, consumer, stores, durable
<1> HIDE DEF O1, O2, O3, O4, O5, O6
<1> QED
  BY <1>1, <1>2, <1>3, <1>4, <1>5, <1>6, <1>7, <1>8, <1>9, <1>10, <1>11 DEF Next, Step
-----------------------------------------------------------------------------
\* Right after a checkpoint nothing has been counted.
LEMMA CountedSame ==
  ASSUME NEW e, EInv(e), NEW w \in Window
  PROVE  Counted(e, e, w, 0)
<1>1. e.log \in Seq(Signal) /\ e.revisions[w] \in Seq(Snapshot) BY DEF EInv, Engine
<1>2. Since(e, e, w) = {} BY DEF Since
<1>3. Cardinality(Since(e, e, w)) = 0 BY <1>2, FS_EmptySet
<1>4. Len(e.revisions[w]) \in Nat BY <1>1
<1>5. Cardinality(OwnIds(e.log, w)) \in Nat
  <2>1. PICK log : log = e.log OBVIOUS
  <2> QED BY <1>1, <2>1, WindowIdsAreFinite
<1> QED BY <1>3, <1>4, <1>5 DEF Counted

\* The count of revisions since the checkpoint: every step keeps it.
LEMMA CountStep ==
  ASSUME KeysIdentifyEvents, ConsumerTypeOK, PhaseInv, RestoreInv, RestoreInv', OrderInv,
         OriginInv, OriginInv', CountInv, Next
  PROVE  CountInv'
<1> DEFINE C1(w) == \E d \in {0, 1} :
                      /\ Counted(engine, Base, w, d)
                      /\ d = 1 => IsFinal(engine.revisions[w]) /\ LeftFrom(WindowEnd(w))
           C2(w) == \A e \in {engine, Base} : e.revisions[w] # <<>> => Own(e.log, w) # {}
           C3(w) == Base.revisions[w] = <<>> /\ engine.revisions[w] # <<>> => LeftFrom(w.start)
           C4(w) == Base.revisions[w] # <<>> => engine.revisions[w] # <<>>
           C(w) == C1(w) /\ C2(w) /\ C3(w) /\ C4(w)
<1>a. \A w \in Window : C(w) BY DEF CountInv
<1> SUFFICES ASSUME NEW w \in Window PROVE C(w)' BY DEF CountInv
<1>b. batch \in Seq(Entry) /\ signals \in Seq(Signal) /\ engine.log \in Seq(Signal)
      /\ engine \in Engine
  BY DEF ConsumerTypeOK, WorkerTypeOK, Engine
<1>t. C1(w) /\ C2(w) /\ C3(w) /\ C4(w) BY <1>a
<1>e. ASSUME engine' = engine, checkpoint' = checkpoint, signals' = signals, batch' = batch
      PROVE  C(w)'
  <2>1. Base' = Base BY <1>e DEF Base
  <2> QED BY <1>t, <1>e, <2>1 DEF LeftFrom
<1>h. ASSUME engine' = Base', engine' = engine \/ engine' = Base PROVE C(w)'
  <2>1. EInv(engine') BY DEF RestoreInv
  <2>2. Counted(engine', Base', w, 0)
    <3>1. PICK e : e = engine' OBVIOUS
    <3>2. Counted(e, e, w, 0) BY <2>1, <3>1, CountedSame
    <3> QED BY <1>h, <3>1, <3>2
  <2>3. C1(w)' BY <2>2
  <2>4. C2(w)' BY <1>t, <1>h
  <2> QED BY <1>h, <2>3, <2>4
<1>1. CASE \E upto \in Offsets : Fetch(upto)
  <2>1. engine' = engine /\ checkpoint' = checkpoint /\ checkpoint = engine.log
    BY <1>1 DEF Fetch, durable, OrderInv
  <2>2. engine' = Base' BY <2>1 DEF Base, RestoreInv
  <2> QED BY <1>h, <2>1, <2>2
<1>2. ASSUME NEW report \in {<<>>} \cup {<<h>> : h \in Health}, ProcessEvent(report)
      PROVE  C(w)'
  <2>0. PICK r : r = RecordAt(batch[1]) OBVIOUS
  <2>1. /\ batch # <<>> /\ signals = <<>> /\ batch' = Tail(batch) /\ r \in AllRecords
        /\ signals' = <<>> \/ (r \in Contributors /\ \E h \in Health : signals' = SignalsOf(r, <<h>>))
    BY <1>2, <2>0, EventMakes
  <2>2. engine' = engine /\ checkpoint' = checkpoint BY <1>2 DEF ProcessEvent, durable
  <2>3. /\ 1 \in DOMAIN batch
        /\ \A k \in DOMAIN batch' : k + 1 \in DOMAIN batch /\ batch'[k] = batch[k + 1]
    BY <1>b, <2>1, HeadAndTail
  <2>4. \A k \in DOMAIN signals' : signals'[k].time = r.time
    <3>1. CASE signals' = <<>> BY <3>1
    <3>2. ASSUME NEW h \in Health, signals' = SignalsOf(r, <<h>>)
          PROVE  \A k \in DOMAIN signals' : signals'[k].time = r.time
      <4>1. PICK made : made = SignalsOf(r, <<h>>) OBVIOUS
      <4>2. \A k \in DOMAIN made : made[k] \in SignalSet(r) BY <2>1, <4>1, ReportedSignals
      <4>3. \A k \in DOMAIN made : made[k].time = r.time BY <4>2, SignalSetFacts
      <4> QED BY <3>2, <4>1, <4>3
    <3> QED BY <2>1, <3>1, <3>2
  <2>5. ASSUME NEW t, LeftFrom(t) PROVE LeftFrom(t)' 
    BY <2>0, <2>3, <2>4, <2>5 DEF LeftFrom
  <2>6. Base' = Base BY <2>2 DEF Base
  <2> QED BY <1>t, <2>2, <2>5, <2>6
<1>3. CASE ProcessSignal
  <2>0. signals # <<>> /\ signals' = Tail(signals) /\ checkpoint' = checkpoint /\ batch' = batch
    BY <1>3 DEF ProcessSignal, durable
  <2>1. PICK s : s = Head(signals) OBVIOUS
  <2>2. /\ s \in Signal /\ s = signals[1] /\ 1 \in DOMAIN signals
        /\ \A k \in DOMAIN signals' : k + 1 \in DOMAIN signals /\ signals'[k] = signals[k + 1]
    BY <1>b, <2>0, <2>1, HeadAndTail
  <2>3. Base' = Base BY <2>0 DEF Base
  <2>4. ASSUME NEW t \in Nat, LeftFrom(t) PROVE LeftFrom(t)' /\ t <= s.time
    <3>1. s.time \in Nat BY <2>2, ConstantTypes
    <3> QED BY <2>0, <2>2, <2>4, <3>1 DEF LeftFrom
  <2>5. ASSUME NEW t \in Nat, t <= s.time PROVE LeftFrom(t)'
    <3>1. LeftFrom(s.time) BY <2>2 DEF OrderInv
    <3>2. s.time \in Nat /\ \A k \in DOMAIN signals : signals[k].time \in Nat
      <4>1. \A k \in DOMAIN signals : signals[k] \in Signal BY <1>b
      <4>2. \A x \in Signal : x.time \in Nat BY ConstantTypes
      <4> QED BY <2>2, <4>1, <4>2
    <3>3. \A k \in DOMAIN batch : RecordAt(batch[k]).time \in Nat
      <4> SUFFICES ASSUME NEW k \in DOMAIN batch PROVE RecordAt(batch[k]).time \in Nat OBVIOUS
      <4>1. RecordAt(batch[k]) \in AllRecords BY <1>b, RecordTypes
      <4>2. RecordAt(batch[k]).time \in Time BY <4>1, RecordsAssumption
      <4> QED BY <4>2, ConstantTypes
    <3> QED BY <2>0, <2>2, <2>5, <3>1, <3>2, <3>3 DEF LeftFrom
  <2>6. w.start \in Nat /\ WindowEnd(w) \in Nat
    <3>1. w.start \in Nat /\ w.interval \in Nat BY ConstantTypes DEF Window
    <3> QED BY <3>1 DEF WindowEnd
  <2>7. CASE Seen(engine.log, s)
    <3>1. engine' = engine BY <1>3, <2>1, <2>7 DEF ProcessSignal, IngestNew
    <3> QED BY <1>t, <2>3, <2>4, <2>6, <3>1
  <2>8. CASE ~Seen(engine.log, s)
    <3>1. engine' = Ingest(engine, s) BY <1>3, <2>1, <2>8 DEF ProcessSignal, IngestNew
    <3>2. PICK e, base, next : e = engine /\ base = Base /\ next = engine' OBVIOUS
    <3>3. /\ EInv(e) /\ base \in Engine /\ Logged(base.log) \subseteq Logged(e.log)
      BY <3>2 DEF RestoreInv, Base, EInv, OriginInv
    <3>4. CountedUpTo(e, base, w, s.time)
      <4>1. \E d \in {0, 1} :
              /\ Counted(e, base, w, d)
              /\ d = 1 => IsFinal(e.revisions[w]) /\ WindowEnd(w) <= s.time
        BY <1>t, <2>4, <2>6, <3>2
      <4>2. /\ e.revisions[w] # <<>> => Own(e.log, w) # {}
            /\ base.revisions[w] = <<>> /\ e.revisions[w] # <<>> => w.start <= s.time
            /\ base.revisions[w] # <<>> => e.revisions[w] # <<>>
        BY <1>t, <2>4, <2>6, <3>2
      <4> QED BY <4>1, <4>2 DEF CountedUpTo
    <3>5. s \in Signal BY <2>2
    <3>6. ~Seen(e.log, s) /\ next = Ingest(e, s) BY <2>8, <3>1, <3>2
    <3>7. /\ \E f \in {0, 1} :
               /\ Counted(next, base, w, f)
               /\ f = 1 => IsFinal(next.revisions[w]) /\ WindowEnd(w) <= s.time
          /\ next.revisions[w] # <<>> => Own(next.log, w) # {}
          /\ base.revisions[w] = <<>> /\ next.revisions[w] # <<>> => w.start <= s.time
          /\ base.revisions[w] # <<>> => next.revisions[w] # <<>>
      <4>1. CountedUpTo(next, base, w, s.time) BY <3>3, <3>4, <3>5, <3>6, CountedStep
      <4> QED BY <4>1 DEF CountedUpTo
    <3>8. C1(w)'
      <4>1. PICK f \in {0, 1} :
              /\ Counted(next, base, w, f)
              /\ f = 1 => IsFinal(next.revisions[w]) /\ WindowEnd(w) <= s.time
        BY <3>7
      <4>0. engine' = next /\ Base' = base BY <2>3, <3>2
      <4>2. Counted(engine', Base', w, f) BY <4>0, <4>1, Zenon
      <4>3. f = 1 => IsFinal(engine'.revisions[w]) /\ LeftFrom(WindowEnd(w))'
        BY <2>5, <2>6, <3>2, <4>1
      <4> QED BY <4>2, <4>3
    <3>9. C2(w)' BY <1>t, <2>3, <3>2, <3>7
    <3>10. C3(w)' BY <2>3, <2>5, <2>6, <3>2, <3>7
    <3>11. C4(w)' BY <2>3, <3>2, <3>7
    <3> QED BY <3>8, <3>9, <3>10, <3>11
  <2> QED BY <2>7, <2>8
<1>4. CASE Persist BY <1>4, <1>e DEF Persist, durable
<1>5. CASE Cache BY <1>5, <1>e DEF Cache, durable
<1>6. CASE Publish BY <1>6, <1>e DEF Publish, durable
<1>7. CASE BatchDone BY <1>7, <1>e DEF BatchDone, stores, durable
<1>8. CASE SaveCheckpoint
  <2>1. checkpoint' = engine.log /\ engine' = engine BY <1>8 DEF SaveCheckpoint
  <2>2. engine' = Base' BY <2>1 DEF Base, RestoreInv
  <2> QED BY <1>h, <2>1, <2>2
<1>9. CASE CommitOffset BY <1>9, <1>e DEF CommitOffset, stores
<1>10. CASE Crash
  <2>1. engine' = Base /\ checkpoint' = checkpoint BY <1>10 DEF Crash, durable, Base
  <2>2. engine' = Base' BY <2>1 DEF Base
  <2> QED BY <1>h, <2>1, <2>2
<1>11. CASE Done BY <1>11, <1>e DEF Done, vars, consumer, stores, durable
<1> HIDE DEF C
<1> QED
  BY <1>1, <1>2, <1>3, <1>4, <1>5, <1>6, <1>7, <1>8, <1>9, <1>10, <1>11 DEF Next, Step
-----------------------------------------------------------------------------
\* What a row was counted against may be replaced by a later engine.
LEMMA RowAfterCheckpoint ==
  ASSUME NEW base, EInv(base), NEW e, EInv(e), NEW w \in Window, NEW d \in {0, 1},
         Counted(e, base, w, d), base.revisions[w] # <<>> => e.revisions[w] # <<>>,
         NEW row, row.revision \in Nat, RowCounted(base, w, row)
  PROVE  RowCounted(e, w, row)
<1>1. PICK own, early, EB, EE, SinceBase, SinceE, S :
        /\ own = IdsOf(row.features.own) /\ early = IdsOf(row.features.earlier)
        /\ EB = EarlierIds(base.log, w) /\ EE = EarlierIds(e.log, w)
        /\ SinceBase = (IF base.revisions[w] = <<>> THEN {} ELSE early \ EB)
        /\ SinceE = (IF e.revisions[w] = <<>> THEN {} ELSE early \ EE)
        /\ S = Since(e, base, w)
  OBVIOUS
<1>2. PICK n, a, lb, le, ob, oe :
        /\ n = row.revision /\ a = (IF Atomic(own) THEN 1 ELSE 0)
        /\ lb = Len(base.revisions[w]) /\ le = Len(e.revisions[w])
        /\ ob = Cardinality(OwnIds(base.log, w)) /\ oe = Cardinality(OwnIds(e.log, w))
  OBVIOUS
<1>3. /\ FromRecord(row.features.own) /\ FromRecord(row.features.earlier)
      /\ IsFiniteSet(row.features.own) /\ IsFiniteSet(row.features.earlier)
      /\ row.features.own \subseteq {s \in Signal : WindowOf(s, w.interval) = w}
      /\ row.features.earlier \subseteq {s \in Signal : s.time < w.start}
      /\ n + ob <= lb + Cardinality(own) + Cardinality(SinceBase) + a
  BY <1>1, <1>2 DEF RowCounted
<1>4. le + ob = lb + oe + Cardinality(S) + d BY <1>1, <1>2 DEF Counted
<1>5. /\ IsFiniteSet(early) /\ Cardinality(own) \in Nat
  <2>1. PICK x, y : x = row.features.own /\ y = row.features.earlier OBVIOUS
  <2>2. IsFiniteSet(x) /\ IsFiniteSet(y) BY <1>3, <2>1
  <2> QED BY <1>1, <2>1, <2>2, IdsAreFinite
<1>6. lb \in Nat /\ le \in Nat /\ ob \in Nat /\ oe \in Nat /\ IsFiniteSet(EE) /\ n \in Nat
  <2>1. base.log \in Seq(Signal) /\ e.log \in Seq(Signal)
        /\ base.revisions[w] \in Seq(Snapshot) /\ e.revisions[w] \in Seq(Snapshot)
    BY DEF EInv, Engine
  <2>2. PICK x, y : x = base.log /\ y = e.log OBVIOUS
  <2>3. x \in Seq(Signal) /\ y \in Seq(Signal) BY <2>1, <2>2
  <2>4. ob \in Nat /\ oe \in Nat /\ IsFiniteSet(EE)
    BY <1>1, <1>2, <2>2, <2>3, WindowIdsAreFinite
  <2> QED BY <1>2, <2>1, <2>4
<1>7. /\ Cardinality(SinceBase) \in Nat /\ Cardinality(SinceE) \in Nat /\ Cardinality(S) \in Nat
      /\ Cardinality(SinceBase) <= Cardinality(S) + Cardinality(SinceE)
  <2>1. CASE base.revisions[w] = <<>>
    <3>1. SinceBase = {} /\ S = {} BY <1>1, <2>1 DEF Since
    <3>2. SinceE \in SUBSET early BY <1>1
    <3>3. IsFiniteSet(SinceE) BY <1>5, <3>2, FS_Subset
    <3>4. Cardinality(SinceE) \in Nat BY <3>3, FS_CardinalityType
    <3>5. Cardinality(SinceBase) = 0 /\ Cardinality(S) = 0 BY <3>1, FS_EmptySet
    <3> QED BY <3>4, <3>5
  <2>2. CASE base.revisions[w] # <<>>
    <3>1. SinceBase = early \ EB /\ SinceE = early \ EE /\ S = EE \ EB
      BY <1>1, <2>2 DEF Since
    <3>2. S \in SUBSET EE /\ SinceE \in SUBSET early /\ SinceBase \in SUBSET (S \cup SinceE)
      BY <3>1
    <3>3. IsFiniteSet(S) /\ IsFiniteSet(SinceE) BY <1>5, <1>6, <3>2, FS_Subset
    <3>4. /\ IsFiniteSet(S \cup SinceE)
          /\ Cardinality(S \cup SinceE) = Cardinality(S) + Cardinality(SinceE) - Cardinality(S \cap SinceE)
      BY <3>3, FS_Union
    <3>5. IsFiniteSet(SinceBase) /\ Cardinality(SinceBase) <= Cardinality(S \cup SinceE)
      BY <3>2, <3>4, FS_Subset
    <3>6. IsFiniteSet(S \cap SinceE)
      <4>1. S \cap SinceE \in SUBSET S OBVIOUS
      <4> QED BY <3>3, <4>1, FS_Subset
    <3>7. PICK cs, ce, cb, ci, cu :
            /\ cs = Cardinality(S) /\ ce = Cardinality(SinceE) /\ cb = Cardinality(SinceBase)
            /\ ci = Cardinality(S \cap SinceE) /\ cu = Cardinality(S \cup SinceE)
      OBVIOUS
    <3>8. cs \in Nat /\ ce \in Nat /\ cb \in Nat /\ ci \in Nat /\ cu \in Nat
      BY <3>3, <3>4, <3>5, <3>6, <3>7, FS_CardinalityType
    <3>9. cu = cs + ce - ci /\ cb <= cu BY <3>4, <3>5, <3>7
    <3>10. cb <= cs + ce BY <3>8, <3>9
    <3> QED BY <3>7, <3>8, <3>10
  <2> QED BY <2>1, <2>2
<1>8. PICK co, cb, ce, cs :
        /\ co = Cardinality(own) /\ cb = Cardinality(SinceBase)
        /\ ce = Cardinality(SinceE) /\ cs = Cardinality(S)
  OBVIOUS
<1>9. n + oe <= le + co + ce + a
  <2>1. /\ n + ob <= lb + co + cb + a /\ le + ob = lb + oe + cs + d /\ cb <= cs + ce
    BY <1>3, <1>4, <1>7, <1>8
  <2>2. co \in Nat /\ cb \in Nat /\ ce \in Nat /\ cs \in Nat /\ a \in Nat
    BY <1>2, <1>5, <1>7, <1>8
  <2> QED BY <1>6, <2>1, <2>2
<1>10. n + oe <= le + Cardinality(own) + Cardinality(SinceE) + a BY <1>8, <1>9
<1> QED BY <1>1, <1>2, <1>3, <1>10 DEF RowCounted
-----------------------------------------------------------------------------
\* The row that is written next is the last revision of the engine.
LEMMA RowWritten ==
  ASSUME KeysIdentifyEvents, ConsumerTypeOK, RestoreInv, OriginInv, CountInv,
         NEW w \in Window, NEW row, engine.revisions[w] # <<>>, row = LastRevision(engine, w),
         row.revision = Len(engine.revisions[w])
  PROVE  RowCounted(Base, w, row)
<1>1. PICK e, base, log : e = engine /\ base = Base /\ log = e.log OBVIOUS
<1>2. /\ EInv(e) /\ log \in Seq(Signal) /\ FromRecord(Logged(log))
  BY <1>1 DEF RestoreInv, EInv, Engine, OriginInv
<1>3. row.features.own = Own(log, w) /\ row.features.earlier = Earlier(log, w)
  <2>1. RevisionsAreCurrent(e) BY <1>2 DEF EInv
  <2> QED BY <1>1, <2>1 DEF RevisionsAreCurrent
<1>4. PICK d \in {0, 1} : /\ Counted(e, base, w, d)
                          /\ d = 1 => LeftFrom(WindowEnd(w))
  BY <1>1 DEF CountInv
<1>5. /\ IsFiniteSet(Own(log, w)) /\ IsFiniteSet(Earlier(log, w))
      /\ Cardinality(OwnIds(log, w)) \in Nat
  BY <1>2, WindowIdsAreFinite
<1>6. Logged(log) \subseteq Signal BY <1>2, LoggedIsSignals
<1>7. d = 1 => Atomic(OwnIds(log, w))
  <2> SUFFICES ASSUME d = 1 PROVE Atomic(OwnIds(log, w)) OBVIOUS
  <2>1. PICK hand : hand = {signals[k] : k \in DOMAIN signals} OBVIOUS
  <2>2. hand \in SUBSET Signal BY <2>1 DEF ConsumerTypeOK
  <2>3. FromRecord(hand) BY <2>1 DEF OriginInv
  <2>4. IdsOf(hand) = InHandIds BY <2>1 DEF IdsOf, InHandIds
  <2>5. Atomic(IdsOf(Logged(log)) \cup IdsOf(hand)) BY <1>1, <2>4 DEF OriginInv
  <2>6. \A x \in hand : WindowEnd(w) <= x.time
    <3> SUFFICES ASSUME NEW k \in DOMAIN signals PROVE WindowEnd(w) <= signals[k].time BY <2>1
    <3>1. signals[k].time >= WindowEnd(w) BY <1>4 DEF LeftFrom
    <3>2. signals[k].time \in Nat
      <4>1. signals[k] \in Signal BY DEF ConsumerTypeOK
      <4> QED BY <4>1, ConstantTypes
    <3>3. WindowEnd(w) \in Nat
      <4>1. w.start \in Nat /\ w.interval \in Nat BY ConstantTypes DEF Window
      <4> QED BY <4>1 DEF WindowEnd
    <3> QED BY <3>1, <3>2, <3>3
  <2> QED BY <1>2, <2>2, <2>3, <2>5, <2>6, OwnIdsAreAtomic
<1>8. PICK own, since, old : own = IdsOf(row.features.own) /\ since = Since(e, base, w)
                             /\ old = Cardinality(OwnIds(base.log, w))
  OBVIOUS
<1>9. own = OwnIds(log, w) BY <1>3, <1>8 DEF OwnIds
<1>10. since = IF base.revisions[w] = <<>> THEN {}
               ELSE IdsOf(row.features.earlier) \ EarlierIds(base.log, w)
  BY <1>1, <1>3, <1>8 DEF Since, EarlierIds
<1>11. row.revision + old = Len(base.revisions[w]) + Cardinality(own) + Cardinality(since) + d
  BY <1>1, <1>4, <1>8, <1>9 DEF Counted
<1>12. PICK a, co, cs, n, lb : a = (IF Atomic(own) THEN 1 ELSE 0) /\ co = Cardinality(own)
                               /\ cs = Cardinality(since) /\ n = row.revision
                               /\ lb = Len(base.revisions[w])
  OBVIOUS
<1>13. n + old <= lb + co + cs + a
  <2>1. n + old = lb + co + cs + d BY <1>11, <1>12
  <2>2. d = 1 => a = 1 BY <1>7, <1>9, <1>12
  <2>3. a \in {0, 1} BY <1>12
  <2>4. n \in Nat /\ lb \in Nat /\ old \in Nat /\ co \in Nat /\ cs \in Nat
    <3>1. e.revisions[w] \in Seq(Snapshot) BY <1>2 DEF EInv, Engine
    <3>2. n \in Nat BY <1>1, <1>12, <3>1
    <3>3. base \in Engine BY <1>1 DEF RestoreInv, Base, EInv
    <3>4. base.revisions[w] \in Seq(Snapshot) /\ base.log \in Seq(Signal) BY <3>3 DEF Engine
    <3>5. lb \in Nat BY <1>12, <3>4
    <3>6. old \in Nat
      <4>1. PICK y : y = base.log OBVIOUS
      <4>2. Cardinality(OwnIds(y, w)) \in Nat BY <3>4, <4>1, WindowIdsAreFinite
      <4> QED BY <1>8, <4>1, <4>2
    <3>7. co \in Nat BY <1>5, <1>9, <1>12
    <3>8. cs \in Nat
      <4>1. since \in SUBSET EarlierIds(log, w) BY <1>1, <1>8 DEF Since
      <4>2. IsFiniteSet(EarlierIds(log, w)) BY <1>2, WindowIdsAreFinite
      <4>3. IsFiniteSet(since) BY <4>1, <4>2, FS_Subset
      <4> QED BY <1>12, <4>3, FS_CardinalityType
    <3> QED BY <3>2, <3>5, <3>6, <3>7, <3>8
  <2> QED BY <2>1, <2>2, <2>3, <2>4
<1>14. row.revision + Cardinality(OwnIds(base.log, w))
         <= Len(base.revisions[w]) + Cardinality(own) + Cardinality(since)
              + (IF Atomic(own) THEN 1 ELSE 0)
  BY <1>8, <1>12, <1>13
<1>15. /\ FromRecord(Own(log, w)) /\ FromRecord(Earlier(log, w))
       /\ Own(log, w) \subseteq {s \in Signal : WindowOf(s, w.interval) = w}
       /\ Earlier(log, w) \subseteq {s \in Signal : s.time < w.start}
  BY <1>2, <1>6 DEF FromRecord, Own, Earlier
<1>16. RowCounted(base, w, row)
  BY <1>3, <1>5, <1>8, <1>10, <1>14, <1>15 DEF RowCounted
<1> QED BY <1>1, <1>16

\* The count behind the last row of each window: every step keeps it.
LEMMA RowStep ==
  ASSUME KeysIdentifyEvents, ConsumerTypeOK, ConsumerTypeOK', PhaseInv, RestoreInv, RowsInv,
         OriginInv, CountInv, LastRowInv, Next
  PROVE  LastRowInv'
<1> DEFINE P == \A k \in DOMAIN pending : pending[k] = LastRevision(engine, pending[k].window)
           R == \A w \in Window : stored[w] # <<>> => RowCounted(Base, w, stored[w][Len(stored[w])])
<1>a. P /\ R BY DEF LastRowInv
<1> SUFFICES P' /\ R' BY DEF LastRowInv
<1>b. /\ pending \in Seq(Snapshot) /\ stored \in [Window -> Seq(Snapshot)]
      /\ stored' \in [Window -> Seq(Snapshot)]
      /\ signals \in Seq(Signal) /\ engine \in Engine
  BY DEF ConsumerTypeOK, WorkerTypeOK
<1>e. ASSUME checkpoint' = checkpoint, stored' = stored PROVE R'
  <2>1. Base' = Base BY <1>e DEF Base
  <2> QED BY <1>a, <1>e, <2>1
<1>h. ASSUME engine' = engine, pending' = pending PROVE P'
  BY <1>a, <1>h
<1>1. CASE \E upto \in Offsets : Fetch(upto)
  BY <1>1, <1>e, <1>h DEF Fetch, stores, durable
<1>2. CASE \E report \in {<<>>} \cup {<<h>> : h \in Health} : ProcessEvent(report)
  BY <1>2, <1>e, <1>h DEF ProcessEvent, durable
<1>3. CASE ProcessSignal
  <2>0. checkpoint' = checkpoint /\ stored' = stored /\ signals # <<>>
    BY <1>3 DEF ProcessSignal, stores, durable
  <2>1. P'
    <3>1. PICK s : s = Head(signals) OBVIOUS
    <3>2. s \in Signal BY <1>b, <2>0, <3>1, HeadAndTail
    <3>3. \/ pending' = <<>>
          \/ engine' = Ingest(engine, s) /\ pending' \in Returned(engine, s)
      BY <1>3, <3>1, SignalEffect
    <3>4. CASE pending' = <<>> BY <3>4
    <3>5. CASE engine' = Ingest(engine, s) /\ pending' \in Returned(engine, s)
      <4>1. PICK e, next, q : e = engine /\ next = engine' /\ q = pending' OBVIOUS
      <4>2. e \in Engine /\ next = Ingest(e, s) /\ q \in Returned(e, s) BY <1>b, <3>5, <4>1
      <4>3. \A k \in DOMAIN q : q[k] = LastRevision(next, q[k].window)
        BY <3>2, <4>2, ReturnedIsBuilt
      <4> QED BY <4>1, <4>3
    <3> QED BY <3>3, <3>4, <3>5
  <2> QED BY <1>e, <2>0, <2>1
<1>4. CASE Persist
  <2>1. PICK x, v : x = Head(pending) /\ v = x.window OBVIOUS
  <2>2. /\ pc = "persist" /\ engine' = engine /\ pending' = pending /\ checkpoint' = checkpoint
        /\ stored' = stored \/ stored' = [stored EXCEPT ![v] = Append(@, x)]
    BY <1>4, <2>1 DEF Persist, durable
  <2>3. x = pending[1] /\ 1 \in DOMAIN pending /\ x \in Snapshot
    <3>1. pending # <<>> BY <2>2 DEF PhaseInv
    <3> QED BY <1>b, <2>1, <3>1, HeadAndTail
  <2>4. v \in Window /\ x.revision \in Nat BY <2>1, <2>3 DEF Snapshot
  <2>5. x = LastRevision(engine, v) /\ x.revision = Len(engine.revisions[v])
    BY <1>a, <2>1, <2>3 DEF RowsInv
  <2>6. R'
    <3>1. CASE stored' = stored BY <1>e, <2>2, <3>1
    <3>2. CASE stored' = [stored EXCEPT ![v] = Append(@, x)] /\ engine.revisions[v] # <<>>
      <4>1. RowCounted(Base, v, x) BY <2>4, <2>5, <3>2, RowWritten
      <4>2. Base' = Base BY <2>2 DEF Base
      <4>3. stored'[v][Len(stored'[v])] = x
        <5>1. stored[v] \in Seq(Snapshot) BY <1>b, <2>4
        <5>2. stored'[v] = Append(stored[v], x) BY <1>b, <2>4, <3>2
        <5>3. PICK q : q = stored[v] OBVIOUS
        <5>4. Append(q, x)[Len(Append(q, x))] = x BY <2>3, <5>1, <5>3, LastAppended
        <5> QED BY <5>2, <5>3, <5>4
      <4> SUFFICES ASSUME NEW w \in Window, stored'[w] # <<>>
                   PROVE  RowCounted(Base', w, stored'[w][Len(stored'[w])])
        OBVIOUS
      <4>4. CASE w = v BY <4>1, <4>2, <4>3, <4>4
      <4>5. CASE w # v
        <5>1. stored'[w] = stored[w] BY <1>b, <3>2, <4>5
        <5> QED BY <1>a, <4>2, <5>1
      <4> QED BY <4>4, <4>5
    <3>3. CASE engine.revisions[v] = <<>>
      <4>1. x.revision = 0 BY <2>5, <3>3
      <4>2. stored' = stored
        <5>1. stored[v] \in Seq(Snapshot) BY <1>b, <2>4
        <5>2. stored[v] # <<>> => stored[v][Len(stored[v])].revision \in Nat
          <6>1. stored[v] # <<>> => stored[v][Len(stored[v])] \in Snapshot BY <5>1
          <6> QED BY <6>1 DEF Snapshot
        <5> QED BY <1>4, <2>1, <4>1, <5>2 DEF Persist
      <4> QED BY <1>e, <2>2, <4>2
    <3> QED BY <2>2, <3>1, <3>2, <3>3
  <2> QED BY <1>h, <2>2, <2>6
<1>5. CASE Cache BY <1>5, <1>e, <1>h DEF Cache, durable
<1>6. CASE Publish
  <2>1. /\ pc = "publish" /\ pending' = Tail(pending) /\ engine' = engine /\ checkpoint' = checkpoint
        /\ stored' = stored
    BY <1>6 DEF Publish, durable
  <2>2. pending # <<>> BY <2>1 DEF PhaseInv
  <2>3. \A k \in DOMAIN pending' : k + 1 \in DOMAIN pending /\ pending'[k] = pending[k + 1]
    BY <1>b, <2>1, <2>2, HeadAndTail
  <2>4. P' BY <1>a, <2>1, <2>3
  <2> QED BY <1>e, <2>1, <2>4
<1>7. CASE BatchDone BY <1>7, <1>e, <1>h DEF BatchDone, stores, durable
<1>8. CASE SaveCheckpoint
  <2>1. checkpoint' = engine.log /\ engine' = engine /\ stored' = stored /\ pending' = pending
    BY <1>8 DEF SaveCheckpoint, stores
  <2>2. Base' = engine BY <2>1 DEF Base, RestoreInv
  <2>3. R'
    <3> SUFFICES ASSUME NEW w \in Window, stored[w] # <<>>
                 PROVE  RowCounted(engine, w, stored[w][Len(stored[w])])
      BY <2>1, <2>2
    <3>1. PICK e, base, row : e = engine /\ base = Base /\ row = stored[w][Len(stored[w])] OBVIOUS
    <3>2. EInv(e) /\ EInv(base) BY <3>1 DEF RestoreInv, Base
    <3>3. PICK d \in {0, 1} : Counted(e, base, w, d) BY <3>1 DEF CountInv
    <3>4. base.revisions[w] # <<>> => e.revisions[w] # <<>> BY <3>1 DEF CountInv
    <3>5. row.revision \in Nat
      <4>1. stored[w] \in Seq(Snapshot) BY <1>b
      <4>2. row \in Snapshot BY <3>1, <4>1
      <4> QED BY <4>2 DEF Snapshot
    <3>6. RowCounted(base, w, row) BY <1>a, <3>1
    <3>7. RowCounted(e, w, row) BY <3>2, <3>3, <3>4, <3>5, <3>6, RowAfterCheckpoint
    <3> QED BY <3>1, <3>7
  <2> QED BY <1>h, <2>1, <2>3
<1>9. CASE CommitOffset BY <1>9, <1>e, <1>h DEF CommitOffset, stores
<1>10. CASE Crash
  <2>1. pending' = <<>> /\ checkpoint' = checkpoint /\ stored' = stored
    BY <1>10 DEF Crash, stores, durable
  <2>2. P' BY <2>1
  <2> QED BY <1>e, <2>1, <2>2
<1>11. CASE Done BY <1>11, <1>e, <1>h DEF Done, vars, consumer, stores, durable
<1> HIDE DEF P, R
<1> QED
  BY <1>1, <1>2, <1>3, <1>4, <1>5, <1>6, <1>7, <1>8, <1>9, <1>10, <1>11 DEF Next, Step
-----------------------------------------------------------------------------
\* Initially nothing was read, counted or stored.
LEMMA CaughtUpInit ==
  ASSUME EverySourceReports, Init, WInv
  PROVE  CInv
<1>0. /\ pc = "fetch" /\ batch = <<>> /\ signals = <<>> /\ pending = <<>> /\ join = {}
      /\ reported = Domain /\ engine = EmptyEngine /\ checkpoint = <<>>
      /\ stored = [w \in Window |-> <<>>]
  BY DEF Init, EverySourceReports
<1>1. engine.log = <<>> /\ \A w \in Window : engine.revisions[w] = <<>>
  BY <1>0 DEF EmptyEngine
<1>2. Base = engine BY <1>0, RestoredEmpty DEF Base
<1>3. OrderInv BY <1>0, <1>1 DEF OrderInv
<1>4. OriginInv
  <2>1. Logged(<<>>) = {} BY DEF Logged
  <2>2. Logged(engine.log) = {} /\ Logged(checkpoint) = {} BY <1>0, <1>1, <2>1
  <2>3. {signals[k] : k \in DOMAIN signals} = {} /\ InHandIds = {} BY <1>0 DEF InHandIds
  <2>4. IdsOf({}) = {} BY DEF IdsOf
  <2>5. Atomic({}) /\ FromRecord({}) BY DEF Atomic, FromRecord
  <2> QED BY <1>0, <2>2, <2>3, <2>4, <2>5 DEF OriginInv
<1>5. CountInv
  <2> SUFFICES ASSUME NEW w \in Window
               PROVE  /\ \E d \in {0, 1} :
                           /\ Counted(engine, Base, w, d)
                           /\ d = 1 => IsFinal(engine.revisions[w]) /\ LeftFrom(WindowEnd(w))
                      /\ \A e \in {engine, Base} : e.revisions[w] # <<>> => Own(e.log, w) # {}
                      /\ Base.revisions[w] = <<>> /\ engine.revisions[w] # <<>> => LeftFrom(w.start)
                      /\ Base.revisions[w] # <<>> => engine.revisions[w] # <<>>
    BY DEF CountInv
  <2>1. PICK e : e = engine OBVIOUS
  <2>2. EInv(e) BY <2>1 DEF WInv, RestoreInv
  <2>3. Counted(e, e, w, 0) BY <2>2, CountedSame
  <2>4. engine.revisions[w] = <<>> /\ Base.revisions[w] = <<>> BY <1>1, <1>2
  <2>5. Counted(engine, Base, w, 0) BY <1>2, <2>1, <2>3
  <2> QED BY <2>4, <2>5
<1>6. LastRowInv BY <1>0 DEF LastRowInv
<1> QED BY <1>3, <1>4, <1>5, <1>6 DEF CInv

\* What the worker has read and stored adds up at all times.
LEMMA CaughtUpInvariant ==
  ASSUME KeysIdentifyEvents, EverySourceReports
  PROVE  Spec => [](WInv /\ CInv)
<1>1. Init => CInv BY WorkerInit, CaughtUpInit
<1>2. WInv /\ CInv /\ WInv' /\ Next => CInv'
  <2> SUFFICES ASSUME WInv, CInv, WInv', Next PROVE CInv' OBVIOUS
  <2>1. /\ ConsumerTypeOK /\ PhaseInv /\ RestoreInv /\ RowsInv /\ ConsumerTypeOK' /\ RestoreInv'
    BY DEF WInv
  <2>2. OrderInv /\ OriginInv /\ CountInv /\ LastRowInv BY DEF CInv
  <2>3. OrderInv' BY <2>1, <2>2, OrderStep
  <2>4. OriginInv' BY <2>1, <2>2, OriginStep
  <2>5. CountInv' BY <2>1, <2>2, <2>4, CountStep
  <2>6. LastRowInv' BY <2>1, <2>2, RowStep
  <2> QED BY <2>3, <2>4, <2>5, <2>6 DEF CInv
<1>3. CInv /\ UNCHANGED vars => CInv'
  <2> SUFFICES ASSUME CInv, UNCHANGED vars PROVE CInv' OBVIOUS
  <2>1. /\ pc' = pc /\ batch' = batch /\ signals' = signals /\ pending' = pending /\ join' = join
        /\ reported' = reported /\ engine' = engine /\ checkpoint' = checkpoint /\ stored' = stored
    BY DEF vars, consumer, stores, durable
  <2>2. Base' = Base /\ InHandIds' = InHandIds BY <2>1 DEF Base, InHandIds
  <2>3. ASSUME NEW t PROVE LeftFrom(t)' = LeftFrom(t) BY <2>1 DEF LeftFrom
  <2>4. OrderInv' BY <2>1, <2>3 DEF CInv, OrderInv
  <2>5. OriginInv' BY <2>1, <2>2 DEF CInv, OriginInv
  <2>6. CountInv' BY <2>1, <2>2, <2>3 DEF CInv, CountInv
  <2>7. LastRowInv' BY <2>1, <2>2 DEF CInv, LastRowInv
  <2> QED BY <2>4, <2>5, <2>6, <2>7 DEF CInv
<1>4. WInv /\ CInv /\ WInv' /\ [Next]_vars => CInv' BY <1>2, <1>3
<1> QED BY <1>1, <1>4, WInvariant, PTL DEF Spec
-----------------------------------------------------------------------------
\* Once the worker has caught up, the engine is the restored one, and of every
\* record that contributes it has all the ids.
LEMMA AllIsLogged ==
  ASSUME WInv, CInv, Quiescent
  PROVE  /\ Base = engine /\ signals = <<>> /\ batch = <<>>
         /\ \A r \in Contributors : RecordIds(r) \subseteq IdsOf(Logged(engine.log))
<1>1. pc = "fetch" /\ position = [p \in Partition |-> Len(Records[p])] BY DEF Quiescent
<1>2. checkpoint = engine.log BY <1>1 DEF CInv, OrderInv
<1>3. Base = engine BY <1>2 DEF Base, WInv, RestoreInv
<1>4. signals = <<>> /\ batch = <<>> BY <1>1 DEF WInv, PhaseInv
<1>5. AllRecords \subseteq RecordsOf(UpTo(position))
  <2> SUFFICES ASSUME NEW r \in AllRecords PROVE r \in RecordsOf(UpTo(position)) OBVIOUS
  <2>1. PICK p \in Partition : \E k \in DOMAIN Records[p] : r = Records[p][k] BY DEF AllRecords
  <2>2. PICK k \in DOMAIN Records[p] : r = Records[p][k] BY <2>1
  <2>3. Records[p] \in Seq(AllRecords) /\ Len(Records[p]) \in Nat BY RecordTypes
  <2>4. k \in 1 .. Len(Records[p])
    <3>1. PICK q : q = Records[p] OBVIOUS
    <3>2. DOMAIN q = 1 .. Len(q) BY <2>3, <3>1
    <3> QED BY <3>1, <3>2
  <2>5. <<p, k>> \in Entry BY <2>4 DEF Entry
  <2>6. k <= position[p] BY <1>1, <2>3, <2>4
  <2>7. <<p, k>> \in UpTo(position) BY <2>5, <2>6 DEF UpTo
  <2>8. RecordAt(<<p, k>>) = r BY <2>2 DEF RecordAt
  <2> QED BY <2>7, <2>8 DEF RecordsOf
<1>6. ASSUME NEW r \in Contributors PROVE RecordIds(r) \subseteq IdsOf(Logged(engine.log))
  <2>1. r \in Whole(RecordsOf(UpTo(position))) BY <1>5, <1>6, WholeGrows DEF Contributors
  <2>2. Checkpointed(r) BY <1>1, <2>1 DEF WInv, LogInv, Settled
  <2>3. PICK s \in Logged(checkpoint) : s.id = SignalId(r) BY <2>2 DEF Checkpointed, SignalId
  <2>4. r \in AllRecords BY DEF Contributors, Whole
  <2>5. SignalId(r) = IF r.domain = "market" THEN <<r.key, "datum">> ELSE <<r.key, "post">>
    BY <2>4, SignalsOfRecord
  <2>6. SignalId(r) \in RecordIds(r) BY <2>5 DEF RecordIds
  <2>7. SignalId(r) \in IdsOf(Logged(checkpoint)) BY <2>3 DEF IdsOf
  <2>8. Atomic(IdsOf(Logged(checkpoint))) BY DEF CInv, OriginInv
  <2> QED BY <1>2, <2>4, <2>6, <2>7, <2>8 DEF Atomic
<1> QED BY <1>3, <1>4, <1>6

\* An id that a signal of a record bears is logged with the time of the record.
LEMMA LoggedAtItsTime ==
  ASSUME KeysIdentifyEvents, NEW log, FromRecord(Logged(log)),
         \A r \in Contributors : RecordIds(r) \subseteq IdsOf(Logged(log)),
         NEW S, FromRecord(S), NEW x \in S
  PROVE  \E y \in Logged(log) : y.id = x.id /\ y.time = x.time
<1>1. PICK r \in Contributors : x \in SignalSet(r) BY DEF FromRecord
<1>2. x.id \in RecordIds(r) /\ x.time = r.time BY <1>1, SignalSetFacts
<1>3. PICK y \in Logged(log) : y.id = x.id BY <1>2 DEF IdsOf
<1>4. PICK q \in Contributors : y \in SignalSet(q) BY DEF FromRecord
<1>5. y.id \in RecordIds(q) /\ y.time = q.time BY <1>4, SignalSetFacts
<1>6. r \in AllRecords /\ q \in AllRecords BY DEF Contributors, Whole
<1>7. r.time = q.time BY <1>2, <1>3, <1>5, <1>6, IdsNameTheEvent
<1> QED BY <1>2, <1>3, <1>5, <1>7

\* A record has two ids at least.
LEMMA AnotherId ==
  ASSUME NEW r, NEW i \in RecordIds(r)
  PROVE  \E j \in RecordIds(r) : j # i
<1>1. <<r.key, "quality">> \in RecordIds(r) BY DEF RecordIds
<1>2. CASE r.domain = "market"
  <2>1. <<r.key, "datum">> \in RecordIds(r) BY <1>2 DEF RecordIds
  <2> QED BY <1>1, <2>1
<1>3. CASE r.domain # "market"
  <2>1. <<r.key, "post">> \in RecordIds(r) BY <1>3 DEF RecordIds
  <2> QED BY <1>1, <2>1
<1> QED BY <1>2, <1>3

\* Sets of ids with the same records differ in none or in two at least.
LEMMA NoSingleId ==
  ASSUME NEW A, NEW B, A \subseteq B, IsFiniteSet(B), Atomic(A), Atomic(B),
         \A i \in B : \E r \in AllRecords : i \in RecordIds(r),
         Cardinality(B) <= Cardinality(A) + 1
  PROVE  A = B
<1> SUFFICES ASSUME NEW i \in B, i \notin A PROVE FALSE OBVIOUS
<1>1. PICK r \in AllRecords : i \in RecordIds(r) OBVIOUS
<1>2. PICK j \in RecordIds(r) : j # i BY <1>1, AnotherId
<1>3. j \in B /\ j \notin A BY <1>1, <1>2 DEF Atomic
<1>4. IsFiniteSet(A) /\ Cardinality(A) \in Nat
  <2>1. A \in SUBSET B OBVIOUS
  <2>2. IsFiniteSet(A) BY <2>1, FS_Subset
  <2> QED BY <2>2, FS_CardinalityType
<1>5. IsFiniteSet(A \cup {i}) /\ Cardinality(A \cup {i}) = Cardinality(A) + 1
  BY <1>4, FS_AddElement
<1>6. /\ IsFiniteSet((A \cup {i}) \cup {j})
      /\ Cardinality((A \cup {i}) \cup {j}) = Cardinality(A \cup {i}) + 1
  <2>1. j \notin A \cup {i} BY <1>2, <1>3
  <2> QED BY <1>5, <2>1, FS_AddElement
<1>7. (A \cup {i}) \cup {j} \in SUBSET B BY <1>3
<1>8. Cardinality((A \cup {i}) \cup {j}) <= Cardinality(B) BY <1>7, FS_Subset
<1>9. Cardinality(B) \in Nat BY FS_CardinalityType
<1> QED BY <1>4, <1>5, <1>6, <1>8, <1>9

\* With everything read, no last row can lack a signal: to lack a record is to
\* lack two signals of it, and the count leaves room for one.
LEMMA RowsCatchUp ==
  ASSUME KeysIdentifyEvents, WInv, CInv
  PROVE  DurableCatchesUp
<1> SUFFICES ASSUME Quiescent, NEW w \in Window, engine.revisions[w] # <<>>
             PROVE  IdsOf(stored[w][Len(stored[w])].features.own) = IdsOf(Own(engine.log, w))
  BY DEF DurableCatchesUp
<1>1. PICK e, log, row, rows : e = engine /\ log = e.log /\ rows = stored[w]
                               /\ row = rows[Len(rows)]
  OBVIOUS
<1>2. /\ Base = e /\ signals = <<>>
      /\ \A r \in Contributors : RecordIds(r) \subseteq IdsOf(Logged(log))
  BY <1>1, AllIsLogged
<1>3. /\ log \in Seq(Signal) /\ e.revisions[w] \in Seq(Snapshot) /\ rows \in Seq(Snapshot)
      /\ FromRecord(Logged(log))
  BY <1>1 DEF WInv, RestoreInv, EInv, Engine, ConsumerTypeOK, WorkerTypeOK, CInv, OriginInv
<1>4. Len(e.revisions[w]) \in Nat /\ Len(e.revisions[w]) > 0 /\ Len(rows) \in Nat
  BY <1>1, <1>3
<1>5. Len(e.revisions[w]) <= Len(rows)
  BY <1>1, <1>2 DEF WInv, RowsInv, Base
<1>6. rows # <<>> /\ Len(rows) \in 1 .. Len(rows) BY <1>3, <1>4, <1>5
<1>7. row.revision = Len(rows)
  <2>1. \A k \in 1 .. Len(rows) : rows[k].revision = k BY <1>1 DEF WInv, RowsInv, StoredHasNoGaps
  <2> QED BY <1>1, <1>6, <2>1
<1>8. RowCounted(e, w, row) BY <1>1, <1>2, <1>6 DEF CInv, LastRowInv
<1>9. /\ FromRecord(row.features.own) /\ FromRecord(row.features.earlier)
      /\ IsFiniteSet(row.features.own)
      /\ row.features.own \subseteq {s \in Signal : WindowOf(s, w.interval) = w}
      /\ row.features.earlier \subseteq {s \in Signal : s.time < w.start}
  BY <1>8 DEF RowCounted
<1>10. PICK own, new, all :
         /\ own = IdsOf(row.features.own) /\ all = OwnIds(log, w)
         /\ new = (IF e.revisions[w] = <<>> THEN {}
                   ELSE IdsOf(row.features.earlier) \ EarlierIds(log, w))
  OBVIOUS
<1>11. own \subseteq all
  <2> SUFFICES ASSUME NEW x \in row.features.own PROVE x.id \in all BY <1>10 DEF IdsOf
  <2>1. PICK S : S = row.features.own OBVIOUS
  <2>2. PICK y \in Logged(log) : y.id = x.id /\ y.time = x.time
    BY <1>2, <1>3, <1>9, <2>1, LoggedAtItsTime
  <2>3. WindowOf(x, w.interval) = w BY <1>9
  <2>4. WindowOf(y, w.interval) = w BY <2>2, <2>3 DEF WindowOf
  <2>5. y \in Own(log, w) BY <2>4 DEF Own
  <2> QED BY <1>10, <2>2, <2>5 DEF OwnIds, IdsOf
<1>12. new = {}
  <2> SUFFICES ASSUME NEW x \in row.features.earlier PROVE x.id \in EarlierIds(log, w)
    BY <1>10 DEF IdsOf
  <2>1. PICK S : S = row.features.earlier OBVIOUS
  <2>2. PICK y \in Logged(log) : y.id = x.id /\ y.time = x.time
    BY <1>2, <1>3, <1>9, <2>1, LoggedAtItsTime
  <2>3. x.time < w.start BY <1>9
  <2>4. y \in Earlier(log, w) BY <2>2, <2>3 DEF Earlier
  <2> QED BY <2>2, <2>4 DEF EarlierIds, IdsOf
<1>13. IsFiniteSet(all) /\ Cardinality(all) \in Nat /\ Cardinality(own) \in Nat
  <2>1. IsFiniteSet(all) /\ Cardinality(all) \in Nat BY <1>3, <1>10, WindowIdsAreFinite
  <2>2. PICK S : S = row.features.own OBVIOUS
  <2>3. IsFiniteSet(S) BY <1>9, <2>2
  <2>4. Cardinality(own) \in Nat BY <1>10, <2>2, <2>3, IdsAreFinite
  <2> QED BY <2>1, <2>4
<1>14. Cardinality(all) <= Cardinality(own) + (IF Atomic(own) THEN 1 ELSE 0)
  <2>1. row.revision + Cardinality(all)
          <= Len(e.revisions[w]) + Cardinality(own) + Cardinality(new)
               + (IF Atomic(own) THEN 1 ELSE 0)
    BY <1>1, <1>8, <1>10 DEF RowCounted
  <2>2. Cardinality(new) = 0 BY <1>12, FS_EmptySet
  <2>3. PICK n, lo, la, lr, a : n = Len(rows) /\ lo = Cardinality(own) /\ la = Cardinality(all)
                                /\ lr = Len(e.revisions[w]) /\ a = (IF Atomic(own) THEN 1 ELSE 0)
    OBVIOUS
  <2>4. n + la <= lr + lo + 0 + a /\ lr <= n BY <1>5, <1>7, <2>1, <2>2, <2>3
  <2>5. n \in Nat /\ la \in Nat /\ lo \in Nat /\ lr \in Nat /\ a \in Nat
    BY <1>4, <1>13, <2>3
  <2>6. la <= lo + a BY <2>4, <2>5
  <2> QED BY <2>3, <2>6
<1>15. own = all
  <2>1. CASE ~Atomic(own)
    <3>1. Cardinality(all) <= Cardinality(own) BY <1>13, <1>14, <2>1
    <3>2. own \in SUBSET all BY <1>11
    <3>3. Cardinality(own) <= Cardinality(all) /\ (Cardinality(own) = Cardinality(all) => own = all)
      BY <1>13, <3>2, FS_Subset
    <3> QED BY <1>13, <3>1, <3>3
  <2>2. CASE Atomic(own)
    <3>1. Cardinality(all) <= Cardinality(own) + 1 BY <1>14, <2>2
    <3>2. Atomic(all)
      <4>1. PICK hand : hand = {} OBVIOUS
      <4>2. hand \in SUBSET Signal /\ FromRecord(hand) /\ IdsOf(hand) = {}
            /\ \A x \in hand : WindowEnd(w) <= x.time
        BY <4>1 DEF FromRecord, IdsOf
      <4>3. InHandIds = {} BY <1>2 DEF InHandIds
      <4>4. Atomic(IdsOf(Logged(log)) \cup IdsOf(hand))
        BY <1>1, <4>2, <4>3 DEF CInv, OriginInv
      <4>5. Atomic(OwnIds(log, w)) BY <1>3, <4>2, <4>4, OwnIdsAreAtomic
      <4> QED BY <1>10, <4>5
    <3>3. \A i \in all : \E r \in AllRecords : i \in RecordIds(r)
      <4> SUFFICES ASSUME NEW x \in Own(log, w)
                   PROVE  \E r \in AllRecords : x.id \in RecordIds(r)
        BY <1>10 DEF OwnIds, IdsOf
      <4>1. x \in Logged(log) BY DEF Own
      <4>2. PICK r \in Contributors : x \in SignalSet(r) BY <1>3, <4>1 DEF FromRecord
      <4>3. r \in AllRecords /\ x.id \in RecordIds(r)
        BY <4>2, SignalSetFacts DEF Contributors, Whole
      <4> QED BY <4>3
    <3> QED BY <1>11, <1>13, <2>2, <3>1, <3>2, <3>3, NoSingleId
  <2> QED BY <2>1, <2>2
<1> QED BY <1>1, <1>10, <1>15 DEF OwnIds

\* persist_revision(): once the worker has caught up, the newest row of every
\* window covers all the signals of the window, whatever revisions a crash made
\* it count again, if keys identify events and every source has reported.
THEOREM DurableCatchesUpTheorem ==
  ASSUME KeysIdentifyEvents, EverySourceReports
  PROVE  Spec => []DurableCatchesUp
<1>1. WInv /\ CInv => DurableCatchesUp BY RowsCatchUp
<1> QED BY <1>1, CaughtUpInvariant, PTL
-----------------------------------------------------------------------------
(***************************************************************************)
(* The fourth part: what Redis shows once the worker has caught up.        *)
(***************************************************************************)
\* Some record that contributes is not in the log to its last signal.
Behind(log) == \E r \in Contributors : ~(RecordIds(r) \subseteq IdsOf(Logged(log)))

\* The snapshot x is what the interval of w may show: the last revision of a
\* window, which is final or does not start before w.
Fits(w, x) ==
  /\ x.window \in Window /\ x.window.interval = w.interval
  /\ engine.revisions[x.window] # <<>> /\ x = LastRevision(engine, x.window)
  /\ w.start <= x.window.start \/ x.revision_state = "FINAL"

\* What Redis will show for the interval of w once all that is pending has been
\* cached fits.
EndsCurrent(w) ==
  \/ \E k \in DOMAIN pending :
       /\ pending[k].window.interval = w.interval
       /\ \A j \in DOMAIN pending : j > k => pending[j].window.interval # w.interval
       /\ Fits(w, pending[k])
  \/ /\ \A j \in DOMAIN pending : pending[j].window.interval # w.interval
     /\ \E x \in Snapshot : latest[w.interval] = <<x>> /\ Fits(w, x)

\* After a crash some record may be missing that Redis already shows; a signal
\* of it is still to come, and then Redis shows what the engine returns for it.
ShowInv ==
  /\ engine # Base \/ pending # <<>> => Behind(checkpoint)
  /\ pc = "publish" => latest[pending[1].window.interval] = <<pending[1]>>
  /\ \/ Behind(engine.log)
     \/ \A w \in Window : engine.revisions[w] # <<>> => EndsCurrent(w)
-----------------------------------------------------------------------------
\* Of each interval, ingest() returns last the newest window, or an older one
\* that it has made final.
LEMMA ShownLast ==
  ASSUME NEW e, EInv(e), NEW s \in Signal,
         NEW next, next = Ingest(e, s), NEW q \in Returned(e, s),
         NEW w \in Window, next.revisions[w] # <<>>
  PROVE  \E k \in DOMAIN q :
           /\ q[k].window \in Window /\ q[k].window.interval = w.interval
           /\ \A j \in DOMAIN q : j > k => q[j].window.interval # w.interval
           /\ next.revisions[q[k].window] # <<>> /\ q[k] = LastRevision(next, q[k].window)
           /\ w.start <= q[k].window.start \/ q[k].revision_state = "FINAL"
<1>1. PICK i, v : i = w.interval /\ v = WindowOf(s, i) OBVIOUS
<1>2. e \in Engine BY DEF EInv
<1>3. /\ i \in Interval /\ i \in Nat \ {0} /\ s.time \in Nat /\ s.time \in Time /\ w.start \in Nat
      /\ Time \subseteq Nat
  BY <1>1, ConstantTypes DEF Window
<1>4. v \in Window /\ v.interval = i /\ v.start \in Nat
  <2>1. _floor_window(s.time, i) \in 0 .. s.time BY <1>3, FloorBounds
  <2>2. _floor_window(s.time, i) \in Time BY <1>3, <2>1, EngineAssumption DEF Time
  <2>3. v = [interval |-> i, start |-> _floor_window(s.time, i)] BY <1>1 DEF WindowOf
  <2> QED BY <1>3, <2>2, <2>3 DEF Window
<1>5. /\ q \in Seq(Snapshot)
      /\ \A k \in DOMAIN q : /\ q[k].window \in Window /\ Built(e, s, next, q[k].window)
                             /\ q[k] = LastRevision(next, q[k].window)
      /\ \A x \in Window : Built(e, s, next, x) => \E k \in DOMAIN q : q[k].window = x
      /\ \A j, k \in DOMAIN q : j < k => ReturnedBefore(e, s, q[j].window, q[k].window)
  BY <1>2, ReturnedIsBuilt
<1>6. DOMAIN q = 1 .. Len(q) /\ Len(q) \in Nat BY <1>5
<1>7. Position(i) \in Nat
  <2>1. \E k \in DOMAIN IntervalOrder : IntervalOrder[k] = i BY <1>3 DEF Interval
  <2>2. Position(i) \in DOMAIN IntervalOrder BY <2>1 DEF Position
  <2>3. DOMAIN IntervalOrder = 1 .. Len(IntervalOrder) BY EngineAssumption
  <2> QED BY <2>2, <2>3
<1>8. PICK K : K = {k \in DOMAIN q : q[k].window.interval = i} OBVIOUS
<1>9. \A x \in Window : Built(e, s, next, x) /\ x.interval = i => \E m \in K : q[m].window = x
  BY <1>5, <1>8
<1>10. Built(e, s, next, v) BY <1>1, <1>4 DEF Built, Touched
<1>11. PICK k \in K : \A j \in K : j <= k
  <2>1. K \in SUBSET Nat /\ K \in SUBSET (1 .. Len(q)) BY <1>6, <1>8
  <2>2. IsFiniteSet(1 .. Len(q)) BY <1>6, FS_Interval
  <2>3. IsFiniteSet(K) BY <2>1, <2>2, FS_Subset
  <2>4. K # {} BY <1>4, <1>9, <1>10
  <2> QED BY <2>1, <2>3, <2>4, GreatestExists
<1>12. PICK x : x = q[k].window OBVIOUS
<1>13. k \in DOMAIN q /\ x \in Window /\ x.interval = i /\ x.start \in Nat
  <2>1. k \in DOMAIN q /\ x \in Window /\ x.interval = i BY <1>5, <1>8, <1>12
  <2> QED BY <1>3, <2>1 DEF Window
<1>14. Built(e, s, next, x) /\ q[k] = LastRevision(next, x) BY <1>5, <1>12, <1>13
<1>15. /\ LastRevision(next, x) = NewRow(e, next, x)
       /\ Len(next.revisions[x]) = Len(e.revisions[x]) + 1
  BY <1>2, <1>13, <1>14, WindowStep
<1>16. next.revisions[x] # <<>>
  <2>1. Len(e.revisions[x]) \in Nat
    <3>1. PICK h : h = e.revisions[x] OBVIOUS
    <3>2. h \in Seq(Snapshot) BY <1>2, <1>13, <3>1 DEF Engine
    <3>3. Len(h) \in Nat BY <3>2
    <3> QED BY <3>1, <3>3
  <2> QED BY <1>15, <2>1
<1>17. CASE ~Touched(e, s, x)
  <2>1. /\ ~IsFinal(e.revisions[x])
        /\ Passed(next.max_event_time, next.source, x)
    BY <1>14, <1>17 DEF Built, Eligible
  <2>2. q[k].revision_state = "FINAL" BY <1>14, <1>15, <2>1 DEF NewRow, NewSnapshot
  <2>3. \A j \in DOMAIN q : j > k => q[j].window.interval # w.interval
    <3>1. \A j \in DOMAIN q : q[j].window.interval = i => j <= k BY <1>8, <1>11
    <3>2. \A j \in DOMAIN q : j > k => ~(j <= k) BY <1>6, <1>13
    <3> QED BY <1>1, <3>1, <3>2
  <2> QED BY <1>1, <1>12, <1>13, <1>14, <1>16, <2>2, <2>3
<1>18. CASE Touched(e, s, x)
  <2>1. ASSUME NEW m \in K PROVE q[m].window.start <= x.start
    <3>1. PICK a : a = q[m].window OBVIOUS
    <3>2. m \in DOMAIN q /\ m <= k /\ m \in Nat /\ k \in Nat /\ a \in Window /\ a.interval = i
      BY <1>5, <1>6, <1>8, <1>11, <1>13, <3>1
    <3>3. a.start \in Nat BY <1>3, <3>2 DEF Window
    <3>4. CASE m = k BY <1>12, <1>13, <3>1, <3>4
    <3>5. CASE m < k
      <4>1. ReturnedBefore(e, s, a, x) BY <1>5, <1>12, <1>13, <3>1, <3>2, <3>5
      <4>2. Touched(e, s, a) BY <1>18, <4>1 DEF ReturnedBefore
      <4>3. Position(a.interval) < Position(x.interval) \/ a.start < x.start
        BY <1>18, <4>1, <4>2 DEF ReturnedBefore
      <4>4. ~(Position(i) < Position(i)) BY <1>7
      <4>5. a.start < x.start BY <1>13, <3>2, <4>3, <4>4
      <4> QED BY <1>13, <3>1, <3>3, <4>5
    <3> QED BY <3>2, <3>4, <3>5
  <2>2. w.start <= x.start
    <3>1. CASE Built(e, s, next, w)
      <4>1. PICK m \in K : q[m].window = w BY <1>1, <1>9, <3>1
      <4> QED BY <2>1, <4>1
    <3>2. CASE ~Built(e, s, next, w)
      <4>1. next.revisions[w] = e.revisions[w] BY <1>2, <3>2, WindowStep
      <4>2. ~(w.start > v.start) BY <1>1, <3>2, <4>1 DEF Built, Touched
      <4>3. PICK m \in K : q[m].window = v BY <1>4, <1>9, <1>10
      <4>4. v.start <= x.start BY <2>1, <4>3
      <4> QED BY <1>3, <1>4, <1>13, <4>2, <4>4
    <3> QED BY <3>1, <3>2
  <2>3. \A j \in DOMAIN q : j > k => q[j].window.interval # w.interval
    <3>1. \A j \in DOMAIN q : q[j].window.interval = i => j <= k BY <1>8, <1>11
    <3>2. \A j \in DOMAIN q : j > k => ~(j <= k) BY <1>6, <1>13
    <3> QED BY <1>1, <3>1, <3>2
  <2> QED BY <1>1, <1>12, <1>13, <1>14, <1>16, <2>2, <2>3
<1> QED BY <1>17, <1>18
-----------------------------------------------------------------------------
\* Redis shows what fits, or a record is missing: every step keeps it.
LEMMA ShowStep ==
  ASSUME ConsumerTypeOK, ConsumerTypeOK', PhaseInv, RestoreInv, OriginInv, ShowInv, Next
  PROVE  ShowInv'
<1> DEFINE S1 == engine # Base \/ pending # <<>> => Behind(checkpoint)
           S2 == pc = "publish" => latest[pending[1].window.interval] = <<pending[1]>>
           S3 == \/ Behind(engine.log)
                 \/ \A w \in Window : engine.revisions[w] # <<>> => EndsCurrent(w)
<1>a. S1 /\ S2 /\ S3 BY DEF ShowInv
<1> SUFFICES S1' /\ S2' /\ S3' BY DEF ShowInv
<1>b. /\ pending \in Seq(Snapshot) /\ latest \in [Interval -> Seq(Snapshot)]
      /\ signals \in Seq(Signal) /\ engine \in Engine
  BY DEF ConsumerTypeOK, WorkerTypeOK
<1>e. ASSUME engine' = engine, pending' = pending, latest' = latest PROVE S3'
  BY <1>a, <1>e DEF EndsCurrent, Fits
<1>h. ASSUME engine' = engine, pending' = pending, latest' = latest, checkpoint' = checkpoint,
             pc' # "publish"
      PROVE  S1' /\ S2' /\ S3'
  <2>1. Base' = Base BY <1>h DEF Base
  <2> QED BY <1>a, <1>e, <1>h, <2>1
<1>1. CASE \E upto \in Offsets : Fetch(upto)
  BY <1>1, <1>h DEF Fetch, stores, durable
<1>2. CASE \E report \in {<<>>} \cup {<<h>> : h \in Health} : ProcessEvent(report)
  BY <1>2, <1>h DEF ProcessEvent, durable
<1>3. CASE ProcessSignal
  <2>1. PICK s : s = Head(signals) OBVIOUS
  <2>2. /\ pc = "process" /\ pending = <<>> /\ latest' = latest /\ checkpoint' = checkpoint
        /\ pc' # "publish" /\ signals # <<>>
    BY <1>3 DEF ProcessSignal, stores, durable, PhaseInv
  <2>3. s \in Signal /\ s = signals[1] /\ 1 \in DOMAIN signals
    BY <1>b, <2>1, <2>2, HeadAndTail
  <2>4. PICK r \in Contributors : s \in SignalSet(r) BY <2>3 DEF OriginInv, FromRecord
  <2>5. CASE Seen(engine.log, s)
    <3>1. engine' = engine /\ pending' = <<>>
      BY <1>3, <2>1, <2>5 DEF ProcessSignal, IngestNew
    <3> QED BY <1>h, <2>2, <3>1
  <2>6. CASE ~Seen(engine.log, s)
    <3>1. engine' = Ingest(engine, s) /\ pending' \in Returned(engine, s)
      BY <1>3, <2>1, <2>6 DEF ProcessSignal, IngestNew
    <3>2. s.id \notin IdsOf(Logged(engine.log)) BY <2>6 DEF Seen, IdsOf
    <3>3. S1'
      <4>1. Logged(checkpoint) \subseteq Logged(engine.log) BY DEF OriginInv
      <4>2. s.id \notin IdsOf(Logged(checkpoint)) BY <3>2, <4>1 DEF IdsOf
      <4>3. s.id \in RecordIds(r) BY <2>4, SignalSetFacts DEF Contributors, Whole
      <4> QED BY <2>2, <4>2, <4>3 DEF Behind
    <3>4. PICK e, next, q : e = engine /\ next = engine' /\ q = pending' OBVIOUS
    <3>5. EInv(e) /\ next = Ingest(e, s) /\ q \in Returned(e, s)
      BY <3>1, <3>4 DEF RestoreInv
    <3>6. ASSUME NEW w \in Window, next.revisions[w] # <<>>
          PROVE  \E k \in DOMAIN q :
                   /\ q[k].window \in Window /\ q[k].window.interval = w.interval
                   /\ \A j \in DOMAIN q : j > k => q[j].window.interval # w.interval
                   /\ next.revisions[q[k].window] # <<>>
                   /\ q[k] = LastRevision(next, q[k].window)
                   /\ w.start <= q[k].window.start \/ q[k].revision_state = "FINAL"
      BY <2>3, <3>5, <3>6, ShownLast
    <3>7. S3' BY <3>4, <3>6 DEF EndsCurrent, Fits
    <3> QED BY <2>2, <3>3, <3>7
  <2> QED BY <2>5, <2>6
<1>4. CASE Persist BY <1>4, <1>h DEF Persist, durable
<1>5. CASE Cache
  <2>1. PICK x, i : x = Head(pending) /\ i = x.window.interval OBVIOUS
  <2>2. /\ pc = "cache" /\ pending' = pending /\ engine' = engine /\ checkpoint' = checkpoint
        /\ latest' = [latest EXCEPT ![i] = <<x>>]
    BY <1>5, <2>1 DEF Cache, durable
  <2>3. x = pending[1] /\ 1 \in DOMAIN pending /\ x \in Snapshot
    <3>1. pending # <<>> BY <2>2 DEF PhaseInv
    <3> QED BY <1>b, <2>1, <3>1, HeadAndTail
  <2>4. i \in Interval BY <2>1, <2>3 DEF Snapshot, Window
  <2>5. S2'
    <3>1. latest'[i] = <<x>> BY <1>b, <2>2, <2>4
    <3>2. pending'[1].window.interval = i /\ pending'[1] = x BY <2>1, <2>2, <2>3
    <3> QED BY <3>1, <3>2
  <2>6. S3'
    <3>1. CASE Behind(engine.log) BY <2>2, <3>1
    <3>2. CASE \A w \in Window : engine.revisions[w] # <<>> => EndsCurrent(w)
      <4> SUFFICES ASSUME NEW w \in Window, engine.revisions[w] # <<>> PROVE EndsCurrent(w)'
        BY <2>2
      <4>0. \A y : Fits(w, y)' = Fits(w, y) BY <2>2 DEF Fits
      <4>1. EndsCurrent(w) BY <3>2
      <4>2. CASE \A j \in DOMAIN pending : pending[j].window.interval # w.interval
        <5>1. w.interval # i BY <2>1, <2>3, <4>2
        <5>2. latest'[w.interval] = latest[w.interval] BY <1>b, <2>2, <5>1 DEF Window
        <5> QED BY <2>2, <4>0, <4>1, <4>2, <5>2 DEF EndsCurrent
      <4>3. CASE ~\A j \in DOMAIN pending : pending[j].window.interval # w.interval
        BY <2>2, <4>0, <4>1, <4>3 DEF EndsCurrent
      <4> QED BY <4>2, <4>3
    <3> QED BY <1>a, <3>1, <3>2
  <2>7. Base' = Base BY <2>2 DEF Base
  <2> QED BY <1>a, <2>2, <2>5, <2>6, <2>7
<1>6. CASE Publish
  <2>1. /\ pc = "publish" /\ pending' = Tail(pending) /\ engine' = engine /\ checkpoint' = checkpoint
        /\ latest' = latest /\ pc' # "publish"
    BY <1>6 DEF Publish, durable
  <2>2. pending # <<>> BY <2>1 DEF PhaseInv
  <2>3. /\ \A k \in DOMAIN pending' : k + 1 \in DOMAIN pending /\ pending'[k] = pending[k + 1]
        /\ \A k \in DOMAIN pending :
             k = 1 \/ (k - 1 \in DOMAIN pending' /\ pending'[k - 1] = pending[k])
        /\ 1 \in DOMAIN pending
    BY <1>b, <2>1, <2>2, HeadAndTail
  <2>4. DOMAIN pending \subseteq Nat /\ DOMAIN pending' \subseteq Nat
        /\ \A k \in DOMAIN pending' : k > 0
    <3>1. pending' \in Seq(Snapshot) BY DEF ConsumerTypeOK
    <3> QED BY <1>b, <3>1
  <2>5. latest[pending[1].window.interval] = <<pending[1]>> BY <1>a, <2>1
  <2>6. S3'
    <3>1. CASE Behind(engine.log) BY <2>1, <3>1
    <3>2. CASE \A w \in Window : engine.revisions[w] # <<>> => EndsCurrent(w)
      <4> SUFFICES ASSUME NEW w \in Window, engine.revisions[w] # <<>> PROVE EndsCurrent(w)'
        BY <2>1
      <4>0. \A y : Fits(w, y)' = Fits(w, y) BY <2>1 DEF Fits
      <4>1. EndsCurrent(w) BY <3>2
      <4>2. ASSUME NEW k \in DOMAIN pending, pending[k].window.interval = w.interval,
                   \A j \in DOMAIN pending : j > k => pending[j].window.interval # w.interval,
                   Fits(w, pending[k])
            PROVE  EndsCurrent(w)'
        <5>1. CASE k = 1
          <6>1. \A j \in DOMAIN pending' : pending'[j].window.interval # w.interval
            <7> SUFFICES ASSUME NEW j \in DOMAIN pending'
                         PROVE  pending'[j].window.interval # w.interval
              OBVIOUS
            <7>1. j + 1 > k BY <2>4, <5>1
            <7> QED BY <2>3, <4>2, <7>1
          <6>2. latest'[w.interval] = <<pending[1]>> BY <2>1, <2>5, <4>2, <5>1
          <6>3. pending[1] \in Snapshot BY <1>b, <2>3
          <6>4. \E x \in Snapshot : latest'[w.interval] = <<x>> /\ Fits(w, x)'
            BY <4>0, <4>2, <5>1, <6>2, <6>3
          <6> QED BY <6>1, <6>4 DEF EndsCurrent
        <5>2. CASE k # 1
          <6>1. PICK m : m = k - 1 OBVIOUS
          <6>2. m \in DOMAIN pending' /\ pending'[m] = pending[k] BY <2>3, <5>2, <6>1
          <6>3. \A j \in DOMAIN pending' : j > m => pending'[j].window.interval # w.interval
            <7> SUFFICES ASSUME NEW j \in DOMAIN pending', j > m
                         PROVE  pending'[j].window.interval # w.interval
              OBVIOUS
            <7>1. j + 1 > k BY <2>4, <6>1
            <7> QED BY <2>3, <4>2, <7>1
          <6>4. Fits(w, pending[m])'
            <7>1. PICK y : y = pending[k] OBVIOUS
            <7>2. Fits(w, y)' BY <4>0, <4>2, <7>1
            <7>3. pending'[m] = y BY <6>2, <7>1
            <7> QED BY <7>2, <7>3 DEF Fits
          <6>5. pending'[m].window.interval = w.interval BY <4>2, <6>2
          <6> QED BY <6>2, <6>3, <6>4, <6>5 DEF EndsCurrent
        <5> QED BY <5>1, <5>2
      <4>3. ASSUME \A j \in DOMAIN pending : pending[j].window.interval # w.interval,
                   \E x \in Snapshot : latest[w.interval] = <<x>> /\ Fits(w, x)
            PROVE  EndsCurrent(w)'
        BY <2>1, <2>3, <4>0, <4>3 DEF EndsCurrent
      <4> QED BY <4>1, <4>2, <4>3 DEF EndsCurrent
    <3> QED BY <1>a, <3>1, <3>2
  <2>7. Base' = Base BY <2>1 DEF Base
  <2> QED BY <1>a, <2>1, <2>2, <2>6, <2>7
<1>7. CASE BatchDone BY <1>7, <1>h DEF BatchDone, stores, durable
<1>8. CASE SaveCheckpoint
  <2>1. /\ pc = "save" /\ pc' # "publish" /\ engine' = engine /\ pending' = pending /\ latest' = latest
        /\ checkpoint' = engine.log
    BY <1>8 DEF SaveCheckpoint, stores
  <2>2. pending' = <<>> BY <2>1 DEF PhaseInv
  <2>3. Base' = engine' BY <2>1 DEF Base, RestoreInv
  <2> QED BY <1>e, <2>1, <2>2, <2>3
<1>9. CASE CommitOffset BY <1>9, <1>h DEF CommitOffset, stores
<1>10. CASE Crash
  <2>1. /\ pending' = <<>> /\ engine' = Base /\ checkpoint' = checkpoint /\ latest' = latest
        /\ pc' # "publish"
    BY <1>10 DEF Crash, stores, durable, Base
  <2>2. Base' = Base BY <2>1 DEF Base
  <2>3. engine'.log = checkpoint BY <2>1 DEF RestoreInv, Base
  <2>4. S3'
    <3>1. CASE Behind(checkpoint)
      <4>1. Behind(engine'.log)
        <5>1. PICK log : log = checkpoint OBVIOUS
        <5>2. engine'.log = log BY <2>3, <5>1
        <5>3. Behind(log) BY <3>1, <5>1
        <5> QED BY <5>2, <5>3
      <4> QED BY <4>1 DEF Behind
    <3>2. CASE ~Behind(checkpoint)
      <4>1. engine = Base /\ pending = <<>> BY <1>a, <3>2
      <4> QED BY <1>e, <2>1, <4>1
    <3> QED BY <3>1, <3>2
  <2> QED BY <2>1, <2>2, <2>4
<1>11. CASE Done
  <2>1. /\ engine' = engine /\ pending' = pending /\ latest' = latest /\ checkpoint' = checkpoint
        /\ pc' = pc
    BY <1>11 DEF Done, vars, consumer, stores, durable
  <2>2. Base' = Base BY <2>1 DEF Base
  <2> QED BY <1>a, <1>e, <2>1, <2>2
<1> HIDE DEF S1, S2, S3
<1> QED
  BY <1>1, <1>2, <1>3, <1>4, <1>5, <1>6, <1>7, <1>8, <1>9, <1>10, <1>11 DEF Next, Step

\* The third and the fourth part together are inductive.
LEMMA ShowInvariant ==
  ASSUME KeysIdentifyEvents, EverySourceReports
  PROVE  Spec => [](WInv /\ CInv /\ ShowInv)
<1>1. Init => ShowInv
  <2> SUFFICES ASSUME Init PROVE ShowInv OBVIOUS
  <2>1. /\ pc = "fetch" /\ pending = <<>> /\ engine = EmptyEngine /\ checkpoint = <<>>
        /\ \A w \in Window : engine.revisions[w] = <<>>
    BY DEF Init, EmptyEngine
  <2>2. Base = engine BY <2>1, RestoredEmpty DEF Base
  <2> QED BY <2>1, <2>2 DEF ShowInv
<1>2. WInv /\ WInv' /\ CInv /\ ShowInv /\ Next => ShowInv'
  BY ShowStep DEF WInv, CInv
<1>3. ShowInv /\ UNCHANGED vars => ShowInv'
  <2> SUFFICES ASSUME ShowInv, UNCHANGED vars PROVE ShowInv' OBVIOUS
  <2>1. /\ pc' = pc /\ pending' = pending /\ engine' = engine
        /\ latest' = latest /\ checkpoint' = checkpoint
    BY DEF vars, consumer, stores, durable
  <2>2. Base' = Base BY <2>1 DEF Base
  <2>3. ASSUME NEW w PROVE EndsCurrent(w)' = EndsCurrent(w) BY <2>1 DEF EndsCurrent, Fits
  <2> QED BY <2>1, <2>2, <2>3 DEF ShowInv
<1>4. WInv /\ WInv' /\ CInv /\ ShowInv /\ [Next]_vars => ShowInv' BY <1>2, <1>3
<1> QED BY <1>1, <1>4, CaughtUpInvariant, PTL DEF Spec

\* set_latest(): once the worker has caught up, Redis shows for each interval a
\* window as the engine last revised it, the newest one or a final one, and the
\* rows cover every signal, after any crashes and whatever the sources reported:
\* what was shown before a crash is either still in the log or replaced when the
\* record that it came from is read again.
THEOREM CaughtUpTheorem ==
  ASSUME KeysIdentifyEvents, EverySourceReports
  PROVE  Spec => []CaughtUpInv
<1>1. WInv /\ CInv /\ ShowInv => ShownIsCurrent
  <2> SUFFICES ASSUME WInv, CInv, ShowInv, Quiescent, NEW w \in Window, engine.revisions[w] # <<>>
               PROVE  \E v \in Window :
                        /\ v.interval = w.interval /\ engine.revisions[v] # <<>>
                        /\ latest[w.interval] = <<LastRevision(engine, v)>>
                        /\ w.start <= v.start \/ LastRevision(engine, v).revision_state = "FINAL"
    BY DEF ShownIsCurrent
  <2>1. pending = <<>> BY DEF Quiescent, WInv, PhaseInv
  <2>2. ~Behind(engine.log) BY AllIsLogged DEF Behind
  <2>3. EndsCurrent(w) BY <2>2 DEF ShowInv
  <2>4. PICK x \in Snapshot : latest[w.interval] = <<x>> /\ Fits(w, x)
    BY <2>1, <2>3 DEF EndsCurrent
  <2> QED BY <2>4 DEF Fits
<1>2. WInv /\ CInv /\ ShowInv => CaughtUpInv BY <1>1, RowsCatchUp DEF CaughtUpInv
<1> QED BY <1>2, ShowInvariant, PTL
=============================================================================
