---------------------------- MODULE ReplaySessions ----------------------------
(***************************************************************************)
(* A replay session and the control workers that run it.  An operator      *)
(* queues and pauses the session; a worker that finds it queued runs the   *)
(* scenario, whose events pass the same dedupe claims as live ones, counts *)
(* the events it got accepted, and ends the session by that count.  A      *)
(* running worker does not look at the session again.  RUNNING is          *)
(* committed before the worker connects to the broker, and what fails      *)
(* outside the run itself, the connection or the write of the last status, *)
(* is only logged: the session stays RUNNING and no worker looks at it.    *)
(*                                                                         *)
(*   session     status of the row in replay_sessions                      *)
(*   accepted    dedupe claims held by the session's events                *)
(*   runner      a worker: place, next event, events accepted              *)
(*   paused_run  the session was paused while it was running               *)
(*   evaluated   the evaluation stored, if any: accepted events it saw     *)
(*   abandoned   since the session was last queued, a worker has left it   *)
(*               RUNNING without an end                                    *)
(***************************************************************************)
EXTENDS Naturals, FiniteSets

CONSTANTS Runner,             \* control workers
          ScenarioEvents,     \* events of the scenario
          MaxCommands,        \* bound on the operator's commands
          MaxRunnerFailures   \* bound on crashes, failed connections and writes

ASSUME ReplayAssumption ==
  ScenarioEvents \in Nat \ {0} /\ MaxCommands \in Nat /\ MaxRunnerFailures \in Nat

VARIABLES session, accepted, runner, paused_run, evaluated, commands, runnerFailures, abandoned

replayVars == <<session, accepted, runner, paused_run, evaluated, commands,
                runnerFailures, abandoned>>

Unoccupied == [at |-> "look", event |-> 1, count |-> 0]
NotEvaluated == ScenarioEvents + 1

ReplayInit ==
  /\ session = "CREATED"
  /\ accepted = {}
  /\ runner = [w \in Runner |-> Unoccupied]
  /\ paused_run = FALSE
  /\ evaluated = NotEvaluated
  /\ commands = 0 /\ runnerFailures = 0 /\ abandoned = FALSE
-----------------------------------------------------------------------------
StartReplay ==
  /\ commands < MaxCommands
  /\ session \in {"CREATED", "PAUSED"}
  /\ session' = "QUEUED" /\ abandoned' = FALSE
  /\ commands' = commands + 1
  /\ UNCHANGED <<accepted, runner, paused_run, evaluated, runnerFailures>>

PauseReplay ==
  /\ commands < MaxCommands
  /\ session \in {"QUEUED", "RUNNING"}
  /\ session' = "PAUSED"
  /\ paused_run' = (paused_run \/ session = "RUNNING")
  /\ commands' = commands + 1
  /\ UNCHANGED <<accepted, runner, evaluated, runnerFailures, abandoned>>

(* The first evaluation is stored and answered from then on, whatever the  *)
(* session's status.                                                       *)
EvaluateReplay ==
  /\ evaluated = NotEvaluated /\ accepted # {}
  /\ evaluated' = Cardinality(accepted)
  /\ UNCHANGED <<session, accepted, runner, paused_run, commands, runnerFailures, abandoned>>
-----------------------------------------------------------------------------
RunnerAt(w, state) == runner' = [runner EXCEPT ![w] = state]

FindQueued(w) ==
  /\ runner[w].at = "look" /\ session = "QUEUED"
  /\ RunnerAt(w, [Unoccupied EXCEPT !.at = "start"])
  /\ UNCHANGED <<session, accepted, paused_run, evaluated, commands, runnerFailures,
                 abandoned>>

(* run_queued_session looks again, under the row lock, and commits RUNNING *)
(* before it has a connection to the broker.                               *)
AnyStatus == session # "COMPLETED"  \* mutant: a paused or running session is started
Startable == session = "QUEUED"
BeginRunQuietly(w) ==  \* mutant: the session is marked and not run
  /\ runner[w].at = "start"
  /\ session' = IF Startable THEN "RUNNING" ELSE session
  /\ RunnerAt(w, Unoccupied)
  /\ UNCHANGED <<accepted, paused_run, evaluated, commands, runnerFailures, abandoned>>
BeginRun(w) ==
  /\ runner[w].at = "start"
  /\ IF Startable
     THEN session' = "RUNNING" /\ RunnerAt(w, [Unoccupied EXCEPT !.at = "connect"])
     ELSE UNCHANGED session /\ RunnerAt(w, Unoccupied)
  /\ UNCHANGED <<accepted, paused_run, evaluated, commands, runnerFailures, abandoned>>

(* publisher.start() answered, and the run begins.                         *)
Connect(w) ==
  /\ runner[w].at = "connect"
  /\ RunnerAt(w, [Unoccupied EXCEPT !.at = "run"])
  /\ UNCHANGED <<session, accepted, paused_run, evaluated, commands, runnerFailures,
                 abandoned>>

(* An event whose claim is held, by an earlier or another run, does not    *)
(* count.                                                                  *)
ReplayEvent(w) ==
  LET r == runner[w]
  IN  /\ r.at = "run" /\ r.event <= ScenarioEvents
      /\ accepted' = accepted \union {r.event}
      /\ RunnerAt(w, [r EXCEPT !.event = @ + 1,
                               !.count = IF r.event \in accepted THEN @ ELSE @ + 1])
      /\ UNCHANGED <<session, paused_run, evaluated, commands, runnerFailures, abandoned>>

RunSucceeded(r) == r.count = ScenarioEvents
FinishSession(w) ==
  /\ runner[w].at = "run" /\ runner[w].event > ScenarioEvents
  /\ session' = IF RunSucceeded(runner[w]) THEN "COMPLETED" ELSE "FAILED"
  /\ RunnerAt(w, Unoccupied)
  /\ UNCHANGED <<accepted, paused_run, evaluated, commands, runnerFailures, abandoned>>

(* An event cannot be published: its claim is released, the run fails.     *)
RunFails(w) ==
  /\ runnerFailures < MaxRunnerFailures
  /\ runner[w].at = "run"
  /\ session' = "FAILED"
  /\ RunnerAt(w, Unoccupied)
  /\ runnerFailures' = runnerFailures + 1
  /\ UNCHANGED <<accepted, paused_run, evaluated, commands, abandoned>>

(* The worker at one of the places leaves the session as it stands.        *)
LeaveSession(w, places) ==
  /\ runnerFailures < MaxRunnerFailures
  /\ runner[w].at \in places
  /\ RunnerAt(w, Unoccupied)
  /\ runnerFailures' = runnerFailures + 1
  /\ abandoned' = (abandoned \/ runner[w].at \in {"connect", "run"})
  /\ UNCHANGED <<session, accepted, paused_run, evaluated, commands>>

(* The transaction of the start rolls back: the session is still queued.   *)
BeginFails(w) == LeaveSession(w, {"start"})

(* publisher.start() is outside the try block that sets FAILED.            *)
ConnectFails(w) == LeaveSession(w, {"connect"})

(* The transaction that writes COMPLETED or FAILED fails: the control      *)
(* loop logs it.                                                           *)
FinishFails(w) == LeaveSession(w, {"run"})

RunnerDies(w) == LeaveSession(w, {"start", "connect", "run"})

RunnerSteps(w) ==
  FindQueued(w) \/ BeginRun(w) \/ Connect(w) \/ ReplayEvent(w) \/ FinishSession(w)
RunnerFaults(w) ==
  RunFails(w) \/ BeginFails(w) \/ ConnectFails(w) \/ FinishFails(w) \/ RunnerDies(w)
ReplayNext ==
  \/ StartReplay \/ PauseReplay \/ EvaluateReplay
  \/ \E w \in Runner : RunnerSteps(w) \/ RunnerFaults(w)

(* The control worker polls every second, and a run goes on.               *)
ReplayFairness == \A w \in Runner : WF_replayVars(RunnerSteps(w))
ReplaySpec == ReplayInit /\ [][ReplayNext]_replayVars /\ ReplayFairness
-----------------------------------------------------------------------------
Running == {w \in Runner : runner[w].at = "run"}

(* A session that says COMPLETED has all its events accepted.  Two runs of *)
(* it are at work only after it was paused while it ran: the pause does    *)
(* not stop the run, and the next start adds a second one.                 *)
CompletedIsWhole ==
  /\ session = "COMPLETED" => Cardinality(accepted) = ScenarioEvents
  /\ Cardinality(Running) > 1 => paused_run

(* A session that is queued is run to an end or paused, unless the worker  *)
(* that took it leaves it RUNNING: because the worker dies, the broker     *)
(* refuses its connection, or the last status cannot be written.           *)
QueuedReplayEnds ==
  (session = "QUEUED") ~> (session \in {"COMPLETED", "FAILED", "PAUSED"} \/ abandoned)
=============================================================================
