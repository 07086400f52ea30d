------------------------------- MODULE Engine -------------------------------
(***************************************************************************)
(* The lifecycle of the receiver (openay-server/src/lib.rs): engine_main   *)
(* handles one event at a time, start_pipeline and stop_pipeline await in  *)
(* between, and around them run, for each run of the pipeline, the network *)
(* task, the depth controller, the output thread (PipeWire or cpal), its   *)
(* setup monitor, and the LISTEN monitor's thread.  All of them share the  *)
(* run's quit flag, and what outlives a run is what the properties are     *)
(* about.                                                                  *)
(*                                                                         *)
(* Runs are numbered in the order of their Start; a run's number stands    *)
(* for whatever belongs to it (its error, its stats line, its depth).      *)
(***************************************************************************)
EXTENDS Naturals

CONSTANTS
  MaxRuns,   \* bound: Start commands in one behaviour
  Asked      \* the configurations Start is sent with

(* What a Start may ask for.  "refused": validated() rejects it, or the
   build cannot play.  "ip": UDP or TCP.  "nobt": Bluetooth in a build
   without it (with it, a run is an "ip" run that always binds). *)
Refused == [transport |-> "refused", output |-> "none", monitor |-> FALSE]

Requests == {Refused} \cup
  [transport : {"ip", "nobt"}, output : {"none", "pipewire", "cpal"},
   monitor : BOOLEAN]

ASSUME MaxRunsAssumption == MaxRuns \in Nat
ASSUME AskedAssumption == Asked \subseteq Requests

VARIABLES
  pc,          \* engine_main: "idle"; start_pipeline's "begin", "bind",
               \* "publish", "mark"; stop_pipeline's "net", "out", "mon",
               \* "clear"; or "closed"
  restart,     \* the stop in progress makes room for a Start
  closing,     \* every handle is dropped
  cur,         \* the run whose tasks are spawned and whose Pipeline the
               \* engine holds or is about to, 0 for None
  runs,        \* Starts handled so far
  request,     \* the configuration of each Start
  quit,        \* each run's quit flag
  net,         \* its network task: "none", "up", "failed" (Err) or "ended"
  depth,       \* its depth controller lives
  out,         \* its output thread: see OutputStates
  mon,         \* its LISTEN thread: likewise
  watch,       \* its setup monitor: "none", "waiting", "alarmed" or "done"
  running,     \* status().running
  published,   \* the run whose jitter, ingest and uptime status() reads
  effective,   \* the run whose depth is in effective_target
  error,       \* the run that set last_error, 0 for None
  line         \* the run of last_stats_line, 0 for None

engineVars == <<pc, restart, closing, cur, runs, request>>
taskVars == <<net, depth, out, mon, watch>>
stateVars == <<running, published, error, line>>
vars == <<engineVars, quit, taskVars, stateVars, effective>>

Runs == 1 .. MaxRuns

(* A thread with a stream: setting up; up; broken (a stream error is
   recorded); returned Ok or Err. *)
OutputStates == {"none", "setup", "up", "broken", "ok", "err"}
Live == {"setup", "up", "broken"}

Init ==
  /\ pc = "idle" /\ restart = FALSE /\ closing = FALSE
  /\ cur = 0 /\ runs = 0
  /\ request = [r \in Runs |-> Refused]
  /\ quit = [r \in Runs |-> FALSE]
  /\ net = [r \in Runs |-> "none"]
  /\ depth = [r \in Runs |-> FALSE]
  /\ out = [r \in Runs |-> "none"]
  /\ mon = [r \in Runs |-> "none"]
  /\ watch = [r \in Runs |-> "none"]
  /\ running = FALSE /\ published = 0 /\ effective = 0
  /\ error = 0 /\ line = 0

-----------------------------------------------------------------------------
(* Mutation: the controller is left to see quit at its own pace. *)
LeaveController(r) == depth[r]

(* What is left of the controller of run r: abort and await end it. *)
AbortController(r) == FALSE

(* stop_pipeline up to its first long await: the engine gives the pipeline
   up, every arm is told to quit and the depth controller is gone.  It shows
   as running until the end. *)
BeginStop ==
  /\ quit' = [quit EXCEPT ![cur] = TRUE]
  /\ depth' = [depth EXCEPT ![cur] = AbortController(cur)]
  /\ pc' = "net"

(* Start: a running pipeline is stopped first. *)
Start(c) ==
  /\ pc = "idle"
  /\ runs < MaxRuns
  /\ runs' = runs + 1
  /\ request' = [request EXCEPT ![runs + 1] = c]
  /\ IF cur # 0
       THEN BeginStop /\ restart' = TRUE
       ELSE pc' = "begin" /\ UNCHANGED <<quit, depth, restart>>
  /\ UNCHANGED <<closing, cur, net, out, mon, watch, stateVars, effective>>

(* Stop, and the end of the command channel: the loop breaks and stops what
   runs. *)
Stop ==
  /\ pc = "idle"
  /\ cur # 0
  /\ BeginStop
  /\ UNCHANGED <<restart, closing, cur, runs, request, net, out, mon, watch,
                 stateVars, effective>>

Close ==
  /\ pc = "idle"
  /\ closing' = TRUE
  /\ IF cur # 0 THEN BeginStop ELSE pc' = "closed" /\ UNCHANGED <<quit, depth>>
  /\ UNCHANGED <<restart, cur, runs, request, net, out, mon, watch, stateVars,
                 effective>>

(* Mutation: a pipeline that was told to quit is left to the Stop that must
   have told it. *)
DoneUnlessQuit(r) == net[r] \in {"failed", "ended"} /\ ~quit[r]

(* Pipeline::is_done: all arms exited after quit, or the network task ended
   by itself. *)
IsDone(r) ==
  /\ net[r] \in {"failed", "ended"}
  /\ quit[r] => out[r] \notin Live /\ mon[r] \notin Live

(* The 200 ms tick reaps a pipeline that ended by itself. *)
Tick ==
  /\ pc = "idle"
  /\ cur # 0
  /\ IsDone(cur)
  /\ BeginStop
  /\ UNCHANGED <<restart, closing, cur, runs, request, net, out, mon, watch,
                 stateVars, effective>>

-----------------------------------------------------------------------------
(* stop_pipeline, await by await: the network task's result, *)
StopNet ==
  /\ pc = "net"
  /\ net[cur] \in {"failed", "ended"}
  /\ error' = IF net[cur] = "failed" THEN cur ELSE error
  /\ pc' = "out"
  /\ UNCHANGED <<restart, closing, cur, runs, request, quit, taskVars, running,
                 published, line, effective>>

(* Mutation: a thread that takes its time is left to process exit. *)
LeftToExit(r) == TRUE

(* reap_output_thread ends in join: it waits for the thread, whatever its
   three seconds say. *)
Reaped(r) == out[r] \notin Live

(* ... the output thread, *)
StopOutput ==
  /\ pc = "out"
  /\ Reaped(cur)
  /\ error' = IF out[cur] = "err" THEN cur ELSE error
  /\ pc' = "mon"
  /\ UNCHANGED <<restart, closing, cur, runs, request, quit, taskVars, running,
                 published, line, effective>>

(* ... and the LISTEN thread, whose result is dropped.  Then the line is
   there, and the counters are gone, ... *)
StopClears ==
  /\ pc = "mon"
  /\ mon[cur] \notin Live
  /\ line' = IF net[cur] = "ended" THEN cur ELSE line
  /\ published' = 0
  /\ pc' = "clear"
  /\ UNCHANGED <<restart, closing, cur, runs, request, quit, taskVars, running,
                 error, effective>>

(* ... before the run shows as stopped.  The loop goes on with what it was
   doing. *)
StopDone ==
  /\ pc = "clear"
  /\ running' = FALSE
  /\ cur' = 0
  /\ restart' = FALSE
  /\ pc' = IF restart THEN "begin" ELSE IF closing THEN "closed" ELSE "idle"
  /\ UNCHANGED <<closing, runs, request, quit, taskVars, published, error, line,
                 effective>>

-----------------------------------------------------------------------------
(* start_pipeline refuses the configuration before it touches the state: the
   last stats line stays, too. *)
Refuse ==
  /\ pc = "begin"
  /\ request[runs].transport = "refused"
  /\ error' = runs
  /\ running' = FALSE
  /\ pc' = "idle"
  /\ UNCHANGED <<restart, closing, cur, runs, request, quit, taskVars,
                 published, line, effective>>

(* Mutations: the last run's line survives a Start; a run shows as running
   while it binds. *)
KeepLine == line
RunningBeforeBind == TRUE

(* What Start makes of the last stats line, and of running. *)
ClearedLine == 0
RunningWhileBinding == FALSE

(* It clears what the last run left, seeds the depth and spawns the output
   threads, ... *)
Begin ==
  LET c == request[runs]
  IN  /\ pc = "begin"
      /\ c.transport # "refused"
      /\ error' = 0
      /\ line' = ClearedLine
      /\ running' = RunningWhileBinding
      /\ effective' = runs
      /\ out' = [out EXCEPT ![runs] =
                   IF c.output = "none" THEN "none" ELSE "setup"]
      /\ watch' = [watch EXCEPT ![runs] =
                     IF c.output = "none" THEN "none" ELSE "waiting"]
      /\ mon' = [mon EXCEPT ![runs] = IF c.monitor THEN "setup" ELSE "none"]
      /\ pc' = "bind"
      /\ UNCHANGED <<restart, closing, cur, runs, request, quit, net, depth,
                     published>>

(* ... and only then binds.  A socket it cannot bind fails the Start, and
   the threads just spawned are left as they are. *)
BindFails ==
  /\ pc = "bind"
  /\ request[runs].transport = "ip"
  /\ error' = runs
  /\ running' = FALSE
  /\ pc' = "idle"
  /\ UNCHANGED <<restart, closing, cur, runs, request, quit, taskVars,
                 published, line, effective>>

(* It spawns the network task and the depth controller, which go to work at
   once; *)
Serve ==
  /\ pc = "bind"
  /\ net' = [net EXCEPT ![runs] = "up"]
  /\ depth' = [depth EXCEPT ![runs] = TRUE]
  /\ cur' = runs
  /\ pc' = "publish"
  /\ UNCHANGED <<restart, closing, runs, request, quit, out, mon, watch,
                 stateVars, effective>>

(* then it hands status() the run's jitter buffer and ingest, *)
Publish ==
  /\ pc = "publish"
  /\ published' = runs
  /\ pc' = "mark"
  /\ UNCHANGED <<restart, closing, cur, runs, request, quit, taskVars, running,
                 error, line, effective>>

(* and last it shows the run as running. *)
MarkRunning ==
  /\ pc = "mark"
  /\ running' = TRUE
  /\ pc' = "idle"
  /\ UNCHANGED <<restart, closing, cur, runs, request, quit, taskVars, published,
                 error, line, effective>>

EngineStep ==
  \/ StopNet \/ StopOutput \/ StopClears \/ StopDone
  \/ Refuse \/ Begin \/ BindFails \/ Serve \/ Publish \/ MarkRunning

-----------------------------------------------------------------------------
NetEnds(r, result) ==
  /\ net[r] = "up"
  /\ net' = [net EXCEPT ![r] = result]
  /\ UNCHANGED <<engineVars, quit, depth, out, mon, watch, stateVars, effective>>

(* The network task polls quit; it returns Err at once on a transport it
   cannot serve, and on an I/O error of its socket. *)
NetQuit(r) == request[r].transport = "ip" /\ quit[r] /\ NetEnds(r, "ended")
NetUnable(r) == request[r].transport = "nobt" /\ NetEnds(r, "failed")
NetError(r) == request[r].transport = "ip" /\ NetEnds(r, "failed")

(* The depth controller's tick; it too polls quit. *)
DepthTick(r) ==
  /\ depth[r]
  /\ effective' = r
  /\ UNCHANGED <<engineVars, quit, taskVars, stateVars>>

DepthQuit(r) ==
  /\ depth[r]
  /\ quit[r]
  /\ depth' = [depth EXCEPT ![r] = FALSE]
  /\ UNCHANGED <<engineVars, quit, net, out, mon, watch, stateVars, effective>>

(* Mutation: a thread whose stream broke returns Ok. *)
BrokenEndsWell == "ok"

(* What it returns: the recorded error. *)
BrokenEnds == "err"

(* How the setup of a thread can end.  cpal: the stream is built and plays,
   at the second attempt with the host's buffer size; before that the device
   or a configuration of it may not be found. *)
StreamBuilt == {"up", "err"}
DeviceSetUp == StreamBuilt \cup {"err"}

(* PipeWire: the link is confirmed at one of the attempts; before that the
   nodes may not come up in time.  Every wait has a deadline, and none of
   them looks at quit. *)
LinkVerified == {"up", "err"}
SourceSetUp == LinkVerified \cup {"err"}

SetUp(kind) == IF kind = "pipewire" THEN SourceSetUp ELSE DeviceSetUp

(* The steps of a thread with a stream that leave the quit flag alone: setup
   fails or succeeds; the loop sees quit and returns, Err if the stream
   broke.  PipeWire's loop can also end by itself, and returns Ok. *)
StreamStep(s, q, kind, t) ==
  \/ s = "setup" /\ t \in SetUp(kind)
  \/ s = "up" /\ q /\ t = "ok"
  \/ s = "broken" /\ q /\ t = BrokenEnds
  \/ s = "up" /\ kind = "pipewire" /\ t = "ok"

OutStep(r) ==
  /\ \E t \in OutputStates :
       /\ StreamStep(out[r], quit[r], request[r].output, t)
       /\ out' = [out EXCEPT ![r] = t]
  /\ UNCHANGED <<engineVars, quit, net, depth, mon, watch, stateVars, effective>>

MonStep(r) ==
  /\ \E t \in OutputStates :
       /\ StreamStep(mon[r], quit[r], "cpal", t)
       /\ mon' = [mon EXCEPT ![r] = t]
  /\ UNCHANGED <<engineVars, quit, net, depth, out, watch, stateVars, effective>>

(* cpal's error callback records the error and sets quit: the run's. *)
OutBreaks(r) ==
  /\ out[r] = "up"
  /\ request[r].output = "cpal"
  /\ out' = [out EXCEPT ![r] = "broken"]
  /\ quit' = [quit EXCEPT ![r] = TRUE]
  /\ UNCHANGED <<engineVars, net, depth, mon, watch, stateVars, effective>>

MonBreaks(r) ==
  /\ mon[r] = "up"
  /\ mon' = [mon EXCEPT ![r] = "broken"]
  /\ quit' = [quit EXCEPT ![r] = TRUE]
  /\ UNCHANGED <<engineVars, net, depth, out, watch, stateVars, effective>>

(* spawn_setup_monitor: the channel wakes it when the output thread sends
   its setup error or returns.  A quit it sees then is a normal shutdown. *)
WatchWakes(r) ==
  /\ watch[r] = "waiting"
  /\ out[r] \in {"ok", "err"}
  /\ watch' = [watch EXCEPT ![r] = IF quit[r] THEN "done" ELSE "alarmed"]
  /\ UNCHANGED <<engineVars, quit, net, depth, out, mon, stateVars, effective>>

(* Otherwise it records the error and tells the run to quit. *)
WatchReports(r) ==
  /\ watch[r] = "alarmed"
  /\ error' = r
  /\ quit' = [quit EXCEPT ![r] = TRUE]
  /\ watch' = [watch EXCEPT ![r] = "done"]
  /\ UNCHANGED <<engineVars, net, depth, out, mon, running, published, line,
                 effective>>

ThreadStep(r) == OutStep(r) \/ MonStep(r)
Break(r) == OutBreaks(r) \/ MonBreaks(r)
TaskStep(r) == NetQuit(r) \/ NetUnable(r) \/ DepthQuit(r) \/ WatchWakes(r) \/ WatchReports(r)

Next ==
  \/ \E c \in Asked : Start(c)
  \/ Stop \/ Close \/ Tick \/ EngineStep
  \/ \E r \in Runs : \/ TaskStep(r) \/ NetError(r) \/ DepthTick(r)
                     \/ ThreadStep(r) \/ Break(r)

(* The engine's task and the tokio tasks are scheduled, the tick keeps
   firing, and a loop that polls quit sees it. *)
Fairness ==
  /\ WF_vars(Tick)
  /\ WF_vars(EngineStep)
  /\ \A r \in Runs : /\ WF_vars(NetQuit(r) \/ NetUnable(r))
                    /\ WF_vars(WatchWakes(r) \/ WatchReports(r))

(* No device call blocks an output thread for ever. *)
ThreadFairness == \A r \in Runs : WF_vars(OutStep(r)) /\ WF_vars(MonStep(r))

Spec == Init /\ [][Next]_vars /\ Fairness /\ ThreadFairness

-----------------------------------------------------------------------------
TypeOK ==
  /\ pc \in {"idle", "begin", "bind", "publish", "mark",
            "net", "out", "mon", "clear", "closed"}
  /\ restart \in BOOLEAN /\ closing \in BOOLEAN
  /\ runs \in 0 .. MaxRuns
  /\ cur \in 0 .. runs
  /\ request \in [Runs -> Requests]
  /\ quit \in [Runs -> BOOLEAN]
  /\ net \in [Runs -> {"none", "up", "failed", "ended"}]
  /\ depth \in [Runs -> BOOLEAN]
  /\ out \in [Runs -> OutputStates]
  /\ mon \in [Runs -> OutputStates]
  /\ watch \in [Runs -> {"none", "waiting", "alarmed", "done"}]
  /\ running \in BOOLEAN
  /\ published \in {0, cur}
  /\ effective \in 0 .. runs /\ error \in 0 .. runs /\ line \in 0 .. runs

(* A run that is over leaves nothing behind that could act on the next one:
   no network task, no controller, no thread on a device.  Excepted are the
   output threads of a Start that failed to bind (it has no network task). *)
StaleRunsAreGone ==
  \A r \in 1 .. runs :
    r # cur /\ net[r] # "none" =>
      net[r] # "up" /\ ~depth[r] /\ out[r] \notin Live /\ mon[r] \notin Live

(* The target that status() shows and the callbacks wait for was seeded or
   set by the running pipeline: the controller of an earlier run never
   writes over it. *)
DepthIsOfThisRun == running => effective = cur

(* A run that takes itself down does not look like a clean Stop: by the time
   the tick may reap it, a cause is recorded or is there for the reaper to
   find (the LISTEN thread's is only logged). *)
SelfQuitIsExplained ==
  pc = "idle" /\ cur # 0 /\ quit[cur] /\ IsDone(cur) =>
    error # 0 \/ "err" \in {out[cur], mon[cur]} \/ net[cur] = "failed"

(* A run that failed or was told to quit, by whomever, is torn down: the
   engine gives it up, also when no Stop ever comes. *)
DeadRunsAreReaped ==
  \A r \in Runs : quit[r] \/ net[r] = "failed" ~> cur # r

(* "A pipeline that dies on its own (bind failure, ...) is reaped": every
   live output thread belongs to the run the engine holds or is starting.
   The code does not keep this: see the run that refutes it. *)
OutputsAreOwned ==
  \A r \in 1 .. runs :
    out[r] \in Live \/ mon[r] \in Live =>
      r = cur \/ quit[r] \/ (r = runs /\ pc = "bind")
=============================================================================
