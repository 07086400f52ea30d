--------------------------- MODULE ReceiverProofs ---------------------------
(***************************************************************************)
(* Proofs about the engine and its clients, for every number of runs and   *)
(* every set of configurations.  EngineInv is inductive for the engine's   *)
(* own steps, whoever sends its commands; CliInv adds what the command     *)
(* line knows of the run it stops.  Under both, every step is one of       *)
(* EngineContract's, or none that a client could see.                      *)
(***************************************************************************)
EXTENDS Receiver, SequenceTheorems, TLAPS

Stopping == {"net", "out", "mon", "clear"}
Starting == {"begin", "bind"}
Serving == {"publish", "mark"}
Over == {"failed", "ended"}

(* Where the engine stands: it holds a pipeline while it stops one, none
   until it serves or after it closed, and shows none as running before it
   has marked it. *)
Lifecycle ==
  /\ pc \in Stopping => cur # 0
  /\ pc \in Starting => cur = 0 /\ runs # 0
  /\ pc \in Serving => cur = runs /\ cur # 0 /\ ~running
  /\ pc = "closed" => cur = 0
  /\ restart => pc \in Stopping
  /\ running => cur # 0
  /\ cur # 0 => net[cur] # "none"

(* What status() reads is the pipeline the engine holds, but for the moments
   after it was spawned and before it is marked stopped; and a Start that got
   past its checks shows no line. *)
Shown ==
  /\ cur # 0 /\ pc \notin {"publish", "clear"} => published = cur
  /\ pc \in {"publish", "clear"} => published = 0
  /\ pc = "bind" => line = 0

(* A run whose Start is still to begin has no task, thread or flag yet; one
   that binds has no network task and no controller. *)
ToBegin(r) == r > runs \/ (r = runs /\ (restart \/ pc = "begin"))

Untouched ==
  \A r \in Runs :
    /\ ToBegin(r) => /\ ~quit[r] /\ net[r] = "none" /\ ~depth[r]
                     /\ out[r] = "none" /\ mon[r] = "none" /\ watch[r] = "none"
    /\ r = runs /\ pc = "bind" => net[r] = "none" /\ ~depth[r]

(* Each await of stop_pipeline leaves one arm of the run behind it. *)
Unwound ==
  /\ pc \in {"out", "mon", "clear"} => net[cur] \in Over
  /\ pc \in {"mon", "clear"} => out[cur] \notin Live
  /\ pc = "clear" => mon[cur] \notin Live

(* The controller lives as long as the engine has not begun to stop its run,
   and the seed of a run that starts is in place. *)
Controlled ==
  /\ \A r \in Runs : depth[r] => r = cur /\ pc \in Serving \cup {"idle"}
  /\ pc \in Serving \cup {"bind"} => effective = runs

(* Whoever told this run to quit left a trace: it is still in a thread that
   broke, or already recorded. *)
Traced(r) ==
  quit[r] => \/ error # 0
             \/ out[r] \in {"broken", "err"}
             \/ mon[r] \in {"broken", "err"}

Explained ==
  /\ pc = "idle" /\ cur # 0 => Traced(cur)
  /\ pc \in Serving \cup {"bind"} => Traced(runs)

EngineInv ==
  /\ TypeOK /\ Lifecycle /\ Shown /\ Untouched /\ Unwound /\ Controlled /\ Explained
  /\ StaleRunsAreGone /\ DepthIsOfThisRun

(* What the command line has sent and not seen taken. *)
StartPending == queue # << >> /\ Head(queue) = "start"

Sent ==
  /\ client \in {"any", "cli"}
  /\ cli \in (IF client = "any" THEN {"none"} ELSE {"wait", "stopping", "done"})
  /\ queue \in {<< >>, <<"start">>, <<"stop">>, <<"start", "stop">>}
  /\ client = "any" => queue = << >>
  /\ cli = "wait" => queue \in {<< >>, <<"start">>}
  /\ StartPending => runs = 0
  /\ client = "cli" => ~restart
  /\ late \in BOOLEAN
  /\ sawRun \in 0 .. runs

(* The run it saw when it sent Stop is the one the engine holds until the
   stop is over, and its line is there when it is not held any more, if it
   was there before the run showed as stopped. *)
Saw ==
  /\ cli # "done" /\ pc = "clear" /\ net[cur] = "ended" => line = cur
  /\ cli \in {"none", "wait"} => sawRun = 0
  /\ cli = "stopping" /\ sawRun # 0 =>
       \/ running /\ cur = sawRun
       \/ /\ ~running /\ cur = 0 /\ pc \in {"idle", "closed"}
          /\ net[sawRun] \in Over
          /\ net[sawRun] = "ended" => line = sawRun
  /\ cli = "done" /\ sawRun # 0 /\ ~late =>
       /\ ~running /\ cur = 0 /\ pc \in {"idle", "closed"}
       /\ net[sawRun] \in Over
       /\ net[sawRun] = "ended" => printed = sawRun

CliInv == Sent /\ Saw

-----------------------------------------------------------------------------
USE MaxRunsAssumption, AskedAssumption
    DEF Runs, Live, Over, Stopping, Starting, Serving, ToBegin,
        engineVars, taskVars, stateVars

(* A Start numbers the next run, and stops the one that runs first. *)
LEMMA StartKeeps ==
  ASSUME EngineInv, NEW c \in Asked, Start(c)
  PROVE  EngineInv'
<1> USE DEF EngineInv, TypeOK, Lifecycle, Untouched,
            Start, BeginStop, AbortController
<1>1. /\ restart' \in BOOLEAN /\ running' \in BOOLEAN /\ closing' \in BOOLEAN
      /\ quit' \in [Runs -> BOOLEAN] /\ depth' \in [Runs -> BOOLEAN]
      /\ request' \in [Runs -> Requests]
  OBVIOUS
<1>2. TypeOK'
  BY <1>1 DEF OutputStates
<1>3. Lifecycle' /\ Shown' /\ Untouched' /\ Unwound'
  BY DEF Shown, Unwound, Controlled
<1>4. Controlled' /\ Explained'
  BY DEF Controlled, Explained, Traced
<1>5. StaleRunsAreGone' /\ DepthIsOfThisRun'
  BY DEF StaleRunsAreGone, DepthIsOfThisRun, Unwound, Controlled
<1> QED
  BY <1>2, <1>3, <1>4, <1>5

(* A Stop, and the tick that reaps a run, begin to stop it. *)
LEMMA StopKeeps ==
  ASSUME EngineInv, Stop \/ Tick
  PROVE  EngineInv'
<1> USE DEF EngineInv, TypeOK, Lifecycle, Untouched,
            Stop, Tick, BeginStop, AbortController
<1>1. TypeOK'
  BY DEF OutputStates
<1>2. Lifecycle' /\ Shown' /\ Untouched' /\ Unwound'
  BY DEF Shown, Unwound, Controlled
<1>3. Controlled' /\ Explained'
  BY DEF Controlled, Explained, Traced
<1>4. StaleRunsAreGone' /\ DepthIsOfThisRun'
  BY DEF StaleRunsAreGone, DepthIsOfThisRun, Unwound, Controlled
<1> QED
  BY <1>1, <1>2, <1>3, <1>4

(* So does the last handle when it goes. *)
LEMMA CloseKeeps ==
  ASSUME EngineInv, Close
  PROVE  EngineInv'
<1> USE DEF EngineInv, TypeOK, Lifecycle, Untouched,
            Close, BeginStop, AbortController
<1>1. restart' \in BOOLEAN /\ running' \in BOOLEAN
  OBVIOUS
<1>2. TypeOK'
  BY <1>1 DEF OutputStates
<1>3. Lifecycle' /\ Shown' /\ Untouched' /\ Unwound'
  BY DEF Shown, Unwound, Controlled
<1>4. Controlled' /\ Explained'
  BY DEF Controlled, Explained, Traced
<1>5. StaleRunsAreGone' /\ DepthIsOfThisRun'
  BY DEF StaleRunsAreGone, DepthIsOfThisRun, Unwound, Controlled
<1> QED
  BY <1>2, <1>3, <1>4, <1>5

(* The first await ends with the network task. *)
LEMMA StopNetKeeps ==
  ASSUME EngineInv, StopNet
  PROVE  EngineInv'
<1> USE DEF EngineInv, TypeOK, Lifecycle, Untouched,
            StopNet
<1>1. TypeOK'
  BY DEF OutputStates
<1>2. Lifecycle' /\ Shown' /\ Untouched' /\ Unwound'
  BY DEF Shown, Unwound, Controlled
<1>3. Controlled' /\ Explained'
  BY DEF Controlled, Explained, Traced
<1>4. StaleRunsAreGone' /\ DepthIsOfThisRun'
  BY DEF StaleRunsAreGone, DepthIsOfThisRun, Unwound, Controlled
<1> QED
  BY <1>1, <1>2, <1>3, <1>4

(* The second ends with the output thread. *)
LEMMA StopOutputKeeps ==
  ASSUME EngineInv, StopOutput
  PROVE  EngineInv'
<1> USE DEF EngineInv, TypeOK, Lifecycle, Untouched,
            StopOutput, Reaped
<1>1. TypeOK'
  BY DEF OutputStates
<1>2. Lifecycle' /\ Shown' /\ Untouched' /\ Unwound'
  BY DEF Shown, Unwound, Controlled
<1>3. Controlled' /\ Explained'
  BY DEF Controlled, Explained, Traced
<1>4. StaleRunsAreGone' /\ DepthIsOfThisRun'
  BY DEF StaleRunsAreGone, DepthIsOfThisRun, Unwound, Controlled
<1> QED
  BY <1>1, <1>2, <1>3, <1>4

(* After the third nothing of the run is left but its line, ... *)
LEMMA StopClearsKeeps ==
  ASSUME EngineInv, StopClears
  PROVE  EngineInv'
<1> USE DEF EngineInv, TypeOK, Lifecycle, Untouched,
            StopClears
<1>1. line' \in {cur, line}
  OBVIOUS
<1>2. TypeOK'
  BY <1>1 DEF OutputStates
<1>3. Lifecycle' /\ Shown' /\ Untouched' /\ Unwound'
  BY DEF Shown, Unwound, Controlled
<1>4. Controlled' /\ Explained'
  BY DEF Controlled, Explained, Traced
<1>5. StaleRunsAreGone' /\ DepthIsOfThisRun'
  BY DEF StaleRunsAreGone, DepthIsOfThisRun, Unwound, Controlled
<1> QED
  BY <1>2, <1>3, <1>4, <1>5

(* ... and the engine lets go of it. *)
LEMMA StopDoneKeeps ==
  ASSUME EngineInv, StopDone
  PROVE  EngineInv'
<1> USE DEF EngineInv, TypeOK, Lifecycle, Untouched,
            Shown, StopDone
<1>1. restart' \in BOOLEAN /\ running' \in BOOLEAN
  OBVIOUS
<1>2. TypeOK'
  BY <1>1 DEF OutputStates
<1>3. Lifecycle' /\ Shown' /\ Untouched' /\ Unwound'
  BY DEF Shown, Unwound, Controlled
<1>4. Controlled' /\ Explained'
  BY DEF Controlled, Explained, Traced
<1>5. StaleRunsAreGone' /\ DepthIsOfThisRun'
  BY DEF StaleRunsAreGone, DepthIsOfThisRun, Unwound, Controlled
<1> QED
  BY <1>2, <1>3, <1>4, <1>5

(* A Start that fails leaves the engine idle, with its error. *)
LEMMA RefuseKeeps ==
  ASSUME EngineInv, Refuse \/ BindFails
  PROVE  EngineInv'
<1> USE DEF EngineInv, TypeOK, Lifecycle, Untouched,
            Refuse, BindFails
<1>1. restart' \in BOOLEAN /\ running' \in BOOLEAN
  OBVIOUS
<1>2. TypeOK'
  BY <1>1 DEF OutputStates
<1>3. Lifecycle' /\ Shown' /\ Untouched' /\ Unwound'
  BY DEF Shown, Unwound, Controlled
<1>4. Controlled' /\ Explained'
  BY DEF Controlled, Explained, Traced
<1>5. StaleRunsAreGone' /\ DepthIsOfThisRun'
  BY DEF StaleRunsAreGone, DepthIsOfThisRun, Unwound, Controlled
<1> QED
  BY <1>2, <1>3, <1>4, <1>5

(* A Start that begins clears the last run's error and seeds the depth. *)
LEMMA BeginKeeps ==
  ASSUME EngineInv, Begin
  PROVE  EngineInv'
<1> USE DEF EngineInv, TypeOK, Lifecycle, Untouched,
            Begin, ClearedLine, RunningWhileBinding
<1>1. restart' \in BOOLEAN /\ running' \in BOOLEAN
  OBVIOUS
<1>2. TypeOK'
  BY <1>1 DEF OutputStates
<1>3. Lifecycle' /\ Shown' /\ Untouched' /\ Unwound'
  BY DEF Shown, Unwound, Controlled
<1>4. Controlled' /\ Explained'
  BY DEF Controlled, Explained, Traced
<1>5. StaleRunsAreGone' /\ DepthIsOfThisRun'
  BY DEF StaleRunsAreGone, DepthIsOfThisRun, Unwound, Controlled
<1> QED
  BY <1>2, <1>3, <1>4, <1>5

(* Serveing makes it the engine's run; a thread may have broken by then. *)
LEMMA ServeKeeps ==
  ASSUME EngineInv, Serve
  PROVE  EngineInv'
<1> USE DEF EngineInv, TypeOK, Lifecycle, Untouched,
            Serve
<1>1. restart' \in BOOLEAN /\ running' \in BOOLEAN
  OBVIOUS
<1>2. TypeOK'
  BY <1>1 DEF OutputStates
<1>3. Lifecycle' /\ Shown' /\ Untouched' /\ Unwound'
  BY DEF Shown, Unwound, Controlled
<1>4. Controlled' /\ Explained'
  BY DEF Controlled, Explained, Traced
<1>5. StaleRunsAreGone' /\ DepthIsOfThisRun'
  BY DEF StaleRunsAreGone, DepthIsOfThisRun, Unwound, Controlled
<1> QED
  BY <1>2, <1>3, <1>4, <1>5

(* Its counters are there for status(), ... *)
LEMMA PublishKeeps ==
  ASSUME EngineInv, Publish
  PROVE  EngineInv'
<1> USE DEF EngineInv, TypeOK, Lifecycle, Untouched,
            Publish
<1>1. restart' \in BOOLEAN /\ running' \in BOOLEAN
  OBVIOUS
<1>2. TypeOK'
  BY <1>1 DEF OutputStates
<1>3. Lifecycle' /\ Shown' /\ Untouched' /\ Unwound'
  BY DEF Shown, Unwound, Controlled
<1>4. Controlled' /\ Explained'
  BY DEF Controlled, Explained, Traced
<1>5. StaleRunsAreGone' /\ DepthIsOfThisRun'
  BY DEF StaleRunsAreGone, DepthIsOfThisRun, Unwound, Controlled
<1> QED
  BY <1>2, <1>3, <1>4, <1>5

(* MarkRunninging makes it the engine's run; a thread may have broken by then. *)
LEMMA MarkRunningKeeps ==
  ASSUME EngineInv, MarkRunning
  PROVE  EngineInv'
<1> USE DEF EngineInv, TypeOK, Lifecycle, Untouched,
            MarkRunning
<1>1. restart' \in BOOLEAN /\ running' \in BOOLEAN
  OBVIOUS
<1>2. TypeOK'
  BY <1>1 DEF OutputStates
<1>3. Lifecycle' /\ Shown' /\ Untouched' /\ Unwound'
  BY DEF Shown, Unwound, Controlled
<1>4. Controlled' /\ Explained'
  BY DEF Controlled, Explained, Traced
<1>5. StaleRunsAreGone' /\ DepthIsOfThisRun'
  BY DEF StaleRunsAreGone, DepthIsOfThisRun, Unwound, Controlled
<1> QED
  BY <1>2, <1>3, <1>4, <1>5

(* A network task ends. *)
LEMMA NetEndsKeeps ==
  ASSUME EngineInv, NEW r \in Runs, NEW result \in Over, NetEnds(r, result)
  PROVE  EngineInv'
<1> USE DEF EngineInv, TypeOK, Lifecycle, Untouched,
            NetEnds
<1>1. TypeOK'
  BY DEF OutputStates
<1>2. Lifecycle' /\ Shown' /\ Untouched' /\ Unwound'
  BY DEF Shown, Unwound, Controlled
<1>3. Controlled' /\ Explained'
  BY DEF Controlled, Explained, Traced
<1>4. StaleRunsAreGone' /\ DepthIsOfThisRun'
  BY DEF StaleRunsAreGone, DepthIsOfThisRun, Unwound, Controlled
<1> QED
  BY <1>1, <1>2, <1>3, <1>4

(* A controller sets the depth, which is then its own run's, or goes. *)
LEMMA DepthKeeps ==
  ASSUME EngineInv, NEW r \in Runs, DepthTick(r) \/ DepthQuit(r)
  PROVE  EngineInv'
<1> USE DEF EngineInv, TypeOK, Lifecycle, Untouched,
            DepthTick, DepthQuit
<1>1. r \in 0 .. runs
  OBVIOUS
<1>2. TypeOK'
  BY <1>1 DEF OutputStates
<1>3. Lifecycle' /\ Shown' /\ Untouched' /\ Unwound'
  BY DEF Shown, Unwound, Controlled
<1>4. Controlled' /\ Explained'
  BY DEF Controlled, Explained, Traced
<1>5. StaleRunsAreGone' /\ DepthIsOfThisRun'
  BY DEF StaleRunsAreGone, DepthIsOfThisRun, Unwound, Controlled
<1> QED
  BY <1>2, <1>3, <1>4, <1>5

(* An output thread takes a step: one that is gone takes none. *)
LEMMA OutStepKeeps ==
  ASSUME EngineInv, NEW r \in Runs, OutStep(r)
  PROVE  EngineInv'
<1> USE DEF EngineInv, TypeOK, Lifecycle, Untouched,
            OutStep, StreamStep, SetUp, BrokenEnds,
           StreamBuilt, DeviceSetUp, LinkVerified, SourceSetUp
<1>1. restart' \in BOOLEAN /\ running' \in BOOLEAN
  OBVIOUS
<1>2. TypeOK'
  BY <1>1 DEF OutputStates
<1>3. Lifecycle' /\ Shown' /\ Untouched' /\ Unwound'
  BY DEF Shown, Unwound, Controlled
<1>4. Controlled' /\ Explained'
  BY DEF Controlled, Explained, Traced
<1>5. StaleRunsAreGone' /\ DepthIsOfThisRun'
  BY DEF StaleRunsAreGone, DepthIsOfThisRun, Unwound, Controlled
<1> QED
  BY <1>2, <1>3, <1>4, <1>5

(* So for the LISTEN thread. *)
LEMMA MonStepKeeps ==
  ASSUME EngineInv, NEW r \in Runs, MonStep(r)
  PROVE  EngineInv'
<1> USE DEF EngineInv, TypeOK, Lifecycle, Untouched,
            MonStep, StreamStep, SetUp, BrokenEnds,
           StreamBuilt, DeviceSetUp, LinkVerified, SourceSetUp
<1>1. restart' \in BOOLEAN /\ running' \in BOOLEAN
  OBVIOUS
<1>2. TypeOK'
  BY <1>1 DEF OutputStates
<1>3. Lifecycle' /\ Shown' /\ Untouched' /\ Unwound'
  BY DEF Shown, Unwound, Controlled
<1>4. Controlled' /\ Explained'
  BY DEF Controlled, Explained, Traced
<1>5. StaleRunsAreGone' /\ DepthIsOfThisRun'
  BY DEF StaleRunsAreGone, DepthIsOfThisRun, Unwound, Controlled
<1> QED
  BY <1>2, <1>3, <1>4, <1>5

(* A stream breaks: the flag is set, and the thread is the trace. *)
LEMMA BreakKeeps ==
  ASSUME EngineInv, NEW r \in Runs, Break(r)
  PROVE  EngineInv'
<1> USE DEF EngineInv, TypeOK, Lifecycle, Untouched,
            Break, OutBreaks, MonBreaks
<1>1. TypeOK'
  BY DEF OutputStates
<1>2. Lifecycle' /\ Shown' /\ Untouched' /\ Unwound'
  BY DEF Shown, Unwound, Controlled
<1>3. Controlled' /\ Explained'
  BY DEF Controlled, Explained, Traced
<1>4. StaleRunsAreGone' /\ DepthIsOfThisRun'
  BY DEF StaleRunsAreGone, DepthIsOfThisRun, Unwound, Controlled
<1> QED
  BY <1>1, <1>2, <1>3, <1>4

(* The setup monitor wakes, or records the error and sets the flag. *)
LEMMA WatchKeeps ==
  ASSUME EngineInv, NEW r \in Runs, WatchWakes(r) \/ WatchReports(r)
  PROVE  EngineInv'
<1> USE DEF EngineInv, TypeOK, Lifecycle, Untouched,
            WatchWakes, WatchReports
<1>1. r \in 0 .. runs
  OBVIOUS
<1>2. TypeOK'
  <2>1. /\ error' \in 0 .. runs
        /\ watch' \in [Runs -> {"none", "waiting", "alarmed", "done"}]
        /\ quit' \in [Runs -> BOOLEAN]
    BY <1>1
  <2>2. UNCHANGED <<engineVars, net, depth, out, mon, running, published, line,
                    effective>>
    BY DEF engineVars, stateVars
  <2> QED
    BY <2>1, <2>2 DEF OutputStates, engineVars
<1>3. Lifecycle' /\ Shown' /\ Untouched' /\ Unwound'
  BY DEF Shown, Unwound, Controlled
<1>4. Controlled' /\ Explained'
  BY DEF Controlled, Explained, Traced
<1>5. StaleRunsAreGone' /\ DepthIsOfThisRun'
  BY DEF StaleRunsAreGone, DepthIsOfThisRun, Unwound, Controlled
<1> QED
  BY <1>2, <1>3, <1>4, <1>5

(* Before the first Start there is nothing to hold. *)
LEMMA EngineInit == Init => EngineInv
<1> SUFFICES ASSUME Init PROVE EngineInv
  OBVIOUS
<1> USE DEF Init
<1>1. Refused \in Requests
  BY DEF Requests
<1>2. TypeOK
  <2>1. /\ quit \in [Runs -> BOOLEAN] /\ depth \in [Runs -> BOOLEAN]
        /\ restart \in BOOLEAN /\ closing \in BOOLEAN /\ running \in BOOLEAN
    OBVIOUS
  <2> QED
    BY <1>1, <2>1 DEF TypeOK, OutputStates
<1>3. Lifecycle /\ Shown /\ Untouched /\ Unwound /\ Controlled /\ Explained
  BY DEF Lifecycle, Shown, Untouched, Unwound, Controlled, Explained
<1>4. StaleRunsAreGone /\ DepthIsOfThisRun
  BY DEF StaleRunsAreGone, DepthIsOfThisRun
<1> QED
  BY <1>2, <1>3, <1>4 DEF EngineInv

(* Every step of the engine and its tasks keeps the invariant, ... *)
LEMMA EngineKeeps ==
  ASSUME EngineInv, [Next]_vars
  PROVE  EngineInv'
<1>1. ASSUME NEW c \in Asked, Start(c) PROVE EngineInv'
  BY <1>1, StartKeeps
<1>2. CASE Stop \/ Tick
  BY <1>2, StopKeeps
<1>3. CASE Close
  BY <1>3, CloseKeeps
<1>4. CASE EngineStep
  BY <1>4, StopNetKeeps, StopOutputKeeps, StopClearsKeeps, StopDoneKeeps,
     RefuseKeeps, BeginKeeps, ServeKeeps, PublishKeeps, MarkRunningKeeps
     DEF EngineStep
<1>5. ASSUME NEW r \in Runs, NetQuit(r) \/ NetUnable(r) \/ NetError(r)
      PROVE  EngineInv'
  <2>1. NetEnds(r, "ended") \/ NetEnds(r, "failed")
    BY <1>5 DEF NetQuit, NetUnable, NetError
  <2>2. "ended" \in Over /\ "failed" \in Over
    OBVIOUS
  <2> QED
    BY <2>1, <2>2, NetEndsKeeps
<1>6. ASSUME NEW r \in Runs, DepthTick(r) \/ DepthQuit(r)
      PROVE  EngineInv'
  BY <1>6, DepthKeeps
<1>7. ASSUME NEW r \in Runs, ThreadStep(r) PROVE EngineInv'
  BY <1>7, OutStepKeeps, MonStepKeeps DEF ThreadStep
<1>8. ASSUME NEW r \in Runs, Break(r) PROVE EngineInv'
  BY <1>8, BreakKeeps
<1>9. ASSUME NEW r \in Runs, WatchWakes(r) \/ WatchReports(r)
      PROVE  EngineInv'
  BY <1>9, WatchKeeps
<1>10. CASE UNCHANGED vars
  BY <1>10 DEF vars, EngineInv, TypeOK, Lifecycle, Shown, Untouched, Unwound,
               Controlled, Explained, Traced, StaleRunsAreGone,
               DepthIsOfThisRun
<1> QED
  BY <1>1, <1>2, <1>3, <1>4, <1>5, <1>6, <1>7, <1>8, <1>9, <1>10
     DEF Next, TaskStep

(* ... and so does a client that takes the stats line. *)
LEMMA FinishKeeps ==
  ASSUME EngineInv, Finish
  PROVE  EngineInv'
BY DEF Finish, EngineInv, TypeOK, Lifecycle, Shown, Untouched, Unwound,
       Controlled, Explained, Traced, StaleRunsAreGone, DepthIsOfThisRun

(* Any other step of the receiver is a step of the engine or none. *)
LEMMA ReceiverStep ==
  ASSUME ReceiverNext, ~Finish
  PROVE  [Next]_vars
BY DEF ReceiverNext, AnyCommand, TakeStart, TakeStop, CtrlC, EarlyStop,
       SendStop, HandleDropped, EngineItself, Next

-----------------------------------------------------------------------------
(* The command line.  A network task that ended stays as it ended. *)
LEMMA OverIsFinal ==
  ASSUME EngineInv, [Next]_vars, NEW r \in 1 .. runs, net[r] \in Over
  PROVE  net'[r] = net[r]
<1> USE DEF EngineInv, TypeOK, Untouched
<1>1. CASE Serve
  BY <1>1 DEF Serve
<1>2. CASE Begin
  BY <1>2 DEF Begin
<1>3. ASSUME NEW q \in Runs, NEW result, NetEnds(q, result)
      PROVE  net'[r] = net[r]
  BY <1>3 DEF NetEnds
<1>4. CASE UNCHANGED net
  BY <1>4
<1> QED
  BY <1>1, <1>2, <1>3, <1>4
     DEF Next, vars, Start, Stop, Close, Tick, EngineStep, StopNet, StopOutput,
         StopClears, StopDone, Refuse, BindFails, Publish, MarkRunning, TaskStep, NetQuit, NetUnable, NetError,
         DepthTick, DepthQuit, ThreadStep, OutStep, MonStep, Break, OutBreaks,
         MonBreaks, WatchWakes, WatchReports

(* At first only the command line's Start is on its way. *)
LEMMA CliStart == ReceiverInit => CliInv
<1> SUFFICES ASSUME ReceiverInit PROVE CliInv
  OBVIOUS
<1>1. /\ pc = "idle" /\ runs = 0 /\ ~restart /\ sawRun = 0 /\ late \in BOOLEAN
      /\ client \in {"any", "cli"}
      /\ cli = IF client = "cli" THEN "wait" ELSE "none"
      /\ queue = IF client = "cli" THEN <<"start">> ELSE << >>
  BY DEF ReceiverInit, Init, CliInit
<1>2. Sent
  <2>1. CASE client = "any"
    BY <1>1, <2>1 DEF Sent, StartPending
  <2>2. CASE client = "cli"
    BY <1>1, <2>2 DEF Sent, StartPending
  <2> QED
    BY <1>1, <2>1, <2>2
<1>3. Saw
  BY <1>1 DEF Saw
<1> QED
  BY <1>2, <1>3 DEF CliInv

(* The second command is queued behind the first. *)
LEMMA TwoCommands == Append(<<"start">>, "stop") = <<"start", "stop">>
<1> DEFINE sent == Append(<<"start">>, "stop")
           both == <<"start", "stop">>
<1>1. /\ sent \in Seq({"start", "stop"}) /\ both \in Seq({"start", "stop"})
      /\ Len(sent) = 2 /\ Len(both) = 2
      /\ sent[1] = both[1] /\ sent[2] = both[2]
  OBVIOUS
<1> HIDE DEF sent, both
<1>2. sent = both
  BY <1>1, SeqEqual
<1> QED
  BY <1>2 DEF sent, both

(* Commands that anyone sends. *)
LEMMA AnyCommandKeeps ==
  ASSUME EngineInv, CliInv, AnyCommand
  PROVE  CliInv'
<1> USE DEF CliInv, Sent, Saw, StartPending
<1>1. /\ client = "any" /\ cli = "none" /\ queue = << >> /\ sawRun = 0
      /\ UNCHANGED cliVars
  BY DEF AnyCommand
<1>2. runs' \in Nat /\ pc' # "clear"
  BY DEF AnyCommand, Start, Stop, Close, BeginStop, EngineInv, TypeOK
<1> QED
  BY <1>1, <1>2 DEF cliVars

(* The one Start is taken before any run. *)
LEMMA TakeStartKeeps ==
  ASSUME EngineInv, CliInv, TakeStart
  PROVE  CliInv'
<1>1. PICK c \in Asked : Start(c)
  BY DEF TakeStart
<1>2. /\ StartPending
      /\ queue' = Tail(queue)
      /\ UNCHANGED <<client, cli, sawRun, late, printed>>
  BY DEF TakeStart, StartPending
<1>3. \/ queue = <<"start">> /\ queue' = << >>
      \/ queue = <<"start", "stop">> /\ queue' = <<"stop">> /\ cli # "wait"
  <2>1. CASE queue = << >> \/ queue = <<"stop">>
    BY <1>2, <2>1 DEF StartPending
  <2>2. CASE queue = <<"start">>
    BY <1>2, <2>2
  <2>3. CASE queue = <<"start", "stop">>
    BY <1>2, <2>3 DEF CliInv, Sent
  <2> QED
    BY <2>1, <2>2, <2>3 DEF CliInv, Sent
<1>4. runs = 0 /\ cur = 0 /\ sawRun = 0
  BY <1>2 DEF CliInv, Sent, EngineInv, TypeOK
<1>5. runs' = 1 /\ restart' = restart /\ pc' = "begin"
  BY <1>1, <1>4 DEF Start
<1>6. Sent'
  BY <1>2, <1>3, <1>4, <1>5 DEF CliInv, Sent, StartPending
<1>7. Saw'
  BY <1>2, <1>4, <1>5 DEF Saw
<1> QED
  BY <1>6, <1>7 DEF CliInv

(* A Stop that is taken begins the stop, or finds nothing to stop. *)
LEMMA TakeStopKeeps ==
  ASSUME EngineInv, CliInv, TakeStop
  PROVE  CliInv'
<1>1. /\ queue = <<"stop">>
      /\ queue' = << >>
      /\ UNCHANGED <<client, cli, sawRun, late, printed>>
  BY DEF TakeStop, CliInv, Sent
<1>2. /\ UNCHANGED <<restart, runs, running, cur, net, line>>
      /\ \/ pc' = "net" /\ cur # 0
         \/ UNCHANGED pc
  BY DEF TakeStop, Stop, BeginStop, vars, engineVars, stateVars, taskVars
<1> QED
  BY <1>1, <1>2 DEF CliInv, Sent, Saw, StartPending, EngineInv, Lifecycle

(* Stop is sent: the run that shows as running is the one the engine holds. *)
LEMMA SendStopKeeps ==
  ASSUME EngineInv, CliInv, SendStop
  PROVE  CliInv'
<1>1. /\ cli = "wait" /\ cli' = "stopping" /\ client = "cli"
      /\ sawRun' = (IF running THEN cur ELSE 0)
      /\ UNCHANGED <<vars, client, late, printed>>
  BY DEF SendStop, CliInv, Sent
<1>2. \/ queue = << >> /\ queue' = <<"stop">>
      \/ queue = <<"start">> /\ queue' = <<"start", "stop">>
  <2>1. queue = << >> \/ queue = <<"start">>
    BY DEF SendStop, CliInv, Sent
  <2>2. queue' = Append(queue, "stop")
    BY DEF SendStop
  <2>3. Append(<< >>, "stop") = <<"stop">>
    OBVIOUS
  <2> QED
    BY <2>1, <2>2, <2>3, TwoCommands
<1>3. sawRun' \in 0 .. runs'
  BY <1>1 DEF EngineInv, TypeOK, vars, engineVars
<1>4. Sent'
  BY <1>1, <1>2, <1>3 DEF CliInv, Sent, StartPending, vars, engineVars
<1>5. Saw'
  BY <1>1 DEF CliInv, Saw, vars, engineVars, taskVars, stateVars
<1> QED
  BY <1>4, <1>5 DEF CliInv

(* The wait ends, and the line there is the one of the run it stopped. *)
LEMMA FinishKeepsCli ==
  ASSUME EngineInv, CliInv, Finish
  PROVE  CliInv'
<1>1. /\ cli = "stopping" /\ cli' = "done"
      /\ IF late' THEN running ELSE ~running
      /\ late' \in BOOLEAN /\ printed' = line
      /\ UNCHANGED <<engineVars, net, running, client, queue, sawRun>>
  BY DEF Finish, StopIsSeen, taskVars
<1>2. Sent'
  BY <1>1 DEF CliInv, Sent, StartPending, engineVars
<1>3. Saw'
  BY <1>1 DEF CliInv, Saw, engineVars
<1> QED
  BY <1>2, <1>3 DEF CliInv

(* The handle goes after the run was printed. *)
LEMMA HandleDroppedKeeps ==
  ASSUME EngineInv, CliInv, HandleDropped
  PROVE  CliInv'
BY DEF HandleDropped, Close, BeginStop, stateVars, cliVars, CliInv, Sent, Saw,
       StartPending, EngineInv, Lifecycle

(* The engine ends the run it holds, and with it the wait for the stop. *)
LEMMA EngineItselfKeeps ==
  ASSUME EngineInv, CliInv, EngineItself
  PROVE  CliInv'
<1> USE DEF CliInv, Sent, Saw, StartPending
<1>1. UNCHANGED cliVars
  BY DEF EngineItself
<1>2. CASE StopClears \/ StopDone
  BY <1>1, <1>2 DEF StopClears, StopDone, cliVars, taskVars, EngineInv,
                    Unwound, Lifecycle
<1>3. CASE Refuse \/ Begin \/ BindFails \/ Serve \/ Publish \/ MarkRunning
  BY <1>1, <1>3 DEF Refuse, Begin, BindFails, Serve, Publish, MarkRunning,
                    cliVars, taskVars, EngineInv, Lifecycle
<1>4. CASE Tick \/ StopNet \/ StopOutput
  BY <1>1, <1>4 DEF Tick, BeginStop, StopNet, StopOutput, cliVars, taskVars,
                    stateVars, EngineInv, Lifecycle
<1>5. CASE UNCHANGED <<pc, restart, cur, runs, running, line>>
  <2>1. sawRun # 0 /\ net[sawRun] \in Over => net'[sawRun] = net[sawRun]
    <3>1. [Next]_vars
      BY DEF EngineItself, Next
    <3> QED
      BY <3>1, OverIsFinal DEF EngineInv, TypeOK
  <2>2. pc = "clear" => net'[cur] = net[cur]
    <3>1. pc = "clear" => cur \in 1 .. runs /\ net[cur] \in Over
      BY DEF EngineInv, TypeOK, Lifecycle, Unwound
    <3>2. [Next]_vars
      BY DEF EngineItself, Next
    <3> QED
      BY <3>1, <3>2, OverIsFinal
  <2> QED
    BY <1>1, <1>5, <2>1, <2>2 DEF cliVars
<1> QED
  BY <1>2, <1>3, <1>4, <1>5
     DEF EngineItself, EngineStep, TaskStep, NetQuit, NetUnable, NetError,
         NetEnds, DepthTick, DepthQuit, ThreadStep, OutStep, MonStep, Break,
         OutBreaks, MonBreaks, WatchWakes, WatchReports

-----------------------------------------------------------------------------
(* What holds of the engine and of the command line, together. *)
ReceiverInv == EngineInv /\ CliInv

(* It is an invariant of the engine with its client. *)
LEMMA ReceiverInvariant == ReceiverSpec => []ReceiverInv
<1>1. ReceiverInit => ReceiverInv
  BY EngineInit, CliStart DEF ReceiverInit, ReceiverInv
<1>2. ReceiverInv /\ [ReceiverNext]_<<vars, cliVars>> => ReceiverInv'
  <2> SUFFICES ASSUME ReceiverInv, [ReceiverNext]_<<vars, cliVars>>
               PROVE  EngineInv' /\ CliInv'
    BY DEF ReceiverInv
  <2> USE DEF ReceiverInv
  <2>1. EngineInv'
    BY EngineKeeps, FinishKeeps, ReceiverStep
  <2>2. CASE UNCHANGED <<vars, cliVars>>
    <3>1. /\ UNCHANGED <<pc, restart, cur, runs, net, running, line>>
          /\ UNCHANGED <<client, cli, queue, sawRun, late, printed>>
      BY <2>2 DEF cliVars, vars, engineVars, taskVars, stateVars
    <3>2. Sent' /\ Saw'
      BY <3>1 DEF CliInv, Sent, Saw, StartPending
    <3> QED
      BY <2>1, <3>2 DEF CliInv
  <2>3. CASE ReceiverNext
    <3>1. CtrlC \/ EarlyStop => SendStop
      BY DEF CtrlC, EarlyStop
    <3>2. EngineInv /\ CliInv
      OBVIOUS
    <3> QED
      BY <2>1, <2>3, <3>1, <3>2, AnyCommandKeeps, TakeStartKeeps, TakeStopKeeps,
         SendStopKeeps, FinishKeepsCli, HandleDroppedKeeps, EngineItselfKeeps
         DEF ReceiverNext
  <2> QED
    BY <2>1, <2>2, <2>3
<1> QED
  BY <1>1, <1>2, PTL DEF ReceiverSpec

(* The state the engine, its tasks and status() share stays in its bounds;
   in particular what is published is the pipeline the engine holds, or
   nothing. *)
THEOREM TypeCorrect == ReceiverSpec => []TypeOK
<1>1. ReceiverInv => TypeOK
  BY DEF ReceiverInv, EngineInv
<1> QED
  BY <1>1, ReceiverInvariant, PTL

(* A run that is over has no network task, controller, output thread or
   LISTEN thread that could act on the next one. *)
THEOREM RunsEndWhole == ReceiverSpec => []StaleRunsAreGone
<1>1. ReceiverInv => StaleRunsAreGone
  BY DEF ReceiverInv, EngineInv
<1> QED
  BY <1>1, ReceiverInvariant, PTL

(* The depth target in force while a run shows as running is its own. *)
THEOREM DepthIsOwn == ReceiverSpec => []DepthIsOfThisRun
<1>1. ReceiverInv => DepthIsOfThisRun
  BY DEF ReceiverInv, EngineInv
<1> QED
  BY <1>1, ReceiverInvariant, PTL

(* A run that took itself down has its cause recorded, or left where the
   reaper finds it. *)
THEOREM NoUnexplainedEnd == ReceiverSpec => []SelfQuitIsExplained
<1>1. ReceiverInv => SelfQuitIsExplained
  BY DEF ReceiverInv, EngineInv, TypeOK, Explained, Traced, IsDone,
         SelfQuitIsExplained
<1> QED
  BY <1>1, ReceiverInvariant, PTL

(* The command line that stops a running engine, and is not kept waiting,
   prints the line of that run. *)
THEOREM CliPrintsItsRun == ReceiverSpec => []StatsLineIsPrinted
<1>1. ReceiverInv => StatsLineIsPrinted
  BY DEF ReceiverInv, CliInv, Saw, StatsLineIsPrinted
<1> QED
  BY <1>1, ReceiverInvariant, PTL

-----------------------------------------------------------------------------
(* The contract.  No configuration is taken for none. *)
LEMMA NoConfigIsNone == NoConfig \notin Requests
BY DEF NoConfig, Requests, Refused

(* Both start idle, with nothing to show. *)
LEMMA ContractInit == ReceiverInit => Contract!Init
BY DEF ReceiverInit, Init, Contract!Init

(* A command the engine takes is that command of the contract, and a run
   reaped by the tick ends like one that was stopped. *)
LEMMA CommandsSimulate ==
  ASSUME EngineInv, (\E c \in Asked : Start(c)) \/ Stop \/ Tick \/ Close
  PROVE  Contract!Next
<1> USE NoConfigIsNone DEF EngineInv, TypeOK, Lifecycle, stateVars, BeginStop
<1>1. ASSUME NEW c \in Asked, Start(c) PROVE Contract!Next
  <2>1. Contract!Start(c)
    BY <1>1 DEF Start, Contract!Start
  <2> QED
    BY <2>1 DEF Contract!Next
<1>2. CASE Stop \/ Tick
  <2>1. Contract!Stop
    BY <1>2 DEF Stop, Tick, Contract!Stop
  <2> QED
    BY <2>1 DEF Contract!Next
<1>3. CASE Close
  <2>1. Contract!Hangup
    BY <1>3 DEF Close, Contract!Hangup
  <2> QED
    BY <2>1 DEF Contract!Next
<1> QED
  BY <1>1, <1>2, <1>3

(* The end of stop_pipeline and each step of start_pipeline are what the
   contract calls an advance; the two awaits before only record errors. *)
LEMMA EngineStepSimulates ==
  ASSUME EngineInv, EngineStep
  PROVE  [Contract!Next]_(Contract!contractVars)
<1> USE NoConfigIsNone DEF EngineInv, TypeOK, Lifecycle, taskVars
<1>1. CASE StopNet \/ StopOutput
  <2>1. Contract!Complains \/ UNCHANGED Contract!contractVars
    BY <1>1 DEF StopNet, StopOutput, Contract!Complains, Contract!contractVars
  <2> QED
    BY <2>1 DEF Contract!Next
<1>2. CASE StopClears
  <2>1. /\ pc = "mon" /\ pc' = "clear"
        /\ cur # 0 /\ published = cur /\ published' = 0
        /\ UNCHANGED <<restart, closing, cur, runs, request, running, error>>
        /\ line' \in {cur, line}
    BY <1>2 DEF StopClears, Shown
  <2>2. (line' # 0) \in {(line # 0), TRUE}
    BY <2>1
  <2>3. Contract!Hides
    BY <2>1, <2>2 DEF Contract!Hides
  <2> QED
    BY <2>3 DEF Contract!Next, Contract!Advances
<1>3. CASE StopDone
  <2>1. cur # 0 /\ cur' = 0 /\ running' = FALSE
        /\ restart' = FALSE
        /\ pc = "clear"
        /\ pc' = (IF restart THEN "begin"
                  ELSE IF closing THEN "closed" ELSE "idle")
        /\ published = 0
        /\ UNCHANGED <<closing, runs, request, published, error, line>>
    BY <1>3 DEF StopDone, Shown
  <2>2. request[runs] # NoConfig \/ ~restart
    BY <2>1
  <2>3. Contract!Stopped
    BY <2>1, <2>2 DEF Contract!Stopped
  <2> QED
    BY <2>3 DEF Contract!Next, Contract!Advances
<1>4. CASE Refuse
  <2>1. /\ pc = "begin" /\ pc' = "idle"
        /\ ~restart /\ ~restart' /\ cur = 0 /\ cur' = 0
        /\ error' # 0 /\ running = FALSE /\ running' = FALSE
        /\ UNCHANGED <<closing, published, line>>
    BY <1>4 DEF Refuse
  <2>2. Contract!Refuses
    BY <2>1 DEF Contract!Refuses
  <2> QED
    BY <2>2 DEF Contract!Next, Contract!Advances
<1>5. CASE BindFails
  <2>1. /\ pc = "bind" /\ pc' = "idle"
        /\ ~restart /\ ~restart' /\ cur = 0 /\ cur' = 0
        /\ error' # 0 /\ running = FALSE /\ running' = FALSE
        /\ line = 0
        /\ UNCHANGED <<closing, published, line>>
    BY <1>5 DEF BindFails, Shown
  <2>2. Contract!Fails
    BY <2>1 DEF Contract!Fails
  <2> QED
    BY <2>2 DEF Contract!Next, Contract!Advances
<1>6. CASE Begin
  <2>1. Contract!Begins
    BY <1>6 DEF Begin, ClearedLine, RunningWhileBinding, Contract!Begins
  <2> QED
    BY <2>1 DEF Contract!Next, Contract!Advances
<1>7. CASE Serve
  <2>1. Contract!Serves
    BY <1>7 DEF Serve, Contract!Serves
  <2> QED
    BY <2>1 DEF Contract!Next, Contract!Advances
<1>8. CASE Publish
  <2>1. Contract!Publishes
    BY <1>8 DEF Publish, Shown, Contract!Publishes
  <2> QED
    BY <2>1 DEF Contract!Next, Contract!Advances
<1>9. CASE MarkRunning
  <2>1. Contract!Runs
    BY <1>9 DEF MarkRunning, Shown, Contract!Runs
  <2> QED
    BY <2>1 DEF Contract!Next, Contract!Advances
<1> QED
  BY <1>1, <1>2, <1>3, <1>4, <1>5, <1>6, <1>7, <1>8, <1>9 DEF EngineStep

(* The tasks and threads are hidden behind it, but for the error that the
   setup monitor records. *)
LEMMA TasksSimulate ==
  ASSUME EngineInv, NEW r \in Runs,
         TaskStep(r) \/ NetError(r) \/ DepthTick(r) \/ ThreadStep(r) \/ Break(r)
  PROVE  [Contract!Next]_(Contract!contractVars)
<1>1. CASE WatchReports(r)
  <2>1. Contract!Complains
    BY <1>1 DEF WatchReports, engineVars, Contract!Complains
  <2> QED
    BY <2>1 DEF Contract!Next
<1>2. CASE UNCHANGED <<engineVars, stateVars>>
  BY <1>2 DEF engineVars, stateVars, Contract!contractVars
<1> QED
  BY <1>1, <1>2
     DEF TaskStep, NetQuit, NetUnable, NetError, NetEnds, DepthTick, DepthQuit,
         ThreadStep, OutStep, MonStep, Break, OutBreaks, MonBreaks, WatchWakes

(* The engine, with any client, keeps its contract step by step: one command
   at a time, running only between a successful start and the end of its
   stop, an error kept until the next Start gets past its checks. *)
THEOREM KeepsContract ==
  ReceiverSpec =>
    Contract!Init /\ [][Contract!Next]_(Contract!contractVars)
<1>1. ReceiverInv /\ [ReceiverNext]_<<vars, cliVars>>
        => [Contract!Next]_(Contract!contractVars)
  <2> SUFFICES ASSUME EngineInv, [ReceiverNext]_<<vars, cliVars>>
               PROVE  [Contract!Next]_(Contract!contractVars)
    BY DEF ReceiverInv
  <2>1. CASE Finish
    <3>1. Contract!TakeLine
      BY <2>1 DEF Finish, engineVars, Contract!TakeLine
    <3> QED
      BY <3>1 DEF Contract!Next
  <2>2. CASE [Next]_vars
    <3>1. CASE (\E c \in Asked : Start(c)) \/ Stop \/ Tick \/ Close
      BY <3>1, CommandsSimulate
    <3>2. CASE EngineStep
      BY <3>2, EngineStepSimulates
    <3>3. ASSUME NEW r \in Runs,
                 TaskStep(r) \/ NetError(r) \/ DepthTick(r) \/ ThreadStep(r)
                   \/ Break(r)
          PROVE  [Contract!Next]_(Contract!contractVars)
      BY <3>3, TasksSimulate
    <3>4. CASE UNCHANGED vars
      BY <3>4 DEF vars, engineVars, stateVars, Contract!contractVars
    <3> QED
      BY <2>2, <3>1, <3>2, <3>3, <3>4 DEF Next
  <2> QED
    BY <2>1, <2>2, ReceiverStep DEF vars
<1> QED
  BY <1>1, ContractInit, ReceiverInvariant, PTL DEF ReceiverSpec
=============================================================================
