------------------------------ MODULE Receiver ------------------------------
(***************************************************************************)
(* The engine with a client: either anything that holds a handle (Engine's *)
(* own commands), or the command-line receiver (openay-server/src/main.rs),*)
(* which sends one Start, waits for Ctrl-C or for the end of the engine's  *)
(* run, sends Stop, waits for the stop and prints the stats line.          *)
(*                                                                         *)
(* The handle's channel is a queue here: a command is sent long before the *)
(* engine takes it.                                                        *)
(***************************************************************************)
EXTENDS Engine, Sequences

VARIABLES
  client,    \* "any" or "cli"
  cli,       \* main: "wait", "stopping", "done"; "none" for another client
  queue,     \* its commands that the engine has not taken yet
  sawRun,    \* history: the run that showed as running when it sent Stop, or 0
  late,      \* its wait for the stop took 5 s
  printed    \* the run whose stats line it printed, 0 for none

cliVars == <<client, cli, queue, sawRun, late, printed>>

CliInit ==
  /\ client \in {"any", "cli"}
  /\ cli = IF client = "cli" THEN "wait" ELSE "none"
  /\ queue = IF client = "cli" THEN <<"start">> ELSE << >>
  /\ sawRun = 0 /\ late = FALSE /\ printed = 0

ReceiverInit == Init /\ CliInit

-----------------------------------------------------------------------------
AnyCommand ==
  /\ client = "any"
  /\ (\E c \in Asked : Start(c)) \/ Stop \/ Close
  /\ UNCHANGED cliVars

(* The command line is validated before the engine is spawned. *)
TakeStart ==
  /\ queue # << >> /\ Head(queue) = "start"
  /\ \E c \in Asked \ {Refused} : Start(c)
  /\ queue' = Tail(queue)
  /\ UNCHANGED <<client, cli, sawRun, late, printed>>

(* A Stop when nothing runs is nothing. *)
TakeStop ==
  /\ queue # << >> /\ Head(queue) = "stop"
  /\ Stop \/ (pc = "idle" /\ cur = 0 /\ UNCHANGED vars)
  /\ queue' = Tail(queue)
  /\ UNCHANGED <<client, cli, sawRun, late, printed>>

-----------------------------------------------------------------------------
SendStop ==
  /\ cli = "wait"
  /\ cli' = "stopping"
  /\ queue' = Append(queue, "stop")
  /\ sawRun' = IF running THEN cur ELSE 0
  /\ UNCHANGED <<vars, client, late, printed>>

CtrlC == SendStop

(* The 100 ms poll: an engine that stopped early has an error to show. *)
EarlyStop == ~running /\ error # 0 /\ SendStop

(* Mutation: the line is taken without waiting for the end of the stop. *)
AnyTime == TRUE

StopIsSeen == ~running

(* The wait for the stop ends with it or after 5 s; the line is taken. *)
Finish ==
  /\ cli = "stopping"
  /\ \/ StopIsSeen /\ late' = FALSE
     \/ running /\ late' = TRUE
  /\ printed' = line
  /\ line' = 0
  /\ cli' = "done"
  /\ UNCHANGED <<engineVars, quit, taskVars, running, published, error,
                 effective, client, queue, sawRun>>

(* The process may be gone by now; what the engine still does is seen by
   nobody. *)
HandleDropped ==
  /\ cli = "done"
  /\ Close
  /\ UNCHANGED cliVars

EngineItself ==
  /\ \/ Tick \/ EngineStep
     \/ \E r \in Runs : \/ TaskStep(r) \/ NetError(r) \/ DepthTick(r)
                        \/ ThreadStep(r) \/ Break(r)
  /\ UNCHANGED cliVars

ReceiverNext ==
  \/ AnyCommand \/ TakeStart \/ TakeStop
  \/ CtrlC \/ EarlyStop \/ Finish \/ HandleDropped
  \/ EngineItself

(* The engine takes what is sent, and the CLI keeps polling. *)
CliFairness ==
  LET all == <<vars, cliVars>>
  IN  WF_all(TakeStart \/ TakeStop) /\ WF_all(EarlyStop) /\ WF_all(Finish)

ReceiverSpec ==
  /\ ReceiverInit /\ [][ReceiverNext]_<<vars, cliVars>>
  /\ Fairness /\ ThreadFairness /\ CliFairness

-----------------------------------------------------------------------------
NoConfig == [transport |-> "none"]

(* The engine keeps its contract with any client. *)
Contract == INSTANCE EngineContract WITH
  Configs <- Requests,
  None    <- NoConfig,
  phase   <- CASE pc \in {"net", "out", "mon", "clear"} -> "stopping"
               [] pc = "begin" -> "starting"
               [] pc = "bind"  -> "binding"
               [] pc \in {"publish", "mark"} -> "serving"
               [] OTHER -> pc,
  asked   <- IF restart \/ pc \in {"begin", "bind"} THEN request[runs] ELSE NoConfig,
  active  <- IF cur = 0 THEN NoConfig ELSE request[cur],
  shown   <- published # 0,
  failed  <- error # 0,
  line    <- line # 0

(* Each step of the engine is one that EngineContract allows, or none that a
   client could see; and no command keeps it for ever. *)
ImplementsContract == Contract!Spec

(* "Cleared at the beginning of every Start, so a failed start never surfaces
   a stale line" (lib.rs:631, and 962 of start_pipeline): a Start that failed
   leaves no line of a run before it.  Not kept, and in no run: a Start that
   is refused (969-975) returns before the clears (976-977), so the line of
   the last run is still there to take, under the error of the new Start. *)
FailedStartShowsNoLine ==
  pc = "idle" /\ cur = 0 /\ runs # 0 /\ error = runs /\ net[runs] = "none" =>
    line = 0

(* "preserves ... stats-line format, and exit behavior": a CLI that stops a
   running engine and is not kept waiting for five seconds prints the line of
   the run it stopped, if that run's network task ended well. *)
StatsLineIsPrinted ==
  cli = "done" /\ sawRun # 0 /\ ~late /\ net[sawRun] = "ended" =>
    printed = sawRun

(* "Wait for Ctrl-C, or for an early engine stop": a run that is over ends
   the wait.  The code does not keep this: see the run that refutes it. *)
EarlyStopEndsTheWait ==
  client = "cli" /\ runs = 1 /\ cur = 0 /\ pc = "idle" ~> cli # "wait"
=============================================================================
