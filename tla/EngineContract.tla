--------------------------- MODULE EngineContract ---------------------------
(***************************************************************************)
(* What the engine promises a client of its handle (EngineHandle and the   *)
(* commands in openay-server/src/lib.rs): one command at a time, a Start   *)
(* stops what runs first, status() says running only between a successful  *)
(* start and the end of its stop, and not before it can show the run's own *)
(* counters; a run may end by itself; an error and a stats line are kept   *)
(* until the next Start gets past its checks.                              *)
(*                                                                         *)
(* Engine implements this; Gui is built on it.                             *)
(***************************************************************************)
CONSTANTS
  Configs,   \* engine configurations
  None

ASSUME NoneAssumption == None \notin Configs

VARIABLES
  phase,     \* "idle", "stopping", "starting", "binding", "serving", "closed"
  asked,     \* the configuration of the Start being handled
  active,    \* the configuration of the pipeline that takes packets
  shown,     \* status() has that pipeline's counters
  running,   \* status().running
  failed,    \* last_error is there
  line,      \* last_stats_line is there
  closing    \* every handle is dropped

contractVars == <<phase, asked, active, shown, running, failed, line,
                  closing>>

Init ==
  /\ phase = "idle" /\ asked = None /\ active = None /\ shown = FALSE
  /\ running = FALSE /\ failed = FALSE /\ line = FALSE /\ closing = FALSE

-----------------------------------------------------------------------------
(* The commands. *)
Start(c) ==
  /\ phase = "idle"
  /\ asked' = c
  /\ phase' = IF active = None THEN "starting" ELSE "stopping"
  /\ UNCHANGED <<active, shown, running, failed, line, closing>>

Stop ==
  /\ phase = "idle" /\ active # None
  /\ phase' = "stopping"
  /\ UNCHANGED <<asked, active, shown, running, failed, line, closing>>

Hangup ==
  /\ phase = "idle"
  /\ closing' = TRUE
  /\ phase' = IF active = None THEN "closed" ELSE "stopping"
  /\ UNCHANGED <<asked, active, shown, running, failed, line>>

(* A run that ended by itself is stopped like any other. *)
EndsByItself == Stop

(* An error of this run, or a late one of an earlier run. *)
Complains ==
  /\ failed' = TRUE
  /\ UNCHANGED <<phase, asked, active, shown, running, line, closing>>

(* take_stats_line *)
TakeLine ==
  /\ line' = FALSE
  /\ UNCHANGED <<phase, asked, active, shown, running, failed, closing>>

-----------------------------------------------------------------------------
(* The end of a stop: the run's line is there, and its counters go; *)
Hides ==
  /\ phase = "stopping" /\ shown
  /\ shown' = FALSE
  /\ line' \in {line, TRUE}
  /\ UNCHANGED <<phase, asked, active, running, failed, closing>>

(* until then, and a moment longer, it shows as running. *)
Stopped ==
  /\ phase = "stopping" /\ ~shown
  /\ active' = None /\ running' = FALSE
  /\ phase' = IF asked # None THEN "starting"
              ELSE IF closing THEN "closed" ELSE "idle"
  /\ UNCHANGED <<asked, shown, failed, line, closing>>

(* A Start that does not pass its checks leaves everything as it was, the
   stats line of an earlier run, too.  That is what the code does; its docs
   promise more ("cleared at the beginning of every Start, so a failed start
   never surfaces a stale line"): see FailedStartShowsNoLine of Receiver. *)
Refuses ==
  /\ phase = "starting"
  /\ failed' = TRUE
  /\ asked' = None
  /\ phase' = "idle"
  /\ UNCHANGED <<active, shown, running, line, closing>>

(* What is left of the run before goes when a Start gets past them. *)
Begins ==
  /\ phase = "starting"
  /\ failed' = FALSE /\ line' = FALSE
  /\ phase' = "binding"
  /\ UNCHANGED <<asked, active, shown, running, closing>>

(* A Start that fails then shows no line of an earlier run. *)
Fails ==
  /\ phase = "binding"
  /\ failed' = TRUE /\ line' = FALSE
  /\ asked' = None
  /\ phase' = "idle"
  /\ UNCHANGED <<active, shown, running, closing>>

(* The run takes packets before status() shows anything of it, *)
Serves ==
  /\ phase = "binding"
  /\ active' = asked
  /\ asked' = None
  /\ phase' = "serving"
  /\ UNCHANGED <<shown, running, failed, line, closing>>

(* it has counters to show before it shows as running, *)
Publishes ==
  /\ phase = "serving" /\ ~shown
  /\ shown' = TRUE
  /\ UNCHANGED <<phase, asked, active, running, failed, line, closing>>

(* and shows as running before the next command is taken. *)
Runs ==
  /\ phase = "serving" /\ shown
  /\ running' = TRUE
  /\ phase' = "idle"
  /\ UNCHANGED <<asked, active, shown, failed, line, closing>>

Advances ==
  \/ Hides \/ Stopped \/ Refuses \/ Begins \/ Fails
  \/ Serves \/ Publishes \/ Runs

Next ==
  \/ \E c \in Configs : Start(c)
  \/ Stop \/ Hangup \/ TakeLine \/ Complains \/ Advances

(* No command keeps the engine for ever. *)
Spec == Init /\ [][Next]_contractVars /\ WF_contractVars(Advances)
=============================================================================
