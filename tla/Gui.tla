-------------------------------- MODULE Gui --------------------------------
(***************************************************************************)
(* The desktop console (openay-gui): App's messages, its 200 ms tick, the  *)
(* tray's requests, and the tasks that save the settings and command the   *)
(* engine.  The GUI thread handles one message at a time; tasks run beside *)
(* it, in no order among each other.  The engine is any that keeps         *)
(* EngineContract, behind its command channel.                             *)
(*                                                                         *)
(* A configuration is what the engine is given of it and the autostart     *)
(* preference; the other settings are carried along unread.                *)
(***************************************************************************)
EXTENDS Naturals, Sequences, SequencesExt, EngineContract

CONSTANTS
  Windows,     \* the platform's tray: Windows or StatusNotifier
  Default,     \* Config::default, as the engine is given it
  ChannelCap,  \* capacity of the engine's command channel, 16
  MaxPresses,  \* bound: what the user does
  MaxPackets,  \* bound: packets of one run
  MaxFailures, \* bound: file operations that fail
  MaxStarts    \* bound: launches of the program

ASSUME GuiAssumption ==
  /\ Windows \in BOOLEAN
  /\ Default \in Configs
  /\ ChannelCap \in Nat \ {0}
  /\ {MaxPresses, MaxPackets, MaxFailures, MaxStarts} \subseteq Nat

VARIABLES
  gui,       \* the process: "up", "polling" (in a tick) or "exited"
  form,      \* the settings panel: a configuration, and is the port valid
  dirty,     \* App.dirty
  config,    \* App.config
  engineCfg, \* App.engine_cfg
  polled,    \* App.status.running
  streaming, \* App.streaming
  counted,   \* App.last_received
  tray,      \* the tray icon: "none", "idle", "armed", "live"
  bus,       \* TrayBus: the requests that are set
  tasks,     \* what each task in flight has still to do
  channel,   \* the engine's command channel
  received,  \* the packets of the run that takes them
  disk,      \* config.toml: a configuration, Absent or Torn
  entry,     \* the autostart entry is there
  presses, failures, starts,    \* for the bounds
  silence,   \* history: ticks begun since the run's last packet that read
             \* running as true, up to 2; 2 before its first packet
  calm,      \* history: the user never pressed anything while something was
             \* still under way
  wanted,    \* history: what the last press asked of the engine
  fell       \* history: the run asked for could not start, or ended by itself

appVars == <<form, dirty, config, engineCfg>>
pollVars == <<polled, streaming, counted>>
fileVars == <<disk, entry>>
engineVars == <<contractVars, received>>
historyVars == <<calm, wanted, fell>>
boundVars == <<presses, failures, starts>>
vars == <<gui, appVars, pollVars, tray, bus, tasks, channel, engineVars,
          fileVars, boundVars, silence, historyVars>>

Settings == [engine : Configs, autostart : BOOLEAN]
DefaultSettings == [engine |-> Default, autostart |-> FALSE]
(* What config.toml may be but for a configuration: not there, or emptied. *)
Absent == [engine |-> None, autostart |-> FALSE]
Torn == [engine |-> None, autostart |-> TRUE]
Forms == [settings : Settings, portOk : BOOLEAN]
StartOf(c) == [cmd |-> "start", config |-> c]
StopCmd == [cmd |-> "stop", config |-> None]
Commands == {StopCmd} \cup {StartOf(c) : c \in Configs}

(* load_config: no file is the default; so is, in main, one that cannot be
   parsed, and an empty one. *)
Loaded == IF disk \in Settings THEN disk ELSE DefaultSettings

(* App::new *)
Shows(settings) ==
  /\ form' = [settings |-> settings, portOk |-> TRUE]
  /\ dirty' = FALSE
  /\ config' = settings /\ engineCfg' = settings.engine

GuiInit ==
  /\ Init
  /\ gui = "up" /\ tray \in {"none", "idle"}
  /\ form = [settings |-> DefaultSettings, portOk |-> TRUE] /\ dirty = FALSE
  /\ config = DefaultSettings /\ engineCfg = Default
  /\ polled = FALSE /\ streaming = FALSE /\ counted = 0
  /\ bus = {} /\ tasks = << >> /\ channel = << >> /\ received = 0
  /\ disk = Absent /\ entry = FALSE
  /\ presses = 0 /\ failures = 0 /\ starts = 1
  /\ silence = 2 /\ calm = TRUE /\ wanted = "off" /\ fell = FALSE

-----------------------------------------------------------------------------
(* Nothing is under way, and the last poll still holds. *)
Quiet ==
  /\ gui = "up" /\ tasks = << >> /\ bus = {} /\ channel = << >>
  /\ phase = "idle" /\ polled = running

Pressed ==
  /\ gui = "up"
  /\ presses < MaxPresses
  /\ presses' = presses + 1
  /\ calm' = (calm /\ Quiet)
  /\ UNCHANGED <<failures, starts>>

Send(cmd) == [op |-> "send", cmd |-> cmd]
Spawn(ops) == tasks' = Append(tasks, ops)

(* What a Start leaves of the histories, and a Stop. *)
Wants(what) ==
  /\ wanted' = what
  /\ fell' = FALSE

(* The panel's fields can be set to anything at any time; a bad port shows,
   and is taken. *)
Offered == Forms \ {form}

Edit ==
  /\ Pressed
  /\ \E f \in Offered : form' = f
  /\ dirty' = TRUE
  /\ UNCHANGED <<gui, config, engineCfg, pollVars, tray, bus, tasks, channel,
                 engineVars, fileVars, silence, wanted, fell>>

(* The button shows the last poll: "ON AIR" or "STANDBY", ... *)
OnAir == polled

(* ... and a press goes by it. *)
ToggleAir ==
  /\ Pressed
  /\ IF OnAir
       THEN Spawn(<<Send(StopCmd)>>) /\ Wants("off")
       ELSE Spawn(<<Send(StartOf(engineCfg))>>) /\ Wants("on")
  /\ UNCHANGED <<gui, appVars, pollVars, tray, bus, channel, engineVars,
                 fileVars, silence>>

(* Mutations: the console keeps the configuration it started with; a restart
   starts before it stops. *)
KeepEngineCfg == engineCfg
StartThenStop == <<Send(StartOf(form.settings.engine)), Send(StopCmd)>>

(* What a save makes of engine_cfg, and how it restarts the engine. *)
SavedEngineCfg == form.settings.engine
Restart == <<Send(StopCmd), Send(StartOf(form.settings.engine))>>

(* save_settings: refused with a bad port; else the console takes the form
   over and a task writes the files and restarts what the last poll showed
   as running. *)
Save ==
  /\ Pressed
  /\ IF form.portOk
       THEN /\ config' = form.settings
            /\ engineCfg' = SavedEngineCfg
            /\ dirty' = FALSE
            /\ Spawn(<<[op |-> "truncate"],
                       [op |-> "write", settings |-> form.settings],
                       [op |-> "entry", on |-> form.settings.autostart]>>
                     \o IF polled THEN Restart ELSE << >>)
       ELSE UNCHANGED <<config, engineCfg, dirty, tasks>>
  /\ UNCHANGED <<gui, form, pollVars, tray, bus, channel, engineVars,
                 fileVars, silence, wanted, fell>>

(* Mutation: the program is left to the engine's stop. *)
StopOnly == <<Send(StopCmd)>>

(* quit: a Stop is sent, and only then the program exits. *)
QuitTask == <<Send(StopCmd), [op |-> "exit"]>>

(* The window's close button. *)
CloseWindow ==
  /\ Pressed
  /\ tray' = "none"
  /\ Spawn(QuitTask)
  /\ UNCHANGED <<gui, appVars, pollVars, bus, channel, engineVars, fileVars,
                 silence, wanted, fell>>

(* The tray's menu offers what its icon allows, on Windows everything. *)
Menu ==
  {"quit"} \cup (IF tray = "idle" \/ Windows THEN {"start"} ELSE {})
           \cup (IF tray # "idle" \/ Windows THEN {"stop"} ELSE {})

(* A click only sets a request. *)
Requests(request) == bus' = bus \cup {request}

TrayClick ==
  /\ Pressed
  /\ tray # "none"
  /\ \E request \in Menu :
       /\ Requests(request)
       /\ CASE request = "start" -> Wants("on")
            [] request = "stop"  -> Wants("off")
            [] OTHER -> UNCHANGED <<wanted, fell>>
  /\ UNCHANGED <<gui, appVars, pollVars, tray, tasks, channel, engineVars,
                 fileVars, silence>>

User == Edit \/ ToggleAir \/ Save \/ CloseWindow \/ TrayClick

-----------------------------------------------------------------------------
(* tick: status() reads running first ... *)
Poll ==
  /\ gui = "up"
  /\ gui' = "polling"
  /\ polled' = running
  /\ silence' = IF running /\ silence < 2 THEN silence + 1 ELSE silence
  /\ UNCHANGED <<appVars, streaming, counted, tray, bus, tasks, channel,
                 engineVars, fileVars, boundVars, historyVars>>

(* Mutation: the difference of the counters, in u64. *)
DeltaWrapped(n) == n # counted

(* saturating_sub: a packet counter that fell back is no news. *)
Delta(n) == n > counted

(* TrayBus::take_...: a request is taken by the tick that finds it, however
   often it was made. *)
Taken(request, ops) == IF request \in bus THEN <<ops>> ELSE << >>

(* The icon's state. *)
TrayState(live) ==
  CASE ~polled -> "idle"
    [] live    -> "live"
    [] OTHER   -> "armed"

(* ... then the counters, which are 0 if nothing ran then, or if there are
   none by now.  The tray's requests are taken in a fixed order. *)
PollEnds ==
  LET n == IF polled /\ shown THEN received ELSE 0
  IN  /\ gui = "polling"
      /\ gui' = "up"
      /\ streaming' = (polled /\ Delta(n))
      /\ counted' = n
      /\ tasks' = tasks \o Taken("quit", QuitTask)
                        \o Taken("start", <<Send(StartOf(engineCfg))>>)
                        \o Taken("stop", <<Send(StopCmd)>>)
      /\ bus' = {}
      /\ tray' = IF tray = "none" \/ "quit" \in bus THEN "none"
                                                   ELSE TrayState(streaming')
      /\ UNCHANGED <<appVars, polled, channel, engineVars, fileVars, boundVars,
                     silence, historyVars>>

-----------------------------------------------------------------------------
(* One operation of task i, and what the task has left then. *)
Leaves(i, n) ==
  LET rest == SubSeq(tasks[i], n + 1, Len(tasks[i]))
  IN  tasks' = IF rest = << >> THEN RemoveAt(tasks, i)
               ELSE [tasks EXCEPT ![i] = rest]

Next1(i, op) == tasks[i][1].op = op

(* A file operation may fail; every error of the task is dropped. *)
MayFail == failures < MaxFailures /\ failures' = failures + 1
Succeeds == UNCHANGED failures

(* save_config: fs::write empties the file, then fills it. *)
Truncate(i) ==
  /\ Next1(i, "truncate")
  /\ \/ Succeeds /\ disk' = Torn /\ Leaves(i, 1)
     \/ MayFail /\ Leaves(i, 2) /\ UNCHANGED disk
  /\ UNCHANGED <<channel, entry>>

Write(i) ==
  /\ Next1(i, "write")
  /\ Leaves(i, 1)
  /\ \/ Succeeds /\ disk' = tasks[i][1].settings
     \/ MayFail /\ UNCHANGED disk
  /\ UNCHANGED <<channel, entry>>

(* apply_autostart writes or removes the entry. *)
Entry(i) ==
  /\ Next1(i, "entry")
  /\ Leaves(i, 1)
  /\ \/ Succeeds /\ entry' = tasks[i][1].on
     \/ MayFail /\ UNCHANGED entry
  /\ UNCHANGED <<channel, disk>>

(* The channel makes a task wait when it is full. *)
SendCmd(i) ==
  /\ Next1(i, "send")
  /\ Len(channel) < ChannelCap
  /\ channel' = Append(channel, tasks[i][1].cmd)
  /\ Leaves(i, 1)
  /\ UNCHANGED <<disk, entry, failures>>

TaskStep ==
  /\ gui \in {"up", "polling"}
  /\ \E i \in 1 .. Len(tasks) :
       Truncate(i) \/ Write(i) \/ Entry(i) \/ SendCmd(i)
  /\ UNCHANGED <<gui, appVars, pollVars, tray, bus, engineVars, presses,
                 starts, silence, historyVars>>

-----------------------------------------------------------------------------
(* An engine without a run. *)
NoRun(p, closed) ==
  /\ phase' = p /\ closing' = closed
  /\ asked' = None /\ active' = None /\ shown' = FALSE
  /\ running' = FALSE /\ failed' = FALSE /\ line' = FALSE

(* The process is gone, with its tasks and its engine. *)
Gone ==
  /\ gui' = "exited"
  /\ tasks' = << >> /\ channel' = << >> /\ bus' = {} /\ tray' = "none"
  /\ NoRun("closed", TRUE)
  /\ received' = 0 /\ polled' = FALSE /\ streaming' = FALSE /\ counted' = 0
  /\ silence' = 2
  /\ Wants("off")
  /\ UNCHANGED <<appVars, fileVars>>

(* The last step of a quit is a message to the GUI. *)
Exit ==
  /\ gui = "up"
  /\ \E i \in 1 .. Len(tasks) : Next1(i, "exit")
  /\ Gone
  /\ UNCHANGED <<boundVars, calm>>

(* The session ends, or someone kills the process. *)
Killed == Pressed /\ Gone

(* main, up to App::new: nothing is started. *)
Launch ==
  /\ gui = "exited" /\ starts < MaxStarts
  /\ starts' = starts + 1
  /\ gui' = "up"
  /\ Shows(Loaded)
  /\ tray' \in {"none", "idle"}
  /\ NoRun("idle", FALSE)
  /\ UNCHANGED <<pollVars, bus, tasks, channel, received, fileVars, presses,
                 failures, silence, historyVars>>

-----------------------------------------------------------------------------
(* Each run has an ingest of its own. *)
Counts ==
  \/ active' = active /\ UNCHANGED <<received, silence>>
  \/ active' # active /\ received' = 0 /\ silence' = 2

EngineOnly == UNCHANGED <<gui, appVars, pollVars, tray, bus, tasks, fileVars,
                          boundVars, calm, wanted>>

(* The engine takes a command when it has handled the last. *)
TakeCommand ==
  /\ phase = "idle" /\ channel # << >>
  /\ LET c == Head(channel)
     IN  \/ c.cmd = "start" /\ Start(c.config)
         \/ c.cmd = "stop" /\ (Stop \/ (active = None /\ UNCHANGED contractVars))
  /\ channel' = Tail(channel)
  /\ Counts
  /\ EngineOnly /\ UNCHANGED fell

EngineAdvances ==
  /\ Advances
  /\ Counts
  /\ fell' = (fell \/ Refuses \/ Fails)
  /\ EngineOnly /\ UNCHANGED channel

RunDies ==
  /\ EndsByItself
  /\ fell' = TRUE
  /\ EngineOnly /\ UNCHANGED <<channel, received, silence>>

(* The network task takes a packet, from the moment it is spawned: before the
   run shows as running, too. *)
Packet ==
  /\ active # None /\ received < MaxPackets
  /\ received' = received + 1
  /\ silence' = 0
  /\ UNCHANGED <<gui, appVars, pollVars, tray, bus, tasks, channel,
                 contractVars, fileVars, boundVars, historyVars>>

GuiNext ==
  \/ User \/ Poll \/ PollEnds \/ TaskStep
  \/ Exit \/ Killed \/ Launch
  \/ TakeCommand \/ EngineAdvances \/ RunDies \/ Packet

(* The ticks come, the executor runs the tasks, the GUI takes each message
   in its turn, and the engine is there. *)
GuiFairness ==
  /\ WF_vars(Poll) /\ WF_vars(PollEnds)
  /\ WF_vars(TaskStep) /\ SF_vars(Exit)
  /\ WF_vars(TakeCommand) /\ WF_vars(EngineAdvances)

GuiSpec == GuiInit /\ [][GuiNext]_vars /\ GuiFairness

-----------------------------------------------------------------------------
GuiTypeOK ==
  /\ gui \in {"up", "polling", "exited"}
  /\ form \in Forms /\ config \in Settings /\ engineCfg \in Configs
  /\ {dirty, polled, streaming, entry, calm, fell} \subseteq BOOLEAN
  /\ tray \in {"none", "idle", "armed", "live"}
  /\ silence \in 0 .. 2
  /\ bus \subseteq {"start", "stop", "quit"}
  /\ channel \in Seq(Commands) /\ Len(channel) \leq ChannelCap
  /\ disk \in Settings \cup {Absent, Torn}
  /\ ~dirty => form.settings = config

(* "LIVE" on the tray and the lit console mean that the run was given audio
   since the last tick before this one that read running as true began, or
   since it was spawned if there was none: also across a restart, whose
   counters begin at 0 again, and whatever the engine does between the two
   reads of status().  It need not be since the tick just before: packets
   that come between the spawn of the network task (lib.rs:1167) and the
   store of running (1201) are news to the first tick that reads it. *)
StreamingIsReal ==
  [][gui = "polling" /\ gui' = "up" /\ streaming' => silence < 2]_vars

(* The console and the engine agree whenever nothing is under way, if the
   user never pressed anything while something was: the engine runs what the
   console shows, or nothing; a run that was asked for is there, through any
   number of saves, unless it fell; and what is on disk is what the next
   launch should show. *)
CalmConsoleAgrees ==
  calm /\ Quiet =>
    /\ active \in {None, engineCfg}
    /\ wanted = "on" /\ ~fell => active = engineCfg
    /\ wanted = "off" => active = None
    /\ failures = 0 => Loaded = config /\ entry = config.autostart

(* A quit ends the program, whatever else is in flight, the channel full and
   the engine in the middle of a stop. *)
QuitExits ==
  "quit" \in bus \/ (\E i \in 1 .. Len(tasks) : Last(tasks[i]).op = "exit")
    ~> gui = "exited"

(* "Base is the config the engine was started with": a running engine runs
   what the console shows as its configuration once everything is quiet.  Not
   kept, and in no run: was_running is the last poll's, so a Save that overtakes
   a Start leaves the old configuration running. *)
ConsoleShowsWhatRuns == Quiet /\ active # None => active = engineCfg
=============================================================================
