------------------------------ MODULE GuiProofs ------------------------------
(****************************************************************************)
(* Theorems about the console (Gui): it agrees with the engine and with its *)
(* files whenever nothing is under way, and LIVE means audio.               *)
(*                                                                          *)
(* GuiInv is the inductive invariant.  Typed and EngineIs are about single  *)
(* variables and the engine's phases, Counted about the two reads of a tick *)
(* and the packets between them.  OnePress says what a user who only        *)
(* presses when nothing is under way can have caused: one of six            *)
(* activities, each with what the channel, the tasks, the engine and the    *)
(* files may be in its midst.  A press at a quiet console starts one, the   *)
(* tasks' and the engine's steps lead on to the next, and CalmConsoleAgrees *)
(* is what is left of it when it is over.                                   *)
(****************************************************************************)
EXTENDS Gui, Integers, SequenceTheorems, TLAPS

(* The operations a task may have, on the files and on the engine. *)
Ops == {[op |-> "truncate"], [op |-> "exit"]}
         \cup [op : {"write"}, settings : Settings]
         \cup [op : {"entry"}, on : BOOLEAN]
         \cup [op : {"send"}, cmd : Commands]

(* The types; only a task with something left is in flight. *)
Typed ==
  /\ gui \in {"up", "polling", "exited"}
  /\ form \in Forms /\ config \in Settings /\ engineCfg \in Configs
  /\ dirty \in BOOLEAN /\ polled \in BOOLEAN /\ streaming \in BOOLEAN
  /\ entry \in BOOLEAN /\ calm \in BOOLEAN /\ fell \in BOOLEAN
  /\ wanted \in {"on", "off"}
  /\ tray \in {"none", "idle", "armed", "live"}
  /\ silence \in 0 .. 2
  /\ bus \in SUBSET {"start", "stop", "quit"}
  /\ channel \in Seq(Commands) /\ Len(channel) \leq ChannelCap
  /\ disk \in Settings \cup {Absent, Torn}
  /\ ~dirty => form.settings = config
  /\ tasks \in Seq(Seq(Ops) \ {<< >>})
  /\ counted \in Nat /\ received \in Nat /\ failures \in Nat

(* The engine: a command is handled from "idle" to "idle". *)
EngineIs ==
  /\ phase \in {"idle", "stopping", "starting", "binding", "serving", "closed"}
  /\ asked \in Configs \cup {None} /\ active \in Configs \cup {None}
  /\ running \in BOOLEAN
  /\ running <=> (active # None /\ phase # "serving")
  /\ phase \in {"idle", "serving", "closed"} => asked = None
  /\ phase \in {"starting", "binding"} => asked # None
  /\ phase \in {"starting", "binding", "closed"} => active = None
  /\ phase \in {"stopping", "serving"} => active # None
  /\ received > 0 => active # None
  /\ closing => phase = "closed"
  /\ phase = "closed" <=> gui = "exited"

(* The packets the console has counted, of a run it can read; those of a run
   that does not show as running yet are all news. *)
Counted ==
  /\ phase = "serving" /\ received > 0 => silence = 0
  /\ gui = "polling" /\ silence \geq 1 /\ shown /\ received > 0 => polled
  /\ gui = "polling" /\ silence = 2 /\ shown => received \leq counted
  /\ gui # "polling" /\ silence \geq 1 /\ shown => received \leq counted

(* A task that saves, and one that restarts the engine then; and what is left
   of a task that got to its operation k. *)
SavePlan(s) == <<[op |-> "truncate"], [op |-> "write", settings |-> s],
                 [op |-> "entry", on |-> s.autostart]>>
RestartPlan(s, c) == SavePlan(s) \o <<Send(StopCmd), Send(StartOf(c))>>
Left(plan, k) == SubSeq(plan, k, Len(plan))

(* What is on the disk when a save has done its operations before the k-th. *)
FilesAt(k) ==
  failures = 0 =>
    /\ k \geq 3 => Loaded = config
    /\ k \geq 4 => entry = config.autostart

(* Another configuration than the console's runs only while it is stopped. *)
OldRunEnds == active \in {None, engineCfg} \/ phase = "stopping"

(* What a calm user's console may be busy with: the engine has all it needs, *)
Settled ==
  /\ bus = {} /\ tasks = << >> /\ channel = << >>
  /\ asked \in {None, engineCfg} /\ OldRunEnds /\ FilesAt(4)
  /\ wanted = "on" /\ ~fell =>
       asked # None \/ (active = engineCfg /\ phase \in {"idle", "serving"})
  /\ wanted = "off" => asked = None /\ (active = None \/ phase = "stopping")

(* or a task saves, with nothing running, *)
Saving ==
  /\ bus = {} /\ channel = << >>
  /\ \E k \in 1 .. 3 : tasks = <<Left(SavePlan(config), k)>> /\ FilesAt(k)
  /\ asked = None /\ active = None
  /\ ~(wanted = "on" /\ ~fell)

(* or it saves and restarts, and its Stop has not been taken, *)
Restarting ==
  /\ bus = {} /\ asked = None /\ wanted = "on"
  /\ \/ /\ channel = << >>
        /\ \E k \in 1 .. 4 :
             tasks = <<Left(RestartPlan(config, engineCfg), k)>> /\ FilesAt(k)
     \/ /\ channel = <<StopCmd>> /\ FilesAt(4)
        /\ tasks = <<Left(RestartPlan(config, engineCfg), 5)>>
     \/ channel = <<StopCmd, StartOf(engineCfg)>> /\ tasks = << >> /\ FilesAt(4)

(* or a Start is on its way to the engine, *)
StartComes ==
  /\ asked = None /\ wanted = "on" /\ OldRunEnds /\ FilesAt(4)
  /\ \/ bus = {"start"} /\ tasks = << >> /\ channel = << >>
     \/ bus = {} /\ tasks = << <<Send(StartOf(engineCfg))>> >> /\ channel = << >>
     \/ bus = {} /\ tasks = << >> /\ channel = <<StartOf(engineCfg)>>

(* or a Stop, *)
StopComes ==
  /\ asked = None /\ wanted = "off" /\ OldRunEnds /\ FilesAt(4)
  /\ \/ bus = {"stop"} /\ tasks = << >> /\ channel = << >>
     \/ bus = {} /\ tasks = << <<Send(StopCmd)>> >> /\ channel = << >>
     \/ bus = {} /\ tasks = << >> /\ channel = <<StopCmd>>

(* or the end of the program. *)
QuitComes ==
  /\ asked = None /\ OldRunEnds /\ FilesAt(4)
  /\ wanted = "off" => active = None \/ phase = "stopping"
  /\ \/ bus = {"quit"} /\ tasks = << >> /\ channel = << >>
     \/ bus = {} /\ tasks = <<QuitTask>> /\ channel = << >>
     \/ bus = {} /\ tasks = << <<[op |-> "exit"]>> >> /\ channel \in {<< >>, <<StopCmd>>}

OnePress ==
  calm => Settled \/ Saving \/ Restarting \/ StartComes \/ StopComes \/ QuitComes

(* Nothing outlives the process. *)
NothingLeft ==
  gui = "exited" => bus = {} /\ tasks = << >> /\ channel = << >> /\ wanted = "off"

(* The inductive invariant. *)
GuiInv == Typed /\ EngineIs /\ Counted /\ OnePress /\ NothingLeft

-----------------------------------------------------------------------------
(* Sequences of tasks and of their operations.                              *)

(* What is left of a sequence from its element k. *)
LEMMA LeftIs ==
  ASSUME NEW S, NEW p \in Seq(S), NEW k \in 1 .. Len(p) + 1
  PROVE  /\ Left(p, k) \in Seq(S) /\ Len(Left(p, k)) = (Len(p) - k) + 1
         /\ \A j \in 1 .. (Len(p) - k) + 1 : Left(p, k)[j] = p[(k + j) - 1]
<1>1. Len(p) \in Nat /\ k \in Nat
  OBVIOUS
<1>2. \A j \in k .. Len(p) : p[j] \in S
  BY <1>1, ElementOfSeq
<1>3. /\ SubSeq(p, k, Len(p)) \in Seq(S)
      /\ Len(SubSeq(p, k, Len(p))) =
           IF k \leq Len(p) THEN (Len(p) - k) + 1 ELSE 0
      /\ \A j \in 1 .. (Len(p) - k) + 1 : SubSeq(p, k, Len(p))[j] = p[(k + j) - 1]
  BY <1>1, <1>2, SubSeqProperties
<1> DEFINE q == SubSeq(p, k, Len(p))
<1> HIDE DEF q
<1>4. Len(q) = (Len(p) - k) + 1
  BY <1>1, <1>3 DEF q
<1> QED
  BY <1>3, <1>4 DEF Left, q

(* What is left of what is left. *)
LEMMA LeftOfLeft ==
  ASSUME NEW S, NEW p \in Seq(S), NEW k \in 1 .. Len(p), NEW n \in Nat,
         k + n \leq Len(p) + 1
  PROVE  Left(Left(p, k), n + 1) = Left(p, k + n)
<1> DEFINE q == Left(p, k)
           a == Left(q, n + 1)
           b == Left(p, k + n)
<1>1. Len(p) \in Nat /\ k \in Nat /\ k \geq 1 /\ k \leq Len(p)
  OBVIOUS
<1>2. /\ q \in Seq(S) /\ Len(q) = (Len(p) - k) + 1
      /\ \A j \in 1 .. (Len(p) - k) + 1 : q[j] = p[(k + j) - 1]
  BY <1>1, LeftIs
<1>3. n + 1 \in 1 .. Len(q) + 1 /\ k + n \in 1 .. Len(p) + 1
  BY <1>1, <1>2
<1> HIDE DEF q
<1>4. /\ a \in Seq(S) /\ Len(a) = (Len(q) - (n + 1)) + 1
      /\ \A j \in 1 .. (Len(q) - (n + 1)) + 1 : a[j] = q[((n + 1) + j) - 1]
  BY <1>2, <1>3, LeftIs
<1>5. /\ b \in Seq(S) /\ Len(b) = (Len(p) - (k + n)) + 1
      /\ \A j \in 1 .. (Len(p) - (k + n)) + 1 : b[j] = p[((k + n) + j) - 1]
  BY <1>3, LeftIs
<1> HIDE DEF a, b
<1>6. Len(a) = Len(b)
  BY <1>1, <1>2, <1>4, <1>5
<1>7. ASSUME NEW j \in 1 .. Len(a) PROVE a[j] = b[j]
  <2>1. /\ j \in 1 .. (Len(q) - (n + 1)) + 1 /\ j \in 1 .. (Len(p) - (k + n)) + 1
        /\ n + j \in 1 .. (Len(p) - k) + 1
        /\ ((n + 1) + j) - 1 = n + j
        /\ (k + (n + j)) - 1 = ((k + n) + j) - 1
    BY <1>1, <1>2, <1>4, <1>5, <1>6
  <2>2. a[j] = q[n + j] /\ b[j] = p[((k + n) + j) - 1]
    BY <1>4, <1>5, <2>1
  <2>3. q[n + j] = p[(k + (n + j)) - 1]
    BY <1>2, <2>1
  <2> QED
    BY <2>1, <2>2, <2>3
<1>8. a = b
  BY <1>4, <1>5, <1>6, <1>7, SeqEqual
<1> QED
  BY <1>8 DEF a, b, q

(* The last element alone is left at the end. *)
LEMMA LastLeft ==
  ASSUME NEW S, NEW p \in Seq(S), p # << >>
  PROVE  Left(p, Len(p)) = <<p[Len(p)]>>
<1> DEFINE q == Left(p, Len(p))
           r == <<p[Len(p)]>>
<1>1. Len(p) \in Nat /\ Len(p) \geq 1
  BY EmptySeq
<1>2. Len(p) \in 1 .. Len(p) + 1 /\ Len(p) \in 1 .. Len(p)
  BY <1>1
<1>3. /\ q \in Seq(S) /\ Len(q) = (Len(p) - Len(p)) + 1
      /\ \A j \in 1 .. (Len(p) - Len(p)) + 1 : q[j] = p[(Len(p) + j) - 1]
  BY <1>2, LeftIs
<1>4. (Len(p) - Len(p)) + 1 = 1 /\ (Len(p) + 1) - 1 = Len(p)
  BY <1>1
<1>5. Len(q) = 1 /\ q[1] = p[Len(p)]
  BY <1>3, <1>4
<1>6. p[Len(p)] \in S
  BY <1>2, ElementOfSeq
<1>7. r \in Seq(S) /\ Len(r) = 1 /\ r[1] = p[Len(p)]
  BY <1>6
<1> HIDE DEF q, r
<1>8. q = r
  BY <1>3, <1>5, <1>7, SeqEqual
<1> QED
  BY <1>8 DEF q, r

(* One task of a list goes on, or ends. *)
LEMMA LeavesTyped ==
  ASSUME NEW S, tasks \in Seq(Seq(S) \ {<< >>}), NEW i \in 1 .. Len(tasks),
         NEW n \in Nat, Leaves(i, n)
  PROVE  tasks' \in Seq(Seq(S) \ {<< >>})
<1> DEFINE T == Seq(S) \ {<< >>}
           r == Left(tasks[i], n + 1)
<1>1. tasks[i] \in Seq(S) /\ Len(tasks[i]) \in Nat /\ Len(tasks) \in Nat
  BY ElementOfSeq
<1>2. r \in Seq(S)
  <2>1. \A j \in n + 1 .. Len(tasks[i]) : tasks[i][j] \in S
    BY <1>1, ElementOfSeq
  <2> QED
    BY <1>1, <2>1, SubSeqProperties DEF Left
<1>3. tasks' = IF r = << >> THEN RemoveAt(tasks, i) ELSE [tasks EXCEPT ![i] = r]
  BY DEF Leaves, Left
<1> HIDE DEF r
<1>4. RemoveAt(tasks, i) \in Seq(T)
  <2> DEFINE a == SubSeq(tasks, 1, i - 1)
             b == SubSeq(tasks, i + 1, Len(tasks))
  <2>1. \A j \in 1 .. Len(tasks) : tasks[j] \in T
    BY ElementOfSeq
  <2> HIDE DEF T
  <2>2. a \in Seq(T)
    BY <1>1, <2>1, SubSeqProperties
  <2>3. b \in Seq(T)
    BY <1>1, <2>1, SubSeqProperties
  <2> HIDE DEF a, b
  <2>4. a \o b \in Seq(T)
    BY <2>2, <2>3, ConcatProperties
  <2> QED
    BY <2>4 DEF RemoveAt, a, b
<1>5. r # << >> => [tasks EXCEPT ![i] = r] \in Seq(T)
  <2>1. r # << >> => r \in T
    BY <1>2
  <2>2. tasks \in Seq(T)
    OBVIOUS
  <2> HIDE DEF T
  <2> QED
    BY <2>1, <2>2, ExceptSeq
<1> HIDE DEF T
<1>6. tasks' \in Seq(T)
  BY <1>3, <1>4, <1>5
<1> QED
  BY <1>6 DEF T

(* The only task of a list goes on from its plan's operation k. *)
LEMMA OnlyTask ==
  ASSUME NEW S, NEW p \in Seq(S), NEW k \in 1 .. Len(p), tasks = <<Left(p, k)>>,
         NEW i \in 1 .. Len(tasks), NEW n \in Nat, k + n \leq Len(p) + 1,
         Leaves(i, n)
  PROVE  /\ tasks[i][1] = p[k]
         /\ k + n \leq Len(p) => tasks' = <<Left(p, k + n)>>
         /\ k + n = Len(p) + 1 => tasks' = << >>
<1> DEFINE t == Left(p, k)
           r == Left(t, n + 1)
<1>1. Len(p) \in Nat /\ k \in Nat /\ k \geq 1 /\ k \leq Len(p)
  OBVIOUS
<1>2. t \in Seq(S) /\ Len(t) = (Len(p) - k) + 1 /\ t[1] = p[k]
  <2>1. /\ t \in Seq(S) /\ Len(t) = (Len(p) - k) + 1
        /\ \A j \in 1 .. (Len(p) - k) + 1 : t[j] = p[(k + j) - 1]
    <3>1. k \in 1 .. Len(p) + 1
      BY <1>1
    <3> QED
      BY <3>1, LeftIs
  <2> HIDE DEF t
  <2>2. 1 \in 1 .. (Len(p) - k) + 1 /\ (k + 1) - 1 = k
    BY <1>1
  <2> QED
    BY <2>1, <2>2
<1>3. tasks = <<t>>
  OBVIOUS
<1> HIDE DEF t
<1>4. Len(tasks) = 1 /\ i = 1 /\ tasks[i] = t
  BY <1>2, <1>3
<1>5. r = Left(p, k + n)
  BY LeftOfLeft DEF t
<1>6. r \in Seq(S) /\ Len(r) = (Len(p) - (k + n)) + 1
  <2>1. k + n \in 1 .. Len(p) + 1
    BY <1>1
  <2> QED
    BY <1>5, <2>1, LeftIs
<1>7. tasks' = IF r = << >> THEN RemoveAt(tasks, i) ELSE [tasks EXCEPT ![i] = r]
  BY <1>4 DEF Leaves, Left
<1> HIDE DEF r
<1>8. CASE k + n \leq Len(p)
  <2>1. r # << >>
    BY <1>1, <1>6, <1>8, EmptySeq
  <2>2. tasks' = [<<t>> EXCEPT ![1] = r]
    BY <1>3, <1>4, <1>7, <2>1
  <2>3. tasks' = <<r>>
    BY <2>2
  <2> QED
    BY <1>1, <1>4, <1>2, <1>5, <1>8, <2>3
<1>9. CASE k + n = Len(p) + 1
  <2>1. r = << >>
    BY <1>1, <1>6, <1>9, EmptySeq
  <2>2. tasks' = RemoveAt(<<t>>, 1)
    BY <1>3, <1>4, <1>7, <2>1
  <2>3. SubSeq(<<t>>, 1, 0) = << >> /\ SubSeq(<<t>>, 2, 1) = << >>
    BY SubSeqEmpty
  <2>4. RemoveAt(<<t>>, 1) = << >>
    BY <2>3 DEF RemoveAt
  <2> QED
    BY <1>1, <1>4, <1>2, <1>9, <2>2, <2>4
<1> QED
  BY <1>1, <1>8, <1>9

-----------------------------------------------------------------------------
(* The operations of the tasks, and the plans they make.                    *)

TruncateOp == [op |-> "truncate"]
WriteOp(s) == [op |-> "write", settings |-> s]
EntryOp(on) == [op |-> "entry", on |-> on]
ExitOp == [op |-> "exit"]

(* Each operation is what its name says. *)
LEMMA OpsAre ==
  /\ TruncateOp \in Ops /\ TruncateOp.op = "truncate"
  /\ ExitOp \in Ops /\ ExitOp.op = "exit"
  /\ \A s \in Settings : /\ WriteOp(s) \in Ops /\ WriteOp(s).op = "write"
                         /\ WriteOp(s).settings = s
  /\ \A on \in BOOLEAN : /\ EntryOp(on) \in Ops /\ EntryOp(on).op = "entry"
                         /\ EntryOp(on).on = on
  /\ \A c \in Commands : /\ Send(c) \in Ops /\ Send(c).op = "send"
                         /\ Send(c).cmd = c
BY DEF TruncateOp, ExitOp, WriteOp, EntryOp, Send, Ops

(* What an operation of each kind carries. *)
LEMMA OpsCarry ==
  ASSUME NEW o \in Ops
  PROVE  /\ o.op = "write" => o.settings \in Settings
         /\ o.op = "entry" => o.on \in BOOLEAN
         /\ o.op = "send" => o.cmd \in Commands
BY DEF Ops

(* The commands are different. *)
LEMMA CommandsAre ==
  /\ StopCmd \in Commands /\ StopCmd.cmd = "stop"
  /\ \A c \in Configs : /\ StartOf(c) \in Commands /\ StartOf(c).cmd = "start"
                        /\ StartOf(c).config = c /\ StartOf(c) # StopCmd
BY DEF StopCmd, StartOf, Commands

(* The three operations of a save. *)
LEMMA SavePlanIs ==
  ASSUME NEW s \in Settings
  PROVE  /\ SavePlan(s) = <<TruncateOp, WriteOp(s), EntryOp(s.autostart)>>
         /\ SavePlan(s) \in Seq(Ops) /\ Len(SavePlan(s)) = 3
         /\ SavePlan(s)[1] = TruncateOp /\ SavePlan(s)[2] = WriteOp(s)
         /\ SavePlan(s)[3] = EntryOp(s.autostart)
<1>1. SavePlan(s) = <<TruncateOp, WriteOp(s), EntryOp(s.autostart)>>
  BY DEF SavePlan, TruncateOp, WriteOp, EntryOp
<1>2. TruncateOp \in Ops /\ WriteOp(s) \in Ops /\ EntryOp(s.autostart) \in Ops
  BY OpsAre DEF Settings
<1> QED
  BY <1>1, <1>2

(* The five of a save that restarts the engine. *)
LEMMA RestartPlanIs ==
  ASSUME NEW s \in Settings, NEW c \in Configs
  PROVE  LET p == RestartPlan(s, c)
         IN  /\ p \in Seq(Ops) /\ Len(p) = 5
             /\ p[1] = TruncateOp /\ p[2] = WriteOp(s)
             /\ p[3] = EntryOp(s.autostart)
             /\ p[4] = Send(StopCmd) /\ p[5] = Send(StartOf(c))
<1> DEFINE a == SavePlan(s)
           b == <<Send(StopCmd), Send(StartOf(c))>>
           p == RestartPlan(s, c)
<1>1. /\ a \in Seq(Ops) /\ Len(a) = 3
      /\ a[1] = TruncateOp /\ a[2] = WriteOp(s) /\ a[3] = EntryOp(s.autostart)
  BY SavePlanIs
<1>2. Send(StopCmd) \in Ops /\ Send(StartOf(c)) \in Ops
  BY OpsAre, CommandsAre
<1>3. /\ b \in Seq(Ops) /\ Len(b) = 2
      /\ b[1] = Send(StopCmd) /\ b[2] = Send(StartOf(c))
  BY <1>2
<1>4. p = a \o b
  BY DEF RestartPlan
<1> HIDE DEF a, b, p
<1>5. /\ a \o b \in Seq(Ops) /\ Len(a \o b) = Len(a) + Len(b)
      /\ \A i \in 1 .. Len(a) + Len(b) :
           (a \o b)[i] = IF i <= Len(a) THEN a[i] ELSE b[i - Len(a)]
  BY <1>1, <1>3, ConcatProperties
<1>6. p \in Seq(Ops) /\ Len(p) = 5
  BY <1>1, <1>3, <1>4, <1>5
<1>7. \A i \in 1 .. 5 : p[i] = IF i <= 3 THEN a[i] ELSE b[i - 3]
  BY <1>1, <1>3, <1>4, <1>5
<1>8. p[1] = a[1] /\ p[2] = a[2] /\ p[3] = a[3] /\ p[4] = b[1] /\ p[5] = b[2]
  BY <1>7
<1> QED
  BY <1>1, <1>3, <1>6, <1>8 DEF p

(* The two of a quit. *)
LEMMA QuitTaskIs ==
  /\ QuitTask = <<Send(StopCmd), ExitOp>>
  /\ QuitTask \in Seq(Ops) /\ Len(QuitTask) = 2
  /\ QuitTask[1] = Send(StopCmd) /\ QuitTask[2] = ExitOp
<1>1. QuitTask = <<Send(StopCmd), ExitOp>>
  BY DEF QuitTask, ExitOp
<1>2. Send(StopCmd) \in Ops /\ ExitOp \in Ops
  BY OpsAre, CommandsAre
<1> QED
  BY <1>1, <1>2

(* A task of one operation. *)
LEMMA OneOp ==
  ASSUME NEW o \in Ops
  PROVE  /\ <<o>> \in Seq(Ops) /\ Len(<<o>>) = 1 /\ <<o>>[1] = o
         /\ Left(<<o>>, 1) = <<o>>
<1>1. <<o>> \in Seq(Ops) /\ Len(<<o>>) = 1 /\ <<o>>[1] = o /\ <<o>> # << >>
  OBVIOUS
<1> DEFINE p == <<o>>
<1> HIDE DEF p
<1>2. p \in Seq(Ops) /\ Len(p) = 1 /\ p[1] = o /\ p # << >>
  BY <1>1 DEF p
<1>3. Left(p, 1) = <<p[1]>>
  BY <1>2, LastLeft
<1> QED
  BY <1>1, <1>2, <1>3 DEF p

(* A whole plan is left at its start. *)
LEMMA AllLeft ==
  ASSUME NEW S, NEW p \in Seq(S)
  PROVE  Left(p, 1) = p
BY SubSeqFull DEF Left

-----------------------------------------------------------------------------
(* What the steps that are not an assignment or two do.                     *)

(* Save spawns a plan with what the console then shows. *)
LEMMA SaveIs ==
  ASSUME Typed, Save
  PROVE  \/ /\ config' = form.settings /\ engineCfg' = form.settings.engine
            /\ config' \in Settings /\ engineCfg' \in Configs
            /\ dirty' = FALSE
            /\ polled => tasks' = Append(tasks, RestartPlan(config', engineCfg'))
            /\ ~polled => tasks' = Append(tasks, SavePlan(config'))
         \/ UNCHANGED <<config, engineCfg, dirty, tasks>>
<1>1. CASE ~form.portOk
  BY <1>1 DEF Save
<1>2. CASE form.portOk
  <2> DEFINE s == form.settings
  <2>1. /\ config' = s /\ engineCfg' = s.engine /\ dirty' = FALSE
        /\ tasks' = Append(tasks, <<[op |-> "truncate"],
                                    [op |-> "write", settings |-> s],
                                    [op |-> "entry", on |-> s.autostart]>>
                                  \o IF polled THEN Restart ELSE << >>)
    BY <1>2 DEF Save, SavedEngineCfg, Spawn
  <2>2. s \in Settings /\ s.engine \in Configs
    BY DEF Typed, Forms, Settings
  <2>3. Restart = <<Send(StopCmd), Send(StartOf(s.engine))>>
    BY DEF Restart
  <2> HIDE DEF s
  <2>4. tasks' = Append(tasks, SavePlan(s) \o IF polled THEN Restart ELSE << >>)
    BY <2>1 DEF SavePlan
  <2>5. CASE polled
    <3>1. tasks' = Append(tasks, RestartPlan(s, s.engine))
      BY <2>3, <2>4, <2>5 DEF RestartPlan
    <3> QED
      BY <2>1, <2>2, <2>5, <3>1 DEF s
  <2>6. CASE ~polled
    <3>1. SavePlan(s) \o << >> = SavePlan(s)
      BY <2>2, SavePlanIs, ConcatEmptySeq
    <3>2. tasks' = Append(tasks, SavePlan(s))
      BY <2>4, <2>6, <3>1
    <3> QED
      BY <2>1, <2>2, <2>6, <3>2 DEF s
  <2> QED
    BY <2>5, <2>6
<1> QED
  BY <1>1, <1>2

(* The tick spawns a task for each request it finds. *)
LEMMA TakenIs ==
  ASSUME NEW request, NEW ops \in Seq(Ops) \ {<< >>}
  PROVE  /\ Taken(request, ops) \in Seq(Seq(Ops) \ {<< >>})
         /\ request \in bus => Taken(request, ops) = <<ops>>
         /\ request \notin bus => Taken(request, ops) = << >>
<1> DEFINE T == Seq(Ops) \ {<< >>}
<1>1. ops \in T
  OBVIOUS
<1> HIDE DEF T
<1>2. <<ops>> \in Seq(T) /\ << >> \in Seq(T)
  BY <1>1
<1>3. Taken(request, ops) = IF request \in bus THEN <<ops>> ELSE << >>
  BY DEF Taken
<1> QED
  BY <1>2, <1>3 DEF T

(* What the tick makes of the tray's requests. *)
LEMMA PollEndsIs ==
  ASSUME Typed, PollEnds
  PROVE  /\ tasks' \in Seq(Seq(Ops) \ {<< >>})
         /\ bus = {} => tasks' = tasks
         /\ tasks = << >> =>
              /\ bus = {"quit"} => tasks' = <<QuitTask>>
              /\ bus = {"start"} => tasks' = << <<Send(StartOf(engineCfg))>> >>
              /\ bus = {"stop"} => tasks' = << <<Send(StopCmd)>> >>
<1> DEFINE T == Seq(Ops) \ {<< >>}
           q == Taken("quit", QuitTask)
           a == Taken("start", <<Send(StartOf(engineCfg))>>)
           o == Taken("stop", <<Send(StopCmd)>>)
<1>1. /\ QuitTask \in T /\ <<Send(StopCmd)>> \in T
      /\ <<Send(StartOf(engineCfg))>> \in T
  <2>1. engineCfg \in Configs
    BY DEF Typed
  <2>2. Send(StopCmd) \in Ops /\ Send(StartOf(engineCfg)) \in Ops
    BY <2>1, OpsAre, CommandsAre
  <2> QED
    BY <2>2, QuitTaskIs
<1>2. /\ q \in Seq(T) /\ a \in Seq(T) /\ o \in Seq(T)
      /\ "quit" \in bus => q = <<QuitTask>>
      /\ "quit" \notin bus => q = << >>
      /\ "start" \in bus => a = << <<Send(StartOf(engineCfg))>> >>
      /\ "start" \notin bus => a = << >>
      /\ "stop" \in bus => o = << <<Send(StopCmd)>> >>
      /\ "stop" \notin bus => o = << >>
  BY <1>1, TakenIs
<1>3. tasks' = tasks \o q \o a \o o
  BY DEF PollEnds
<1>4. tasks \in Seq(T)
  BY DEF Typed
<1> HIDE DEF T, q, a, o
<1>5. tasks \o q \in Seq(T) /\ (tasks \o q) \o a \in Seq(T)
      /\ ((tasks \o q) \o a) \o o \in Seq(T)
  BY <1>2, <1>4, ConcatProperties
<1>6. \A s \in Seq(T) : s \o << >> = s /\ << >> \o s = s
  BY ConcatEmptySeq
<1>7. << >> \o << >> = << >>
  BY <1>6, EmptySeq
<1>8. bus = {} => tasks' = tasks
  BY <1>2, <1>3, <1>4, <1>6
<1>9. ASSUME tasks = << >>
      PROVE  /\ bus = {"quit"} => tasks' = q
             /\ bus = {"start"} => tasks' = a
             /\ bus = {"stop"} => tasks' = o
  BY <1>2, <1>3, <1>6, <1>7, <1>9
<1> QED
  BY <1>2, <1>3, <1>5, <1>8, <1>9 DEF T

(* A task's step does one operation, the task's next. *)
LEMMA TaskStepIs ==
  ASSUME Typed, NEW i \in 1 .. Len(tasks),
         Truncate(i) \/ Write(i) \/ Entry(i) \/ SendCmd(i)
  PROVE  /\ tasks[i][1] \in Ops /\ tasks' \in Seq(Seq(Ops) \ {<< >>})
         /\ failures' \in {failures, failures + 1}
         /\ \/ /\ tasks[i][1].op = "truncate" /\ UNCHANGED <<channel, entry>>
               /\ \/ failures' = failures /\ disk' = Torn /\ Leaves(i, 1)
                  \/ failures' = failures + 1 /\ disk' = disk /\ Leaves(i, 2)
            \/ /\ tasks[i][1].op = "write" /\ UNCHANGED <<channel, entry>>
               /\ Leaves(i, 1)
               /\ \/ failures' = failures /\ disk' = tasks[i][1].settings
                  \/ failures' = failures + 1 /\ disk' = disk
            \/ /\ tasks[i][1].op = "entry" /\ UNCHANGED <<channel, disk>>
               /\ Leaves(i, 1)
               /\ \/ failures' = failures /\ entry' = tasks[i][1].on
                  \/ failures' = failures + 1 /\ entry' = entry
            \/ /\ tasks[i][1].op = "send" /\ UNCHANGED <<disk, entry, failures>>
               /\ Len(channel) < ChannelCap
               /\ channel' = Append(channel, tasks[i][1].cmd)
               /\ Leaves(i, 1)
<1>1. tasks \in Seq(Seq(Ops) \ {<< >>})
  BY DEF Typed
<1>2. tasks[i] \in Seq(Ops) /\ tasks[i] # << >>
  BY <1>1, ElementOfSeq
<1>3. tasks[i][1] \in Ops
  <2>1. 1 \in 1 .. Len(tasks[i])
    BY <1>2, EmptySeq
  <2> QED
    BY <1>2, <2>1, ElementOfSeq
<1>4. \E n \in Nat : Leaves(i, n)
  <2>1. Leaves(i, 1) \/ Leaves(i, 2)
    BY DEF Truncate, Write, Entry, SendCmd
  <2> QED
    BY <2>1
<1>5. tasks' \in Seq(Seq(Ops) \ {<< >>})
  BY <1>1, <1>4, LeavesTyped
<1> QED
  BY <1>3, <1>5 DEF Truncate, Write, Entry, SendCmd, Next1, Succeeds, MayFail

-----------------------------------------------------------------------------
(* The engine behind its handle, and the packets the console counts.        *)

(* The steps that leave the engine alone. *)
OffEngine == User \/ Poll \/ PollEnds \/ TaskStep

(* They are the window's and the tasks' steps, in a program that is there. *)
LEMMA OffEngineIs ==
  ASSUME OffEngine
  PROVE  /\ UNCHANGED engineVars
         /\ gui # "exited" /\ gui' # "exited"
BY DEF OffEngine, User, Edit, ToggleAir, Save, CloseWindow, TrayClick, Pressed,
       Poll, PollEnds, TaskStep

(* The engine keeps its contract's phases, and counts packets of a run only. *)
LEMMA EngineKept ==
  ASSUME Typed, EngineIs, GuiNext
  PROVE  EngineIs'
<1>1. received \in Nat /\ None \notin Configs
  BY NoneAssumption DEF Typed
<1>2. CASE OffEngine
  <2>1. UNCHANGED <<phase, asked, active, running, closing, received>>
    BY <1>2, OffEngineIs DEF engineVars, contractVars
  <2> QED
    BY <1>2, <2>1, OffEngineIs DEF EngineIs
<1>3. CASE Gone
  <2>1. /\ gui' = "exited" /\ phase' = "closed" /\ closing' = TRUE
        /\ asked' = None /\ active' = None /\ received' = 0 /\ ~running'
    BY <1>3 DEF Gone, NoRun
  <2>2. running' \in BOOLEAN
    BY <1>3 DEF Gone, NoRun
  <2> QED
    BY <2>1, <2>2 DEF EngineIs
<1>4. CASE Launch
  BY <1>4 DEF Launch, NoRun, EngineIs
<1>5. CASE TakeCommand
  <2>1. gui' = gui
    BY <1>5 DEF TakeCommand, EngineOnly
  <2>2. ASSUME NEW c \in Configs, Start(c) PROVE EngineIs'
    <3>1. /\ phase = "idle" /\ asked' = c
          /\ phase' = IF active = None THEN "starting" ELSE "stopping"
          /\ UNCHANGED <<active, running, closing>>
      BY <2>2 DEF Start
    <3>2. received' = received
      BY <1>5, <3>1 DEF TakeCommand, Counts
    <3> QED
      BY <1>1, <2>1, <3>1, <3>2 DEF EngineIs
  <2>3. CASE Stop
    <3>1. /\ phase = "idle" /\ active # None /\ phase' = "stopping"
          /\ UNCHANGED <<asked, active, running, closing>>
      BY <2>3 DEF Stop
    <3>2. received' = received
      BY <1>5, <3>1 DEF TakeCommand, Counts
    <3> QED
      BY <1>1, <2>1, <3>1, <3>2 DEF EngineIs
  <2>4. CASE UNCHANGED contractVars
    <3>1. received' = received
      BY <1>5, <2>4 DEF TakeCommand, Counts, contractVars
    <3> QED
      BY <2>1, <2>4, <3>1 DEF EngineIs, contractVars
  <2>5. Head(channel) \in Commands
    <3>1. channel \in Seq(Commands) /\ channel # << >>
      BY <1>5 DEF Typed, TakeCommand
    <3> QED
      BY <3>1, HeadTailProperties
  <2>6. Head(channel).cmd = "start" => Head(channel).config \in Configs
    BY <2>5 DEF Commands, StopCmd, StartOf
  <2> QED
    BY <1>5, <2>2, <2>3, <2>4, <2>6 DEF TakeCommand
<1>6. CASE EngineAdvances
  <2>1. gui' = gui /\ received' = IF active' = active THEN received ELSE 0
    BY <1>6 DEF EngineAdvances, EngineOnly, Counts
  <2>6. CASE Hides
    BY <1>1, <2>1, <2>6 DEF Hides, EngineIs
  <2>7. CASE Refuses
    BY <1>1, <2>1, <2>7 DEF Refuses, EngineIs
  <2>8. CASE Serves
    BY <1>1, <2>1, <2>8 DEF Serves, EngineIs
  <2>9. CASE Publishes
    BY <1>1, <2>1, <2>9 DEF Publishes, EngineIs
  <2>2. CASE Stopped
    <3>1. /\ phase = "stopping" /\ active' = None /\ ~running' /\ active # None
          /\ phase' = IF asked # None THEN "starting"
                      ELSE IF closing THEN "closed" ELSE "idle"
          /\ UNCHANGED <<asked, closing>>
      BY <2>2 DEF Stopped, EngineIs
    <3>2. running' \in BOOLEAN
      BY <2>2 DEF Stopped
    <3>3. received' = 0 /\ ~closing
      BY <2>1, <3>1 DEF EngineIs
    <3> QED
      BY <2>1, <3>1, <3>2, <3>3 DEF EngineIs
  <2>3. CASE Begins
    BY <1>1, <2>1, <2>3 DEF Begins, EngineIs
  <2>4. CASE Fails
    BY <1>1, <2>1, <2>4 DEF Fails, EngineIs
  <2>5. CASE Runs
    BY <1>1, <2>1, <2>5 DEF Runs, EngineIs
  <2> QED
    BY <1>6, <2>2, <2>3, <2>4, <2>5, <2>6, <2>7, <2>8, <2>9
       DEF EngineAdvances, Advances
<1>7. CASE RunDies
  BY <1>7 DEF RunDies, EndsByItself, Stop, EngineOnly, EngineIs
<1>8. CASE Packet
  BY <1>1, <1>8 DEF Packet, contractVars, EngineIs
<1> QED
  BY <1>2, <1>3, <1>4, <1>5, <1>6, <1>7, <1>8
     DEF GuiNext, OffEngine, User, Exit, Killed

(* A tick counts what came in before it; what comes in after it is news. *)
LEMMA CountedKept ==
  ASSUME Typed, EngineIs, Counted, GuiNext
  PROVE  Counted'
<1>1. /\ received \in Nat /\ counted \in Nat /\ silence \in 0 .. 2
      /\ gui \in {"up", "polling", "exited"} /\ polled \in BOOLEAN
  BY DEF Typed
<1>2. CASE User
  BY <1>2 DEF User, Edit, ToggleAir, Save, CloseWindow, TrayClick, engineVars,
              contractVars, pollVars, Counted
<1>3. CASE Poll
  <2>1. /\ gui = "up" /\ gui' = "polling" /\ polled' = running
        /\ silence' = (IF running /\ silence < 2 THEN silence + 1 ELSE silence)
        /\ UNCHANGED <<counted, received, phase, shown>>
    BY <1>3 DEF Poll, engineVars, contractVars
  <2>2. received > 0 => running \/ phase = "serving"
    BY DEF EngineIs
  <2>3. phase = "serving" => ~running
    BY DEF EngineIs
  <2>4. received > 0 /\ ~running => silence' = 0
    BY <2>1, <2>2 DEF Counted
  <2>5. silence' = 2 => silence \geq 1
    BY <1>1, <2>1
  <2> QED
    BY <1>1, <2>1, <2>3, <2>4, <2>5 DEF Counted
<1>4. CASE PollEnds
  <2>1. /\ gui = "polling" /\ gui' = "up"
        /\ counted' = IF polled /\ shown THEN received ELSE 0
        /\ UNCHANGED <<silence, received, polled, phase, shown>>
    BY <1>4 DEF PollEnds, engineVars, contractVars
  <2>2. silence \geq 1 /\ shown => received \leq counted'
    BY <1>1, <2>1 DEF Counted
  <2> QED
    BY <2>1, <2>2 DEF Counted
<1>5. CASE TaskStep
  BY <1>5 DEF TaskStep, engineVars, contractVars, pollVars, Counted
<1>6. CASE Gone
  BY <1>6 DEF Gone, Counted
<1>7. CASE Launch
  <2>1. /\ gui = "exited" /\ gui' = "up" /\ ~shown' /\ phase' = "idle"
    BY <1>7 DEF Launch, NoRun
  <2> QED
    BY <2>1 DEF Counted
<1>8. CASE TakeCommand \/ EngineAdvances \/ RunDies
  <2>1. UNCHANGED <<gui, polled, counted>>
    BY <1>8 DEF TakeCommand, EngineAdvances, RunDies, EngineOnly, pollVars
  <2>2. \/ UNCHANGED <<received, silence>>
        \/ received' = 0 /\ silence' = 2 /\ active' # active
    BY <1>8 DEF TakeCommand, EngineAdvances, RunDies, Counts
  <2>3. shown' => shown \/ phase = "serving"
    BY <1>8 DEF TakeCommand, EngineAdvances, RunDies, EndsByItself, Start, Stop,
                contractVars, Advances, Hides, Stopped, Refuses, Begins, Fails,
                Serves, Publishes, Runs
  <2>4. phase' = "serving" => phase = "serving" \/ active' # active
    <3>1. CASE Serves
      <4>1. active' = asked /\ active = None /\ asked # None
        BY <3>1 DEF Serves, EngineIs
      <4> QED
        BY <4>1
    <3> QED
      BY <1>8, <3>1
         DEF TakeCommand, EngineAdvances, RunDies, EndsByItself, Start, Stop,
             contractVars, Advances, Hides, Stopped, Refuses, Begins, Fails,
             Publishes, Runs
  <2>5. CASE UNCHANGED <<received, silence>> /\ active' = active
    BY <1>1, <2>1, <2>3, <2>4, <2>5 DEF Counted
  <2>6. CASE received' = 0
    BY <1>1, <2>1, <2>6 DEF Counted
  <2>7. received' = 0 \/ active' = active
    BY <1>8 DEF TakeCommand, EngineAdvances, RunDies, EndsByItself, Stop, Counts
  <2> QED
    BY <2>2, <2>5, <2>6, <2>7
<1>9. CASE Packet
  BY <1>9 DEF Packet, Counted
<1> QED
  BY <1>2, <1>3, <1>4, <1>5, <1>6, <1>7, <1>8, <1>9 DEF GuiNext, Exit, Killed

(* A tick that finds news has found a packet since the tick before began that
   saw the run. *)
LEMMA StreamingStep ==
  ASSUME Typed, Counted, GuiNext, gui = "polling", gui' = "up", streaming'
  PROVE  silence < 2
<1>1. received \in Nat /\ counted \in Nat /\ silence \in 0 .. 2
  BY DEF Typed
<1>2. PollEnds
  BY DEF GuiNext, User, Edit, ToggleAir, Save, CloseWindow, TrayClick, Pressed,
     Poll, TaskStep, Exit, Killed, Gone, Launch, TakeCommand, EngineAdvances,
     RunDies, EngineOnly, Packet
<1>3. polled /\ Delta(IF polled /\ shown THEN received ELSE 0)
  BY <1>2 DEF PollEnds
<1>4. shown /\ received > counted
  BY <1>1, <1>3 DEF Delta
<1> QED
  BY <1>1, <1>4 DEF Counted

-----------------------------------------------------------------------------
(* The console's own variables, of their types.                             *)

(* A press sends an operation, or a plan. *)
LEMMA SpawnTyped ==
  ASSUME Typed, NEW ops \in Seq(Ops), ops # << >>, tasks' = Append(tasks, ops)
  PROVE  tasks' \in Seq(Seq(Ops) \ {<< >>})
<1> DEFINE T == Seq(Ops) \ {<< >>}
<1>1. tasks \in Seq(T) /\ ops \in T
  BY DEF Typed
<1> HIDE DEF T
<1>2. tasks' \in Seq(T)
  BY <1>1, AppendProperties
<1> QED
  BY <1>2 DEF T

(* A press keeps every variable's type. *)
LEMMA UserTyped ==
  ASSUME Typed, User
  PROVE  Typed'
<1>1. calm' \in BOOLEAN /\ UNCHANGED <<failures, silence>>
  BY DEF User, Edit, ToggleAir, Save, CloseWindow, TrayClick, Pressed, Typed
<1>2. CASE Edit
  <2>1. form' \in Forms /\ dirty' = TRUE
    BY <1>2 DEF Edit, Offered
  <2>2. UNCHANGED <<gui, config, engineCfg, polled, streaming, counted, tray, bus,
                    tasks, channel, received, disk, entry, wanted, fell>>
    BY <1>2 DEF Edit, pollVars, engineVars, fileVars
  <2> QED
    BY <1>1, <2>1, <2>2 DEF Typed
<1>3. CASE ToggleAir
  <2>1. UNCHANGED <<gui, form, dirty, config, engineCfg, polled, streaming, counted,
                    tray, bus, channel, received, disk, entry>>
    BY <1>3 DEF ToggleAir, appVars, pollVars, engineVars, fileVars
  <2>2. wanted' \in {"on", "off"} /\ fell' = FALSE
    BY <1>3 DEF ToggleAir, Wants
  <2>3. \E o \in Ops : tasks' = Append(tasks, <<o>>)
    <3>1. engineCfg \in Configs
      BY DEF Typed
    <3>2. Send(StopCmd) \in Ops /\ Send(StartOf(engineCfg)) \in Ops
      BY <3>1, OpsAre, CommandsAre
    <3> QED
      BY <1>3, <3>2 DEF ToggleAir, Spawn
  <2>4. tasks' \in Seq(Seq(Ops) \ {<< >>})
    BY <2>3, SpawnTyped, OneOp
  <2> QED
    BY <1>1, <2>1, <2>2, <2>4 DEF Typed
<1>4. CASE Save
  <2>1. UNCHANGED <<gui, form, polled, streaming, counted, tray, bus, channel,
                    received, disk, entry, wanted, fell>>
    BY <1>4 DEF Save, pollVars, engineVars, fileVars
  <2>2. CASE UNCHANGED <<config, engineCfg, dirty, tasks>>
    BY <1>1, <2>1, <2>2 DEF Typed
  <2>3. CASE /\ config' = form.settings /\ engineCfg' = form.settings.engine
             /\ config' \in Settings /\ engineCfg' \in Configs
             /\ dirty' = FALSE
             /\ polled => tasks' = Append(tasks, RestartPlan(config', engineCfg'))
             /\ ~polled => tasks' = Append(tasks, SavePlan(config'))
    <3>1. /\ SavePlan(config') \in Seq(Ops) /\ SavePlan(config') # << >>
          /\ RestartPlan(config', engineCfg') \in Seq(Ops)
          /\ RestartPlan(config', engineCfg') # << >>
      BY <2>3, SavePlanIs, RestartPlanIs
    <3>2. tasks' \in Seq(Seq(Ops) \ {<< >>})
      BY <2>3, <3>1, SpawnTyped
    <3> QED
      BY <1>1, <2>1, <2>3, <3>2 DEF Typed
  <2> QED
    BY <1>4, <2>2, <2>3, SaveIs
<1>5. CASE CloseWindow
  <2>1. UNCHANGED <<gui, form, dirty, config, engineCfg, polled, streaming, counted,
                    bus, channel, received, disk, entry, wanted, fell>>
    BY <1>5 DEF CloseWindow, appVars, pollVars, engineVars, fileVars
  <2>2. tray' = "none" /\ tasks' = Append(tasks, QuitTask)
    BY <1>5 DEF CloseWindow, Spawn
  <2>3. tasks' \in Seq(Seq(Ops) \ {<< >>})
    BY <2>2, QuitTaskIs, SpawnTyped
  <2> QED
    BY <1>1, <2>1, <2>2, <2>3 DEF Typed
<1>6. CASE TrayClick
  <2>1. UNCHANGED <<gui, form, dirty, config, engineCfg, polled, streaming, counted,
                    tray, tasks, channel, received, disk, entry>>
    BY <1>6 DEF TrayClick, appVars, pollVars, engineVars, fileVars
  <2>2. PICK request \in Menu :
          /\ bus' = bus \cup {request}
          /\ CASE request = "start" -> Wants("on")
               [] request = "stop"  -> Wants("off")
               [] OTHER -> UNCHANGED <<wanted, fell>>
    BY <1>6 DEF TrayClick, Requests
  <2>3. request \in {"start", "stop", "quit"}
    BY DEF Menu
  <2>4. wanted' \in {"on", "off"} /\ fell' \in BOOLEAN
    BY <2>2, <2>3 DEF Wants, Typed
  <2>5. bus' \in SUBSET {"start", "stop", "quit"}
    BY <2>2, <2>3 DEF Typed
  <2> QED
    BY <1>1, <2>1, <2>4, <2>5 DEF Typed
<1> QED
  BY <1>2, <1>3, <1>4, <1>5, <1>6 DEF User

(* The settings the disk holds can be shown. *)
LEMMA LoadedIs == Loaded \in Settings
BY GuiAssumption DEF Loaded, DefaultSettings, Settings

(* So does every step. *)
LEMMA TypedKept ==
  ASSUME Typed, EngineIs, GuiNext
  PROVE  Typed'
<1>1. CASE Poll
  <2>1. /\ gui' = "polling" /\ polled' = running
        /\ silence' = (IF running /\ silence < 2 THEN silence + 1 ELSE silence)
        /\ UNCHANGED <<form, dirty, config, engineCfg, streaming, counted, tray, bus,
                       tasks, channel, received, disk, entry, calm, wanted, fell,
                       failures>>
    BY <1>1 DEF Poll, appVars, engineVars, fileVars, boundVars, historyVars
  <2>2. silence' \in 0 .. 2
    <3>1. silence \in 0 .. 2
      BY DEF Typed
    <3> QED
      BY <2>1, <3>1
  <2>3. polled' \in BOOLEAN
    <3>1. running \in BOOLEAN
      BY DEF EngineIs
    <3>2. polled' = running
      BY <2>1
    <3> QED
      BY <3>1, <3>2, Zenon
  <2> QED
    BY <2>1, <2>2, <2>3 DEF Typed
<1>2. CASE PollEnds
  <2>1. /\ gui' = "up" /\ bus' = {}
        /\ streaming' = (polled /\ Delta(IF polled /\ shown THEN received ELSE 0))
        /\ counted' = (IF polled /\ shown THEN received ELSE 0)
        /\ UNCHANGED <<form, dirty, config, engineCfg, polled, channel, received,
                       disk, entry, calm, wanted, fell, failures, silence>>
    BY <1>2 DEF PollEnds, appVars, engineVars, fileVars, boundVars, historyVars
  <2>2. tray' \in {"none", "idle", "armed", "live"}
    BY <1>2 DEF PollEnds, TrayState
  <2>3. counted' \in Nat /\ streaming' \in BOOLEAN
    BY <2>1 DEF Typed
  <2>4. tasks' \in Seq(Seq(Ops) \ {<< >>})
    BY <1>2, PollEndsIs
  <2> QED
    BY <2>1, <2>2, <2>3, <2>4 DEF Typed
<1>3. CASE TaskStep
  <2>1. PICK i \in 1 .. Len(tasks) : Truncate(i) \/ Write(i) \/ Entry(i) \/ SendCmd(i)
    BY <1>3 DEF TaskStep
  <2>2. UNCHANGED <<gui, form, dirty, config, engineCfg, polled, streaming, counted,
                    tray, bus, received, silence, calm, wanted, fell>>
    BY <1>3 DEF TaskStep, appVars, pollVars, engineVars, historyVars
  <2>3. tasks[i][1] \in Ops /\ tasks' \in Seq(Seq(Ops) \ {<< >>})
    BY <2>1, TaskStepIs
  <2>4. failures' \in Nat
    BY <2>1, TaskStepIs DEF Typed
  <2>5. disk' \in Settings \cup {Absent, Torn}
    BY <2>1, <2>3, TaskStepIs, OpsCarry DEF Typed
  <2>6. entry' \in BOOLEAN
    BY <2>1, <2>3, TaskStepIs, OpsCarry DEF Typed
  <2>7. channel' \in Seq(Commands) /\ Len(channel') \leq ChannelCap
    <3>1. channel \in Seq(Commands) /\ Len(channel) \leq ChannelCap
      BY DEF Typed
    <3>2. CASE UNCHANGED channel
      BY <3>1, <3>2
    <3>3. CASE /\ tasks[i][1].op = "send" /\ Len(channel) < ChannelCap
               /\ channel' = Append(channel, tasks[i][1].cmd)
      <4>1. tasks[i][1].cmd \in Commands
        BY <2>3, <3>3, OpsCarry
      <4>2. channel' \in Seq(Commands) /\ Len(channel') = Len(channel) + 1
        BY <3>1, <3>3, <4>1, AppendProperties
      <4> QED
        BY <3>1, <3>3, <4>2, GuiAssumption
    <3> QED
      BY <2>1, <3>2, <3>3, TaskStepIs
  <2> QED
    BY <2>2, <2>3, <2>4, <2>5, <2>6, <2>7 DEF Typed
<1>4. CASE Gone /\ calm' \in BOOLEAN /\ UNCHANGED failures
  <2>1. /\ gui' = "exited" /\ tasks' = << >> /\ channel' = << >> /\ bus' = {}
        /\ tray' = "none" /\ received' = 0 /\ polled' = FALSE /\ streaming' = FALSE
        /\ counted' = 0 /\ silence' = 2 /\ wanted' = "off" /\ fell' = FALSE
        /\ UNCHANGED <<form, dirty, config, engineCfg, disk, entry>>
    BY <1>4 DEF Gone, Wants, appVars, fileVars
  <2>2. tasks' \in Seq(Seq(Ops) \ {<< >>}) /\ channel' \in Seq(Commands)
    BY <2>1
  <2>3. Len(channel') \leq ChannelCap
    BY <2>1, GuiAssumption
  <2>4. received' \in Nat /\ counted' \in Nat /\ failures' \in Nat /\ silence' \in 0 .. 2
    BY <1>4, <2>1 DEF Typed
  <2>5. /\ form' \in Forms /\ config' \in Settings /\ engineCfg' \in Configs
        /\ dirty' \in BOOLEAN /\ entry' \in BOOLEAN
        /\ disk' \in Settings \cup {Absent, Torn}
        /\ ~dirty' => form'.settings = config'
    BY <2>1 DEF Typed
  <2>6. polled' \in BOOLEAN /\ streaming' \in BOOLEAN /\ fell' \in BOOLEAN
    BY <2>1
  <2>7. /\ gui' \in {"up", "polling", "exited"} /\ wanted' \in {"on", "off"}
        /\ tray' \in {"none", "idle", "armed", "live"}
        /\ bus' \in SUBSET {"start", "stop", "quit"}
    BY <2>1
  <2> QED
    BY <1>4, <2>2, <2>3, <2>4, <2>5, <2>6, <2>7 DEF Typed
<1>5. CASE Launch
  <2>1. /\ gui' = "up" /\ tray' \in {"none", "idle"}
        /\ form' = [settings |-> Loaded, portOk |-> TRUE] /\ dirty' = FALSE
        /\ config' = Loaded /\ engineCfg' = Loaded.engine
        /\ UNCHANGED <<polled, streaming, counted, bus, tasks, channel, received, disk,
                       entry, failures, silence, calm, wanted, fell>>
    BY <1>5 DEF Launch, Shows, pollVars, fileVars, historyVars
  <2>2. Loaded \in Settings /\ Loaded.engine \in Configs
    BY LoadedIs DEF Settings
  <2>3. form' \in Forms /\ form'.settings = Loaded
    BY <2>1, <2>2 DEF Forms
  <2> QED
    BY <2>1, <2>2, <2>3 DEF Typed
<1>6. CASE TakeCommand
  <2>1. /\ channel # << >> /\ channel' = Tail(channel)
        /\ received' \in {received, 0} /\ silence' \in {silence, 2}
        /\ UNCHANGED <<gui, form, dirty, config, engineCfg, polled, streaming, counted,
                       tray, bus, tasks, disk, entry, failures, calm, wanted, fell>>
    BY <1>6 DEF TakeCommand, EngineOnly, Counts, appVars, pollVars, fileVars,
                boundVars
  <2>2. channel \in Seq(Commands) /\ Len(channel) \leq ChannelCap
    BY DEF Typed
  <2>3. channel' \in Seq(Commands) /\ Len(channel') = Len(channel) - 1
    BY <2>1, <2>2, HeadTailProperties
  <2>4. Len(channel') \leq ChannelCap
    BY <2>2, <2>3, GuiAssumption
  <2>5. received' \in Nat /\ silence' \in 0 .. 2
    BY <2>1 DEF Typed
  <2> QED
    BY <2>1, <2>3, <2>4, <2>5 DEF Typed
<1>7. CASE EngineAdvances \/ RunDies
  <2>1. UNCHANGED <<gui, form, dirty, config, engineCfg, polled, streaming, counted,
                    tray, bus, tasks, channel, disk, entry, failures, calm,
                    wanted>>
    BY <1>7 DEF EngineAdvances, RunDies, EngineOnly, appVars, pollVars, fileVars,
                boundVars
  <2>2. received' \in Nat /\ silence' \in 0 .. 2
    <3>1. received' \in {received, 0} /\ silence' \in {silence, 2}
      BY <1>7 DEF EngineAdvances, RunDies, Counts
    <3> QED
      BY <3>1 DEF Typed
  <2>3. fell' \in BOOLEAN
    <3>1. CASE EngineAdvances
      <4>1. fell' = (fell \/ Refuses \/ Fails)
        BY <3>1 DEF EngineAdvances
      <4> QED
        BY <4>1
    <3>2. CASE RunDies
      BY <3>2 DEF RunDies
    <3> QED
      BY <1>7, <3>1, <3>2
  <2> QED
    BY <2>1, <2>2, <2>3 DEF Typed
<1>8. CASE Packet
  <2>1. /\ received' = received + 1 /\ silence' = 0
        /\ UNCHANGED <<gui, form, dirty, config, engineCfg, polled, streaming, counted,
                       tray, bus, tasks, channel, disk, entry, failures, calm, wanted,
                       fell>>
    BY <1>8 DEF Packet, appVars, pollVars, fileVars, boundVars, historyVars
  <2>2. received' \in Nat
    BY <2>1 DEF Typed
  <2> QED
    BY <2>1, <2>2 DEF Typed
<1>9. Exit \/ Killed => Gone /\ calm' \in BOOLEAN /\ UNCHANGED failures
  BY DEF Exit, Killed, Pressed, boundVars, Typed
<1> QED
  BY <1>1, <1>2, <1>3, <1>4, <1>5, <1>6, <1>7, <1>8, <1>9, UserTyped DEF GuiNext

-----------------------------------------------------------------------------
(* One press at a time.                                                     *)

(* A calm console where nothing is under way is settled. *)
LEMMA QuietIs ==
  ASSUME Typed, EngineIs, OnePress, calm, Quiet
  PROVE  /\ bus = {} /\ tasks = << >> /\ channel = << >>
         /\ asked = None /\ active \in {None, engineCfg} /\ FilesAt(4)
         /\ phase = "idle" /\ (polled <=> active # None)
         /\ wanted = "on" /\ ~fell => active = engineCfg
         /\ wanted = "off" => active = None
<1>1. bus = {} /\ tasks = << >> /\ channel = << >> /\ phase = "idle" /\ polled = running
  BY DEF Quiet
<1>2. Settled
  <2>1. << >> # <<StopCmd>> /\ << >> # <<StopCmd, StartOf(engineCfg)>>
        /\ << >> # <<StartOf(engineCfg)>>
    OBVIOUS
  <2>2. \A t : << >> # <<t>>
    OBVIOUS
  <2>3. ~Saving
    BY <1>1, <2>2 DEF Saving
  <2>4. ~Restarting
    BY <1>1, <2>1, <2>2 DEF Restarting
  <2>5. ~StartComes
    BY <1>1, <2>1, <2>2 DEF StartComes
  <2>6. ~StopComes
    BY <1>1, <2>1, <2>2 DEF StopComes
  <2>7. ~QuitComes
    BY <1>1, <2>1, <2>2 DEF QuitComes
  <2> QED
    BY <2>3, <2>4, <2>5, <2>6, <2>7 DEF OnePress
<1>3. polled <=> active # None
  BY <1>1 DEF EngineIs
<1>4. asked = None
  BY <1>1 DEF EngineIs
<1> QED
  BY <1>1, <1>2, <1>3, <1>4 DEF Settled, OldRunEnds

(* The press of a calm user comes when everything is quiet. *)
LEMMA PressIs ==
  ASSUME Typed, EngineIs, OnePress, Pressed, calm'
  PROVE  /\ bus = {} /\ tasks = << >> /\ channel = << >>
         /\ asked = None /\ active \in {None, engineCfg} /\ FilesAt(4)
         /\ phase = "idle" /\ (polled <=> active # None)
         /\ wanted = "on" /\ ~fell => active = engineCfg
         /\ wanted = "off" => active = None
         /\ UNCHANGED failures
BY QuietIs DEF Pressed

(* A press at a quiet console starts one activity. *)
LEMMA UserOnePress ==
  ASSUME Typed, EngineIs, OnePress, User
  PROVE  OnePress'
<1> SUFFICES ASSUME calm'
             PROVE  (Settled \/ Saving \/ Restarting \/ StartComes \/ StopComes
                       \/ QuitComes)'
  BY DEF OnePress
<1>1. Pressed /\ UNCHANGED <<asked, active, phase, channel, disk, entry>>
  BY DEF User, Edit, ToggleAir, Save, CloseWindow, TrayClick, engineVars,
         contractVars, fileVars
<1>2. /\ bus = {} /\ tasks = << >> /\ channel = << >>
      /\ asked = None /\ active \in {None, engineCfg} /\ FilesAt(4)
      /\ phase = "idle" /\ (polled <=> active # None)
      /\ wanted = "on" /\ ~fell => active = engineCfg
      /\ wanted = "off" => active = None
      /\ UNCHANGED failures
  BY <1>1, PressIs
<1>3. \A t : Append(<< >>, t) = <<t>>
  OBVIOUS
<1>4. UNCHANGED <<config, engineCfg>> => FilesAt(4)' /\ OldRunEnds'
  BY <1>1, <1>2 DEF FilesAt, Loaded, OldRunEnds
<1>5. ASSUME UNCHANGED <<config, engineCfg, tasks, bus, wanted, fell>>
      PROVE  Settled'
  BY <1>1, <1>2, <1>4, <1>5 DEF Settled
<1>6. CASE Edit
  BY <1>5, <1>6 DEF Edit
<1>7. CASE ToggleAir
  <2>1. UNCHANGED <<config, engineCfg, bus>>
    BY <1>7 DEF ToggleAir, appVars
  <2>2. CASE polled
    <3>1. wanted' = "off" /\ tasks' = << <<Send(StopCmd)>> >>
      BY <1>2, <1>3, <1>7, <2>2 DEF ToggleAir, OnAir, Spawn, Wants
    <3> QED
      BY <1>1, <1>2, <1>4, <2>1, <3>1 DEF StopComes
  <2>3. CASE ~polled
    <3>1. wanted' = "on" /\ tasks' = << <<Send(StartOf(engineCfg))>> >>
      BY <1>2, <1>3, <1>7, <2>3 DEF ToggleAir, OnAir, Spawn, Wants
    <3> QED
      BY <1>1, <1>2, <1>4, <2>1, <3>1 DEF StartComes
  <2> QED
    BY <2>2, <2>3
<1>8. CASE Save
  <2>1. UNCHANGED <<bus, wanted, fell>>
    BY <1>8 DEF Save
  <2>2. CASE UNCHANGED <<config, engineCfg, dirty, tasks>>
    BY <1>5, <2>1, <2>2
  <2>3. CASE /\ config' \in Settings /\ engineCfg' \in Configs
             /\ polled => tasks' = Append(tasks, RestartPlan(config', engineCfg'))
             /\ ~polled => tasks' = Append(tasks, SavePlan(config'))
    <3>1. FilesAt(1)'
      BY DEF FilesAt
    <3>2. CASE polled
      <4>1. RestartPlan(config', engineCfg') = Left(RestartPlan(config', engineCfg'), 1)
        BY <2>3, RestartPlanIs, AllLeft
      <4>2. tasks' = <<Left(RestartPlan(config', engineCfg'), 1)>>
        BY <1>2, <1>3, <2>3, <3>2, <4>1
      <4>3. wanted' = "on"
        BY <1>2, <2>1, <3>2 DEF Typed
      <4>4. 1 \in 1 .. 4
        OBVIOUS
      <4>5. Restarting'
        BY <1>1, <1>2, <2>1, <3>1, <4>2, <4>3, <4>4 DEF Restarting
      <4> QED
        BY <4>5
    <3>3. CASE ~polled
      <4>1. SavePlan(config') = Left(SavePlan(config'), 1)
        BY <2>3, SavePlanIs, AllLeft
      <4>2. tasks' = <<Left(SavePlan(config'), 1)>>
        BY <1>2, <1>3, <2>3, <3>3, <4>1
      <4>3. active = None /\ ~(wanted = "on" /\ ~fell)
        BY <1>2, <3>3, NoneAssumption DEF Typed
      <4>4. 1 \in 1 .. 3
        OBVIOUS
      <4>5. Saving'
        BY <1>1, <1>2, <2>1, <3>1, <4>2, <4>3, <4>4 DEF Saving
      <4> QED
        BY <4>5
    <3> QED
      BY <3>2, <3>3
  <2> QED
    BY <1>8, <2>2, <2>3, SaveIs
<1>9. CASE CloseWindow
  <2>1. /\ UNCHANGED <<config, engineCfg, bus, wanted>>
        /\ tasks' = <<QuitTask>>
    BY <1>2, <1>3, <1>9 DEF CloseWindow, Spawn, appVars
  <2> QED
    BY <1>1, <1>2, <1>4, <2>1 DEF QuitComes
<1>10. CASE TrayClick
  <2>1. UNCHANGED <<config, engineCfg, tasks>>
    BY <1>10 DEF TrayClick, appVars
  <2>2. PICK request \in {"start", "stop", "quit"} :
          /\ bus' = {request}
          /\ request = "start" => wanted' = "on"
          /\ request = "stop" => wanted' = "off"
          /\ request = "quit" => wanted' = wanted
    BY <1>2, <1>10 DEF TrayClick, Menu, Requests, Wants
  <2>3. CASE request = "start"
    BY <1>1, <1>2, <1>4, <2>1, <2>2, <2>3 DEF StartComes
  <2>4. CASE request = "stop"
    BY <1>1, <1>2, <1>4, <2>1, <2>2, <2>4 DEF StopComes
  <2>5. CASE request = "quit"
    BY <1>1, <1>2, <1>4, <2>1, <2>2, <2>5 DEF QuitComes
  <2> QED
    BY <2>3, <2>4, <2>5
<1> QED
  BY <1>6, <1>7, <1>8, <1>9, <1>10 DEF User

(* A step that changes nothing of this. *)
LEMMA SameOnePress ==
  ASSUME OnePress,
         UNCHANGED <<calm, tasks, bus, channel, asked, active, phase, wanted, fell,
                     config, engineCfg, disk, entry, failures>>
  PROVE  OnePress'
<1>1. /\ OldRunEnds' = OldRunEnds
      /\ \A k : FilesAt(k)' = FilesAt(k)
  BY DEF OldRunEnds, FilesAt, Loaded
<1>2. Settled => Settled'
  BY <1>1 DEF Settled
<1>3. Saving => Saving'
  BY <1>1 DEF Saving
<1>4. Restarting => Restarting'
  BY <1>1 DEF Restarting
<1>5. StartComes => StartComes'
  BY <1>1 DEF StartComes
<1>6. StopComes => StopComes'
  BY <1>1 DEF StopComes
<1>7. QuitComes => QuitComes'
  BY <1>1 DEF QuitComes
<1> QED
  BY <1>2, <1>3, <1>4, <1>5, <1>6, <1>7 DEF OnePress

(* A tick makes a task of the request it finds. *)
LEMMA PollEndsOnePress ==
  ASSUME Typed, OnePress, PollEnds
  PROVE  OnePress'
<1>1. /\ bus' = {}
      /\ UNCHANGED <<calm, channel, asked, active, phase, wanted, fell, config,
                     engineCfg, disk, entry, failures>>
  BY DEF PollEnds, engineVars, contractVars, appVars, fileVars, boundVars, historyVars
<1>2. /\ bus = {} => tasks' = tasks
      /\ tasks = << >> =>
           /\ bus = {"quit"} => tasks' = <<QuitTask>>
           /\ bus = {"start"} => tasks' = << <<Send(StartOf(engineCfg))>> >>
           /\ bus = {"stop"} => tasks' = << <<Send(StopCmd)>> >>
  BY PollEndsIs
<1>3. CASE bus = {}
  BY <1>1, <1>2, <1>3, SameOnePress
<1>4. CASE bus # {}
  <2> SUFFICES ASSUME calm
               PROVE  StartComes' \/ StopComes' \/ QuitComes'
    BY <1>1 DEF OnePress
  <2>1. FilesAt(4)' = FilesAt(4) /\ OldRunEnds' = OldRunEnds
    BY <1>1 DEF FilesAt, Loaded, OldRunEnds
  <2>2. StartComes \/ StopComes \/ QuitComes
    BY <1>4 DEF OnePress, Settled, Saving, Restarting
  <2>3. CASE StartComes
    BY <1>1, <1>2, <1>4, <2>1, <2>3 DEF StartComes
  <2>4. CASE StopComes
    BY <1>1, <1>2, <1>4, <2>1, <2>4 DEF StopComes
  <2>5. CASE QuitComes
    BY <1>1, <1>2, <1>4, <2>1, <2>5 DEF QuitComes
  <2> QED
    BY <2>2, <2>3, <2>4, <2>5
<1> QED
  BY <1>3, <1>4

(* The two plans save alike: operation k < 4 of the one task brings the files on. *)
LEMMA SavesOn ==
  ASSUME Typed, NEW i \in 1 .. Len(tasks),
         Truncate(i) \/ Write(i) \/ Entry(i) \/ SendCmd(i),
         NEW p \in Seq(Ops), NEW k \in 1 .. 3, Len(p) \geq 3,
         p[1] = TruncateOp, p[2] = WriteOp(config), p[3] = EntryOp(config.autostart),
         tasks = <<Left(p, k)>>, FilesAt(k), UNCHANGED config
  PROVE  /\ UNCHANGED channel
         /\ \E j \in k + 1 .. k + 2 :
              /\ j \leq 4 /\ FilesAt(j)'
              /\ j \leq Len(p) => tasks' = <<Left(p, j)>>
              /\ j = Len(p) + 1 => tasks' = << >>
<1>1. /\ tasks[i][1] \in Ops
      /\ \/ /\ tasks[i][1].op = "truncate" /\ UNCHANGED <<channel, entry>>
            /\ \/ failures' = failures /\ disk' = Torn /\ Leaves(i, 1)
               \/ failures' = failures + 1 /\ disk' = disk /\ Leaves(i, 2)
         \/ /\ tasks[i][1].op = "write" /\ UNCHANGED <<channel, entry>>
            /\ Leaves(i, 1)
            /\ \/ failures' = failures /\ disk' = tasks[i][1].settings
               \/ failures' = failures + 1 /\ disk' = disk
         \/ /\ tasks[i][1].op = "entry" /\ UNCHANGED <<channel, disk>>
            /\ Leaves(i, 1)
            /\ \/ failures' = failures /\ entry' = tasks[i][1].on
               \/ failures' = failures + 1 /\ entry' = entry
         \/ /\ tasks[i][1].op = "send"
            /\ Leaves(i, 1)
  BY TaskStepIs
<1>2. Len(p) \in Nat /\ k \in 1 .. Len(p) /\ failures \in Nat /\ config \in Settings
  BY DEF Typed
<1>3. config.autostart \in BOOLEAN
  BY <1>2 DEF Settings
<1>4. ASSUME NEW n \in 1 .. 2, k + n \leq 4, Leaves(i, n)
      PROVE  /\ tasks[i][1] = p[k]
             /\ k + n \leq Len(p) => tasks' = <<Left(p, k + n)>>
             /\ k + n = Len(p) + 1 => tasks' = << >>
  <2>1. n \in Nat /\ k + n \leq Len(p) + 1
    BY <1>2, <1>4
  <2> QED
    BY <1>2, <1>4, <2>1, OnlyTask
<1>5. tasks[i][1] = p[k]
  <2>1. CASE k \in 1 .. 2
    BY <1>1, <1>4, <2>1
  <2>2. CASE k = 3
    <3>1. Leaves(i, 1) => tasks[i][1] = p[k]
      BY <1>4, <2>2
    <3>2. tasks = <<Left(p, 3)>> /\ i = 1
      BY <2>2
    <3>3. tasks[i] = Left(p, 3)
      BY <3>2
    <3>4. Left(p, 3)[1] = p[3]
      <4> DEFINE q == Left(p, 3)
      <4>1. 3 \in 1 .. Len(p) + 1
        BY <1>2
      <4>2. \A j \in 1 .. (Len(p) - 3) + 1 : q[j] = p[(3 + j) - 1]
        BY <4>1, LeftIs
      <4> HIDE DEF q
      <4>3. q[1] = p[(3 + 1) - 1]
        BY <1>2, <4>2
      <4> QED
        BY <4>3 DEF q
    <3> QED
      BY <2>2, <3>3, <3>4
  <2> QED
    BY <2>1, <2>2
<1>6. CASE k = 1
  <2>1. tasks[i][1].op = "truncate"
    BY <1>5, <1>6, OpsAre
  <2>2. CASE failures' = failures /\ disk' = Torn /\ Leaves(i, 1)
    <3>1. FilesAt(2)'
      BY DEF FilesAt
    <3> QED
      BY <1>1, <1>2, <1>4, <1>6, <2>1, <2>2, <3>1
  <2>3. CASE failures' = failures + 1 /\ disk' = disk /\ Leaves(i, 2)
    <3>1. FilesAt(3)'
      BY <1>2, <2>3 DEF FilesAt
    <3> QED
      BY <1>1, <1>2, <1>4, <1>6, <2>1, <2>3, <3>1
  <2> QED
    BY <1>1, <2>1, <2>2, <2>3
<1>7. CASE k = 2
  <2>1. tasks[i][1].op = "write" /\ tasks[i][1].settings = config
    BY <1>2, <1>5, <1>7, OpsAre
  <2>2. FilesAt(3)'
    BY <1>1, <1>2, <2>1 DEF FilesAt, Loaded
  <2> QED
    BY <1>1, <1>2, <1>4, <1>7, <2>1, <2>2
<1>8. CASE k = 3
  <2>1. tasks[i][1].op = "entry" /\ tasks[i][1].on = config.autostart
    BY <1>3, <1>5, <1>8, OpsAre
  <2>2. FilesAt(4)'
    BY <1>1, <1>2, <1>8, <2>1 DEF FilesAt, Loaded
  <2> QED
    BY <1>1, <1>2, <1>4, <1>8, <2>1, <2>2
<1> QED
  BY <1>6, <1>7, <1>8

(* The second of two commands. *)
LEMMA AppendTwo ==
  ASSUME NEW a, NEW b
  PROVE  Append(<<a>>, b) = <<a, b>>
<1> DEFINE s == Append(<<a>>, b)
           t == <<a, b>>
<1>1. s \in Seq({a, b}) /\ Len(s) = 2
  OBVIOUS
<1>2. s[1] = a /\ s[2] = b
  OBVIOUS
<1>3. t \in Seq({a, b}) /\ Len(t) = 2 /\ t[1] = a /\ t[2] = b
  OBVIOUS
<1> HIDE DEF s, t
<1>4. s = t
  BY <1>1, <1>2, <1>3, SeqEqual
<1> QED
  BY <1>4 DEF s, t

(* The one task sends its command, its operation k, when the files are done. *)
LEMMA SendsOn ==
  ASSUME Typed, NEW i \in 1 .. Len(tasks),
         Truncate(i) \/ Write(i) \/ Entry(i) \/ SendCmd(i),
         NEW p \in Seq(Ops), NEW k \in 1 .. Len(p), NEW c \in Commands,
         p[k] = Send(c), tasks = <<Left(p, k)>>, FilesAt(4), UNCHANGED config
  PROVE  /\ channel' = Append(channel, c) /\ FilesAt(4)'
         /\ k < Len(p) => tasks' = <<Left(p, k + 1)>>
         /\ k = Len(p) => tasks' = << >>
<1>1. Len(p) \in Nat
  OBVIOUS
<1>2. tasks[i][1] = p[k]
  <2>1. Leaves(i, 1) \/ Leaves(i, 2)
    BY DEF Truncate, Write, Entry, SendCmd
  <2>2. /\ tasks = <<Left(p, k)>> /\ i = 1 /\ Left(p, k)[1] = p[k]
    <3> DEFINE q == Left(p, k)
    <3>1. k \in 1 .. Len(p) + 1
      BY <1>1
    <3>2. \A j \in 1 .. (Len(p) - k) + 1 : q[j] = p[(k + j) - 1]
      BY <3>1, LeftIs
    <3> HIDE DEF q
    <3>3. q[1] = p[(k + 1) - 1]
      BY <1>1, <3>2
    <3>4. tasks = <<q>>
      BY DEF q
    <3> QED
      BY <1>1, <3>3, <3>4 DEF q
  <2> QED
    BY <2>2
<1>3. tasks[i][1].op = "send" /\ tasks[i][1].cmd = c
  BY <1>2, OpsAre
<1>4. /\ channel' = Append(channel, c) /\ UNCHANGED <<disk, entry, failures>>
      /\ Leaves(i, 1)
  BY <1>3, TaskStepIs
<1>5. k + 1 \leq Len(p) + 1
  BY <1>1
<1>6. /\ k + 1 \leq Len(p) => tasks' = <<Left(p, k + 1)>>
      /\ k + 1 = Len(p) + 1 => tasks' = << >>
  BY <1>4, <1>5, OnlyTask
<1>7. FilesAt(4)'
  BY <1>4 DEF FilesAt, Loaded
<1> QED
  BY <1>1, <1>4, <1>6, <1>7

(* A task's step brings the one activity on, or ends it. *)
LEMMA TaskStepOnePress ==
  ASSUME Typed, OnePress, TaskStep
  PROVE  OnePress'
<1> SUFFICES ASSUME calm
             PROVE  (Settled \/ Saving \/ Restarting \/ StartComes \/ StopComes
                       \/ QuitComes)'
  BY DEF OnePress, TaskStep, historyVars
<1>1. UNCHANGED <<calm, bus, asked, active, phase, wanted, fell, config, engineCfg>>
  BY DEF TaskStep, engineVars, contractVars, appVars, historyVars
<1>2. PICK i \in 1 .. Len(tasks) : Truncate(i) \/ Write(i) \/ Entry(i) \/ SendCmd(i)
  BY DEF TaskStep
<1>3. OldRunEnds' = OldRunEnds
  BY <1>1 DEF OldRunEnds
<1>4. engineCfg \in Configs /\ config \in Settings
  BY DEF Typed
<1>5. tasks # << >>
  BY <1>2
<1>6. /\ \A c : Append(<< >>, c) = <<c>>
      /\ Append(<<StopCmd>>, StartOf(engineCfg)) = <<StopCmd, StartOf(engineCfg)>>
  BY AppendTwo
<1>7. Send(StopCmd) \in Ops /\ Send(StartOf(engineCfg)) \in Ops
  BY <1>4, OpsAre, CommandsAre
<1>8. CASE Saving
  <2> DEFINE p == SavePlan(config)
  <2>1. PICK k \in 1 .. 3 : tasks = <<Left(p, k)>> /\ FilesAt(k)
    BY <1>8 DEF Saving
  <2>2. /\ p \in Seq(Ops) /\ Len(p) = 3
        /\ p[1] = TruncateOp /\ p[2] = WriteOp(config) /\ p[3] = EntryOp(config.autostart)
    BY <1>4, SavePlanIs
  <2> HIDE DEF p
  <2>3. PICK j \in k + 1 .. k + 2 :
          /\ j \leq 4 /\ FilesAt(j)'
          /\ j \leq 3 => tasks' = <<Left(p, j)>>
          /\ j = 4 => tasks' = << >>
    <3>1. \E j \in k + 1 .. k + 2 :
            /\ j \leq 4 /\ FilesAt(j)'
            /\ j \leq Len(p) => tasks' = <<Left(p, j)>>
            /\ j = Len(p) + 1 => tasks' = << >>
      <4>1. Len(p) \geq 3 /\ UNCHANGED config
        BY <1>1, <2>2
      <4> QED
        BY <4>1, <1>2, <2>1, <2>2, SavesOn
    <3> QED
      BY <2>2, <3>1
  <2>4. UNCHANGED channel
    BY <1>1, <1>2, <2>1, <2>2, SavesOn
  <2>5. p = SavePlan(config')
    BY <1>1 DEF p
  <2>6. CASE j \leq 3
    <3>1. j \in 1 .. 3 /\ tasks' = <<Left(SavePlan(config'), j)>> /\ FilesAt(j)'
      BY <2>3, <2>5, <2>6
    <3>2. Saving'
      BY <1>1, <1>8, <2>4, <3>1 DEF Saving
    <3> QED
      BY <3>2
  <2>7. CASE j = 4
    <3>1. Settled'
      BY <1>1, <1>8, <2>3, <2>4, <2>7 DEF Settled, Saving, OldRunEnds
    <3> QED
      BY <3>1
  <2> QED
    BY <2>1, <2>3, <2>6, <2>7
<1>9. CASE Restarting
  <2> DEFINE p == RestartPlan(config, engineCfg)
  <2>1. /\ p \in Seq(Ops) /\ Len(p) = 5
        /\ p[1] = TruncateOp /\ p[2] = WriteOp(config) /\ p[3] = EntryOp(config.autostart)
        /\ p[4] = Send(StopCmd) /\ p[5] = Send(StartOf(engineCfg))
    BY <1>4, RestartPlanIs
  <2>2. /\ bus = {} /\ asked = None /\ wanted = "on"
        /\ \/ channel = << >> /\ \E k \in 1 .. 4 : tasks = <<Left(p, k)>> /\ FilesAt(k)
           \/ channel = <<StopCmd>> /\ FilesAt(4) /\ tasks = <<Left(p, 5)>>
    BY <1>5, <1>9 DEF Restarting
  <2>3. p = RestartPlan(config', engineCfg')
    BY <1>1
  <2> HIDE DEF p
  <2>4. /\ bus' = {} /\ asked' = None /\ wanted' = "on"
    BY <1>1, <2>2
  <2>5. ASSUME NEW k \in 1 .. 3, channel = << >>, tasks = <<Left(p, k)>>, FilesAt(k)
        PROVE  Restarting'
    <3>1. PICK j \in k + 1 .. k + 2 :
            j \leq 4 /\ FilesAt(j)' /\ tasks' = <<Left(p, j)>>
      <4>1. \E j \in k + 1 .. k + 2 :
              /\ j \leq 4 /\ FilesAt(j)'
              /\ j \leq Len(p) => tasks' = <<Left(p, j)>>
        <5>1. Len(p) \geq 3 /\ UNCHANGED config
          BY <1>1, <2>1
        <5> QED
          BY <5>1, <1>2, <2>1, <2>5, SavesOn
      <4> QED
        BY <2>1, <4>1
    <3>2. channel' = << >>
      BY <1>1, <1>2, <2>1, <2>5, SavesOn
    <3>3. j \in 1 .. 4 /\ tasks' = <<Left(RestartPlan(config', engineCfg'), j)>>
      BY <2>3, <3>1
    <3> QED
      BY <2>4, <3>1, <3>2, <3>3 DEF Restarting
  <2>6. ASSUME channel = << >>, tasks = <<Left(p, 4)>>, FilesAt(4)
        PROVE  Restarting'
    <3>1. 4 \in 1 .. Len(p) /\ StopCmd \in Commands
      BY <2>1, CommandsAre
    <3>2. /\ channel' = Append(channel, StopCmd) /\ FilesAt(4)'
          /\ 4 < Len(p) => tasks' = <<Left(p, 4 + 1)>>
      BY <1>1, <1>2, <2>1, <2>6, <3>1, SendsOn
    <3>3. channel' = <<StopCmd>> /\ tasks' = <<Left(RestartPlan(config', engineCfg'), 5)>>
      BY <1>6, <2>1, <2>3, <2>6, <3>2
    <3> QED
      BY <2>4, <3>2, <3>3 DEF Restarting
  <2>7. ASSUME channel = <<StopCmd>>, FilesAt(4), tasks = <<Left(p, 5)>>
        PROVE  Restarting'
    <3>1. 5 \in 1 .. Len(p) /\ StartOf(engineCfg) \in Commands
      BY <1>4, <2>1, CommandsAre
    <3>2. /\ channel' = Append(channel, StartOf(engineCfg)) /\ FilesAt(4)'
          /\ 5 = Len(p) => tasks' = << >>
      BY <1>1, <1>2, <2>1, <2>7, <3>1, SendsOn
    <3>3. channel' = <<StopCmd, StartOf(engineCfg')>> /\ tasks' = << >>
      BY <1>1, <1>6, <2>1, <2>7, <3>2
    <3> QED
      BY <2>4, <3>2, <3>3 DEF Restarting
  <2>8. ASSUME channel = << >>, NEW k \in 1 .. 4, tasks = <<Left(p, k)>>, FilesAt(k)
        PROVE  Restarting'
    <3>1. CASE k = 4
      <4>1. tasks = <<Left(p, 4)>> /\ FilesAt(4)
        BY <2>8, <3>1
      <4> QED
        BY <2>6, <2>8, <4>1
    <3>2. CASE k \in 1 .. 3
      BY <2>5, <2>8, <3>2
    <3> QED
      BY <3>1, <3>2
  <2> QED
    BY <2>2, <2>7, <2>8
<1>10. CASE StartComes
  <2> DEFINE p == <<Send(StartOf(engineCfg))>>
  <2>1. bus = {} /\ tasks = <<p>> /\ channel = << >> /\ FilesAt(4)
    BY <1>5, <1>10 DEF StartComes
  <2>2. /\ p \in Seq(Ops) /\ Len(p) = 1 /\ p[1] = Send(StartOf(engineCfg))
        /\ p = Left(p, 1)
    BY <1>7, OneOp
  <2> HIDE DEF p
  <2>3. 1 \in 1 .. Len(p) /\ StartOf(engineCfg) \in Commands /\ tasks = <<Left(p, 1)>>
    BY <1>4, <2>1, <2>2, CommandsAre
  <2>4. channel' = Append(channel, StartOf(engineCfg)) /\ FilesAt(4)' /\ tasks' = << >>
    BY <1>1, <1>2, <2>1, <2>2, <2>3, SendsOn
  <2>5. channel' = <<StartOf(engineCfg')>>
    BY <1>1, <1>6, <2>1, <2>4
  <2>6. StartComes'
    BY <1>1, <1>3, <1>10, <2>1, <2>4, <2>5 DEF StartComes
  <2> QED
    BY <2>6
<1>11. CASE StopComes
  <2> DEFINE p == <<Send(StopCmd)>>
  <2>1. bus = {} /\ tasks = <<p>> /\ channel = << >> /\ FilesAt(4)
    BY <1>5, <1>11 DEF StopComes
  <2>2. /\ p \in Seq(Ops) /\ Len(p) = 1 /\ p[1] = Send(StopCmd)
        /\ p = Left(p, 1)
    BY <1>7, OneOp
  <2> HIDE DEF p
  <2>3. 1 \in 1 .. Len(p) /\ StopCmd \in Commands /\ tasks = <<Left(p, 1)>>
    BY <2>1, <2>2, CommandsAre
  <2>4. channel' = Append(channel, StopCmd) /\ FilesAt(4)' /\ tasks' = << >>
    BY <1>1, <1>2, <2>1, <2>2, <2>3, SendsOn
  <2>5. channel' = <<StopCmd>>
    BY <1>6, <2>1, <2>4
  <2>6. StopComes'
    BY <1>1, <1>3, <1>11, <2>1, <2>4, <2>5 DEF StopComes
  <2> QED
    BY <2>6
<1>12. CASE QuitComes
  <2>1. CASE bus = {} /\ tasks = <<QuitTask>> /\ channel = << >>
    <3> DEFINE p == QuitTask
    <3>1. /\ p \in Seq(Ops) /\ Len(p) = 2 /\ p[1] = Send(StopCmd) /\ p[2] = ExitOp
          /\ p = Left(p, 1) /\ p # << >>
      BY QuitTaskIs, AllLeft, EmptySeq
    <3>2. tasks = <<p>>
      BY <2>1
    <3> HIDE DEF p
    <3>3. 1 \in 1 .. Len(p) /\ StopCmd \in Commands /\ tasks = <<Left(p, 1)>>
      BY <3>1, <3>2, CommandsAre
    <3>4. FilesAt(4)
      BY <1>12 DEF QuitComes
    <3>5. /\ channel' = Append(channel, StopCmd) /\ FilesAt(4)'
          /\ 1 < Len(p) => tasks' = <<Left(p, 1 + 1)>>
      BY <1>1, <1>2, <3>1, <3>3, <3>4, SendsOn
    <3>6. channel' = <<StopCmd>>
      BY <1>6, <2>1, <3>5
    <3>7. Left(p, 2) = <<ExitOp>>
      BY <3>1, LastLeft
    <3>8. tasks' = << <<ExitOp>> >>
      BY <3>1, <3>5, <3>7
    <3>9. QuitComes'
      BY <1>1, <1>3, <1>12, <2>1, <3>5, <3>6, <3>8 DEF QuitComes, ExitOp
    <3> QED
      BY <3>9
  <2>2. CASE tasks = << <<ExitOp>> >>
    <3>1. i = 1 /\ tasks[1] = <<ExitOp>>
      BY <2>2
    <3>2. tasks[i][1] = ExitOp
      BY <3>1
    <3>3. tasks[i][1].op = "exit"
      BY <3>2, OpsAre
    <3> QED
      BY <1>2, <3>3 DEF Truncate, Write, Entry, SendCmd, Next1
  <2> QED
    BY <1>5, <1>12, <2>1, <2>2 DEF QuitComes, ExitOp
<1> QED
  BY <1>5, <1>8, <1>9, <1>10, <1>11, <1>12 DEF OnePress, Settled

-----------------------------------------------------------------------------
(* The program ends and is launched, and the engine works.                  *)

(* A program that is gone has nothing under way. *)
LEMMA GoneIs ==
  ASSUME Gone, FilesAt(4), UNCHANGED failures
  PROVE  Settled'
<1>1. FilesAt(4)'
  BY DEF Gone, appVars, fileVars, FilesAt, Loaded
<1>2. /\ bus' = {} /\ tasks' = << >> /\ channel' = << >>
      /\ asked' = None /\ active' = None /\ wanted' = "off"
  BY DEF Gone, NoRun, Wants
<1> QED
  BY <1>1, <1>2 DEF Settled, OldRunEnds

(* Only a quit's task exits, and it saves nothing. *)
LEMMA ExitOnePress ==
  ASSUME Typed, OnePress, Exit
  PROVE  OnePress'
<1> SUFFICES ASSUME calm
             PROVE  Settled'
  BY DEF OnePress, Exit
<1>1. PICK i \in 1 .. Len(tasks) : tasks[i][1].op = "exit"
  BY DEF Exit, Next1
<1>2. Gone /\ UNCHANGED failures
  BY DEF Exit, boundVars
<1>3. engineCfg \in Configs /\ config \in Settings
  BY DEF Typed
<1>4. ASSUME NEW p \in Seq(Ops), NEW k \in 1 .. Len(p), tasks = <<Left(p, k)>>
      PROVE  p[k].op = "exit"
  <2> DEFINE q == Left(p, k)
  <2>1. Len(p) \in Nat /\ k \in 1 .. Len(p) + 1
    OBVIOUS
  <2>2. \A j \in 1 .. (Len(p) - k) + 1 : q[j] = p[(k + j) - 1]
    BY <2>1, LeftIs
  <2>3. tasks = <<q>>
    BY <1>4
  <2> HIDE DEF q
  <2>4. q[1] = p[(k + 1) - 1] /\ (k + 1) - 1 = k
    BY <2>1, <2>2
  <2>5. i = 1 /\ tasks[i] = q
    BY <2>3
  <2> QED
    BY <1>1, <2>4, <2>5
<1>5. tasks # << >>
  BY <1>1
<1>6. ~Saving
  <2> SUFFICES ASSUME NEW k \in 1 .. 3, tasks = <<Left(SavePlan(config), k)>>
               PROVE  FALSE
    BY DEF Saving
  <2> DEFINE p == SavePlan(config)
  <2>1. /\ p \in Seq(Ops) /\ Len(p) = 3
        /\ p[1] = TruncateOp /\ p[2] = WriteOp(config) /\ p[3] = EntryOp(config.autostart)
    BY <1>3, SavePlanIs
  <2>2. tasks = <<Left(p, k)>>
    OBVIOUS
  <2> HIDE DEF p
  <2>3. p[k].op = "exit"
    BY <1>4, <2>1, <2>2
  <2>4. config.autostart \in BOOLEAN
    BY <1>3 DEF Settings
  <2>5. p[1].op = "truncate" /\ p[2].op = "write" /\ p[3].op = "entry"
    BY <1>3, <2>1, <2>4, OpsAre
  <2> QED
    BY <2>3, <2>5
<1>7. ~Restarting
  <2> SUFFICES ASSUME NEW k \in 1 .. 5, tasks = <<Left(RestartPlan(config, engineCfg), k)>>
               PROVE  FALSE
    BY <1>5 DEF Restarting
  <2> DEFINE p == RestartPlan(config, engineCfg)
  <2>1. /\ p \in Seq(Ops) /\ Len(p) = 5
        /\ p[1] = TruncateOp /\ p[2] = WriteOp(config) /\ p[3] = EntryOp(config.autostart)
        /\ p[4] = Send(StopCmd) /\ p[5] = Send(StartOf(engineCfg))
    BY <1>3, RestartPlanIs
  <2>2. tasks = <<Left(p, k)>>
    OBVIOUS
  <2> HIDE DEF p
  <2>3. p[k].op = "exit"
    BY <1>4, <2>1, <2>2
  <2>4. config.autostart \in BOOLEAN
    BY <1>3 DEF Settings
  <2>5. p[1].op = "truncate" /\ p[2].op = "write" /\ p[3].op = "entry"
    BY <1>3, <2>1, <2>4, OpsAre
  <2>6. p[4].op = "send" /\ p[5].op = "send"
    BY <1>3, <2>1, OpsAre, CommandsAre
  <2> QED
    BY <2>3, <2>5, <2>6
<1>8. ASSUME NEW c \in Commands, tasks = << <<Send(c)>> >>
      PROVE  FALSE
  <2>1. i = 1 /\ tasks[i][1] = Send(c)
    BY <1>8
  <2> QED
    BY <1>1, <2>1, OpsAre
<1>9. ~StartComes
  BY <1>3, <1>5, <1>8, CommandsAre DEF StartComes
<1>10. ~StopComes
  BY <1>5, <1>8, CommandsAre DEF StopComes
<1>11. FilesAt(4)
  BY <1>5, <1>6, <1>7, <1>9, <1>10 DEF OnePress, Settled, QuitComes
<1> QED
  BY <1>2, <1>11, GoneIs

(* A calm user's program is killed when everything is quiet. *)
LEMMA KilledOnePress ==
  ASSUME Typed, EngineIs, OnePress, Killed
  PROVE  OnePress'
<1> SUFFICES ASSUME calm'
             PROVE  Settled'
  BY DEF OnePress
<1> QED
  BY PressIs, GoneIs DEF Killed

(* A launch shows what is on the disk. *)
LEMMA LaunchOnePress ==
  ASSUME Typed, EngineIs, OnePress, NothingLeft, Launch
  PROVE  OnePress'
<1> SUFFICES ASSUME calm
             PROVE  Settled'
  BY DEF OnePress, Launch, historyVars
<1>1. /\ gui = "exited" /\ config' = Loaded /\ asked' = None /\ active' = None
      /\ UNCHANGED <<bus, tasks, channel, disk, entry, failures, wanted>>
  BY DEF Launch, Shows, NoRun, fileVars, historyVars
<1>2. bus = {} /\ tasks = << >> /\ channel = << >> /\ wanted = "off"
  BY <1>1 DEF NothingLeft
<1>3. FilesAt(4)
  <2>1. ~Saving /\ ~Restarting
    BY <1>2 DEF Saving, Restarting
  <2> QED
    BY <2>1 DEF OnePress, Settled, StartComes, StopComes, QuitComes
<1>4. FilesAt(4)'
  BY <1>1, <1>3 DEF FilesAt, Loaded
<1> QED
  BY <1>1, <1>2, <1>4 DEF Settled, OldRunEnds

(* A command that is taken leaves the channel, and what it asks for begins. *)
LEMMA TakeCommandOnePress ==
  ASSUME Typed, EngineIs, OnePress, TakeCommand
  PROVE  OnePress'
<1> SUFFICES ASSUME calm
             PROVE  (Settled \/ StartComes \/ QuitComes)'
  BY DEF OnePress, TakeCommand, EngineOnly
<1>1. /\ phase = "idle" /\ channel # << >> /\ channel' = Tail(channel)
      /\ UNCHANGED <<tasks, bus, config, engineCfg, disk, entry, failures, wanted, fell>>
  BY DEF TakeCommand, EngineOnly, appVars, fileVars, boundVars
<1>2. FilesAt(4)' = FilesAt(4)
  BY <1>1 DEF FilesAt, Loaded
<1>3. engineCfg \in Configs /\ engineCfg # None
  BY NoneAssumption DEF Typed
<1>4. ASSUME Head(channel) = StopCmd, asked = None
      PROVE  asked' = None /\ active' = active /\ (active' = None \/ phase' = "stopping")
  <2>1. Head(channel).cmd = "stop"
    BY <1>4, CommandsAre
  <2>2. Stop \/ (active = None /\ UNCHANGED contractVars)
    BY <2>1 DEF TakeCommand
  <2> QED
    BY <1>4, <2>2 DEF Stop, contractVars
<1>5. ASSUME Head(channel) = StartOf(engineCfg)
      PROVE  asked' = engineCfg /\ active' = active
  <2>1. Head(channel).cmd = "start" /\ Head(channel).config = engineCfg
    BY <1>3, <1>5, CommandsAre
  <2>2. Start(engineCfg)
    BY <2>1 DEF TakeCommand
  <2> QED
    BY <2>2 DEF Start
<1>6. /\ \A c : Head(<<c>>) = c /\ Tail(<<c>>) = << >>
      /\ \A c, d : Head(<<c, d>>) = c /\ Tail(<<c, d>>) = <<d>>
  OBVIOUS
<1>7. CASE Restarting /\ channel = <<StopCmd>>
  <2>1. tasks = << <<Send(StartOf(engineCfg))>> >>
    <3> DEFINE p == RestartPlan(config, engineCfg)
    <3>1. p \in Seq(Ops) /\ Len(p) = 5 /\ p[5] = Send(StartOf(engineCfg)) /\ p # << >>
      BY RestartPlanIs, EmptySeq DEF Typed
    <3>2. tasks = <<Left(p, 5)>>
      <4>1. <<StopCmd>> # <<StopCmd, StartOf(engineCfg)>> /\ <<StopCmd>> # << >>
        OBVIOUS
      <4> QED
        BY <1>7, <4>1 DEF Restarting
    <3> HIDE DEF p
    <3>3. Left(p, 5) = <<p[5]>>
      BY <3>1, LastLeft
    <3> QED
      BY <3>1, <3>2, <3>3
  <2>2. FilesAt(4) /\ bus = {} /\ asked = None /\ wanted = "on"
    BY <1>7 DEF Restarting
  <2>3. asked' = None /\ OldRunEnds' /\ channel' = << >>
    BY <1>1, <1>4, <1>6, <1>7, <2>2 DEF OldRunEnds
  <2>4. StartComes'
    BY <1>1, <1>2, <2>1, <2>2, <2>3 DEF StartComes
  <2> QED
    BY <2>4
<1>8. CASE Restarting /\ channel = <<StopCmd, StartOf(engineCfg)>> /\ tasks = << >>
  <2>1. FilesAt(4) /\ bus = {} /\ asked = None /\ wanted = "on"
    <3>1. \A t : <<t>> # << >>
      OBVIOUS
    <3> QED
      BY <1>8, <3>1 DEF Restarting
  <2>2. asked' = None /\ OldRunEnds' /\ channel' = <<StartOf(engineCfg)>>
    BY <1>1, <1>4, <1>6, <1>8, <2>1 DEF OldRunEnds
  <2>3. StartComes'
    BY <1>1, <1>2, <1>8, <2>1, <2>2 DEF StartComes
  <2> QED
    BY <2>3
<1>9. CASE StartComes
  <2>1. /\ bus = {} /\ tasks = << >> /\ channel = <<StartOf(engineCfg)>>
        /\ OldRunEnds /\ FilesAt(4) /\ wanted = "on"
    BY <1>1, <1>9 DEF StartComes
  <2>2. asked' = engineCfg /\ active' = active /\ channel' = << >>
    BY <1>1, <1>5, <1>6, <2>1
  <2>3. OldRunEnds'
    BY <1>1, <2>1, <2>2 DEF OldRunEnds
  <2>4. bus' = {} /\ tasks' = << >> /\ FilesAt(4)' /\ wanted' = "on" /\ asked' # None
    BY <1>1, <1>2, <1>3, <2>1, <2>2
  <2>5. asked' \in {None, engineCfg'}
    BY <1>1, <2>2
  <2>6. Settled'
    BY <2>2, <2>3, <2>4, <2>5 DEF Settled
  <2> QED
    BY <2>6
<1>10. CASE StopComes
  <2>1. /\ bus = {} /\ tasks = << >> /\ channel = <<StopCmd>>
        /\ asked = None /\ FilesAt(4) /\ wanted = "off"
    BY <1>1, <1>10 DEF StopComes
  <2>2. asked' = None /\ (active' = None \/ phase' = "stopping") /\ channel' = << >>
    BY <1>1, <1>4, <1>6, <2>1
  <2>3. OldRunEnds'
    BY <2>2 DEF OldRunEnds
  <2>4. Settled'
    BY <1>1, <1>2, <2>1, <2>2, <2>3 DEF Settled
  <2> QED
    BY <2>4
<1>11. CASE QuitComes
  <2>1. /\ bus = {} /\ tasks = << <<[op |-> "exit"]>> >> /\ channel = <<StopCmd>>
        /\ asked = None /\ FilesAt(4)
    BY <1>1, <1>11 DEF QuitComes
  <2>2. asked' = None /\ (active' = None \/ phase' = "stopping") /\ channel' = << >>
    BY <1>1, <1>4, <1>6, <2>1
  <2>3. OldRunEnds'
    BY <2>2 DEF OldRunEnds
  <2>4. QuitComes'
    BY <1>1, <1>2, <2>1, <2>2, <2>3 DEF QuitComes
  <2> QED
    BY <2>4
<1> QED
  BY <1>1, <1>7, <1>8, <1>9, <1>10, <1>11 DEF OnePress, Settled, Saving, Restarting

(* The engine's own steps, and a run that ends by itself: a Start that fails
   and a run that dies are remembered. *)
LEMMA EngineOnePress ==
  ASSUME Typed, EngineIs, OnePress, EngineAdvances \/ RunDies
  PROVE  OnePress'
<1> SUFFICES ASSUME calm
             PROVE  (Settled \/ Saving \/ Restarting \/ StartComes \/ StopComes
                       \/ QuitComes)'
  BY DEF OnePress, EngineAdvances, RunDies, EngineOnly
<1>1. UNCHANGED <<tasks, bus, channel, config, engineCfg, disk, entry, failures, wanted>>
  BY DEF EngineAdvances, RunDies, EngineOnly, appVars, fileVars, boundVars
<1>2. \A k : FilesAt(k)' = FilesAt(k)
  BY <1>1 DEF FilesAt, Loaded
<1>3. engineCfg \in Configs /\ engineCfg # None /\ fell \in BOOLEAN
  BY NoneAssumption DEF Typed
<1>4. \/ /\ phase = "stopping" /\ active' = None /\ asked' = asked
         /\ phase' = IF asked # None THEN "starting"
                     ELSE IF closing THEN "closed" ELSE "idle"
      \/ phase \in {"stopping", "serving"} /\ UNCHANGED <<phase, asked, active>>
      \/ phase = "starting" /\ phase' = "binding" /\ UNCHANGED <<asked, active>>
      \/ phase \in {"starting", "binding"} /\ asked' = None /\ active' = active /\ fell'
      \/ phase = "binding" /\ active' = asked /\ asked' = None /\ phase' = "serving"
      \/ phase = "serving" /\ phase' = "idle" /\ UNCHANGED <<asked, active>>
      \/ phase = "idle" /\ phase' = "stopping" /\ UNCHANGED <<asked, active>> /\ fell'
  BY DEF EngineAdvances, RunDies, Advances, Hides, Stopped, Refuses, Begins, Fails,
         Serves, Publishes, Runs, EndsByItself, Stop
<1>5. fell => fell'
  BY DEF EngineAdvances, RunDies
<1>6. asked = None => asked' = None /\ (active = None => active' = None)
  BY <1>4 DEF EngineIs
<1>7. asked = None /\ OldRunEnds => OldRunEnds'
  BY <1>1, <1>4 DEF EngineIs, OldRunEnds
<1>8. asked = None /\ (active = None \/ phase = "stopping")
        => active' = None \/ phase' = "stopping"
  BY <1>4 DEF EngineIs
<1>9. CASE Settled
  <2>1. asked' \in {None, engineCfg} /\ OldRunEnds'
    <3>1. asked \in {None, engineCfg} /\ OldRunEnds
      BY <1>9 DEF Settled
    <3>2. asked' \in {None, engineCfg}
      BY <1>4, <3>1
    <3>3. phase \in {"starting", "binding"} => active = None
      BY DEF EngineIs
    <3>4. active' \in {None, engineCfg} \/ phase' = "stopping"
      BY <1>4, <3>1, <3>3 DEF OldRunEnds
    <3> QED
      BY <1>1, <3>2, <3>4 DEF OldRunEnds
  <2>2. ASSUME wanted = "on", ~fell'
        PROVE  \/ asked' # None
               \/ active' = engineCfg /\ phase' \in {"idle", "serving"}
    BY <1>3, <1>4, <1>5, <1>9, <2>2 DEF EngineIs, Settled
  <2>3. /\ bus' = {} /\ tasks' = << >> /\ channel' = << >> /\ FilesAt(4)'
        /\ asked' \in {None, engineCfg'}
    BY <1>1, <1>2, <1>9, <2>1 DEF Settled
  <2>4. wanted' = "off" => asked' = None /\ (active' = None \/ phase' = "stopping")
    BY <1>1, <1>6, <1>8, <1>9 DEF Settled
  <2>5. /\ wanted' = "on" /\ ~fell'
        => \/ asked' # None
           \/ active' = engineCfg' /\ phase' \in {"idle", "serving"}
    BY <1>1, <2>2
  <2>6. Settled'
    BY <2>1, <2>3, <2>4, <2>5 DEF Settled
  <2> QED
    BY <2>6
<1>10. CASE Saving
  BY <1>1, <1>2, <1>5, <1>6, <1>10 DEF Saving
<1>11. CASE Restarting
  BY <1>1, <1>2, <1>6, <1>11 DEF Restarting
<1>12. CASE StartComes
  BY <1>1, <1>2, <1>6, <1>7, <1>12 DEF StartComes
<1>13. CASE StopComes
  BY <1>1, <1>2, <1>6, <1>7, <1>13 DEF StopComes
<1>14. CASE QuitComes
  BY <1>1, <1>2, <1>6, <1>7, <1>8, <1>14 DEF QuitComes
<1> QED
  BY <1>9, <1>10, <1>11, <1>12, <1>13, <1>14 DEF OnePress

(* Nothing begins while no process is there. *)
LEMMA NothingLeftKept ==
  ASSUME EngineIs, NothingLeft, GuiNext
  PROVE  NothingLeft'
<1>1. CASE OffEngine
  BY <1>1, OffEngineIs DEF NothingLeft
<1>2. CASE Gone
  BY <1>2 DEF Gone, Wants, NothingLeft
<1>3. CASE Launch
  BY <1>3 DEF Launch, NothingLeft
<1>4. CASE TakeCommand \/ EngineAdvances \/ RunDies
  <2>1. phase # "closed"
    BY <1>4 DEF TakeCommand, EngineAdvances, RunDies, Advances, Hides, Stopped,
                Refuses, Begins, Fails, Serves, Publishes, Runs, EndsByItself, Stop
  <2>2. gui' # "exited"
    BY <1>4, <2>1 DEF TakeCommand, EngineAdvances, RunDies, EngineOnly, EngineIs
  <2> QED
    BY <2>2 DEF NothingLeft
<1>5. CASE Packet
  BY <1>5 DEF Packet, NothingLeft, historyVars
<1> QED
  BY <1>1, <1>2, <1>3, <1>4, <1>5 DEF GuiNext, OffEngine, Exit, Killed

-----------------------------------------------------------------------------
(* The program starts settled: no file is the default configuration. *)
LEMMA InvInit ==
  ASSUME GuiInit
  PROVE  GuiInv
<1>1. /\ DefaultSettings \in Settings /\ DefaultSettings.engine = Default
      /\ DefaultSettings.autostart = FALSE
  BY GuiAssumption DEF DefaultSettings, Settings
<1>2. Typed
  <2>1. /\ config \in Settings /\ engineCfg \in Configs
        /\ disk \in Settings \cup {Absent, Torn}
    BY <1>1, GuiAssumption DEF GuiInit
  <2>2. form \in Forms /\ form.settings = config
    BY <1>1 DEF GuiInit, Forms
  <2>3. tasks \in Seq(Seq(Ops) \ {<< >>}) /\ channel \in Seq(Commands)
    BY DEF GuiInit
  <2>4. Len(channel) \leq ChannelCap
    BY GuiAssumption DEF GuiInit
  <2>5. /\ dirty \in BOOLEAN /\ polled \in BOOLEAN /\ streaming \in BOOLEAN
        /\ entry \in BOOLEAN /\ calm \in BOOLEAN /\ fell \in BOOLEAN
    BY DEF GuiInit
  <2>6. counted \in Nat /\ received \in Nat /\ failures \in Nat /\ silence \in 0 .. 2
    BY DEF GuiInit
  <2>7. /\ gui \in {"up", "polling", "exited"} /\ wanted \in {"on", "off"}
        /\ tray \in {"none", "idle", "armed", "live"}
        /\ bus \in SUBSET {"start", "stop", "quit"}
    BY DEF GuiInit
  <2> QED
    BY <2>1, <2>2, <2>3, <2>4, <2>5, <2>6, <2>7 DEF Typed
<1>3. EngineIs
  <2>1. /\ phase = "idle" /\ asked = None /\ active = None /\ ~running /\ ~closing
        /\ received = 0 /\ gui = "up"
    BY DEF GuiInit, Init
  <2>2. running \in BOOLEAN
    BY DEF GuiInit, Init
  <2> QED
    BY <2>1, <2>2 DEF EngineIs
<1>4. Counted
  BY DEF GuiInit, Counted
<1>5. Settled
  <2>1. Absent \notin Settings
    BY NoneAssumption DEF Absent, Settings
  <2>2. FilesAt(4)
    BY <1>1, <2>1 DEF GuiInit, FilesAt, Loaded
  <2> QED
    BY <2>2 DEF GuiInit, Init, Settled, OldRunEnds
<1>6. NothingLeft
  BY DEF GuiInit, NothingLeft
<1> QED
  BY <1>2, <1>3, <1>4, <1>5, <1>6 DEF GuiInv, OnePress

(* Every step keeps the invariant. *)
LEMMA InvNext ==
  ASSUME GuiInv, [GuiNext]_vars
  PROVE  GuiInv'
<1>1. CASE GuiNext
  <2>1. Typed /\ EngineIs /\ Counted /\ OnePress /\ NothingLeft
    BY DEF GuiInv
  <2>2. Typed' /\ EngineIs' /\ Counted' /\ NothingLeft'
    BY <1>1, <2>1, TypedKept, EngineKept, CountedKept, NothingLeftKept
  <2>3. OnePress'
    <3>1. CASE Poll
      <4>1. UNCHANGED <<calm, tasks, bus, channel, asked, active, phase, wanted, fell,
                        config, engineCfg, disk, entry, failures>>
        BY <3>1 DEF Poll, appVars, engineVars, contractVars, fileVars, boundVars,
                    historyVars
      <4> QED
        BY <2>1, <4>1, SameOnePress
    <3>2. CASE Packet
      <4>1. UNCHANGED <<calm, tasks, bus, channel, asked, active, phase, wanted, fell,
                        config, engineCfg, disk, entry, failures>>
        BY <3>2 DEF Packet, appVars, contractVars, fileVars, boundVars, historyVars
      <4> QED
        BY <2>1, <4>1, SameOnePress
    <3> QED
      BY <1>1, <2>1, <3>1, <3>2, UserOnePress, PollEndsOnePress, TaskStepOnePress,
         ExitOnePress, KilledOnePress, LaunchOnePress, TakeCommandOnePress,
         EngineOnePress DEF GuiNext
  <2> QED
    BY <2>2, <2>3 DEF GuiInv
<1>2. CASE UNCHANGED vars
  <2>1. Typed' /\ EngineIs' /\ Counted' /\ NothingLeft'
    BY <1>2 DEF GuiInv, vars, appVars, pollVars, engineVars, contractVars, fileVars,
                boundVars, historyVars, Typed, EngineIs, Counted, NothingLeft
  <2>2. OnePress'
    BY <1>2, SameOnePress DEF GuiInv, vars, appVars, pollVars, engineVars, contractVars,
                              fileVars, boundVars, historyVars
  <2> QED
    BY <2>1, <2>2 DEF GuiInv
<1> QED
  BY <1>1, <1>2

(* So it holds in every state. *)
LEMMA InvAlways == GuiSpec => []GuiInv
BY InvInit, InvNext, PTL DEF GuiSpec

(* Every variable keeps its type, the command channel stays within its
   capacity, and a clean form shows the configuration. *)
THEOREM TypeCorrect == GuiSpec => []GuiTypeOK
<1>1. GuiInv => GuiTypeOK
  <2> SUFFICES ASSUME Typed PROVE GuiTypeOK
    BY DEF GuiInv
  <2>1. {dirty, polled, streaming, entry, calm, fell} \subseteq BOOLEAN
    BY DEF Typed
  <2> QED
    BY <2>1 DEF Typed, GuiTypeOK
<1> QED
  BY <1>1, InvAlways, PTL

(* Console, engine and disk agree whenever nothing is under way, for a user
   who never pressed anything while something was. *)
THEOREM ConsoleAgrees == GuiSpec => []CalmConsoleAgrees
<1>1. GuiInv => CalmConsoleAgrees
  <2> SUFFICES ASSUME GuiInv, calm, Quiet
               PROVE  /\ active \in {None, engineCfg}
                      /\ wanted = "on" /\ ~fell => active = engineCfg
                      /\ wanted = "off" => active = None
                      /\ failures = 0 => Loaded = config /\ entry = config.autostart
    BY DEF CalmConsoleAgrees
  <2>1. /\ active \in {None, engineCfg} /\ FilesAt(4)
        /\ wanted = "on" /\ ~fell => active = engineCfg
        /\ wanted = "off" => active = None
    BY QuietIs DEF GuiInv
  <2> QED
    BY <2>1 DEF FilesAt
<1> QED
  BY <1>1, InvAlways, PTL

(* A tick shows audio only for a packet that came since the last tick before
   it that read running as true began, or since the run was spawned: the
   counters are read apart from running, and are published before it. *)
THEOREM LiveIsReal == GuiSpec => StreamingIsReal
<1>1. GuiInv /\ [GuiNext]_vars
        => [gui = "polling" /\ gui' = "up" /\ streaming' => silence < 2]_vars
  BY StreamingStep DEF GuiInv
<1> QED
  BY <1>1, InvAlways, PTL DEF GuiSpec, StreamingIsReal
=============================================================================
