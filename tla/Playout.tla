------------------------------- MODULE Playout -------------------------------
(***************************************************************************)
(* From the jitter buffer to the loudspeaker: the prebuffer latch of the   *)
(* two real-time callbacks (openay-server/src/pw.rs for PipeWire,          *)
(* audio.rs for cpal) and the depth controller that retargets it           *)
(* (openay-jitter/src/depth.rs, driven by spawn_depth_controller in        *)
(* openay-server/src/lib.rs, which also watches whether the phone went     *)
(* quiet).                                                                 *)
(*                                                                         *)
(* The ring is its fill: JitterBuffer says what happens inside a call.     *)
(* One unit of depth stands for any fixed number of milliseconds; time is  *)
(* counted in ticks of the controller (200 ms), and a tick may come late.  *)
(***************************************************************************)
EXTENDS Integers

CONSTANTS
  Capacity,    \* the ring
  Base,        \* base_ms, the configured depth
  MaxTarget,   \* MAX_PREBUFFER_MS
  Rise,        \* rise_ms
  Step,        \* decay_step_ms
  Window,      \* decay_window, in ticks
  StaleAfter,  \* PEER_STALE_AFTER, in ticks
  DryReset,    \* DRY_RESET_QUANTA
  Frames,      \* sizes of the blocks the network task pushes
  Quanta,      \* sizes of the quanta the audio server asks for
  MaxLate      \* bound: ticks between two runs of the controller

ASSUME DepthAssumption ==
  /\ Base \in Nat \ {0} /\ MaxTarget \in Nat /\ Base \leq MaxTarget
  /\ Rise \in Nat /\ Step \in Nat
  /\ Window \in Nat \ {0} /\ MaxLate \in Nat \ {0}
ASSUME RingAssumption ==
  /\ Capacity \in Nat
  /\ Frames \subseteq Nat \ {0} /\ Quanta \subseteq Nat \ {0}
ASSUME TimingAssumption == StaleAfter \in Nat \ {0} /\ DryReset \in Nat \ {0}

VARIABLES
  backend,     \* which callback consumes the ring: "pipewire" or "cpal"
  fill,        \* samples in the ring
  streaming,   \* the latch
  dry,         \* dry_quanta (pipewire only)
  target,      \* effective target, read by the callback
  age,         \* ticks since window_start; NoWindow while it is None
  unseen,      \* the underrun counter moved since the controller read it
  audioIn,     \* an audio packet arrived since the last tick
  packetIn,    \* a packet of any kind did
  progress,    \* ticks since last_progress; NoWindow before any packet
  stale,       \* peer_stale
  credit,      \* history: clean, flowing time not yet spent on decay, Step
               \* units for a tick; a unit of decay costs Window of them
  heard,       \* history: samples played since the latch opened
  dryRun,      \* history: fully dry quanta in a row
  quiet        \* history: ticks since the last packet of any kind

ringVars == <<backend, fill>>
latchVars == <<streaming, dry, heard, dryRun>>
depthVars == <<target, age, credit>>
peerVars == <<progress, stale>>
arrivalVars == <<audioIn, packetIn, quiet>>
vars == <<ringVars, latchVars, depthVars, peerVars, arrivalVars, unseen>>

NoWindow == -1

Smaller(a, b) == IF a < b THEN a ELSE b
Larger(a, b) == IF a > b THEN a ELSE b

(* Caps of the histories: the properties tell no larger values apart. *)
MaxCredit == Window * (MaxTarget - Base)
MaxHeard == Base
MaxDryRun == DryReset
MaxQuiet == StaleAfter

Init ==
  /\ backend \in {"pipewire", "cpal"}
  /\ fill = 0
  /\ streaming = FALSE /\ dry = 0 /\ heard = 0 /\ dryRun = 0
  /\ target = Base /\ age = NoWindow /\ credit = 0
  /\ unseen = FALSE
  /\ audioIn = FALSE /\ packetIn = FALSE /\ quiet = 0
  /\ progress = NoWindow /\ stale = FALSE

-----------------------------------------------------------------------------
(* ingest_packet: a decoded block goes to the ring, which keeps what fits. *)
Push(n) ==
  /\ fill' = Smaller(fill + n, Capacity)
  /\ audioIn' = TRUE /\ packetIn' = TRUE /\ quiet' = 0
  /\ UNCHANGED <<backend, latchVars, depthVars, peerVars, unseen>>

(* An audio packet that yields no samples: a duplicate, or one that does
   not decode.  It counts as audio received all the same. *)
Discard ==
  /\ audioIn' = TRUE /\ packetIn' = TRUE /\ quiet' = 0
  /\ UNCHANGED <<ringVars, latchVars, depthVars, peerVars, unseen>>

(* A control packet: a ping, a pong or a hello. *)
Control ==
  /\ packetIn' = TRUE /\ quiet' = 0
  /\ UNCHANGED <<audioIn, ringVars, latchVars, depthVars, peerVars, unseen>>

-----------------------------------------------------------------------------
(* Mutations: the latch opens on the first sample; it needs one sample more
   than the target. *)
OpensOnAny == streaming \/ fill > 0
OpensAboveTarget == streaming \/ fill > target

(* The latch: stay open, or open on target_samples buffered. *)
Opens == streaming \/ fill \geq target

(* What a quantum of q samples does to the ring and the histories. *)
Popped(q) == IF Opens THEN Smaller(q, fill) ELSE 0

Hear(q) ==
  /\ fill' = fill - Popped(q)
  /\ heard' = Smaller((IF streaming THEN heard ELSE 0) + Popped(q), MaxHeard)
  /\ dryRun' = IF Opens /\ Popped(q) = 0 THEN Smaller(dryRun + 1, MaxDryRun)
                                         ELSE 0

(* Still prebuffering: silence, nothing popped. *)
Prebuffer(q) ==
  /\ ~Opens
  /\ Hear(q)
  /\ UNCHANGED <<backend, streaming, dry, depthVars, peerVars, arrivalVars,
                 unseen>>

(* The ring filled the quantum: the dry count starts over. *)
PlayFull(q) ==
  /\ Opens
  /\ Popped(q) = q
  /\ Hear(q)
  /\ streaming' = TRUE
  /\ dry' = 0
  /\ UNCHANGED <<backend, depthVars, peerVars, arrivalVars, unseen>>

(* It filled a part: pw.rs holds the last sample across the tail, audio.rs
   plays silence.  The dry count stays. *)
PlayPart(q) ==
  /\ Opens
  /\ Popped(q) \in 1 .. q - 1
  /\ Hear(q)
  /\ streaming' = TRUE
  /\ UNCHANGED <<backend, dry, depthVars, peerVars, arrivalVars, unseen>>

(* Mutation: the dry quantum that reaches the limit is only concealed. *)
ConcealedOneMore == backend = "pipewire" /\ dry + 1 \leq DryReset

(* Dry quanta pw.rs conceals by holding the last sample; audio.rs none. *)
Concealed == backend = "pipewire" /\ dry + 1 < DryReset

ConcealDry(q) ==
  /\ Opens
  /\ Popped(q) = 0
  /\ Concealed
  /\ Hear(q)
  /\ streaming' = TRUE
  /\ dry' = dry + 1
  /\ UNCHANGED <<backend, depthVars, peerVars, arrivalVars, unseen>>

(* Sustained dryness: one underrun, and the latch drops to prebuffer. *)
Underrun(q) ==
  /\ Opens
  /\ Popped(q) = 0
  /\ ~Concealed
  /\ Hear(q)
  /\ streaming' = FALSE
  /\ dry' = 0
  /\ unseen' = TRUE
  /\ UNCHANGED <<backend, depthVars, peerVars, arrivalVars>>

Callback ==
  \E q \in Quanta :
    Prebuffer(q) \/ PlayFull(q) \/ PlayPart(q) \/ ConcealDry(q) \/ Underrun(q)

-----------------------------------------------------------------------------
(* The decay steps that a window of a ticks has earned. *)
Steps(a) == a \div Window

(* Mutation: the window moves to now at every tick. *)
NoRemainder(a) == 0

(* What is left of it: it moves by whole windows only. *)
Remainder(a) == a % Window

(* Mutation: an underrun does not restart the window. *)
NoRestart(a) == a

(* on_underrun: the window starts now. *)
Restart(a) == 0

(* on_tick while no audio flows: the window is discarded. *)
Discarded(a) == NoWindow

(* Mutations: only audio counts as a sign of life; a counter that has not
   moved does (>= for >). *)
ProgressedByAudio == audioIn
ProgressedAlways == TRUE

(* A packet arrived since the last tick. *)
Progressed == packetIn

(* One run of the depth controller, d ticks after the last: underruns first,
   then the phone's liveness, then decay. *)
Tick(d) ==
  LET raised == IF unseen THEN Smaller(target + Rise, MaxTarget) ELSE target
      aged == IF age = NoWindow THEN NoWindow ELSE age + d
      window == IF unseen THEN Restart(aged) ELSE aged
      steps == IF audioIn /\ window # NoWindow THEN Steps(window) ELSE 0
      idle == IF progress = NoWindow THEN NoWindow
                                     ELSE Smaller(progress + d, StaleAfter)
      clean == IF unseen \/ ~audioIn THEN 0 ELSE credit + Step * d
  IN  /\ target' = IF steps > 0 THEN Larger(raised - steps * Step, Base)
                                ELSE raised
      /\ age' = IF ~audioIn THEN Discarded(window)
                ELSE IF window = NoWindow THEN 0
                ELSE Remainder(window)
      /\ credit' = Smaller(clean - Window * (raised - target'), MaxCredit)
      /\ progress' = IF Progressed THEN 0 ELSE idle
      /\ stale' = (progress' \geq StaleAfter)
      /\ quiet' = Smaller(quiet + d, MaxQuiet)
      /\ unseen' = FALSE /\ audioIn' = FALSE /\ packetIn' = FALSE
      /\ UNCHANGED <<ringVars, latchVars>>

Arrival == (\E n \in Frames : Push(n)) \/ Discard \/ Control

Controller == \E d \in 1 .. MaxLate : Tick(d)

Next == Arrival \/ Callback \/ Controller

(* The audio server asks for every quantum and the controller's interval
   keeps firing.  The phone owes nothing. *)
Spec == Init /\ [][Next]_vars /\ WF_vars(Callback) /\ WF_vars(Controller)
-----------------------------------------------------------------------------
(* Types, and the band of the depth: base_ms <= target_ms <= the ceiling. *)
TypeOK ==
  /\ backend \in {"pipewire", "cpal"}
  /\ fill \in 0 .. Capacity
  /\ streaming \in BOOLEAN
  /\ dry \in 0 .. DryReset - 1
  /\ target \in Base .. MaxTarget
  /\ age \in {NoWindow} \cup 0 .. Window - 1
  /\ unseen \in BOOLEAN /\ audioIn \in BOOLEAN /\ packetIn \in BOOLEAN
  /\ progress \in {NoWindow} \cup 0 .. StaleAfter
  /\ stale \in BOOLEAN
  /\ credit \in Int /\ credit \leq MaxCredit
  /\ heard \in 0 .. MaxHeard
  /\ dryRun \in 0 .. MaxDryRun
  /\ quiet \in 0 .. MaxQuiet

(* The depth is given back only for clean, flowing time: one step for each
   full window since the last underrun and the last pause, however late the
   controller's ticks come and however they divide that time. *)
DecayIsEarned == credit \geq 0

(* An episode of sound is worth the wait before it: from the opening of the
   latch to the underrun that closes it at least the base depth is heard,
   whatever the controller did to the target in between. *)
EpisodeIsHeard ==
  [][streaming /\ ~streaming' => heard' \geq Base]_vars

(* A dead stream is noticed: the latch never stays open through DryReset dry
   quanta in a row, so the phone that stopped is not concealed for ever. *)
DryIsNotConcealedLong == streaming => dryRun < DryReset

(* The phone is not called stale while it talks, be it only to answer pings:
   the flag rises only after StaleAfter ticks without a packet. *)
StaleOnlyWhenQuiet ==
  [][~stale /\ stale' => quiet' \geq StaleAfter]_vars

(* A phone that was heard and then fell silent for good is called stale. *)
SilentPeerIsReported ==
  []<>packetIn \/ <>[](progress # NoWindow => stale)

(* Silence ends: while the phone keeps sending blocks, the latch opens again
   after every underrun, wherever the controller moved the target.  The ring
   must be able to hold the ceiling: with a smaller one (--capacity-ms is
   not checked against it) this is false. *)
SilenceEnds ==
  WF_vars(\E n \in Frames : Push(n)) => []<>streaming

(* The added latency goes away: unless underruns or pauses keep coming, the
   target comes back to its base, also if every tick is on time. *)
DepthReturnsToBase ==
  []<>(target = Base) \/ []<>unseen \/ []<>(age = NoWindow)

(* "Consecutive fully-dry quanta while streaming. The RT callback increments
   it on a dry pop and clears it the moment data flows": the latch drops
   only after DryReset dry quanta in a row.  A quantum that the ring fills
   in part does not clear the count: not kept, and in no run. *)
DryQuantaAreConsecutive ==
  [][backend = "pipewire" /\ streaming /\ ~streaming' =>
       dryRun' \geq DryReset]_vars
=============================================================================
