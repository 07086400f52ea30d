----------------------------- MODULE JitterFill -----------------------------
(***************************************************************************)
(* JitterBuffer::available() among the ring's own calls: it loads head,    *)
(* then tail, and subtracts them in usize arithmetic.  Three threads call  *)
(* it: the network task (the stats and underrun lines), the audio callback *)
(* (the prebuffer gate) and whoever asks the engine for its status (the    *)
(* window's refresh), which owns neither index.                            *)
(***************************************************************************)
EXTENDS JitterBuffer

CONSTANTS Word,       \* 2^w of the subtraction; more than any index here
          Observers   \* who calls available(), of the three below

ASSUME WordAssumption == Word \in Nat /\ Word > MaxOffered + Capacity
ASSUME ObserversAssumption == Observers \subseteq {"network", "callback", "status"}

VARIABLE obs   \* the call in progress, or its result until the caller moves on

fillVars == <<vars, obs>>

NoCall == [phase |-> "none", by |-> "none", head |-> 0, fill |-> 0]

FillInit == Init /\ obs = NoCall

(* Mutation: the difference of the masked indices, 0 for a full ring. *)
OccupancyMasked(h, t) == (Slot(h) + Capacity - Slot(t)) % Capacity

(* head.load().wrapping_sub(tail.load()) *)
Occupancy(h, t) == (h + Word - t) % Word

(* A thread that owns an index calls available() between its own calls. *)
MayCall(by) ==
  CASE by = "network"  -> push = "idle"
    [] by = "callback" -> pop = "idle"
    [] by = "status"   -> TRUE

AvailableLoadHead(by) ==
  /\ obs.phase # "head"
  /\ MayCall(by)
  /\ obs' = [phase |-> "head", by |-> by, head |-> head, fill |-> 0]
  /\ UNCHANGED vars

AvailableLoadTail ==
  /\ obs.phase = "head"
  /\ obs' = [phase |-> "done", by |-> obs.by, head |-> 0,
             fill |-> Occupancy(obs.head, tail)]
  /\ UNCHANGED vars

(* A ring step of the thread named by: not while that thread is inside
   available(); it forgets the result the thread had. *)
RingStep(by, step) ==
  /\ step
  /\ ~(obs.phase = "head" /\ obs.by = by)
  /\ obs' = IF obs.by = by THEN NoCall ELSE obs

FillNext ==
  \/ RingStep("network", Producer)
  \/ RingStep("callback", Consumer)
  \/ \E by \in Observers : AvailableLoadHead(by)
  \/ AvailableLoadTail

FillSpec == FillInit /\ [][FillNext]_fillVars

(* The audio server calls the callback every quantum, and a callback, a push
   that has begun and a call of available() run to their ends: none blocks.
   Strong fairness, because a thread inside available() takes no ring step,
   and it is there once for each push or pop.  Nothing obliges the network
   to offer another block. *)
FillFairness ==
  /\ SF_fillVars(RingStep("callback", Consumer))
  /\ SF_fillVars(RingStep("network", PushPanic \/ PushCell \/ PushPublish))
  /\ WF_fillVars(AvailableLoadTail)

FairFillSpec == FillSpec /\ FillFairness

-----------------------------------------------------------------------------
(* The two owners can act on what they saw.  The callback opens the gate on
   fill >= target and then pops: the fill it saw is still there.  The
   network task reports an upper bound that no pop can raise.  Neither ever
   sees more than the ring holds. *)
OwnersSeeTrueFill ==
  obs.phase = "done" /\ obs.by # "status" =>
    /\ obs.fill \leq Capacity
    /\ obs.by = "callback" => obs.fill \leq head - tail
    /\ obs.by = "network" => obs.fill \geq head - tail

(* "Samples currently buffered and ready to pop", from any thread: a fill
   is never more than the ring can hold.  The status thread can load head,
   lose the processor while samples are pushed and popped past it, and then
   subtract a larger tail: not kept (TLC refutes it once Observers has "status"),
   and in no run. *)
FillWithinCapacity == obs.phase = "done" => obs.fill \leq Capacity
=============================================================================
