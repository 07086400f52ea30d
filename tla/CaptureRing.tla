---------------------------- MODULE CaptureRing ----------------------------
(***************************************************************************)
(* The phone's byte ring (SpscRingBuffer, ring_buffer.cpp) between the     *)
(* audio callback, which pushes a block of any length, and the network     *)
(* thread, which pops frames.  Each side loads the other side's index,     *)
(* copies, and only then publishes its own: the three are steps of their   *)
(* own, so that the two threads interleave between them.                   *)
(***************************************************************************)
EXTENDS Naturals, SequencesExt

CONSTANTS
  Capacity,   \* of the ring, a power of two
  Frame       \* frame_bytes_: what one packet carries

ASSUME RingAssumption ==
  /\ Frame \in Nat \ {0}
  /\ \E k \in 1 .. 32 : Capacity = 2 ^ k
  /\ Capacity >= 2 * Frame

VARIABLES
  data,      \* the cells of the ring
  head,      \* where the producer writes next; only the producer stores it
  tail,      \* where the consumer reads next; only the consumer stores it
  block,     \* the block being pushed, << >> between two callbacks
  pushed,    \* how far Push got: "idle", "room", "copied"
  popping,   \* bytes the pop under way takes, 0 for none
  frame,     \* the bytes it has copied out
  overruns,  \* blocks dropped for want of room
  callbacks, \* history: callbacks of this session
  accepted,  \* history: the bytes of the blocks that were pushed
  popped     \* history: the bytes popped

producerVars == <<block, pushed, overruns, callbacks, accepted>>
consumerVars == <<popping, frame, popped>>
ringVars == <<data, head, tail, producerVars, consumerVars>>

Index(i) == i % Capacity

(* A byte nothing was written to. *)
Fresh == <<0, 0>>

EmptyRing ==
  /\ data = [i \in 0 .. Capacity - 1 |-> Fresh]
  /\ head = 0 /\ tail = 0
  /\ block = << >> /\ pushed = "idle" /\ popping = 0 /\ frame = << >>
  /\ overruns = 0 /\ callbacks = 0 /\ accepted = << >> /\ popped = << >>

(* Configure replaces the ring: EmptyRing, of the next state. *)
NewRing ==
  /\ data' = [i \in 0 .. Capacity - 1 |-> Fresh]
  /\ head' = 0 /\ tail' = 0
  /\ block' = << >> /\ pushed' = "idle" /\ popping' = 0 /\ frame' = << >>
  /\ overruns' = 0 /\ callbacks' = 0 /\ accepted' = << >> /\ popped' = << >>

-----------------------------------------------------------------------------
(* One byte of slack is kept. *)
FreeSpace == Capacity - 1 - (head - tail)

(* Mutation: the block is not checked for room. *)
Unchecked(n) == n > 0

Fits(n) == n <= FreeSpace

(* OnAudio, and Push as far as its check.  A block longer than the scratch
   buffer, which holds one frame, never reaches the ring. *)
OnAudio(n) ==
  /\ pushed = "idle"
  /\ callbacks' = callbacks + 1
  /\ IF n <= Frame /\ Fits(n)
       THEN /\ block' = [i \in 1 .. n |-> <<callbacks + 1, i>>]
            /\ pushed' = "room"
       ELSE UNCHANGED <<block, pushed>>
  /\ overruns' = IF n <= Frame /\ ~Fits(n) THEN overruns + 1 ELSE overruns
  /\ UNCHANGED <<data, head, tail, accepted, consumerVars>>

(* The two memcpy: from Index(head) up to the end, the rest from the start. *)
PushCopy ==
  /\ pushed = "room"
  /\ data' = [i \in DOMAIN data |->
                LET at == {j \in 1 .. Len(block) : Index(head + j - 1) = i}
                IN  IF at = {} THEN data[i] ELSE block[CHOOSE j \in at : TRUE]]
  /\ pushed' = "copied"
  /\ UNCHANGED <<head, tail, block, overruns, callbacks, accepted, consumerVars>>

(* Release: the block is the consumer's from here on. *)
PushPublish ==
  /\ pushed = "copied"
  /\ head' = head + Len(block)
  /\ accepted' = accepted \o block
  /\ block' = << >> /\ pushed' = "idle"
  /\ UNCHANGED <<data, tail, overruns, callbacks, consumerVars>>

-----------------------------------------------------------------------------
Available == head - tail

LowerOf(m, n) == IF m < n THEN m ELSE n

(* Pop: the head is loaded, *)
PopEnter ==
  /\ popping' = LowerOf(Available, Frame)
  /\ UNCHANGED <<data, head, tail, frame, popped, producerVars>>

(* ... the bytes are copied out, *)
PopCopy ==
  /\ popping > 0 /\ frame = << >>
  /\ frame' = [i \in 1 .. popping |-> data[Index(tail + i - 1)]]
  /\ UNCHANGED <<data, head, tail, popping, popped, producerVars>>

(* ... and their space is released. *)
PopPublish ==
  /\ frame # << >>
  /\ tail' = tail + Len(frame)
  /\ popped' = popped \o frame
  /\ frame' = << >> /\ popping' = 0
  /\ UNCHANGED <<data, head, producerVars>>

-----------------------------------------------------------------------------
RingTypeOK ==
  /\ head \in Nat /\ tail \in Nat /\ tail <= head
  /\ head - tail < Capacity
  /\ pushed \in {"idle", "room", "copied"}
  /\ Len(block) <= Frame
  /\ popping \in {0, Frame} /\ Len(frame) \in {0, Frame}

(* The ring is a queue of whole blocks, whatever the two threads do between
   each other's steps: what the network thread took, and what is there for it
   to take, are the bytes of the accepted blocks in order - no frame is torn
   (ring_buffer.cpp, Push and Pop). *)
RingIsAQueue ==
  accepted = popped \o [i \in 1 .. head - tail |-> data[Index(tail + i - 1)]]
=============================================================================
