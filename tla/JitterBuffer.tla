---------------------------- MODULE JitterBuffer ----------------------------
(***************************************************************************)
(* The lock-free single-producer, single-consumer ring of openay-jitter    *)
(* (desktop/crates/openay-jitter/src/lib.rs).  The network task pushes     *)
(* decoded blocks, the audio callback pops quanta.  A call is split at the *)
(* points where the other thread can interleave: the load of the other     *)
(* side's index, the copy of each cell, and the store that publishes the   *)
(* caller's own index.                                                     *)
(*                                                                         *)
(* A sample is its position in the stream offered to push.  head and tail  *)
(* are the monotonic indices; usize overflow is out of reach (2^64 samples *)
(* at 48 kHz), so they are naturals here.  reset() is left out: nothing in *)
(* the server calls it.                                                    *)
(***************************************************************************)
EXTENDS Naturals, Sequences

CONSTANTS
  Capacity,   \* samples in the ring (a power of two in the code, so that
              \* "& mask" is "% Capacity")
  MaxBlock,   \* samples in the longest block pushed or popped
  MaxOffered  \* bound: samples offered to push in one behaviour

ASSUME CapacityAssumption == Capacity \in Nat \ {0}
ASSUME MaxBlockAssumption == MaxBlock \in Nat \ {0}
ASSUME MaxOfferedAssumption == MaxOffered \in Nat

VARIABLES
  cells,      \* buf: the ring storage
  head,       \* producer's write index
  tail,       \* consumer's read index
  overruns,   \* pushes that could not write everything
  push,       \* producer: "idle", "copying" or "panicked"
  len,        \*   length of the block being pushed (samples.len())
  fits,       \*   how much of it fits (writable)
  copied,     \*   how much of it is in the cells
  pop,        \* consumer: "idle" or "copying"
  take,       \*   how much it will read
  out,        \*   what it has read so far
  offered,    \* history: samples offered to push
  written,    \* history: samples published by push, oldest first
  delivered   \* history: samples returned by pop, oldest first

producerVars == <<push, len, fits, copied, offered, written>>
consumerVars == <<pop, take, out, delivered>>
vars == <<cells, head, tail, overruns, producerVars, consumerVars>>

Smaller(a, b) == IF a < b THEN a ELSE b

(* The cell of index i (the code masks on access, never in the index). *)
Slot(i) == i % Capacity

(* Mutations of Free: one cell too many; the masked difference, which takes
   a full ring for an empty one. *)
FreeOneMore(h, t) == Capacity + 1 - (h - t)
FreeMasked(h, t) == Capacity - ((Slot(h) + Capacity - Slot(t)) % Capacity)

(* The free space a producer sees with its head and a loaded tail. *)
Free(h, t) == Capacity - (h - t)

(* Mutations of Short: only a push that writes nothing counts; one that
   writes nothing returns before it counts. *)
ShortWhenFull(k, n) == IF k = 0 THEN 1 ELSE 0
ShortWhenPartial(k, n) == IF 0 < k /\ k < n THEN 1 ELSE 0

(* What a push that writes k of n samples adds to overruns. *)
Short(k, n) == IF k < n THEN 1 ELSE 0

(* Mutation: pop keeps one sample of slack. *)
ReadableButOne == IF head = tail THEN 0 ELSE head - tail - 1

(* What a consumer sees to read with its tail and a loaded head. *)
Readable == head - tail

(* The cells of a copy of n samples from index i that precede the wrap. *)
FirstPart(i, n) == Smaller(Capacity - Slot(i), n)

(* The sample at offset k (0-based) of the block being pushed. *)
BlockSample(k) == offered - len + k + 1

Init ==
  /\ cells = [i \in 0 .. Capacity - 1 |-> 0]
  /\ head = 0 /\ tail = 0 /\ overruns = 0
  /\ push = "idle" /\ len = 0 /\ fits = 0 /\ copied = 0
  /\ pop = "idle" /\ take = 0 /\ out = <<>>
  /\ offered = 0 /\ written = <<>> /\ delivered = <<>>

-----------------------------------------------------------------------------
(* push on a full ring: one overrun, nothing written, return 0. *)
PushFull(n) ==
  /\ push = "idle"
  /\ offered + n \leq MaxOffered
  /\ Free(head, tail) = 0
  /\ offered' = offered + n
  /\ overruns' = overruns + Short(0, n)
  /\ UNCHANGED <<cells, head, tail, push, len, fits, copied, written,
                 consumerVars>>

(* push with room: load tail, decide how much fits, count a short write as
   one overrun, and start copying. *)
PushBegin(n) ==
  LET writable == Smaller(Free(head, tail), n)
  IN  /\ push = "idle"
      /\ offered + n \leq MaxOffered
      /\ writable > 0
      /\ offered' = offered + n
      /\ overruns' = overruns + Short(writable, n)
      /\ push' = "copying"
      /\ len' = n
      /\ fits' = writable
      /\ UNCHANGED <<cells, head, tail, copied, written, consumerVars>>

(* The copy past the wrap takes samples[first..], the whole rest of the
   block, into a slice of fits - first cells: copy_from_slice panics when
   the two lengths differ, which is when the write is short. *)
WrapPanics == copied = FirstPart(head, fits) /\ copied < fits /\ fits # len

PushPanic ==
  /\ push = "copying"
  /\ WrapPanics
  /\ push' = "panicked"
  /\ UNCHANGED <<cells, head, tail, overruns, len, fits, copied, offered,
                 written, consumerVars>>

PushCell ==
  /\ push = "copying"
  /\ copied < fits
  /\ ~WrapPanics
  /\ cells' = [cells EXCEPT ![Slot(head + copied)] = BlockSample(copied)]
  /\ copied' = copied + 1
  /\ UNCHANGED <<head, tail, overruns, push, len, fits, offered, written,
                 consumerVars>>

(* Mutation: the store of head overtakes the copy (Relaxed for Release). *)
CopyDoneEarly == TRUE

(* Every cell of the copy is written. *)
CopyDone == copied = fits

(* head.store(Release) publishes the cells and ends the call. *)
PushPublish ==
  /\ push = "copying"
  /\ CopyDone
  /\ head' = head + fits
  /\ written' = written \o [k \in 1 .. fits |-> BlockSample(k - 1)]
  /\ push' = "idle" /\ len' = 0 /\ fits' = 0 /\ copied' = 0
  /\ UNCHANGED <<cells, tail, overruns, offered, consumerVars>>

-----------------------------------------------------------------------------
(* pop: load head and decide how much to read. *)
PopBegin(n) ==
  /\ pop = "idle"
  /\ Readable > 0
  /\ take' = Smaller(n, Readable)
  /\ pop' = "copying"
  /\ UNCHANGED <<cells, head, tail, overruns, producerVars, out, delivered>>

(* An empty ring: pop returns 0 and changes nothing. *)
PopEmpty ==
  /\ pop = "idle"
  /\ Readable = 0
  /\ UNCHANGED vars

PopCell ==
  /\ pop = "copying"
  /\ Len(out) < take
  /\ out' = Append(out, cells[Slot(tail + Len(out))])
  /\ UNCHANGED <<cells, head, tail, overruns, producerVars, pop, take,
                 delivered>>

(* tail.store(Release) frees the cells and ends the call. *)
PopPublish ==
  /\ pop = "copying"
  /\ Len(out) = take
  /\ tail' = tail + take
  /\ delivered' = delivered \o out
  /\ pop' = "idle" /\ take' = 0 /\ out' = <<>>
  /\ UNCHANGED <<cells, head, overruns, producerVars>>

-----------------------------------------------------------------------------
Producer ==
  \/ \E n \in 1 .. MaxBlock : PushFull(n) \/ PushBegin(n)
  \/ PushPanic \/ PushCell \/ PushPublish

Consumer ==
  \/ \E n \in 1 .. MaxBlock : PopBegin(n)
  \/ PopEmpty \/ PopCell \/ PopPublish

Next == Producer \/ Consumer

Spec == Init /\ [][Next]_vars

-----------------------------------------------------------------------------
(* Types, and the bound on every index and counter: the ring never holds
   more than Capacity samples, and a copy in progress never reaches past
   what its caller was granted. *)
TypeOK ==
  /\ cells \in [0 .. Capacity - 1 -> 0 .. MaxOffered]
  /\ offered \in 0 .. MaxOffered
  /\ head \in 0 .. offered
  /\ tail \in 0 .. head
  /\ head - tail \leq Capacity
  /\ overruns \in 0 .. offered
  /\ push \in {"idle", "copying", "panicked"}
  /\ len \in 0 .. MaxBlock
  /\ fits \in 0 .. len
  /\ copied \in 0 .. fits
  /\ pop \in {"idle", "copying"}
  /\ take \in 0 .. MaxBlock
  /\ out \in Seq(0 .. MaxOffered) /\ Len(out) \leq take
  /\ written \in Seq(1 .. MaxOffered)
  /\ delivered \in Seq(0 .. MaxOffered)

(* The cells of the indices a call in progress still has to touch. *)
WriteWindow == {Slot(i) : i \in head + copied .. head + fits - 1}
ReadWindow == {Slot(i) : i \in tail + Len(out) .. tail + take - 1}

(* The SAFETY argument on the struct: the cells the producer is writing and
   the cells the consumer is reading are disjoint at every interleaving, so
   the &mut slice and the & slice never alias. *)
WindowsDisjoint == WriteWindow \cap ReadWindow = {}

(* What pop hands to the audio callback is, sample for sample, what push
   published: nothing torn, repeated, reordered or overwritten while it was
   waiting, even for the quantum still being copied. *)
DeliveredInOrder ==
  \A i \in 1 .. Len(delivered \o out) : (delivered \o out)[i] = written[i]

(* A sample is lost only by a push that counted an overrun: while the
   counter is zero, everything offered is in the ring or was in it. *)
LossIsCounted ==
  overruns = 0 => Len(written) + len = offered

(* The counter has one unit for each block that was not kept whole, so the
   queue the callers see is the abstract one.  An interrupted push has not
   happened yet; a panicked one never happens. *)
Fifo == INSTANCE SampleFifo WITH
          queue <- [i \in 1 .. head - tail |-> cells[Slot(tail + i - 1)]],
          last <- offered - len,
          overruns <- IF fits < len THEN overruns - 1 ELSE overruns

(* The ring implements the bounded queue. *)
ImplementsFifo == Fifo!Spec

(* Whatever push accepted is heard: it does not stay behind in the ring
   while the callback keeps popping. *)
AcceptedIsDelivered ==
  \A n \in 1 .. MaxOffered :
    Len(written) \geq n ~> Len(delivered) \geq n

(* push "writes as many samples as fit in the free space (wrapping around
   the ring internally) and returns the written count": it returns.  The
   code does not keep this: see the run that refutes it. *)
PushReturns == push # "panicked"
=============================================================================
