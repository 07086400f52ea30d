------------------------- MODULE JitterBufferProofs -------------------------
(***************************************************************************)
(* Proofs about JitterBuffer and JitterFill, for every capacity, block     *)
(* length and bound.  One inductive invariant, RingInv, carries the        *)
(* struct's SAFETY argument: each call stays inside what it was granted    *)
(* (Grants), the cells between tail and head hold what was published       *)
(* (Waiting), the cells past head hold what is being copied (Copied), and  *)
(* the samples handed out are the ones published (Heard).  From it follow  *)
(* the ring's safety, the step simulation of SampleFifo, and, with what a  *)
(* thread inside available() has loaded (SeenHead), the fill its owners    *)
(* see.                                                                    *)
(***************************************************************************)
EXTENDS JitterFill, Integers, SequenceTheorems, TLAPS

(* What a call in progress was granted, and the rest of an idle side. *)
Grants ==
  /\ push = "idle" => len = 0 /\ fits = 0 /\ copied = 0
  /\ push # "idle" => fits > 0
  /\ fits \leq Free(head, tail)
  /\ head + len \leq offered
  /\ pop = "idle" => take = 0 /\ out = <<>>
  /\ pop # "idle" => take > 0
  /\ take \leq head - tail

(* The histories are as long as the indices say. *)
Histories == Len(written) = head /\ Len(delivered) = tail

(* The samples waiting in the ring are the ones published. *)
Waiting == \A i \in tail .. head - 1 : cells[Slot(i)] = written[i + 1]

(* The samples past head are those of the block being copied. *)
Copied == \A k \in 0 .. copied - 1 : cells[Slot(head + k)] = BlockSample(k)

(* The samples taken, and the quantum being read, are the ones published. *)
Heard ==
  /\ \A i \in 1 .. tail : delivered[i] = written[i]
  /\ \A i \in 1 .. Len(out) : out[i] = written[tail + i]

(* While no overrun is counted, every block has been kept whole. *)
Counted == overruns = 0 => head + len = offered /\ fits = len

RingInv ==
  TypeOK /\ Grants /\ Histories /\ Waiting /\ Copied /\ Heard /\ Counted

-----------------------------------------------------------------------------
(* Slots: division with remainder, and its consequence that indices less   *)
(* than a capacity apart lie in different cells.                           *)

(* An index is a multiple of the capacity and a slot. *)
LEMMA SlotOfIndex ==
  ASSUME NEW i \in Nat
  PROVE  /\ Slot(i) \in 0 .. Capacity - 1
         /\ i \div Capacity \in Nat
         /\ i = Capacity * (i \div Capacity) + Slot(i)
BY CapacityAssumption DEF Slot

(* A whole multiple of the capacity is at least the capacity. *)
LEMMA MultipleOfCapacity ==
  ASSUME NEW q \in Int, q \geq 1
  PROVE  Capacity * q \geq Capacity
BY CapacityAssumption

(* Two indices in one slot are a capacity apart. *)
LEMMA SlotsDiffer ==
  ASSUME NEW i \in Nat, NEW j \in Nat, i < j, j < i + Capacity
  PROVE  Slot(i) # Slot(j)
<1> SUFFICES ASSUME Slot(i) = Slot(j) PROVE FALSE
  OBVIOUS
<1> DEFINE p == i \div Capacity
           q == j \div Capacity
<1>1. /\ p \in Int /\ q \in Int
      /\ Slot(i) \in Int
      /\ i = Capacity * p + Slot(i)
      /\ j = Capacity * q + Slot(j)
  BY SlotOfIndex
<1> HIDE DEF p, q
<1>2. j - i = Capacity * (q - p)
  BY <1>1, CapacityAssumption
<1>3. CASE q - p \geq 1
  BY <1>1, <1>2, <1>3, MultipleOfCapacity, CapacityAssumption
<1>4. CASE q - p \leq 0
  <2>1. Capacity * (p - q) \geq 0
    BY <1>1, <1>4, CapacityAssumption
  <2> QED
    BY <1>1, <1>2, <2>1, CapacityAssumption
<1> QED
  BY <1>1, <1>3, <1>4

-----------------------------------------------------------------------------
LEMMA RingInit == Init => RingInv
<1> SUFFICES ASSUME Init PROVE RingInv
  OBVIOUS
<1> USE CapacityAssumption, MaxBlockAssumption, MaxOfferedAssumption DEF Init
<1>1. TypeOK
  BY DEF TypeOK
<1>2. Grants
  BY DEF Grants, Free
<1>3. Histories /\ Waiting /\ Copied /\ Heard /\ Counted
  BY DEF Histories, Waiting, Copied, Heard, Counted
<1> QED
  BY <1>1, <1>2, <1>3 DEF RingInv

(* A full ring: the block is offered and dropped, and one overrun counted. *)
LEMMA PushFullKeeps ==
  ASSUME RingInv, NEW n \in 1 .. MaxBlock, PushFull(n)
  PROVE  RingInv'
<1> USE CapacityAssumption, MaxBlockAssumption, MaxOfferedAssumption
    DEF PushFull, consumerVars, RingInv
<1>1. TypeOK'
  BY DEF TypeOK, Grants, Short
<1>2. Grants'
  BY DEF TypeOK, Grants, Free
<1>3. Histories' /\ Waiting' /\ Heard'
  BY DEF Histories, Waiting, Heard
<1>4. Copied' /\ Counted'
  BY DEF TypeOK, Grants, Copied, Counted, Short
<1> QED
  BY <1>1, <1>2, <1>3, <1>4

(* A push begins: what it is granted fits in the ring. *)
LEMMA PushBeginKeeps ==
  ASSUME RingInv, NEW n \in 1 .. MaxBlock, PushBegin(n)
  PROVE  RingInv'
<1> USE CapacityAssumption, MaxBlockAssumption, MaxOfferedAssumption
    DEF PushBegin, consumerVars, RingInv
<1>1. TypeOK'
  BY DEF TypeOK, Grants, Short, Smaller, Free
<1>2. Grants'
  BY DEF TypeOK, Grants, Smaller, Free
<1>3. Histories' /\ Waiting' /\ Heard'
  BY DEF Histories, Waiting, Heard
<1>4. Copied' /\ Counted'
  BY DEF TypeOK, Grants, Copied, Counted, Short, Smaller, Free
<1> QED
  BY <1>1, <1>2, <1>3, <1>4

(* A short write that wraps panics: nothing it copied is published. *)
LEMMA PushPanicKeeps ==
  ASSUME RingInv, PushPanic
  PROVE  RingInv'
<1> USE DEF PushPanic, consumerVars, RingInv
<1>1. TypeOK' /\ Grants'
  BY DEF TypeOK, Grants, Free
<1>2. Histories' /\ Waiting' /\ Copied' /\ Heard' /\ Counted'
  BY DEF Histories, Waiting, Copied, Heard, Counted, BlockSample
<1> QED
  BY <1>1, <1>2

(* Copying one cell: it lies outside the samples that wait to be read and
   outside the cells of the block copied before it. *)
LEMMA PushCellKeeps ==
  ASSUME RingInv, PushCell
  PROVE  RingInv'
<1> USE CapacityAssumption, MaxBlockAssumption, MaxOfferedAssumption
<1> DEFINE here == Slot(head + copied)
<1>1. /\ head \in Nat /\ tail \in Nat /\ copied \in Nat /\ fits \in Nat
      /\ len \in Nat /\ offered \in 0 .. MaxOffered
      /\ tail \leq head /\ copied < fits /\ fits \leq len
      /\ head + len \leq offered
      /\ fits \leq Capacity - (head - tail)
  BY DEF PushCell, RingInv, TypeOK, Grants, Free
<1>2. head + copied \in Nat /\ head + copied < tail + Capacity
  BY <1>1
<1>3. here \in 0 .. Capacity - 1
  BY <1>2, SlotOfIndex
<1>4. BlockSample(copied) \in 1 .. MaxOffered
  BY <1>1 DEF BlockSample
<1>5. ASSUME NEW i \in tail .. head + copied - 1
      PROVE  Slot(i) \in 0 .. Capacity - 1 /\ Slot(i) # here
  <2>1. i \in Nat /\ i < head + copied /\ head + copied < i + Capacity
    BY <1>1, <1>2
  <2> QED
    BY <1>2, <2>1, SlotsDiffer, SlotOfIndex
<1> HIDE DEF here
<1>6. cells \in [0 .. Capacity - 1 -> 0 .. MaxOffered]
  BY DEF RingInv, TypeOK
<1>7. /\ cells' = [cells EXCEPT ![here] = BlockSample(copied)]
      /\ copied' = copied + 1
      /\ UNCHANGED <<head, tail, overruns, push, len, fits, offered, written,
                     pop, take, out, delivered>>
  BY DEF PushCell, consumerVars, here
<1>8. /\ cells' \in [0 .. Capacity - 1 -> 0 .. MaxOffered]
      /\ cells'[here] = BlockSample(copied)
      /\ \A i \in tail .. head + copied - 1 : cells'[Slot(i)] = cells[Slot(i)]
  <2>1. \A c \in 0 .. Capacity - 1 : c # here => cells'[c] = cells[c]
    BY <1>6, <1>7
  <2>2. BlockSample(copied) \in 0 .. MaxOffered
    BY <1>4
  <2> QED
    BY <1>3, <1>5, <1>6, <1>7, <2>1, <2>2
<1>9. TypeOK'
  BY <1>1, <1>7, <1>8 DEF RingInv, TypeOK
<1>10. Grants' /\ Histories' /\ Heard' /\ Counted'
  BY <1>1, <1>7 DEF PushCell, RingInv, Grants, Histories, Heard, Counted, Free
<1>11. Waiting'
  <2> SUFFICES ASSUME NEW i \in tail .. head - 1
               PROVE  cells'[Slot(i)] = written[i + 1]
    BY <1>7 DEF Waiting
  <2>1. i \in tail .. head + copied - 1
    BY <1>1
  <2> QED
    BY <1>8, <2>1 DEF RingInv, Waiting
<1>12. Copied'
  <2> SUFFICES ASSUME NEW k \in 0 .. copied
               PROVE  cells'[Slot(head + k)] = BlockSample(k)
    BY <1>1, <1>7 DEF Copied, BlockSample
  <2>1. CASE k = copied
    BY <2>1, <1>8 DEF here
  <2>2. CASE k < copied
    <3>1. head + k \in tail .. head + copied - 1 /\ k \in 0 .. copied - 1
      BY <1>1, <2>2
    <3> QED
      BY <1>8, <3>1 DEF RingInv, Copied
  <2> QED
    BY <1>1, <2>1, <2>2
<1> QED
  BY <1>9, <1>10, <1>11, <1>12 DEF RingInv

(* Publishing a block: what was copied becomes what waits. *)
LEMMA PushPublishKeeps ==
  ASSUME RingInv, PushPublish
  PROVE  RingInv'
<1> USE CapacityAssumption, MaxBlockAssumption, MaxOfferedAssumption
<1> DEFINE block == [k \in 1 .. fits |-> BlockSample(k - 1)]
<1>1. /\ fits \in Nat /\ head \in Nat /\ tail \in Nat /\ tail \leq head
      /\ len \in Nat /\ offered \in Nat /\ fits \leq len
      /\ head + len \leq offered /\ offered \leq MaxOffered
      /\ copied = fits /\ fits \leq Capacity - (head - tail)
      /\ take \leq head - tail /\ take \in Nat
      /\ out \in Seq(0 .. MaxOffered) /\ Len(out) \leq take
  BY DEF PushPublish, RingInv, TypeOK, Grants, CopyDone, Free
<1>2. /\ block \in Seq(1 .. MaxOffered)
      /\ Len(block) = fits
      /\ \A k \in 1 .. fits : block[k] = BlockSample(k - 1)
  <2>1. \A k \in 1 .. fits : BlockSample(k - 1) \in 1 .. MaxOffered
    BY <1>1 DEF BlockSample
  <2> QED
    BY <1>1, <2>1
<1>3. /\ head' = head + fits
      /\ push' = "idle" /\ len' = 0 /\ fits' = 0 /\ copied' = 0
      /\ UNCHANGED <<cells, tail, overruns, offered, pop, take, out, delivered>>
      /\ written' = written \o block
  BY DEF PushPublish, consumerVars
<1> HIDE DEF block
<1>4. /\ written \in Seq(1 .. MaxOffered) /\ Len(written) = head
  BY DEF RingInv, TypeOK, Histories
<1>5. /\ written' \in Seq(1 .. MaxOffered)
      /\ Len(written') = head + fits
      /\ \A i \in 1 .. head : written'[i] = written[i]
      /\ \A k \in 1 .. fits : written'[head + k] = block[k]
  <2>1. \A i \in 1 .. head + fits :
          written'[i] = IF i \leq head THEN written[i] ELSE block[i - head]
    BY <1>2, <1>3, <1>4, ConcatProperties
  <2>2. written' \in Seq(1 .. MaxOffered) /\ Len(written') = head + fits
    BY <1>2, <1>3, <1>4, ConcatProperties
  <2> QED
    BY <1>1, <2>1, <2>2
<1>6. TypeOK'
  BY <1>1, <1>3, <1>5 DEF RingInv, TypeOK
<1>7. Grants'
  BY <1>1, <1>3 DEF RingInv, Grants, Free
<1>8. Histories'
  BY <1>3, <1>5 DEF RingInv, Histories
<1>9. Waiting'
  <2>0. tail' = tail /\ head' = head + fits /\ cells' = cells
    BY <1>3
  <2> SUFFICES ASSUME NEW i \in tail' .. head' - 1
               PROVE  cells'[Slot(i)] = written'[i + 1]
    BY DEF Waiting
  <2> i \in tail .. head + fits - 1
    BY <1>1, <2>0
  <2>1. CASE i < head
    <3>1. i \in tail .. head - 1 /\ i + 1 \in 1 .. head
      BY <1>1, <2>1
    <3> QED
      BY <1>5, <2>0, <3>1 DEF RingInv, Waiting
  <2>2. CASE i \geq head
    <3> DEFINE k == i - head
    <3>1. k \in 0 .. copied - 1 /\ head + k = i
      BY <1>1, <2>2
    <3>2. cells[Slot(i)] = BlockSample(k)
      BY <3>1 DEF RingInv, Copied
    <3>3. k + 1 \in 1 .. fits /\ (k + 1) - 1 = k /\ i + 1 = head + (k + 1)
      BY <1>1, <2>2
    <3> HIDE DEF k
    <3>4. block[k + 1] = BlockSample((k + 1) - 1)
      BY <1>2, <3>3
    <3>5. written'[head + (k + 1)] = block[k + 1]
      BY <1>5, <3>3
    <3> QED
      BY <2>0, <3>2, <3>3, <3>4, <3>5
  <2> QED
    BY <1>1, <2>1, <2>2
<1>10. Copied'
  BY <1>3 DEF Copied
<1>11. Heard'
  <2>1. \A i \in 1 .. tail : delivered[i] = written'[i]
    BY <1>1, <1>5 DEF RingInv, Heard
  <2>2. \A i \in 1 .. Len(out) : tail + i \in 1 .. head
    BY <1>1
  <2>3. \A i \in 1 .. Len(out) : out[i] = written'[tail + i]
    BY <1>5, <2>2 DEF RingInv, Heard
  <2> QED
    BY <1>3, <2>1, <2>3 DEF Heard
<1>12. Counted'
  BY <1>1, <1>3 DEF RingInv, Counted
<1> QED
  BY <1>6, <1>7, <1>8, <1>9, <1>10, <1>11, <1>12 DEF RingInv

(* A pop begins: what it will read is in the ring. *)
LEMMA PopBeginKeeps ==
  ASSUME RingInv, NEW n \in 1 .. MaxBlock, PopBegin(n)
  PROVE  RingInv'
<1> USE MaxBlockAssumption DEF PopBegin, producerVars, RingInv
<1>1. TypeOK'
  BY DEF TypeOK, Grants, Smaller, Readable
<1>2. Grants'
  BY DEF TypeOK, Grants, Free, Smaller, Readable
<1>3. Histories' /\ Waiting' /\ Copied' /\ Heard' /\ Counted'
  BY DEF Histories, Waiting, Copied, Heard, Counted, BlockSample
<1> QED
  BY <1>1, <1>2, <1>3

(* Reading one cell: it holds a waiting sample. *)
LEMMA PopCellKeeps ==
  ASSUME RingInv, PopCell
  PROVE  RingInv'
<1> USE CapacityAssumption, MaxOfferedAssumption
<1> DEFINE at == tail + Len(out)
<1>1. /\ out \in Seq(0 .. MaxOffered)
      /\ tail \in Nat /\ head \in Nat
      /\ Len(out) \in Nat /\ Len(out) < take
      /\ at \in tail .. head - 1
  <2>1. /\ out \in Seq(0 .. MaxOffered) /\ Len(out) < take
        /\ tail \in Nat /\ head \in Nat
    BY DEF PopCell, RingInv, TypeOK
  <2>2. take \leq head - tail
    BY DEF RingInv, Grants
  <2>3. take \in 0 .. MaxBlock
    BY DEF RingInv, TypeOK
  <2>4. Len(out) \in Nat
    BY <2>1
  <2> QED
    BY <2>1, <2>2, <2>3, <2>4, MaxBlockAssumption
<1>2. Slot(at) \in 0 .. Capacity - 1 /\ cells[Slot(at)] = written[at + 1]
  <2>1. at \in Nat
    BY <1>1
  <2> HIDE DEF at
  <2> QED
    BY <1>1, <2>1, SlotOfIndex DEF RingInv, Waiting
<1>3. cells[Slot(at)] \in 0 .. MaxOffered
  BY <1>2 DEF RingInv, TypeOK
<1>4. /\ out' = Append(out, cells[Slot(at)])
      /\ UNCHANGED <<cells, head, tail, overruns, push, len, fits, copied,
                     offered, written, pop, take, delivered>>
  BY DEF PopCell, producerVars
<1> HIDE DEF at
<1>5. /\ out' \in Seq(0 .. MaxOffered)
      /\ Len(out') = Len(out) + 1
      /\ \A i \in 1 .. Len(out) : out'[i] = out[i]
      /\ out'[Len(out) + 1] = cells[Slot(at)]
  BY <1>1, <1>3, <1>4, AppendProperties
<1>6. TypeOK'
  BY <1>1, <1>4, <1>5 DEF RingInv, TypeOK
<1>7. Grants'
  BY <1>4, <1>5 DEF PopCell, RingInv, TypeOK, Grants, Free
<1>8. Histories' /\ Waiting' /\ Copied' /\ Counted'
  BY <1>4 DEF RingInv, Histories, Waiting, Copied, Counted, BlockSample
<1>9. Heard'
  <2>1. \A i \in 1 .. Len(out) : out'[i] = written[tail + i]
    BY <1>5 DEF RingInv, Heard
  <2>2. out'[Len(out) + 1] = written[tail + (Len(out) + 1)]
    BY <1>1, <1>2, <1>5 DEF at
  <2>3. \A i \in 1 .. Len(out) + 1 : i \in 1 .. Len(out) \/ i = Len(out) + 1
    BY <1>1
  <2>4. \A i \in 1 .. Len(out') : out'[i] = written[tail + i]
    BY <1>5, <2>1, <2>2, <2>3
  <2> QED
    BY <1>4, <2>4 DEF RingInv, Heard
<1> QED
  BY <1>6, <1>7, <1>8, <1>9 DEF RingInv

(* A pop ends: the quantum read is appended to what was heard. *)
LEMMA PopPublishKeeps ==
  ASSUME RingInv, PopPublish
  PROVE  RingInv'
<1> USE CapacityAssumption
<1>1. /\ tail \in Nat /\ head \in Nat /\ take \in Nat
      /\ tail + take \leq head
      /\ Len(out) = take
      /\ delivered \in Seq(0 .. MaxOffered) /\ Len(delivered) = tail
      /\ out \in Seq(0 .. MaxOffered)
  BY DEF PopPublish, RingInv, TypeOK, Grants, Histories
<1>2. /\ tail' = tail + take
      /\ delivered' = delivered \o out
      /\ pop' = "idle" /\ take' = 0 /\ out' = <<>>
      /\ UNCHANGED <<cells, head, overruns, push, len, fits, copied, offered,
                     written>>
  BY DEF PopPublish, producerVars
<1>3. /\ delivered' \in Seq(0 .. MaxOffered)
      /\ Len(delivered') = tail + take
      /\ \A i \in 1 .. tail + take :
           delivered'[i] = IF i \leq tail THEN delivered[i] ELSE out[i - tail]
  BY <1>1, <1>2, ConcatProperties
<1>4. TypeOK'
  <2>1. tail' \in 0 .. head' /\ head' - tail' \leq Capacity
    BY <1>1, <1>2 DEF RingInv, TypeOK
  <2>2. out' \in Seq(0 .. MaxOffered) /\ Len(out') \leq take'
    BY <1>2
  <2>3. take' \in 0 .. MaxBlock /\ pop' \in {"idle", "copying"}
    BY <1>2, MaxBlockAssumption
  <2> QED
    BY <1>2, <1>3, <2>1, <2>2, <2>3 DEF RingInv, TypeOK
<1>5. Grants'
  BY <1>1, <1>2 DEF RingInv, TypeOK, Grants, Free
<1>6. Histories' /\ Waiting' /\ Copied' /\ Counted'
  BY <1>1, <1>2, <1>3 DEF RingInv, Histories, Waiting, Copied, Counted,
                          BlockSample
<1>7. Heard'
  <2>1. ASSUME NEW i \in 1 .. tail + take
        PROVE  delivered'[i] = written[i]
    <3>1. CASE i \leq tail
      BY <1>1, <1>3, <3>1 DEF RingInv, Heard
    <3>2. CASE i > tail
      <4>1. i - tail \in 1 .. Len(out) /\ tail + (i - tail) = i
        BY <1>1, <3>2
      <4>2. out[i - tail] = written[tail + (i - tail)]
        BY <4>1 DEF RingInv, Heard
      <4>3. delivered'[i] = out[i - tail]
        BY <1>1, <1>3, <3>2
      <4> QED
        BY <4>1, <4>2, <4>3
    <3> QED
      BY <1>1, <3>1, <3>2
  <2>2. 1 .. Len(out') = {}
    BY <1>2
  <2> QED
    BY <1>2, <2>1, <2>2 DEF Heard
<1> QED
  BY <1>4, <1>5, <1>6, <1>7 DEF RingInv
-----------------------------------------------------------------------------
(* RingInv is an invariant of the ring. *)
LEMMA RingInvariant == Spec => []RingInv
<1>1. RingInv /\ [Next]_vars => RingInv'
  <2> SUFFICES ASSUME RingInv, [Next]_vars PROVE RingInv'
    OBVIOUS
  <2>1. ASSUME NEW n \in 1 .. MaxBlock, PushFull(n) PROVE RingInv'
    BY <2>1, PushFullKeeps
  <2>2. ASSUME NEW n \in 1 .. MaxBlock, PushBegin(n) PROVE RingInv'
    BY <2>2, PushBeginKeeps
  <2>3. CASE PushPanic
    BY <2>3, PushPanicKeeps
  <2>4. CASE PushCell
    BY <2>4, PushCellKeeps
  <2>5. CASE PushPublish
    BY <2>5, PushPublishKeeps
  <2>6. ASSUME NEW n \in 1 .. MaxBlock, PopBegin(n) PROVE RingInv'
    BY <2>6, PopBeginKeeps
  <2>7. CASE PopCell
    BY <2>7, PopCellKeeps
  <2>8. CASE PopPublish
    BY <2>8, PopPublishKeeps
  <2>9. CASE UNCHANGED vars
    BY <2>9 DEF vars, producerVars, consumerVars, RingInv, TypeOK, Grants,
                Histories, Waiting, Copied, Heard, Counted, Free, BlockSample
  <2> QED
    BY <2>1, <2>2, <2>3, <2>4, <2>5, <2>6, <2>7, <2>8, <2>9
       DEF Next, Producer, Consumer, PopEmpty
<1> QED
  BY <1>1, RingInit, PTL DEF Spec

(* The indices, counters and calls in progress stay in their bounds: in
   particular the ring never holds more than its capacity. *)
THEOREM TypeCorrect == Spec => []TypeOK
<1>1. RingInv => TypeOK
  BY DEF RingInv
<1> QED
  BY <1>1, RingInvariant, PTL

(* The aliasing argument of the unsafe code: whatever the interleaving, the
   cells a push is writing and the cells a pop is reading are disjoint. *)
THEOREM NoAliasing == Spec => []WindowsDisjoint
<1>1. RingInv => WindowsDisjoint
  <2> SUFFICES ASSUME RingInv,
                      NEW i \in head + copied .. head + fits - 1,
                      NEW j \in tail + Len(out) .. tail + take - 1
               PROVE  Slot(i) # Slot(j)
    BY DEF WindowsDisjoint, WriteWindow, ReadWindow
  <2>1. /\ head \in Nat /\ tail \in Nat /\ copied \in Nat /\ fits \in Nat
        /\ take \in Nat /\ Len(out) \in Nat
        /\ fits \leq Capacity - (head - tail) /\ take \leq head - tail
    BY DEF RingInv, TypeOK, Grants, Free
  <2>2. i \in Nat /\ j \in Nat /\ j < i /\ i < j + Capacity
    BY <2>1, CapacityAssumption
  <2> QED
    BY <2>2, SlotsDiffer
<1> QED
  BY <1>1, RingInvariant, PTL

(* Every sample pop has handed out, the quantum in progress included, is the
   one push published at that position. *)
THEOREM FifoOrder == Spec => []DeliveredInOrder
<1>1. RingInv => DeliveredInOrder
  <2> SUFFICES ASSUME RingInv,
                      NEW i \in 1 .. Len(delivered \o out)
               PROVE  (delivered \o out)[i] = written[i]
    BY DEF DeliveredInOrder
  <2>1. /\ delivered \in Seq(0 .. MaxOffered) /\ Len(delivered) = tail
        /\ out \in Seq(0 .. MaxOffered)
        /\ tail \in Nat /\ Len(out) \in Nat
    BY DEF RingInv, TypeOK, Histories
  <2>2. /\ i \in 1 .. tail + Len(out)
        /\ (delivered \o out)[i] =
             IF i \leq tail THEN delivered[i] ELSE out[i - tail]
    BY <2>1, ConcatProperties
  <2>3. CASE i \leq tail
    BY <2>1, <2>2, <2>3 DEF RingInv, Heard
  <2>4. CASE i > tail
    <3>1. i - tail \in 1 .. Len(out) /\ tail + (i - tail) = i
      BY <2>1, <2>2, <2>4
    <3>2. out[i - tail] = written[tail + (i - tail)]
      BY <3>1 DEF RingInv, Heard
    <3> QED
      BY <2>1, <2>2, <2>4, <3>1, <3>2
  <2> QED
    BY <2>1, <2>2, <2>3, <2>4
<1> QED
  BY <1>1, RingInvariant, PTL

(* While the overrun counter reads zero no offered sample has been lost. *)
THEOREM NoSilentLoss == Spec => []LossIsCounted
<1>1. RingInv => LossIsCounted
  BY DEF RingInv, Histories, Counted, LossIsCounted
<1> QED
  BY <1>1, RingInvariant, PTL

-----------------------------------------------------------------------------
(* The ring is the bounded queue: what a client sees of it is Queue.        *)
Queue == [i \in 1 .. head - tail |-> cells[Slot(tail + i - 1)]]

(* The queue is the part of what was published that was not taken yet. *)
LEMMA QueueIsWritten ==
  ASSUME RingInv
  PROVE  /\ Queue \in Seq(0 .. MaxOffered)
         /\ Len(Queue) = head - tail
         /\ head - tail \in Nat
         /\ \A i \in 1 .. head - tail : /\ Queue[i] = cells[Slot(tail + i - 1)]
                                        /\ Queue[i] = written[tail + i]
<1>1. tail \in Nat /\ head \in Nat /\ head - tail \in Nat
  BY DEF RingInv, TypeOK
<1>2. ASSUME NEW i \in 1 .. head - tail
      PROVE  /\ cells[Slot(tail + i - 1)] \in 0 .. MaxOffered
             /\ cells[Slot(tail + i - 1)] = written[tail + i]
  <2> DEFINE j == tail + i - 1
  <2>1. j \in Nat /\ j \in tail .. head - 1 /\ j + 1 = tail + i
    BY <1>1
  <2> HIDE DEF j
  <2>2. Slot(j) \in 0 .. Capacity - 1
    BY <2>1, SlotOfIndex
  <2>3. cells[Slot(j)] \in 0 .. MaxOffered /\ cells[Slot(j)] = written[j + 1]
    BY <2>1, <2>2 DEF RingInv, TypeOK, Waiting
  <2> QED
    BY <2>1, <2>3 DEF j
<1> QED
  BY <1>1, <1>2 DEF Queue

(* The queue is a function of the two indices and the cells between them. *)
LEMMA QueueUnchanged ==
  ASSUME RingInv, UNCHANGED <<head, tail>>,
         \A i \in tail .. head - 1 : cells'[Slot(i)] = cells[Slot(i)]
  PROVE  Queue' = Queue
<1>1. tail \in Nat /\ head \in Nat
  BY DEF RingInv, TypeOK
<1>2. \A i \in 1 .. head - tail : tail + i - 1 \in tail .. head - 1
  BY <1>1
<1> QED
  BY <1>2 DEF Queue

(* An empty ring is the empty queue. *)
LEMMA FifoInit == Init => Fifo!Init
<1> SUFFICES ASSUME Init PROVE Fifo!Init
  OBVIOUS
<1>1. Queue = << >>
  BY DEF Queue, Init
<1> QED
  BY <1>1 DEF Queue, Init, Fifo!Init

(* A push that begins, copies or panics has not happened yet. *)
LEMMA PushIsHidden ==
  ASSUME RingInv,
         PushPanic \/ PushCell \/ \E n \in 1 .. MaxBlock : PushBegin(n)
  PROVE  UNCHANGED Fifo!vars
<1>1. Queue' = Queue
  <2>1. CASE PushCell
    <3>1. UNCHANGED <<head, tail>>
      BY <2>1 DEF PushCell
    <3>2. ASSUME NEW i \in tail .. head - 1
          PROVE  cells'[Slot(i)] = cells[Slot(i)]
      <4>1. /\ head \in Nat /\ tail \in Nat /\ copied \in Nat /\ fits \in Nat
            /\ tail \leq head /\ copied < fits
            /\ fits \leq Capacity - (head - tail)
        BY <2>1 DEF PushCell, RingInv, TypeOK, Grants, Free
      <4>2. i \in Nat /\ head + copied \in Nat
            /\ i < head + copied /\ head + copied < i + Capacity
        BY <4>1, CapacityAssumption
      <4>3. Slot(i) # Slot(head + copied)
        BY <4>2, SlotsDiffer
      <4> QED
        BY <2>1, <4>2, <4>3, SlotOfIndex DEF PushCell, RingInv, TypeOK
    <3> QED
      BY <3>1, <3>2, QueueUnchanged
  <2>2. CASE UNCHANGED <<cells, head, tail>>
    BY <2>2 DEF Queue
  <2> QED
    BY <2>1, <2>2 DEF PushPanic, PushBegin
<1>2. delivered' = delivered
  BY DEF PushPanic, PushCell, PushBegin, consumerVars
<1>3. offered' - len' = offered - len
  <2>1. CASE PushPanic \/ PushCell
    BY <2>1 DEF PushPanic, PushCell
  <2>2. ASSUME NEW n \in 1 .. MaxBlock, PushBegin(n)
        PROVE  offered' - len' = offered - len
    <3>1. len = 0 /\ len' = n /\ offered' = offered + n
      BY <2>2 DEF PushBegin, RingInv, Grants
    <3>2. offered \in Nat /\ n \in Nat
      BY MaxBlockAssumption DEF RingInv, TypeOK
    <3> QED
      BY <3>1, <3>2
  <2> QED
    BY <2>1, <2>2
<1>4. (IF fits' < len' THEN overruns' - 1 ELSE overruns')
        = IF fits < len THEN overruns - 1 ELSE overruns
  BY MaxBlockAssumption, CapacityAssumption
     DEF PushPanic, PushCell, PushBegin, Smaller, Short, Free, RingInv, TypeOK,
         Grants
<1> QED
  BY <1>1, <1>2, <1>3, <1>4 DEF Queue, Fifo!vars

(* A block offered to a full ring is a Put that keeps nothing. *)
LEMMA PushFullPuts ==
  ASSUME RingInv, NEW n \in 1 .. MaxBlock, PushFull(n)
  PROVE  Fifo!Put(n, 0)
<1>1. /\ Queue' = Queue
      /\ Queue \in Seq(0 .. MaxOffered) /\ Len(Queue) = head - tail
      /\ 0 \leq Capacity - (head - tail)
  <2>1. Queue' = Queue
    BY DEF PushFull, Queue
  <2>2. 0 \leq Capacity - (head - tail)
    BY CapacityAssumption DEF RingInv, TypeOK
  <2> QED
    BY <2>1, <2>2, QueueIsWritten
<1>2. Fifo!Block(offered - len, 0) = << >>
  BY DEF Fifo!Block
<1>3. Queue \o << >> = Queue
  BY <1>1, ConcatEmptySeq
<1>4. /\ len = 0 /\ fits = 0 /\ len' = 0 /\ fits' = 0
      /\ offered' = offered + n /\ overruns' = overruns + 1
      /\ delivered' = delivered
      /\ n \in Nat /\ 0 < n /\ offered \in Nat /\ overruns \in Nat
  BY MaxBlockAssumption
     DEF PushFull, Short, consumerVars, RingInv, TypeOK, Grants
<1>5. Queue' = Queue \o Fifo!Block(offered - len, 0)
  BY <1>1, <1>2, <1>3
<1>6. /\ 0 \leq Capacity - Len(Queue)
      /\ offered' - len' = (offered - len) + n
      /\ (IF fits' < len' THEN overruns' - 1 ELSE overruns')
           = IF 0 < n THEN (IF fits < len THEN overruns - 1 ELSE overruns) + 1
                      ELSE IF fits < len THEN overruns - 1 ELSE overruns
  BY <1>1, <1>4
<1> QED
  BY <1>4, <1>5, <1>6 DEF Queue, Fifo!Put

(* Publishing a block is a Put of the samples that were copied. *)
LEMMA PublishPuts ==
  ASSUME RingInv, PushPublish
  PROVE  Fifo!Put(len, fits) /\ len \in 1 .. MaxBlock /\ fits \in 0 .. len
<1> DEFINE block == Fifo!Block(offered - len, fits)
<1>1. /\ head \in Nat /\ tail \in Nat /\ tail \leq head
      /\ len \in 1 .. MaxBlock /\ fits \in 1 .. len /\ copied = fits
      /\ fits \leq Capacity - (head - tail)
      /\ offered \in Nat /\ offered - len \in Nat /\ overruns \in Nat
  BY CapacityAssumption, MaxBlockAssumption
     DEF PushPublish, CopyDone, RingInv, TypeOK, Grants, Free
<1>2. /\ head' = head + fits /\ tail' = tail /\ cells' = cells
      /\ len' = 0 /\ fits' = 0
      /\ UNCHANGED <<overruns, offered, delivered>>
  BY DEF PushPublish, consumerVars
<1>3. /\ block \in Seq(Nat) /\ Len(block) = fits
      /\ \A i \in 1 .. fits : block[i] = (offered - len) + i
  BY <1>1 DEF Fifo!Block
<1>4. /\ Queue \in Seq(0 .. MaxOffered) /\ Len(Queue) = head - tail
      /\ \A i \in 1 .. head - tail : Queue[i] = cells[Slot(tail + i - 1)]
  BY QueueIsWritten
<1>5. Queue' = [i \in 1 .. (head - tail) + fits |-> cells[Slot(tail + i - 1)]]
  BY <1>1, <1>2 DEF Queue
<1>6. ASSUME NEW i \in 1 .. (head - tail) + fits
      PROVE  cells[Slot(tail + i - 1)] =
               IF i \leq head - tail THEN Queue[i] ELSE block[i - (head - tail)]
  <2>1. CASE i \leq head - tail
    BY <1>1, <1>4, <2>1
  <2>2. CASE i > head - tail
    <3> DEFINE k == i - (head - tail) - 1
    <3>1. /\ k \in 0 .. copied - 1 /\ head + k = tail + i - 1
          /\ k + 1 = i - (head - tail) /\ k + 1 \in 1 .. fits
      BY <1>1, <2>2
    <3> HIDE DEF k
    <3>2. cells[Slot(head + k)] = (offered - len) + (k + 1)
      BY <1>1, <3>1 DEF RingInv, Copied, BlockSample
    <3>3. block[k + 1] = (offered - len) + (k + 1)
      BY <1>3, <3>1
    <3> HIDE DEF block
    <3> QED
      BY <1>1, <2>2, <3>1, <3>2, <3>3
  <2> QED
    BY <1>1, <2>1, <2>2
<1> HIDE DEF block
<1>7. Queue' = Queue \o block
  <2>1. Queue \in Seq(Int) /\ block \in Seq(Int)
    <3>1. 0 .. MaxOffered \subseteq Int /\ Nat \subseteq Int
      BY MaxOfferedAssumption
    <3> QED
      BY <1>3, <1>4, <3>1, SeqMonotonic
  <2>2. /\ Queue \o block \in Seq(Int)
        /\ Len(Queue \o block) = (head - tail) + fits
        /\ \A i \in 1 .. (head - tail) + fits :
             (Queue \o block)[i] =
                IF i \leq head - tail THEN Queue[i] ELSE block[i - (head - tail)]
    <3>1. \A i \in 1 .. Len(Queue) + Len(block) :
             (Queue \o block)[i] =
                IF i \leq Len(Queue) THEN Queue[i] ELSE block[i - Len(Queue)]
      BY <2>1, ConcatProperties
    <3>2. /\ Queue \o block \in Seq(Int)
          /\ Len(Queue \o block) = Len(Queue) + Len(block)
      BY <2>1, ConcatProperties
    <3> QED
      BY <1>3, <1>4, <3>1, <3>2
  <2>3. /\ Len(Queue') = (head - tail) + fits
        /\ \A i \in 1 .. (head - tail) + fits :
             Queue'[i] = cells[Slot(tail + i - 1)]
    BY <1>1, <1>5
  <2>4. Queue' \in Seq(Int)
    <3>1. ASSUME NEW i \in 1 .. (head - tail) + fits
          PROVE  (Queue \o block)[i] \in Int
      BY <2>2, ElementOfSeq
    <3>2. \A i \in 1 .. (head - tail) + fits :
             cells[Slot(tail + i - 1)] \in Int
      BY <1>6, <2>2, <3>1
    <3>3. (head - tail) + fits \in Nat
      BY <1>1
    <3> QED
      BY <1>5, <3>2, <3>3
  <2> QED
    BY <1>6, <2>2, <2>3, <2>4, SeqEqual
<1>8. /\ fits \leq Capacity - Len(Queue)
      /\ offered' - len' = (offered - len) + len
      /\ (IF fits' < len' THEN overruns' - 1 ELSE overruns')
           = IF fits < len
             THEN (IF fits < len THEN overruns - 1 ELSE overruns) + 1
             ELSE IF fits < len THEN overruns - 1 ELSE overruns
      /\ len \in 1 .. MaxBlock /\ fits \in 0 .. len
  BY <1>1, <1>2, <1>4
<1> QED
  BY <1>2, <1>7, <1>8 DEF Queue, block, Fifo!Put

(* A pop that begins or reads a cell has not happened yet, and an empty
   pop never does. *)
LEMMA PopIsHidden ==
  ASSUME PopEmpty \/ PopCell \/ \E n \in 1 .. MaxBlock : PopBegin(n)
  PROVE  UNCHANGED Fifo!vars
BY DEF PopEmpty, PopCell, PopBegin, producerVars, consumerVars, vars, Queue,
       Fifo!vars

(* The end of a pop is a Take of the quantum that was read. *)
LEMMA PopPublishTakes ==
  ASSUME RingInv, PopPublish
  PROVE  Fifo!Take(take) /\ take \in 1 .. MaxBlock
<1>1. /\ tail \in Nat /\ head \in Nat /\ take \in 1 .. MaxBlock
      /\ take \in Nat /\ take \leq head - tail /\ Len(out) = take
      /\ out \in Seq(0 .. MaxOffered)
  BY MaxBlockAssumption DEF PopPublish, RingInv, TypeOK, Grants
<1>2. /\ tail' = tail + take /\ head' = head /\ cells' = cells
      /\ delivered' = delivered \o out
      /\ UNCHANGED <<overruns, len, fits, offered>>
  BY DEF PopPublish, producerVars
<1>3. /\ Queue \in Seq(0 .. MaxOffered) /\ Len(Queue) = head - tail
      /\ \A i \in 1 .. head - tail : /\ Queue[i] = cells[Slot(tail + i - 1)]
                                     /\ Queue[i] = written[tail + i]
  BY QueueIsWritten
<1>4. \A i \in 1 .. Len(Queue) : Queue[i] \in 0 .. MaxOffered
  BY <1>3, ElementOfSeq
<1>5. out = SubSeq(Queue, 1, take)
  <2>1. \A i \in 1 .. take : Queue[i] \in 0 .. MaxOffered
    BY <1>1, <1>3, <1>4
  <2>2. /\ SubSeq(Queue, 1, take) \in Seq(0 .. MaxOffered)
        /\ Len(SubSeq(Queue, 1, take)) = take
        /\ \A i \in 1 .. take : SubSeq(Queue, 1, take)[i] = Queue[i]
    BY <1>1, <2>1, SubSeqProperties
  <2>3. ASSUME NEW i \in 1 .. take
        PROVE  out[i] = Queue[i]
    <3>1. i \in 1 .. Len(out) /\ i \in 1 .. head - tail
      BY <1>1
    <3>2. out[i] = written[tail + i]
      BY <3>1 DEF RingInv, Heard
    <3> QED
      BY <1>3, <3>1, <3>2
  <2> QED
    BY <1>1, <2>2, <2>3, SeqEqual
<1>6. Queue' = SubSeq(Queue, take + 1, Len(Queue))
  <2> DEFINE rest == SubSeq(Queue, take + 1, Len(Queue))
             left == head - (tail + take)
  <2>1. \A i \in take + 1 .. Len(Queue) : Queue[i] \in 0 .. MaxOffered
    BY <1>1, <1>3, <1>4
  <2>2. /\ rest \in Seq(0 .. MaxOffered) /\ Len(rest) = left
        /\ \A i \in 1 .. left : rest[i] = Queue[take + i]
    <3>1. take + 1 \in Int /\ Len(Queue) \in Int
      BY <1>1, <1>3
    <3>2. /\ rest \in Seq(0 .. MaxOffered)
          /\ Len(rest) = IF take + 1 \leq Len(Queue)
                         THEN Len(Queue) - (take + 1) + 1 ELSE 0
          /\ \A i \in 1 .. Len(Queue) - (take + 1) + 1 :
               rest[i] = Queue[(take + 1) + i - 1]
      BY <2>1, <3>1, SubSeqProperties
    <3>3. \A i \in 1 .. left : (take + 1) + i - 1 = take + i
      BY <1>1
    <3> HIDE DEF rest
    <3> QED
      BY <1>1, <1>3, <3>2, <3>3
  <2>3. Queue' = [i \in 1 .. left |-> cells[Slot((tail + take) + i - 1)]]
    BY <1>2 DEF Queue
  <2>4. ASSUME NEW i \in 1 .. left
        PROVE  cells[Slot((tail + take) + i - 1)] = rest[i]
    <3>1. /\ take + i \in 1 .. head - tail
          /\ (tail + take) + i - 1 = tail + (take + i) - 1
      BY <1>1
    <3> HIDE DEF rest
    <3> QED
      BY <1>3, <2>2, <3>1
  <2> HIDE DEF rest
  <2>5. \A i \in 1 .. left : rest[i] \in 0 .. MaxOffered
    BY <2>2, ElementOfSeq
  <2>6. /\ Queue' \in Seq(0 .. MaxOffered) /\ Len(Queue') = left
        /\ \A i \in 1 .. left : Queue'[i] = rest[i]
    <3>1. left \in Nat
      BY <1>1
    <3> DEFINE shown == [i \in 1 .. left |-> cells[Slot((tail + take) + i - 1)]]
    <3>2. \A i \in 1 .. left : shown[i] = rest[i]
      BY <2>4
    <3> HIDE DEF left
    <3>3. shown \in Seq(0 .. MaxOffered) /\ Len(shown) = left
      BY <2>4, <2>5, <3>1
    <3> QED
      BY <2>3, <3>2, <3>3
  <2>7. Queue' = rest
    BY <2>2, <2>6, SeqEqual
  <2> QED
    BY <2>7 DEF rest
<1> QED
  BY <1>1, <1>2, <1>3, <1>5, <1>6 DEF Queue, Fifo!Take

(* Every step of the ring is a step of the queue or a stutter. *)
LEMMA StepIsFifoStep ==
  ASSUME RingInv, [Next]_vars
  PROVE  [Fifo!Next]_(Fifo!vars)
<1>1. ASSUME NEW n \in 1 .. MaxBlock, PushFull(n)
      PROVE  Fifo!Next
  BY <1>1, PushFullPuts, MaxBlockAssumption DEF Fifo!Next
<1>2. CASE PushPanic \/ PushCell \/ \E n \in 1 .. MaxBlock : PushBegin(n)
  BY <1>2, PushIsHidden
<1>3. CASE PushPublish
  BY <1>3, PublishPuts DEF Fifo!Next
<1>4. CASE PopEmpty \/ PopCell \/ \E n \in 1 .. MaxBlock : PopBegin(n)
  BY <1>4, PopIsHidden
<1>5. CASE PopPublish
  BY <1>5, PopPublishTakes DEF Fifo!Next
<1>6. CASE UNCHANGED vars
  BY <1>6 DEF vars, producerVars, consumerVars, Fifo!vars
<1> QED
  BY <1>1, <1>2, <1>3, <1>4, <1>5, <1>6 DEF Next, Producer, Consumer

(* The ring implements the bounded queue of SampleFifo: however the two
   threads interleave, the callers see whole pushes and whole pops, and one
   overrun for each block that was not kept whole. *)
THEOREM RingIsAQueue == Spec => ImplementsFifo
<1>1. Init => Fifo!Init
  BY FifoInit
<1>2. RingInv /\ [Next]_vars => [Fifo!Next]_(Fifo!vars)
  BY StepIsFifoStep
<1> QED
  BY <1>1, <1>2, RingInvariant, PTL DEF Spec, ImplementsFifo, Fifo!Spec

-----------------------------------------------------------------------------
(* available() among the ring's calls, the subject of JitterFill.           *)

(* Every step of the ring with its observers is a step of the ring. *)
LEMMA FillStep == [FillNext]_fillVars => [Next]_vars
BY DEF FillNext, fillVars, RingStep, AvailableLoadHead, AvailableLoadTail,
       Next, vars

(* What the four theorems above say of the ring holds under observation. *)
LEMMA FillIsRing == FillSpec => Spec
BY FillStep, PTL DEF FillSpec, FillInit, Spec

(* The remainder of a subtraction is in the word. *)
LEMMA Remainder ==
  ASSUME NEW n \in Nat
  PROVE  /\ n % Word \in 0 .. Word - 1
         /\ n \div Word \in Nat
         /\ n = Word * (n \div Word) + (n % Word)
<1>1. Word \in Nat /\ Word > 0
  BY WordAssumption, CapacityAssumption, MaxOfferedAssumption
<1> QED
  BY <1>1

(* What available() computes of two indices in reach of each other is their
   difference: its addition cannot be told from one that does not wrap. *)
LEMMA OccupancyIsExact ==
  ASSUME NEW h \in 0 .. MaxOffered, NEW t \in 0 .. h
  PROVE  Occupancy(h, t) = h - t
<1>1. /\ Word \in Nat /\ h \in Nat /\ t \in Nat /\ t \leq h /\ h < Word
      /\ Word > 0
  BY WordAssumption, CapacityAssumption, MaxOfferedAssumption
<1> DEFINE n == h + Word - t
           q == n \div Word
           r == n % Word
<1>2. n \in Nat /\ n - Word \in 0 .. Word - 1 /\ n - Word = h - t
  BY <1>1
<1>3. q \in Nat /\ r \in 0 .. Word - 1 /\ n = Word * q + r
  BY <1>2, Remainder
<1>4. Occupancy(h, t) = r
  BY DEF Occupancy
<1> HIDE DEF n, q, r
<1>5. CASE q = 0
  BY <1>1, <1>2, <1>3, <1>5
<1>6. CASE q = 1
  BY <1>1, <1>2, <1>3, <1>4, <1>6
<1>7. CASE q \geq 2
  <2>1. Word * q \geq 2 * Word
    BY <1>1, <1>3, <1>7
  <2> QED
    BY <1>1, <1>2, <1>3, <2>1
<1> QED
  BY <1>3, <1>5, <1>6, <1>7

(* Of any two indices it computes a natural number. *)
LEMMA OccupancyType ==
  ASSUME NEW h \in Nat, NEW t \in 0 .. MaxOffered
  PROVE  Occupancy(h, t) \in Nat
<1>1. h + Word - t \in Nat
  BY WordAssumption, CapacityAssumption, MaxOfferedAssumption
<1> QED
  BY <1>1, Remainder DEF Occupancy

(* A call of available() in progress: the network task is between pushes, so
   head is still what it loaded; the callback is between pops, so tail has
   not passed the head it loaded, which can only have grown. *)
SeenHead ==
  /\ obs.head \in Nat /\ obs.fill \in Nat
  /\ obs.phase = "head" => obs.by \in Observers
  /\ obs.phase = "head" /\ obs.by = "network" =>
       push = "idle" /\ obs.head = head
  /\ obs.phase = "head" /\ obs.by = "callback" =>
       pop = "idle" /\ tail \leq obs.head /\ obs.head \leq head

FillInv == RingInv /\ SeenHead /\ OwnersSeeTrueFill

(* A step of the network task moves head forward and leaves tail alone. *)
LEMMA ProducerMoves ==
  ASSUME RingInv, Producer
  PROVE  head' \in Nat /\ head' \geq head /\ tail' = tail /\ pop' = pop
BY DEF Producer, PushFull, PushBegin, PushPanic, PushCell, PushPublish,
       consumerVars, RingInv, TypeOK

(* A step of the callback moves tail forward and leaves head alone. *)
LEMMA ConsumerMoves ==
  ASSUME RingInv, Consumer
  PROVE  tail' \in Nat /\ tail' \geq tail /\ head' = head /\ push' = push
BY MaxBlockAssumption
   DEF Consumer, PopBegin, PopEmpty, PopCell, PopPublish, producerVars,
       consumerVars, vars, RingInv, TypeOK

LEMMA FillInvariant == FillSpec => []FillInv
<1>1. FillInit => FillInv
  BY RingInit DEF FillInit, NoCall, FillInv, SeenHead, OwnersSeeTrueFill
<1>2. FillInv /\ RingInv' /\ [FillNext]_fillVars => FillInv'
  <2> SUFFICES ASSUME FillInv, RingInv', [FillNext]_fillVars
               PROVE  SeenHead' /\ OwnersSeeTrueFill'
    BY DEF FillInv
  <2>1. /\ RingInv /\ Capacity \in Nat /\ MaxOffered \in Nat
        /\ head \in 0 .. MaxOffered /\ tail \in 0 .. head
        /\ tail \in 0 .. MaxOffered /\ head - tail \leq Capacity
    <3>1. RingInv /\ Capacity \in Nat /\ MaxOffered \in Nat
      BY CapacityAssumption, MaxOfferedAssumption DEF FillInv
    <3>2. /\ offered \in 0 .. MaxOffered /\ head \in 0 .. offered
          /\ tail \in 0 .. head /\ head - tail \leq Capacity
      BY <3>1 DEF RingInv, TypeOK
    <3> QED
      BY <3>1, <3>2
  <2>2. CASE RingStep("network", Producer)
    <3>1. head' \in Nat /\ head' \geq head /\ tail' = tail /\ pop' = pop
      BY <2>1, <2>2, ProducerMoves DEF RingStep
    <3>2. CASE obs.by = "network"
      BY <2>2, <3>2 DEF RingStep, NoCall, SeenHead, OwnersSeeTrueFill
    <3>3. CASE obs.by # "network"
      <4>1. obs' = obs
        BY <2>2, <3>3 DEF RingStep
      <4>2. SeenHead'
        BY <2>1, <3>1, <3>3, <4>1 DEF FillInv, SeenHead
      <4>3. OwnersSeeTrueFill'
        BY <2>1, <3>1, <3>3, <4>1 DEF FillInv, SeenHead, OwnersSeeTrueFill
      <4> QED
        BY <4>2, <4>3
    <3> QED
      BY <3>2, <3>3
  <2>3. CASE RingStep("callback", Consumer)
    <3>1. tail' \in Nat /\ tail' \geq tail /\ head' = head /\ push' = push
      BY <2>1, <2>3, ConsumerMoves DEF RingStep
    <3>2. CASE obs.by = "callback"
      BY <2>3, <3>2 DEF RingStep, NoCall, SeenHead, OwnersSeeTrueFill
    <3>3. CASE obs.by # "callback"
      <4>1. obs' = obs
        BY <2>3, <3>3 DEF RingStep
      <4>2. SeenHead'
        BY <2>1, <3>1, <3>3, <4>1 DEF FillInv, SeenHead
      <4>3. OwnersSeeTrueFill'
        BY <2>1, <3>1, <3>3, <4>1 DEF FillInv, SeenHead, OwnersSeeTrueFill
      <4> QED
        BY <4>2, <4>3
    <3> QED
      BY <3>2, <3>3
  <2>4. ASSUME NEW by \in Observers, AvailableLoadHead(by)
        PROVE  SeenHead' /\ OwnersSeeTrueFill'
    <3>1. /\ obs'.phase = "head" /\ obs'.by = by /\ obs'.head = head
          /\ obs'.fill = 0
          /\ UNCHANGED <<head, tail, push, pop>>
      BY <2>4 DEF AvailableLoadHead, vars, producerVars, consumerVars
    <3>2. by = "network" => push = "idle"
      BY <2>4 DEF AvailableLoadHead, MayCall
    <3>3. by = "callback" => pop = "idle"
      BY <2>4 DEF AvailableLoadHead, MayCall
    <3> QED
      BY <2>1, <3>1, <3>2, <3>3 DEF SeenHead, OwnersSeeTrueFill
  <2>5. CASE AvailableLoadTail
    <3>1. /\ obs.phase = "head"
          /\ obs'.phase = "done" /\ obs'.by = obs.by /\ obs'.head = 0
          /\ obs'.fill = Occupancy(obs.head, tail)
          /\ head' = head /\ tail' = tail
      BY <2>5 DEF AvailableLoadTail, vars
    <3>2. SeenHead'
      BY <2>1, <3>1, OccupancyType DEF FillInv, SeenHead
    <3>3. CASE obs.by = "network"
      <4>1. obs'.fill = head - tail
        BY <2>1, <3>1, <3>3, OccupancyIsExact DEF FillInv, SeenHead
      <4> QED
        BY <2>1, <3>1, <3>2, <3>3, <4>1 DEF OwnersSeeTrueFill
    <3>4. CASE obs.by = "callback"
      <4>1. obs.head \in Nat /\ tail \leq obs.head /\ obs.head \leq head
        BY <3>1, <3>4 DEF FillInv, SeenHead
      <4>2. obs.head \in 0 .. MaxOffered /\ tail \in 0 .. obs.head
        BY <2>1, <4>1
      <4>3. obs'.fill = obs.head - tail
        BY <3>1, <4>2, OccupancyIsExact
      <4> QED
        BY <2>1, <3>1, <3>2, <3>4, <4>1, <4>3 DEF OwnersSeeTrueFill
    <3>5. CASE obs.by \notin {"network", "callback"}
      <4>1. obs.by = "status"
        BY <3>1, <3>5, ObserversAssumption DEF FillInv, SeenHead
      <4> QED
        BY <3>1, <3>2, <4>1 DEF OwnersSeeTrueFill
    <3> QED
      BY <3>3, <3>4, <3>5
  <2>6. CASE UNCHANGED fillVars
    BY <2>6 DEF fillVars, vars, producerVars, consumerVars, FillInv, SeenHead,
                OwnersSeeTrueFill
  <2> QED
    BY <2>2, <2>3, <2>4, <2>5, <2>6 DEF FillNext
<1> QED
  BY <1>1, <1>2, FillIsRing, RingInvariant, PTL DEF FillSpec

(* Whichever threads ask, the callback never acts on samples that are not
   there, the network task never reports fewer than there are, and neither
   sees more than the ring can hold. *)
THEOREM FillIsTrueForOwners == FillSpec => []OwnersSeeTrueFill
<1>1. FillInv => OwnersSeeTrueFill
  BY DEF FillInv
<1> QED
  BY <1>1, FillInvariant, PTL
=============================================================================
