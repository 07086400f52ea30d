--------------------------- MODULE SessionProofs ---------------------------
(***************************************************************************)
(* Theorems about a session over a byte stream (Session): the phone's ring *)
(* is a queue of whole blocks, a stop drains it before the bye, and the    *)
(* receiver counts no loss within a connection on which no send of the     *)
(* phone's ran into its timeout.                                           *)
(*                                                                         *)
(* SessionInv is the inductive invariant.  Its parts are about the ring    *)
(* (CaptureInv), the phone's threads (PhoneTyped, Thread, Stopping), the   *)
(* streams to the receiver and its tasks (ServeTyped, Unused, Untorn,      *)
(* Consecutive) and the streams to the phone (TalkTyped, MessagesWhole).   *)
(* Each part has lemmas about the shape of the steps it depends on, and    *)
(* one that the next-state relation keeps it.                              *)
(***************************************************************************)
EXTENDS Session, Integers, SequenceTheorems, WellFoundedInduction, TLAPS

Bytes == Nat \X Nat

(* Each thread's own variables, and the other's index as far as it loaded. *)
RingTyped ==
  /\ data \in [0 .. Capacity - 1 -> Bytes]
  /\ head \in Nat /\ tail \in Nat /\ tail \leq head
  /\ head - tail \leq Capacity - 1
  /\ block \in Seq(Bytes) /\ Len(block) \leq Frame
  /\ pushed \in {"idle", "room", "copied"}
  /\ pushed = "idle" => block = << >>
  /\ pushed # "idle" => Len(block) \leq FreeSpace
  /\ popping \in {0, Frame} /\ popping \leq head - tail
  /\ frame \in Seq(Bytes) /\ Len(frame) \in {0, popping}
  /\ accepted \in Seq(Bytes) /\ Len(accepted) = head
  /\ popped \in Seq(Bytes) /\ Len(popped) = tail
  /\ callbacks \in Nat /\ overruns \in Nat

(* The cells past head hold the block that was copied. *)
BlockCopied ==
  pushed = "copied" =>
    \A j \in 1 .. Len(block) : data[Index(head + j - 1)] = block[j]

(* The cells between the indices hold the bytes accepted and not popped. *)
BytesWait == \A i \in tail .. head - 1 : data[Index(i)] = accepted[i + 1]

(* The bytes popped, and the frame copied out, are the ones accepted. *)
BytesPopped ==
  /\ \A i \in 1 .. tail : popped[i] = accepted[i]
  /\ \A i \in 1 .. Len(frame) : frame[i] = accepted[tail + i]

CaptureInv == RingTyped /\ BlockCopied /\ BytesWait /\ BytesPopped

(* The phone's threads. *)
PhoneTyped ==
  /\ budget \in Budgets
  /\ used \in 0 .. MaxConns /\ conn \in 0 .. used
  /\ source \in BOOLEAN /\ stop \in BOOLEAN /\ late \in BOOLEAN
  /\ owed \in {"", "pong", "audio"}
  /\ net \in {"off", "hello", "head", "listen", "frame", "drain", "bye", "done"}
  /\ conn = 0 <=> net = "off"
  /\ number \in Numbers /\ polled \in 0 .. DrainMax

Packets == [kind : {"hello", "pong", "audio", "bye", "torn"}, seq : Numbers]
WholePackets == [kind : {"hello", "pong", "audio", "bye"}, seq : Numbers]

(* The streams to the receiver and its tasks. *)
ServeTyped ==
  /\ up \in [Conns -> Seq(Packets)]
  /\ \A c \in Conns : Len(up[c]) \leq Window + 2
  /\ stalled \subseteq Conns
  /\ broken \in [Conns -> BOOLEAN]
  /\ reader \in [Conns -> {"none", "head", "read", "ended"}]
  /\ writer \in [Conns -> {"none", "on", "done"}]
  /\ tracker \in Trackers /\ lost \in Nat /\ from \in 0 .. used

(* The streams to the phone. *)
CellTypes == {MagicCell, RestCell} \cup Messages

TalkTyped ==
  /\ replies \in [Conns -> Seq(Messages)]
  /\ \A c \in Conns : Len(replies[c]) \leq ReplyCap
  /\ written \in [Conns -> Seq(Messages)]
  /\ heard \in [Conns -> Seq(Messages)]
  /\ down \in [Conns -> Seq(CellTypes)]
  /\ pend \in Seq(CellTypes)

(* Where the network thread is: what it owes, what it pops, and whether it
   may take another packet. *)
Thread ==
  /\ owed = "pong" => net = "listen"
  /\ owed = "audio" => net \in {"frame", "drain"} /\ popping = 0
  /\ popping # 0 => net \in {"frame", "drain"} /\ owed = ""
  /\ net = "listen" /\ owed = "" => polled < DrainMax

(* The order of Stop: the source, then the thread, then the bye. *)
Stopping ==
  /\ ~source => pushed = "idle"
  /\ stop => ~source
  /\ net \in {"drain", "bye", "done"} => stop
  /\ net \in {"bye", "done"} /\ ~late => Available < Frame

(* A connection that was not made yet has nothing on it. *)
Unused ==
  \A c \in Conns :
    c > used => /\ up[c] = << >> /\ down[c] = << >>
                /\ reader[c] = "none" /\ writer[c] = "none"

(* A packet is torn only where a send ran into its timeout. *)
Untorn == \A c \in Conns : c \notin stalled => up[c] \in Seq(WholePackets)

Successor(n) == (n + 1) % Word

(* Where no send ran into its timeout: the numbers on a stream follow each
   other, the phone's next one follows the last, and the tracker expects the
   first if it followed this stream. *)
Consecutive ==
  /\ \A c \in Conns : c \notin stalled =>
       \A i \in 1 .. Len(up[c]) - 1 : up[c][i + 1].seq = Successor(up[c][i].seq)
  /\ conn # 0 /\ conn \notin stalled /\ ~Gone(conn) /\ up[conn] # << >> =>
       number = Successor(up[conn][Len(up[conn])].seq)
  /\ from # 0 /\ from \notin stalled /\ up[from] # << >> =>
       tracker.expected = up[from][1].seq
  /\ from # 0 /\ from \notin stalled /\ up[from] = << >> /\ conn = from
       /\ ~Gone(from) => tracker.expected = number

(* Of a packet whose first cell has not been read yet, all cells are there. *)
Whole(s) ==
  \A i \in 1 .. Len(s) :
    s[i] = MagicCell => i + 2 \leq Len(s) /\ s[i + 2] \in Messages

MessagesWhole ==
  conn # 0 /\ ~broken[conn] => Whole(pend \o down[conn])

SessionInv ==
  /\ CaptureInv /\ PhoneTyped /\ ServeTyped /\ TalkTyped
  /\ Thread /\ Stopping /\ Unused /\ Untorn /\ Consecutive /\ MessagesWhole

-----------------------------------------------------------------------------
(* Cells: division with remainder, and its consequence that indices less    *)
(* than a capacity apart lie in different cells.                            *)

(* The ring's sizes are numbers, and two frames fit. *)
LEMMA RingSize ==
  /\ Capacity \in Nat /\ Capacity > 0
  /\ Frame \in Nat /\ Frame > 0 /\ 2 * Frame \leq Capacity
BY RingAssumption

(* An index is a multiple of the capacity and a cell. *)
LEMMA CellOfIndex ==
  ASSUME NEW i \in Nat
  PROVE  /\ Index(i) \in 0 .. Capacity - 1
         /\ i \div Capacity \in Nat
         /\ i = Capacity * (i \div Capacity) + Index(i)
BY RingSize DEF Index

(* Two indices in one cell are a capacity apart. *)
LEMMA CellsDiffer ==
  ASSUME NEW i \in Nat, NEW j \in Nat, i < j, j < i + Capacity
  PROVE  Index(i) # Index(j)
<1> SUFFICES ASSUME Index(i) = Index(j) PROVE FALSE
  OBVIOUS
<1> DEFINE p == i \div Capacity
           q == j \div Capacity
<1>1. /\ p \in Int /\ q \in Int
      /\ Index(i) \in Int
      /\ i = Capacity * p + Index(i)
      /\ j = Capacity * q + Index(j)
  BY CellOfIndex
<1> HIDE DEF p, q
<1>2. j - i = Capacity * (q - p)
  BY <1>1, RingSize
<1>3. CASE q - p \geq 1
  <2>1. Capacity * (q - p) \geq Capacity
    BY <1>1, <1>3, RingSize
  <2> QED
    BY <1>1, <1>2, <2>1, RingSize
<1>4. CASE q - p \leq 0
  <2>1. Capacity * (p - q) \geq 0
    BY <1>1, <1>4, RingSize
  <2> QED
    BY <1>1, <1>2, <2>1, RingSize
<1> QED
  BY <1>1, <1>3, <1>4

-----------------------------------------------------------------------------
(* The ring's steps.                                                        *)

(* A new ring is empty. *)
LEMMA EmptyRingIs == EmptyRing => CaptureInv
<1> SUFFICES ASSUME EmptyRing PROVE CaptureInv
  OBVIOUS
<1>1. RingTyped
  BY RingSize DEF EmptyRing, RingTyped, Bytes, Fresh, FreeSpace
<1> QED
  BY <1>1 DEF EmptyRing, CaptureInv, BlockCopied, BytesWait, BytesPopped

(* A ring made in the middle of a behaviour is as empty. *)
LEMMA NewRingIs == NewRing => CaptureInv'
<1> SUFFICES ASSUME NewRing PROVE CaptureInv'
  OBVIOUS
<1>1. RingTyped'
  BY RingSize DEF NewRing, RingTyped, Bytes, Fresh, FreeSpace
<1> QED
  BY <1>1 DEF NewRing, CaptureInv, BlockCopied, BytesWait, BytesPopped

(* What leaves the ring's variables alone keeps its invariant. *)
LEMMA RingRests ==
  ASSUME CaptureInv, UNCHANGED ringVars
  PROVE  CaptureInv'
BY DEF CaptureInv, RingTyped, BlockCopied, BytesWait, BytesPopped, ringVars,
       producerVars, consumerVars, FreeSpace

(* A callback: the block it takes has room. *)
LEMMA OnAudioKeeps ==
  ASSUME CaptureInv, NEW n \in 1 .. Capacity, OnAudio(n)
  PROVE  CaptureInv'
<1>1. RingTyped
  BY DEF CaptureInv
<1>2. /\ pushed = "idle" /\ callbacks' = callbacks + 1
      /\ overruns' \in {overruns, overruns + 1}
      /\ UNCHANGED <<data, head, tail, accepted, popping, frame, popped>>
  BY DEF OnAudio, consumerVars
<1>3. CASE n \leq Frame /\ Fits(n)
  <2>1. /\ block' = [i \in 1 .. n |-> <<callbacks + 1, i>>]
        /\ pushed' = "room"
    BY <1>3 DEF OnAudio
  <2>2. callbacks + 1 \in Nat /\ n \in Nat
    BY <1>1, RingSize DEF RingTyped
  <2>3. \A i \in 1 .. n : <<callbacks + 1, i>> \in Bytes
    BY <2>2 DEF Bytes
  <2>4. block' \in Seq(Bytes) /\ Len(block') = n
    BY <2>1, <2>2, <2>3
  <2>5. RingTyped'
    BY <1>1, <1>2, <1>3, <2>1, <2>2, <2>4 DEF RingTyped, Fits, FreeSpace
  <2> QED
    BY <1>2, <2>1, <2>5 DEF CaptureInv, BlockCopied, BytesWait, BytesPopped
<1>4. CASE ~(n \leq Frame /\ Fits(n))
  <2>1. block' = block /\ pushed' = pushed
    BY <1>4 DEF OnAudio
  <2>2. RingTyped'
    BY <1>1, <1>2, <2>1 DEF RingTyped, FreeSpace
  <2> QED
    BY <1>2, <2>1, <2>2 DEF CaptureInv, BlockCopied, BytesWait, BytesPopped
<1> QED
  BY <1>3, <1>4

(* The copy of a block lands past head, and nowhere else. *)
LEMMA PushCopyKeeps ==
  ASSUME CaptureInv, PushCopy
  PROVE  CaptureInv'
<1> DEFINE at(i) == {j \in 1 .. Len(block) : Index(head + j - 1) = i}
<1>1. /\ head \in Nat /\ tail \in Nat /\ tail \leq head
      /\ block \in Seq(Bytes) /\ Len(block) \in Nat
      /\ Len(block) \leq Capacity - 1 - (head - tail)
      /\ data \in [0 .. Capacity - 1 -> Bytes]
  BY DEF PushCopy, CaptureInv, RingTyped, FreeSpace
<1>2. /\ pushed = "room" /\ pushed' = "copied"
      /\ UNCHANGED <<head, tail, block, overruns, callbacks, accepted,
                     popping, frame, popped>>
      /\ data' = [i \in 0 .. Capacity - 1 |->
                    IF at(i) = {} THEN data[i]
                    ELSE block[CHOOSE j \in at(i) : TRUE]]
  BY <1>1 DEF PushCopy, consumerVars
<1>3. ASSUME NEW j \in 1 .. Len(block)
      PROVE  /\ Index(head + j - 1) \in 0 .. Capacity - 1
             /\ at(Index(head + j - 1)) = {j}
  <2>1. head + j - 1 \in Nat
    BY <1>1
  <2>2. ASSUME NEW k \in 1 .. Len(block), k # j
        PROVE  Index(head + k - 1) # Index(head + j - 1)
    <3>1. head + k - 1 \in Nat
      BY <1>1
    <3>2. CASE k < j
      <4>1. /\ head + k - 1 < head + j - 1
            /\ head + j - 1 < (head + k - 1) + Capacity
        BY <1>1, <3>2, RingSize
      <4> QED
        BY <2>1, <3>1, <4>1, CellsDiffer
    <3>3. CASE j < k
      <4>1. /\ head + j - 1 < head + k - 1
            /\ head + k - 1 < (head + j - 1) + Capacity
        BY <1>1, <3>3, RingSize
      <4> QED
        BY <2>1, <3>1, <4>1, CellsDiffer
    <3> QED
      BY <1>1, <2>2, <3>2, <3>3
  <2> QED
    BY <2>1, <2>2, CellOfIndex
<1>4. ASSUME NEW i \in tail .. head - 1
      PROVE  Index(i) \in 0 .. Capacity - 1 /\ at(Index(i)) = {}
  <2>1. i \in Nat
    BY <1>1
  <2>2. ASSUME NEW j \in 1 .. Len(block)
        PROVE  Index(head + j - 1) # Index(i)
    <3>1. /\ head + j - 1 \in Nat /\ i < head + j - 1
          /\ head + j - 1 < i + Capacity
      BY <1>1, RingSize
    <3> QED
      BY <2>1, <3>1, CellsDiffer
  <2> QED
    BY <2>1, <2>2, CellOfIndex
<1>5. ASSUME NEW i \in 0 .. Capacity - 1
      PROVE  data'[i] \in Bytes
  <2>1. CASE at(i) = {}
    BY <1>1, <1>2, <2>1
  <2>2. CASE at(i) # {}
    <3>1. PICK j \in at(i) : j = (CHOOSE k \in at(i) : TRUE)
      BY <2>2
    <3>2. j \in 1 .. Len(block) /\ data'[i] = block[j]
      BY <1>2, <2>2, <3>1
    <3> QED
      BY <1>1, <3>2, ElementOfSeq
  <2> QED
    BY <2>1, <2>2
<1>6. data' \in [0 .. Capacity - 1 -> Bytes]
  BY <1>2, <1>5
<1>7. ASSUME NEW j \in 1 .. Len(block)
      PROVE  data'[Index(head + j - 1)] = block[j]
  <2>1. (CHOOSE k \in {j} : TRUE) = j
    OBVIOUS
  <2> QED
    BY <1>2, <1>3, <2>1
<1>8. ASSUME NEW i \in tail .. head - 1
      PROVE  data'[Index(i)] = data[Index(i)]
  BY <1>2, <1>4
<1> HIDE DEF at
<1>9. RingTyped'
  BY <1>2, <1>6 DEF CaptureInv, RingTyped, FreeSpace
<1>10. BlockCopied'
  BY <1>2, <1>7 DEF BlockCopied
<1>11. BytesWait' /\ BytesPopped'
  BY <1>2, <1>8 DEF CaptureInv, BytesWait, BytesPopped
<1> QED
  BY <1>9, <1>10, <1>11 DEF CaptureInv

(* Publishing a block: what was copied becomes what waits. *)
LEMMA PushPublishKeeps ==
  ASSUME CaptureInv, PushPublish
  PROVE  CaptureInv'
<1>1. /\ head \in Nat /\ tail \in Nat /\ tail \leq head
      /\ block \in Seq(Bytes) /\ Len(block) \in Nat
      /\ Len(block) \leq Capacity - 1 - (head - tail)
      /\ accepted \in Seq(Bytes) /\ Len(accepted) = head
      /\ Len(frame) \in Nat /\ Len(frame) \leq head - tail
  <2>1. /\ head \in Nat /\ tail \in Nat /\ tail \leq head
        /\ block \in Seq(Bytes) /\ accepted \in Seq(Bytes) /\ frame \in Seq(Bytes)
        /\ Len(accepted) = head
    BY DEF CaptureInv, RingTyped
  <2>2. Len(block) \leq Capacity - 1 - (head - tail)
    BY RingSize DEF PushPublish, CaptureInv, RingTyped, FreeSpace
  <2>3. Len(frame) \leq head - tail
    BY RingSize DEF CaptureInv, RingTyped
  <2> QED
    BY <2>1, <2>2, <2>3
<1>2. /\ pushed = "copied" /\ pushed' = "idle" /\ block' = << >>
      /\ head' = head + Len(block) /\ accepted' = accepted \o block
      /\ UNCHANGED <<data, tail, overruns, callbacks, popping, frame, popped>>
  BY DEF PushPublish, consumerVars
<1>3. /\ accepted' \in Seq(Bytes) /\ Len(accepted') = head + Len(block)
      /\ \A i \in 1 .. head + Len(block) :
           accepted'[i] = IF i \leq head THEN accepted[i] ELSE block[i - head]
  BY <1>1, <1>2, ConcatProperties
<1>4. RingTyped'
  BY <1>1, <1>2, <1>3, RingSize DEF CaptureInv, RingTyped, FreeSpace
<1>5. BytesWait'
  <2> SUFFICES ASSUME NEW i \in tail .. (head + Len(block)) - 1
               PROVE  data[Index(i)] = accepted'[i + 1]
    BY <1>2 DEF BytesWait
  <2>1. CASE i < head
    <3>1. i \in tail .. head - 1 /\ i + 1 \in 1 .. head + Len(block)
          /\ i + 1 \leq head
      BY <1>1, <2>1
    <3> QED
      BY <1>3, <3>1 DEF CaptureInv, BytesWait
  <2>2. CASE i \geq head
    <3> DEFINE j == (i + 1) - head
    <3>1. /\ j \in 1 .. Len(block) /\ head + j - 1 = i
          /\ i + 1 \in 1 .. head + Len(block) /\ ~(i + 1 \leq head)
      BY <1>1, <2>2
    <3>2. ASSUME NEW k \in 1 .. head + Len(block), ~(k \leq head)
          PROVE  accepted'[k] = block[k - head]
      BY <1>3, <3>2
    <3>3. accepted'[i + 1] = block[j]
      BY <3>1, <3>2
    <3> HIDE DEF j
    <3>4. data[Index(head + j - 1)] = block[j]
      BY <1>2, <3>1 DEF CaptureInv, BlockCopied
    <3> QED
      BY <3>1, <3>3, <3>4
  <2> QED
    BY <1>1, <2>1, <2>2
<1>6. BytesPopped'
  <2>1. \A i \in 1 .. head : i \in 1 .. head + Len(block) /\ i \leq head
    BY <1>1
  <2>2. \A i \in 1 .. head : accepted'[i] = accepted[i]
    BY <1>3, <2>1
  <2>3. /\ \A i \in 1 .. tail : i \in 1 .. head
        /\ \A i \in 1 .. Len(frame) : tail + i \in 1 .. head
    BY <1>1
  <2> QED
    BY <1>2, <2>2, <2>3 DEF CaptureInv, BytesPopped
<1> QED
  BY <1>2, <1>4, <1>5, <1>6 DEF CaptureInv, BlockCopied

(* A pop begins on a whole frame. *)
LEMMA PopEnterKeeps ==
  ASSUME CaptureInv, popping = 0, Available \geq Frame, PopEnter
  PROVE  CaptureInv'
<1>1. /\ popping' = Frame
      /\ UNCHANGED <<data, head, tail, frame, popped, block, pushed, overruns,
                     callbacks, accepted>>
  BY RingSize DEF PopEnter, LowerOf, Available, producerVars, CaptureInv,
                  RingTyped
<1>2. Len(frame) = 0
  BY DEF CaptureInv, RingTyped
<1> QED
  BY <1>1, <1>2, RingSize DEF CaptureInv, RingTyped, BlockCopied, BytesWait,
                    BytesPopped, FreeSpace, Available

(* The frame copied out is the bytes that wait longest. *)
LEMMA PopCopyKeeps ==
  ASSUME CaptureInv, PopCopy
  PROVE  CaptureInv'
<1>1. /\ popping = Frame /\ popping \in Nat /\ popping \leq head - tail
      /\ head \in Nat /\ tail \in Nat
      /\ data \in [0 .. Capacity - 1 -> Bytes]
  BY RingSize DEF PopCopy, CaptureInv, RingTyped
<1>2. /\ frame' = [i \in 1 .. popping |-> data[Index(tail + i - 1)]]
      /\ UNCHANGED <<data, head, tail, popping, popped, block, pushed,
                     overruns, callbacks, accepted>>
  BY DEF PopCopy, producerVars
<1>3. ASSUME NEW i \in 1 .. popping
      PROVE  /\ data[Index(tail + i - 1)] \in Bytes
             /\ data[Index(tail + i - 1)] = accepted[tail + i]
  <2> DEFINE k == tail + i - 1
  <2>1. k \in Nat /\ k \in tail .. head - 1 /\ k + 1 = tail + i
    BY <1>1
  <2> HIDE DEF k
  <2>2. Index(k) \in 0 .. Capacity - 1 /\ data[Index(k)] = accepted[k + 1]
    BY <2>1, CellOfIndex DEF CaptureInv, BytesWait
  <2> QED
    BY <1>1, <2>1, <2>2 DEF k
<1>4. /\ frame' \in Seq(Bytes) /\ Len(frame') = popping
      /\ \A i \in 1 .. popping : frame'[i] = accepted[tail + i]
  <2> DEFINE byte(i) == data[Index(tail + i - 1)]
  <2>1. \A i \in 1 .. popping : byte(i) \in Bytes /\ byte(i) = accepted[tail + i]
    BY <1>3
  <2>2. frame' = [i \in 1 .. popping |-> byte(i)]
    BY <1>2
  <2> HIDE DEF byte
  <2> QED
    BY <1>1, <2>1, <2>2
<1>5. RingTyped'
  BY <1>2, <1>4 DEF CaptureInv, RingTyped, FreeSpace
<1>6. BytesPopped'
  BY <1>2, <1>4 DEF CaptureInv, BytesPopped
<1> QED
  BY <1>2, <1>5, <1>6 DEF CaptureInv, BlockCopied, BytesWait

(* A pop ends: the frame is appended to what was popped. *)
LEMMA PopPublishKeeps ==
  ASSUME CaptureInv, PopPublish
  PROVE  CaptureInv'
<1>1. /\ head \in Nat /\ tail \in Nat
      /\ frame \in Seq(Bytes) /\ Len(frame) = popping /\ popping = Frame
      /\ tail + Len(frame) \leq head
      /\ popped \in Seq(Bytes) /\ Len(popped) = tail
      /\ Len(frame) \in Nat
  <2>1. Len(frame) # 0
    BY EmptySeq DEF PopPublish, CaptureInv, RingTyped
  <2> QED
    BY <2>1, RingSize DEF CaptureInv, RingTyped
<1>2. /\ tail' = tail + Len(frame) /\ popped' = popped \o frame
      /\ frame' = << >> /\ popping' = 0
      /\ UNCHANGED <<data, head, block, pushed, overruns, callbacks, accepted>>
  BY DEF PopPublish, producerVars
<1>3. /\ popped' \in Seq(Bytes) /\ Len(popped') = tail + Len(frame)
      /\ \A i \in 1 .. tail + Len(frame) :
           popped'[i] = IF i \leq tail THEN popped[i] ELSE frame[i - tail]
  BY <1>1, <1>2, ConcatProperties
<1>4. RingTyped'
  BY <1>1, <1>2, <1>3, RingSize DEF CaptureInv, RingTyped, FreeSpace
<1>5. BytesPopped'
  <2>1. ASSUME NEW i \in 1 .. tail + Len(frame)
        PROVE  popped'[i] = accepted[i]
    <3>1. CASE i \leq tail
      BY <1>1, <1>3, <3>1 DEF CaptureInv, BytesPopped
    <3>2. CASE i > tail
      <4>1. i - tail \in 1 .. Len(frame) /\ tail + (i - tail) = i
        BY <1>1, <3>2
      <4>2. frame[i - tail] = accepted[tail + (i - tail)]
        BY <4>1 DEF CaptureInv, BytesPopped
      <4>3. popped'[i] = frame[i - tail]
        BY <1>1, <1>3, <3>2
      <4> QED
        BY <4>1, <4>2, <4>3
    <3> QED
      BY <1>1, <3>1, <3>2
  <2>2. 1 .. Len(frame') = {}
    BY <1>2
  <2> QED
    BY <1>2, <2>1, <2>2 DEF BytesPopped
<1>6. BytesWait'
  BY <1>1, <1>2 DEF CaptureInv, BytesWait
<1> QED
  BY <1>2, <1>4, <1>5, <1>6 DEF CaptureInv, BlockCopied

-----------------------------------------------------------------------------
(* The steps of the session, by the variables they touch.                   *)

(* The steps that leave the ring alone. *)
OffRing ==
  \/ StartFails \/ Stop \/ SayHello \/ LoopHead \/ Listen \/ ListenFails
  \/ SayPong \/ FrameSend \/ EncodeFails \/ DrainExpires \/ SayBye \/ EngineStops
  \/ \E c \in Conns : Break(c) \/ Reader(c) \/ Writer(c) \/ WriterTick(c)

(* Those steps change nothing of the ring. *)
LEMMA OffRingIs == ASSUME OffRing PROVE UNCHANGED ringVars
BY DEF OffRing, StartFails, Stop, StopSource, StopAsk, StopJoin, SayHello,
       LoopHead, Listen, ListenFails, SayPong, FrameSend, EncodeFails,
       DrainExpires, SayBye, EngineStops, Break, Reader, ReaderHead,
       ReadPacket, ReadTorn, ReadEnd, AbortServe, Writer, WriterReply, WriterEnds,
       WriterTick

(* The limits are numbers. *)
LEMMA Limits ==
  /\ MaxConns \in Nat
  /\ DrainMax \in Nat /\ DrainMax > 0 /\ 0 \in 0 .. DrainMax
  /\ Window \in Nat /\ Window > 0
  /\ ReplyCap \in Nat /\ ReplyCap > 0
BY SessionAssumption

(* A count of packets taken below the limit may rise. *)
LEMMA OneMore ==
  ASSUME NEW k \in 0 .. DrainMax
  PROVE  /\ k < DrainMax => k + 1 \in 0 .. DrainMax
         /\ k < DrainMax /\ k + 1 # DrainMax => k + 1 < DrainMax
         /\ k # DrainMax => k < DrainMax
BY Limits

(* The sizes of blocks the behaviours have are sizes a callback may have. *)
LEMMA BudgetIs ==
  ASSUME PhoneTyped
  PROVE  /\ budget.sizes \subseteq 1 .. Capacity
         /\ budget.conns \in 0 .. MaxConns
         /\ MaxConns \in Nat
BY SessionAssumption DEF PhoneTyped

(* Every step of a session keeps the ring's invariant. *)
LEMMA CaptureKept ==
  ASSUME SessionInv, Next
  PROVE  CaptureInv'
<1>1. CaptureInv /\ PhoneTyped
  BY DEF SessionInv
<1>2. CASE StartSession
  BY <1>2, NewRingIs DEF StartSession
<1>3. CASE Callback
  <2>1. ASSUME NEW n \in budget.sizes, OnAudio(n)
        PROVE  CaptureInv'
    BY <1>1, <2>1, BudgetIs, OnAudioKeeps
  <2> QED
    BY <1>1, <1>3, <2>1, PushCopyKeeps, PushPublishKeeps DEF Callback
<1>4. CASE FrameEnter
  BY <1>1, <1>4, PopEnterKeeps, RingRests DEF FrameEnter
<1>5. CASE FrameCopy
  BY <1>1, <1>5, PopCopyKeeps DEF FrameCopy
<1>6. CASE FramePopped
  BY <1>1, <1>6, PopPublishKeeps DEF FramePopped
<1>7. CASE OffRing
  BY <1>1, <1>7, OffRingIs, RingRests
<1> QED
  BY <1>2, <1>3, <1>4, <1>5, <1>6, <1>7 DEF Next, OffRing, NetworkLoop

(* The steps that leave the phone's network thread and Stop alone. *)
OffPhone ==
  \/ Callback \/ FrameCopy \/ EngineStops
  \/ \E c \in Conns : Break(c) \/ Reader(c) \/ Writer(c) \/ WriterTick(c)

(* Those steps change nothing of the phone's own state. *)
LEMMA OffPhoneIs == ASSUME OffPhone PROVE UNCHANGED phoneVars
BY DEF OffPhone, Callback, FrameCopy, EngineStops, Break, Reader, ReaderHead,
       ReadPacket, ReadTorn, ReadEnd, AbortServe, Writer, WriterReply, WriterEnds,
       WriterTick

(* A number has a successor. *)
LEMMA SuccessorIs ==
  ASSUME NEW n \in Numbers
  PROVE  Successor(n) \in Numbers
<1>1. Word \in Nat /\ Word > 0
  BY WordAssumption
<1> QED
  BY <1>1 DEF Successor, Numbers

(* What a step of the network thread does to where it is.  A send takes a
   number, whether or not the packet goes out. *)
Moves ==
  \/ /\ net = "hello" /\ net' = "head"
     /\ UNCHANGED <<polled, owed, late>>
  \/ /\ net = "head" /\ net' = (IF stop THEN "drain" ELSE "listen")
     /\ polled' = 0
     /\ UNCHANGED <<owed, late>>
  \/ /\ net = "listen" /\ owed = "" /\ net' = "frame"
     /\ UNCHANGED <<polled, owed, late>>
  \/ /\ net = "listen" /\ owed = "" /\ owed' \in {"", "pong"}
     /\ polled' = polled + 1
     /\ net' = IF polled' = DrainMax /\ owed' = "" THEN "frame" ELSE "listen"
     /\ late' = late
  \/ /\ owed = "pong" /\ owed' = ""
     /\ net' = IF polled = DrainMax THEN "frame" ELSE "listen"
     /\ UNCHANGED <<polled, late>>
  \/ /\ owed = "audio" /\ owed' = ""
     /\ net' = IF net = "frame" THEN "head" ELSE net
     /\ UNCHANGED <<polled, late>>
  \/ /\ net = "drain" /\ popping = 0 /\ owed = ""
     /\ net' = "bye" /\ late' = TRUE
     /\ UNCHANGED <<polled, owed>>
  \/ /\ net = "bye" /\ net' = "done"
     /\ UNCHANGED <<polled, owed, late>>

(* The steps of the network thread outside the ring. *)
OffRingNetwork ==
  \/ SayHello \/ LoopHead \/ Listen \/ ListenFails \/ SayPong
  \/ FrameSend \/ EncodeFails \/ DrainExpires \/ SayBye

(* Every step of the network thread is one of those moves. *)
LEMMA NetworkMoves ==
  ASSUME OffRingNetwork
  PROVE  /\ Moves
         /\ number' \in {number, Successor(number)}
         /\ UNCHANGED <<budget, conn, used, source, stop>>
<1>1. CASE SayHello
  BY <1>1 DEF Moves, SayHello, NetSends, Send, Successor
<1>2. CASE LoopHead
  BY <1>2 DEF Moves, LoopHead
<1>3. CASE Listen
  BY <1>3 DEF Moves, Listen
<1>4. CASE ListenFails
  BY <1>4 DEF Moves, ListenFails
<1>5. CASE SayPong
  BY <1>5 DEF Moves, SayPong, NetSends, Send, Successor
<1>6. CASE FrameSend
  BY <1>6 DEF Moves, FrameSend, AfterFrame, NetSends, Send, Successor
<1>7. CASE EncodeFails
  BY <1>7 DEF Moves, EncodeFails, AfterFrame, NumberKept
<1>8. CASE DrainExpires
  BY <1>8 DEF Moves, DrainExpires
<1>9. CASE SayBye
  BY <1>9 DEF Moves, SayBye, NetSends, Send, Successor
<1> QED
  BY <1>1, <1>2, <1>3, <1>4, <1>5, <1>6, <1>7, <1>8, <1>9 DEF OffRingNetwork

(* The phone's variables keep their types. *)
LEMMA PhoneKept ==
  ASSUME SessionInv, Next
  PROVE  PhoneTyped'
<1>1. PhoneTyped /\ Thread
  BY DEF SessionInv
<1>2. number \in Numbers /\ 0 \in Numbers /\ Successor(number) \in Numbers
  <2>1. 0 \in Numbers
    BY WordAssumption DEF Numbers
  <2> QED
    BY <1>1, <2>1, SuccessorIs DEF PhoneTyped
<1>3. /\ MaxConns \in Nat /\ budget.conns \in 0 .. MaxConns
      /\ DrainMax \in Nat /\ 0 \in 0 .. DrainMax
  BY <1>1, Limits, BudgetIs
<1>a. used \in 0 .. MaxConns /\ conn \in 0 .. used
  BY <1>1 DEF PhoneTyped
<1>4. CASE StartSession
  <2>1. /\ used < budget.conns /\ used' = used + 1 /\ conn' = used'
        /\ source' = TRUE /\ net' = "hello" /\ stop' = FALSE /\ late' = FALSE
        /\ number' = 0 /\ polled' = 0 /\ owed' = "" /\ budget' = budget
    BY <1>4 DEF StartSession
  <2>2. used + 1 \in 0 .. MaxConns /\ used + 1 \in 0 .. used + 1 /\ used + 1 # 0
    <3>1. PICK most \in 0 .. MaxConns : used < most
      BY <1>3, <2>1
    <3> QED
      BY <1>3, <1>a, <3>1
  <2> QED
    BY <1>1, <1>2, <1>3, <2>1, <2>2 DEF PhoneTyped
<1>5. CASE StartFails
  <2>1. /\ used < budget.conns /\ used' = used + 1
        /\ UNCHANGED <<budget, conn, source, net, stop, late, number, polled,
                       owed>>
    BY <1>5 DEF StartFails
  <2>2. used' \in 0 .. MaxConns /\ conn' \in 0 .. used'
    BY <1>3, <1>a, <2>1
  <2> QED
    BY <1>1, <1>a, <2>1, <2>2 DEF PhoneTyped
<1>6. CASE Stop
  <2>1. CASE StopSource \/ StopAsk
    BY <1>1, <2>1 DEF PhoneTyped, StopSource, StopAsk
  <2>2. CASE StopJoin
    <3>1. 0 \in 0 .. used
      BY <1>3, <1>a
    <3> QED
      BY <1>1, <2>2, <3>1 DEF PhoneTyped, StopJoin
  <2> QED
    BY <1>6, <2>1, <2>2 DEF Stop
<1>7. CASE OffRingNetwork
  <2>1. /\ Moves /\ number' \in Numbers
        /\ UNCHANGED <<budget, conn, used, source, stop>>
    BY <1>2, <1>7, NetworkMoves
  <2> QED
    <3>1. owed' \in {"", "pong", "audio"} /\ late' \in BOOLEAN
      BY <1>1, <2>1 DEF Moves, PhoneTyped
    <3>a. polled \in 0 .. DrainMax /\ (net = "listen" /\ owed = "" => polled < DrainMax)
      BY <1>1 DEF Thread, PhoneTyped
    <3>b. polled' = polled \/ polled' = 0
          \/ (net = "listen" /\ owed = "" /\ polled' = polled + 1)
      BY <2>1 DEF Moves
    <3>c. polled' \in 0 .. DrainMax
      <4>1. CASE polled' = polled \/ polled' = 0
        BY <1>3, <3>a, <4>1
      <4>2. CASE polled' = polled + 1 /\ polled < DrainMax
        BY <3>a, <4>2, OneMore
      <4> QED
        BY <3>a, <3>b, <4>1, <4>2
    <3>2. /\ net' \in {"head", "listen", "frame", "drain", "bye", "done"}
          /\ net # "off"
      BY <1>1, <2>1 DEF Moves, Thread, PhoneTyped
    <3> QED
      BY <1>1, <2>1, <3>1, <3>2, <3>c DEF PhoneTyped
<1>8. CASE FrameEnter
  BY <1>1, <1>8 DEF FrameEnter, PhoneTyped
<1>9. CASE FramePopped
  BY <1>1, <1>9 DEF FramePopped, PhoneTyped
<1>10. CASE OffPhone
  BY <1>1, <1>10, OffPhoneIs DEF phoneVars, PhoneTyped
<1> QED
  BY <1>4, <1>5, <1>6, <1>7, <1>8, <1>9, <1>10
     DEF Next, NetworkLoop, OffPhone, OffRingNetwork

(* The network thread owes and pops only where its loop does. *)
LEMMA ThreadKept ==
  ASSUME SessionInv, Next
  PROVE  Thread'
<1> USE DEF Thread
<1>1. /\ PhoneTyped /\ Thread
      /\ popping \in {0, Frame} /\ Len(frame) \in {0, popping}
      /\ frame \in Seq(Bytes)
  BY DEF SessionInv, CaptureInv, RingTyped
<1>2. DrainMax \in Nat /\ DrainMax > 0 /\ polled \in 0 .. DrainMax
  BY <1>1, Limits DEF PhoneTyped
<1>3. CASE OffRing
  <2>1. popping' = popping
    BY <1>3, OffRingIs DEF ringVars, consumerVars
  <2>2. CASE StartFails
    BY <1>1, <2>1, <2>2 DEF StartFails
  <2>3. CASE Stop
    BY <1>1, <2>1, <2>3 DEF Stop, StopSource, StopAsk, StopJoin
  <2>4. CASE OffRingNetwork
    <3>1. Moves
      BY <2>4, NetworkMoves
    <3>2. \/ net' # "listen" \/ owed' # ""
          \/ polled' = 0
          \/ net = "listen" /\ owed = "" /\ polled' = polled + 1 /\ polled' # DrainMax
          \/ polled' = polled /\ polled # DrainMax
      BY <1>1, <3>1 DEF Moves
    <3>3. owed' = "pong" => net' = "listen"
      BY <1>1, <3>1 DEF Moves
    <3>4. owed' = "audio" => net' \in {"frame", "drain"} /\ popping' = 0
      BY <1>1, <2>1, <3>1 DEF Moves
    <3>5. popping' # 0 => net' \in {"frame", "drain"} /\ owed' = ""
      BY <1>1, <2>1, <3>1 DEF Moves
    <3>6. net' = "listen" /\ owed' = "" => polled' < DrainMax
      <4>1. CASE polled' = 0
        BY <1>2, <4>1
      <4>2. CASE net = "listen" /\ owed = "" /\ polled' = polled + 1 /\ polled' # DrainMax
        <5>1. polled < DrainMax
          BY <1>1, <4>2
        <5> QED
          BY <1>2, <4>2, <5>1, OneMore
      <4>3. CASE polled' = polled /\ polled # DrainMax
        BY <1>2, <4>3, OneMore
      <4> QED
        BY <3>2, <4>1, <4>2, <4>3
    <3> QED
      BY <3>3, <3>4, <3>5, <3>6
  <2>5. CASE OffPhone
    BY <1>1, <2>1, <2>5, OffPhoneIs DEF phoneVars
  <2> QED
    BY <1>3, <2>2, <2>3, <2>4, <2>5 DEF OffRing, OffRingNetwork, OffPhone
<1>4. CASE StartSession
  BY <1>4 DEF StartSession, NewRing
<1>5. CASE Callback
  <2>1. popping' = popping
    BY <1>5 DEF Callback, OnAudio, PushCopy, PushPublish, consumerVars
  <2> QED
    BY <1>1, <1>5, <2>1 DEF Callback, phoneVars
<1>6. CASE FrameEnter
  BY <1>1, <1>6 DEF FrameEnter, PopEnter, ringVars, consumerVars
<1>7. CASE FrameCopy
  BY <1>1, <1>7 DEF FrameCopy, PopCopy, phoneVars
<1>8. CASE FramePopped
  <2>1. popping # 0
    BY <1>1, <1>8, EmptySeq DEF FramePopped, PopPublish
  <2> QED
    BY <1>1, <1>8, <2>1 DEF FramePopped, PopPublish
<1> QED
  BY <1>3, <1>4, <1>5, <1>6, <1>7, <1>8 DEF Next, NetworkLoop, OffRing

(* Nothing is pushed once the source stopped, and nothing is left to pop
   where the drain ends in time. *)
LEMMA StoppingKept ==
  ASSUME SessionInv, Next
  PROVE  Stopping'
<1> USE DEF Stopping, Available
<1>1. /\ PhoneTyped /\ Stopping /\ Thread
      /\ head \in Nat /\ tail \in Nat /\ Len(frame) \in Nat
      /\ Frame \in Nat
  BY RingSize DEF SessionInv, CaptureInv, RingTyped
<1>2. CASE OffRing
  <2>1. UNCHANGED <<pushed, head, tail>>
    BY <1>2, OffRingIs DEF ringVars, producerVars
  <2>2. CASE StartFails
    BY <1>1, <2>1, <2>2 DEF StartFails
  <2>3. CASE Stop
    BY <1>1, <2>1, <2>3 DEF Stop, StopSource, StopAsk, StopJoin, SourceStopped
  <2>4. CASE OffRingNetwork
    <3>1. Moves /\ source' = source /\ stop' = stop
      BY <2>4, NetworkMoves
    <3> QED
      BY <1>1, <2>1, <3>1 DEF Moves, Thread
  <2>5. CASE OffPhone
    BY <1>1, <2>1, <2>5, OffPhoneIs DEF phoneVars
  <2> QED
    BY <1>2, <2>2, <2>3, <2>4, <2>5 DEF OffRing, OffRingNetwork, OffPhone
<1>3. CASE StartSession
  BY <1>3 DEF StartSession, NewRing
<1>4. CASE Callback
  <2>1. source
    BY <1>1, <1>4 DEF Callback, PushCopy, PushPublish
  <2>2. source' /\ UNCHANGED <<net, stop, late>>
    BY <1>4, <2>1 DEF Callback, phoneVars
  <2> QED
    BY <1>1, <2>1, <2>2
<1>5. CASE FrameEnter
  <2>1. UNCHANGED <<pushed, head, tail, source, stop, late>>
    BY <1>5 DEF FrameEnter, PopEnter, ringVars, producerVars
  <2>2. \/ net' = net
        \/ /\ net \in {"frame", "drain"} /\ ~(head - tail \geq Frame)
           /\ net' = (IF net = "frame" THEN "head" ELSE "bye")
    BY <1>5 DEF FrameEnter
  <2> QED
    BY <1>1, <2>1, <2>2
<1>6. CASE FrameCopy
  BY <1>1, <1>6 DEF FrameCopy, PopCopy, phoneVars, producerVars
<1>7. CASE FramePopped
  <2>1. /\ UNCHANGED <<pushed, source, stop, late, net>>
        /\ head' = head /\ tail' = tail + Len(frame)
    BY <1>7 DEF FramePopped, PopPublish, producerVars
  <2>2. head - tail < Frame => head' - tail' < Frame
    BY <1>1, <2>1
  <2> QED
    BY <1>1, <2>1, <2>2
<1> QED
  BY <1>2, <1>3, <1>4, <1>5, <1>6, <1>7 DEF Next, NetworkLoop, OffRing

-----------------------------------------------------------------------------
(* The streams to the receiver.                                             *)

Sending == SayHello \/ SayPong \/ FrameSend \/ SayBye

(* A packet takes the thread's number; it goes out on the thread's own
   connection, unless that one is gone. *)
LEMMA SendingIs ==
  ASSUME SessionInv, Sending
  PROVE  /\ conn \in Conns /\ number' = Successor(number)
         /\ UNCHANGED <<conn, used, broken, reader, writer, tracker, lost, from>>
         /\ \/ Gone(conn) /\ up' = up /\ stalled' = stalled
            \/ /\ ~Gone(conn) /\ Len(up[conn]) \leq Window /\ stalled' = stalled
               /\ \E p \in WholePackets :
                    /\ p.seq = number
                    /\ up' = [up EXCEPT ![conn] = Append(up[conn], p)]
            \/ up' = up /\ stalled' = stalled \cup {conn}
            \/ /\ Len(up[conn]) \leq Window + 1 /\ stalled' = stalled \cup {conn}
               /\ \E p \in Packets :
                    up' = [up EXCEPT ![conn] = Append(up[conn], p)]
<1>1. /\ PhoneTyped /\ Thread /\ number \in Numbers
      /\ conn \in 0 .. used /\ used \in 0 .. MaxConns
  BY DEF SessionInv, PhoneTyped
<1>2. net # "off"
  BY <1>1 DEF Thread, Sending, SayHello, SayPong, FrameSend, SayBye
<1>3. conn \in Conns
  <2>1. conn # 0
    BY <1>1, <1>2 DEF PhoneTyped
  <2> QED
    BY <1>1, <2>1, Limits DEF Conns
<1>4. PICK kind \in {"hello", "pong", "audio", "bye"} : NetSends(kind)
  BY DEF Sending, SayHello, SayPong, FrameSend, SayBye
<1>5. /\ UNCHANGED <<conn, used, broken, reader, writer, tracker, lost, from>>
      /\ number' = Successor(number)
  BY <1>4 DEF NetSends, Send, serveVars, ingestVars, Successor
<1>6. /\ [kind |-> kind, seq |-> number] \in WholePackets
      /\ [kind |-> "torn", seq |-> number] \in Packets
  BY <1>1 DEF Packets, WholePackets
<1>7. Len(up[conn]) \in Nat /\ Window \in Nat
  BY <1>3, Limits DEF SessionInv, ServeTyped
<1>8. /\ InStream(conn) < Window => Len(up[conn]) \leq Window
      /\ InStream(conn) = Window => Len(up[conn]) \leq Window + 1
  <2>1. CASE Torn(up[conn])
    BY <1>7, <2>1 DEF InStream
  <2>2. CASE ~Torn(up[conn])
    BY <1>7, <2>2 DEF InStream
  <2> QED
    BY <2>1, <2>2
<1>9. \/ Gone(conn) /\ up' = up /\ stalled' = stalled
      \/ /\ ~Gone(conn) /\ InStream(conn) < Window /\ stalled' = stalled
         /\ up' = [up EXCEPT ![conn] =
                     Append(up[conn], [kind |-> kind, seq |-> number])]
      \/ SendTimesOut
  BY <1>4 DEF NetSends, Send
<1>10. CASE SendTimesOut
  <2>1. /\ stalled' = stalled \cup {conn}
        /\ \/ up' = up
           \/ /\ InStream(conn) = Window
              /\ up' = [up EXCEPT ![conn] =
                          Append(up[conn], [kind |-> "torn", seq |-> number])]
    BY <1>10 DEF SendTimesOut
  <2> QED
    BY <1>3, <1>5, <1>6, <1>8, <2>1
<1>11. CASE ~SendTimesOut
  BY <1>3, <1>5, <1>6, <1>8, <1>9, <1>11
<1> QED
  BY <1>10, <1>11

(* The steps that leave the streams to the receiver and its tasks alone. *)
OffServe ==
  \/ Stop \/ Callback \/ LoopHead \/ Listen \/ ListenFails \/ FrameEnter
  \/ FrameCopy \/ FramePopped \/ EncodeFails \/ DrainExpires \/ EngineStops

(* Those steps change nothing on the receiver's side. *)
LEMMA OffServeIs ==
  ASSUME OffServe
  PROVE  UNCHANGED <<used, up, stalled, broken, reader, writer, tracker, lost, from>>
BY DEF OffServe, Stop, StopSource, StopAsk, StopJoin, Callback, LoopHead,
       Listen, ListenFails, FrameEnter, FrameCopy, FramePopped, EncodeFails,
       DrainExpires, EngineStops, streamVars, serveVars, ingestVars, phoneVars

(* A connection is made: its two tasks start. *)
Connecting == StartSession \/ StartFails

(* A connection that is made is the next one, and has both its tasks. *)
LEMMA ConnectingIs ==
  ASSUME SessionInv, Connecting
  PROVE  /\ used' = used + 1 /\ used' \in Conns
         /\ reader' = [reader EXCEPT ![used'] = "head"]
         /\ writer' = [writer EXCEPT ![used'] = "on"]
         /\ UNCHANGED <<heard, stalled, up, down, broken, replies, written, pings,
                        tracker, lost, from>>
<1>1. /\ used' = used + 1 /\ used < budget.conns
      /\ reader' = [reader EXCEPT ![used'] = "head"]
      /\ writer' = [writer EXCEPT ![used'] = "on"]
      /\ UNCHANGED <<heard, stalled, up, down, broken, replies, written, pings,
                     tracker, lost, from>>
  BY DEF Connecting, StartSession, StartFails, streamVars, ingestVars
<1>2. used + 1 \in Conns
  <2>1. /\ PhoneTyped /\ used \in 0 .. MaxConns
        /\ budget.conns \in 0 .. MaxConns
    BY BudgetIs DEF SessionInv, PhoneTyped
  <2>2. PICK most \in 0 .. MaxConns : used < most
    BY <1>1, <2>1
  <2> QED
    BY <2>1, <2>2, Limits DEF Conns
<1> QED
  BY <1>1, <1>2

(* A task changes where it is, and does not start over. *)
TaskMoves ==
  \E c \in Conns :
    \/ /\ reader[c] \in {"head", "read"}
       /\ \E to \in {"head", "read", "ended"} : reader' = [reader EXCEPT ![c] = to]
       /\ writer' = writer
    \/ /\ writer[c] = "on"
       /\ writer' \in {writer, [writer EXCEPT ![c] = "done"]}
       /\ reader' = reader

(* Every step of a connection's tasks is one of those moves. *)
LEMMA TaskMovesIs ==
  ASSUME NEW c \in Conns, Reader(c) \/ Writer(c) \/ WriterTick(c)
  PROVE  TaskMoves
<1>1. CASE Reader(c)
  BY <1>1 DEF Reader, ReaderHead, ReadPacket, ReadTorn, ReadEnd, AbortServe, TaskMoves
<1>2. CASE WriterReply(c)
  BY <1>2 DEF WriterReply, Write, TaskMoves
<1>3. CASE WriterEnds(c)
  BY <1>3 DEF WriterEnds, TaskMoves
<1>4. CASE WriterTick(c)
  BY <1>4 DEF WriterTick, Write, TaskMoves
<1> QED
  BY <1>1, <1>2, <1>3, <1>4 DEF Writer

(* What is left of a stream whose link failed. *)
LEMMA BreakIs ==
  ASSUME SessionInv, NEW c \in Conns, Break(c)
  PROVE  /\ c \leq used /\ broken' = [broken EXCEPT ![c] = TRUE]
         /\ down' = [down EXCEPT ![c] = << >>]
         /\ UNCHANGED <<ringVars, phoneVars, heard, stalled, serveVars, quit, ingestVars>>
         /\ \E some \in Seq(Packets) :
              /\ up' = [up EXCEPT ![c] = some]
              /\ Len(some) \leq Len(up[c])
              /\ \A i \in 1 .. Len(some) : some[i] = up[c][i]
              /\ up[c] \in Seq(WholePackets) => some \in Seq(WholePackets)
<1>1. up[c] \in Seq(Packets) /\ Len(up[c]) \in Nat
  BY DEF SessionInv, ServeTyped
<1>2. PICK n \in 0 .. Len(up[c]) : up' = [up EXCEPT ![c] = SubSeq(up[c], 1, n)]
  BY DEF Break
<1>3. n \in Int /\ \A i \in 1 .. n : i \in 1 .. Len(up[c])
  BY <1>1
<1>4. \A i \in 1 .. n : up[c][i] \in Packets
  BY <1>1, <1>3, ElementOfSeq
<1>5. /\ SubSeq(up[c], 1, n) \in Seq(Packets)
      /\ Len(SubSeq(up[c], 1, n)) = n
      /\ \A i \in 1 .. n : SubSeq(up[c], 1, n)[i] = up[c][i]
  BY <1>1, <1>3, <1>4, SubSeqProperties
<1>6. ASSUME up[c] \in Seq(WholePackets)
       PROVE  SubSeq(up[c], 1, n) \in Seq(WholePackets)
  <2>1. \A i \in 1 .. n : up[c][i] \in WholePackets
    BY <1>3, <1>6, ElementOfSeq
  <2> QED
    BY <1>1, <1>3, <1>6, <2>1, SubSeqProperties
<1> DEFINE some == SubSeq(up[c], 1, n)
<1>7. /\ some \in Seq(Packets) /\ up' = [up EXCEPT ![c] = some]
      /\ Len(some) \leq Len(up[c])
      /\ \A i \in 1 .. Len(some) : some[i] = up[c][i]
      /\ up[c] \in Seq(WholePackets) => some \in Seq(WholePackets)
  BY <1>1, <1>2, <1>5, <1>6
<1>8. /\ c \leq used /\ broken' = [broken EXCEPT ![c] = TRUE]
      /\ down' = [down EXCEPT ![c] = << >>]
      /\ UNCHANGED <<ringVars, phoneVars, heard, stalled, serveVars, quit, ingestVars>>
  BY DEF Break
<1> HIDE DEF some
<1> QED
  BY <1>7, <1>8

(* A packet is taken from its stream; the tracker follows it. *)
LEMMA ReadPacketIs ==
  ASSUME SessionInv, NEW c \in Conns, ReadPacket(c)
  PROVE  /\ reader[c] = "read" /\ reader' = [reader EXCEPT ![c] = "head"]
         /\ up[c] \in Seq(Packets) /\ up[c] # << >> /\ up[c][1] \in Packets
         /\ up' = [up EXCEPT ![c] = Tail(up[c])]
         /\ Tail(up[c]) \in Seq(Packets)
         /\ Len(Tail(up[c])) = Len(up[c]) - 1
         /\ \A i \in 1 .. Len(up[c]) - 1 : Tail(up[c])[i] = up[c][i + 1]
         /\ tracker' = Follow(up[c][1].seq) /\ from' = c
         /\ lost' = lost + (IF Classify(tracker, up[c][1].seq) = "gap"
                              THEN Missing(tracker, up[c][1].seq) ELSE 0)
         /\ UNCHANGED <<phoneVars, stalled, broken, writer>>
<1>1. up[c] \in Seq(Packets) /\ up[c] # << >>
  BY DEF SessionInv, ServeTyped, ReadPacket
<1>2. Head(up[c]) = up[c][1] /\ Head(up[c]) \in Packets
  BY <1>1, HeadTailProperties
<1>3. /\ Tail(up[c]) \in Seq(Packets)
      /\ Len(Tail(up[c])) = Len(up[c]) - 1
      /\ \A i \in 1 .. Len(up[c]) - 1 : Tail(up[c])[i] = up[c][i + 1]
  BY <1>1, HeadTailProperties
<1>4. /\ reader[c] = "read" /\ reader' = [reader EXCEPT ![c] = "head"]
      /\ up' = [up EXCEPT ![c] = Tail(up[c])]
      /\ from' = c
      /\ UNCHANGED <<phoneVars, stalled, broken, writer>>
  BY DEF ReadPacket, Ingest
<1>5. /\ tracker' = Follow(Head(up[c]).seq)
      /\ lost' = lost + (IF Classify(tracker, Head(up[c]).seq) = "gap"
                           THEN Missing(tracker, Head(up[c]).seq) ELSE 0)
  BY DEF ReadPacket, Ingest
<1> QED
  BY <1>1, <1>2, <1>3, <1>4, <1>5

(* A torn packet is read on a connection that stalled; what is left of the
   stream is what comes after the packets it swallowed. *)
LEMMA ReadTornIs ==
  ASSUME SessionInv, NEW c \in Conns, ReadTorn(c)
  PROVE  /\ reader[c] = "read" /\ reader' = [reader EXCEPT ![c] = "head"]
         /\ c \in stalled /\ up[c] # << >>
         /\ \E some \in Seq(Packets) :
              up' = [up EXCEPT ![c] = some] /\ Len(some) \leq Len(up[c])
         /\ \E seq \in Numbers :
              /\ tracker' = Follow(seq)
              /\ lost' = lost + (IF Classify(tracker, seq) = "gap"
                                   THEN Missing(tracker, seq) ELSE 0)
         /\ from' = c
         /\ UNCHANGED <<phoneVars, stalled, down, broken, writer, replies>>
<1>1. up[c] \in Seq(Packets) /\ Len(up[c]) \in Nat
  BY DEF SessionInv, ServeTyped
<1>2. PICK n \in 2 .. Len(up[c]) :
        up' = [up EXCEPT ![c] = SubSeq(up[c], n + 1, Len(up[c]))]
  BY DEF ReadTorn
<1> DEFINE some == SubSeq(up[c], n + 1, Len(up[c]))
<1>3. some \in Seq(Packets) /\ Len(some) \leq Len(up[c])
  <2>1. /\ n + 1 \in Int /\ n + 1 \in 1 .. Len(up[c]) + 1
        /\ Len(up[c]) \in Int
    BY <1>1
  <2>2. \A i \in n + 1 .. Len(up[c]) : up[c][i] \in Packets
    <3>1. \A i \in n + 1 .. Len(up[c]) : i \in 1 .. Len(up[c])
      BY <1>1
    <3> QED
      BY <1>1, <3>1, ElementOfSeq
  <2>3. /\ SubSeq(up[c], n + 1, Len(up[c])) \in Seq(Packets)
        /\ Len(SubSeq(up[c], n + 1, Len(up[c]))) =
             (IF n + 1 \leq Len(up[c]) THEN Len(up[c]) - (n + 1) + 1 ELSE 0)
    BY <2>1, <2>2, SubSeqProperties
  <2> HIDE DEF some
  <2>4. CASE n + 1 \leq Len(up[c])
    BY <1>1, <2>3, <2>4 DEF some
  <2>5. CASE ~(n + 1 \leq Len(up[c]))
    BY <1>1, <2>3, <2>5 DEF some
  <2> QED
    BY <2>4, <2>5
<1>4. up' = [up EXCEPT ![c] = some]
  BY <1>2
<1> HIDE DEF some
<1>5. up[c] # << >> /\ Head(up[c]).kind = "torn"
  BY DEF ReadTorn, Torn
<1>6. c \in stalled
  <2> SUFFICES ASSUME c \notin stalled PROVE FALSE
    OBVIOUS
  <2>1. up[c] \in Seq(WholePackets)
    BY DEF SessionInv, Untorn
  <2>2. Head(up[c]) \in WholePackets
    BY <1>5, <2>1, HeadTailProperties
  <2> QED
    BY <1>5, <2>2 DEF WholePackets
<1>7. PICK seq \in Numbers : Ingest(c, seq)
  BY DEF ReadTorn
<1>8. /\ tracker' = Follow(seq) /\ from' = c
      /\ lost' = lost + (IF Classify(tracker, seq) = "gap"
                           THEN Missing(tracker, seq) ELSE 0)
  BY <1>7 DEF Ingest
<1>9. /\ reader[c] = "read" /\ reader' = [reader EXCEPT ![c] = "head"]
      /\ UNCHANGED <<phoneVars, stalled, down, broken, writer, replies>>
  BY DEF ReadTorn
<1> QED
  BY <1>3, <1>4, <1>5, <1>6, <1>8, <1>9

(* The tracker's numbers. *)
LEMMA FollowIs ==
  ASSUME NEW n \in Numbers
  PROVE  Follow(n) \in Trackers /\ Follow(n).expected = Successor(n)
<1>1. Successor(n) \in Numbers
  BY SuccessorIs
<1> QED
  BY <1>1 DEF Follow, Trackers, Successor

(* A count of missing packets is a number. *)
LEMMA MissingIs ==
  ASSUME NEW t \in Trackers, NEW n \in Numbers
  PROVE  Missing(t, n) \in Nat
<1>1. Word \in Nat /\ Word > 0 /\ t.expected \in 0 .. Word - 1 /\ n \in 0 .. Word - 1
  BY WordAssumption DEF Trackers, Numbers
<1> DEFINE k == n + Word - t.expected
<1>2. k \in Nat
  <2>1. PICK e \in 0 .. Word - 1 : e = t.expected
    BY <1>1
  <2> QED
    BY <1>1, <2>1
<1>3. Missing(t, n) = k % Word
  BY DEF Missing, Distance
<1> HIDE DEF k
<1>4. k % Word \in Nat
  BY <1>1, <1>2
<1> QED
  BY <1>3, <1>4

(* The streams to the receiver and its tasks keep their types. *)
LEMMA ServeKept ==
  ASSUME SessionInv, Next
  PROVE  ServeTyped'
<1>1. /\ ServeTyped /\ PhoneTyped' /\ used \in Nat
      /\ up \in [Conns -> Seq(Packets)]
  <2>1. used \in 0 .. MaxConns
    BY DEF SessionInv, PhoneTyped
  <2>2. used \in Nat
    BY <2>1, Limits
  <2> QED
    BY <2>2, PhoneKept DEF SessionInv, ServeTyped
<1>2. CASE OffServe
  BY <1>1, <1>2, OffServeIs DEF ServeTyped
<1>3. CASE Connecting
  <2>1. from \in 0 .. used'
    BY <1>1, <1>3, ConnectingIs DEF ServeTyped
  <2> QED
    BY <1>1, <1>3, <2>1, ConnectingIs DEF ServeTyped
<1>4. CASE Sending
  <2>1. /\ conn \in Conns /\ stalled' \subseteq Conns
        /\ UNCHANGED <<used, broken, reader, writer, tracker, lost, from>>
    BY <1>1, <1>4, SendingIs DEF ServeTyped
  <2>2. CASE up' = up
    BY <1>1, <2>1, <2>2 DEF ServeTyped
  <2>3. ASSUME NEW p \in Packets, up' = [up EXCEPT ![conn] = Append(up[conn], p)],
               Len(up[conn]) \leq Window + 1
        PROVE  ServeTyped'
    <3>1. up[conn] \in Seq(Packets) /\ Len(up[conn]) \in Nat
      BY <1>1, <2>1
    <3>2. Append(up[conn], p) \in Seq(Packets)
          /\ Len(Append(up[conn], p)) = Len(up[conn]) + 1
      BY <3>1, AppendProperties
    <3>3. Len(Append(up[conn], p)) \leq Window + 2
      BY <2>3, <3>1, <3>2, Limits
    <3> QED
      BY <1>1, <2>1, <2>3, <3>2, <3>3 DEF ServeTyped
  <2>4. Len(up[conn]) \in Nat
    BY <1>1, <2>1
  <2>5. /\ WholePackets \subseteq Packets
        /\ Len(up[conn]) \leq Window => Len(up[conn]) \leq Window + 1
    BY <2>4, Limits DEF WholePackets, Packets
  <2>6. \/ up' = up
        \/ /\ Len(up[conn]) \leq Window + 1
           /\ \E p \in Packets : up' = [up EXCEPT ![conn] = Append(up[conn], p)]
    BY <1>4, <2>5, SendingIs
  <2> QED
    BY <2>2, <2>3, <2>6
<1>5. ASSUME NEW c \in Conns, Break(c) PROVE ServeTyped'
  <2>1. PICK some \in Seq(Packets) :
          up' = [up EXCEPT ![c] = some] /\ Len(some) \leq Len(up[c])
    BY <1>5, BreakIs
  <2>2. /\ broken' = [broken EXCEPT ![c] = TRUE]
        /\ UNCHANGED <<used, stalled, reader, writer, tracker, lost, from>>
    BY <1>5, BreakIs DEF phoneVars, serveVars, ingestVars
  <2>3. Len(some) \leq Window + 2
    <3>1. Len(up[c]) \in Nat /\ Len(up[c]) \leq Window + 2 /\ Len(some) \in Nat
      BY <1>1 DEF ServeTyped
    <3> QED
      BY <2>1, <3>1, Limits
  <2> QED
    BY <1>1, <2>1, <2>2, <2>3 DEF ServeTyped
<1>6. ASSUME NEW c \in Conns, ReadPacket(c) PROVE ServeTyped'
  <2> DEFINE p == up[c][1]
             rest == Tail(up[c])
  <2>1. /\ p \in Packets /\ p.seq \in Numbers
        /\ tracker \in Trackers /\ lost \in Nat
        /\ c \in 0 .. used
    <3>1. reader[c] # "none"
      BY <1>6, ReadPacketIs
    <3>2. ~(c > used)
      BY <3>1 DEF SessionInv, Unused
    <3>3. c \in 0 .. used
      BY <1>1, <3>2, Limits DEF Conns
    <3> QED
      BY <1>1, <1>6, <3>3, ReadPacketIs DEF ServeTyped, Packets
  <2>2. Follow(p.seq) \in Trackers /\ Missing(tracker, p.seq) \in Nat
    BY <2>1, FollowIs, MissingIs
  <2>3. /\ up' = [up EXCEPT ![c] = rest] /\ rest \in Seq(Packets)
        /\ Len(rest) \leq Window + 2
    <3>1. /\ up' = [up EXCEPT ![c] = rest] /\ rest \in Seq(Packets)
          /\ Len(rest) = Len(up[c]) - 1
      BY <1>6, ReadPacketIs
    <3>2. Len(up[c]) \in Nat /\ Len(up[c]) \leq Window + 2
      BY <1>1 DEF ServeTyped
    <3> QED
      BY <3>1, <3>2, Limits
  <2>4. /\ reader' = [reader EXCEPT ![c] = "head"]
        /\ UNCHANGED <<used, stalled, broken, writer>>
        /\ tracker' = Follow(p.seq) /\ from' = c
        /\ lost' = lost + (IF Classify(tracker, p.seq) = "gap"
                             THEN Missing(tracker, p.seq) ELSE 0)
    BY <1>6, ReadPacketIs DEF phoneVars
  <2>5. lost' \in Nat
    <3>1. CASE Classify(tracker, p.seq) = "gap"
      BY <2>1, <2>2, <2>4, <3>1
    <3>2. CASE Classify(tracker, p.seq) # "gap"
      BY <2>1, <2>4, <3>2
    <3> QED
      BY <3>1, <3>2
  <2> HIDE DEF p, rest
  <2> QED
    BY <1>1, <2>1, <2>2, <2>3, <2>4, <2>5 DEF ServeTyped
<1>7. ASSUME NEW c \in Conns, ReadTorn(c) PROVE ServeTyped'
  <2>1. /\ tracker \in Trackers /\ lost \in Nat /\ c \in 0 .. used
    <3>1. reader[c] # "none"
      BY <1>7, ReadTornIs
    <3>2. ~(c > used)
      BY <3>1 DEF SessionInv, Unused
    <3>3. c \in 0 .. used
      BY <1>1, <3>2, Limits DEF Conns
    <3> QED
      BY <1>1, <3>3 DEF ServeTyped
  <2>2. PICK seq \in Numbers :
          /\ tracker' = Follow(seq)
          /\ lost' = lost + (IF Classify(tracker, seq) = "gap"
                               THEN Missing(tracker, seq) ELSE 0)
    BY <1>7, ReadTornIs
  <2>3. Follow(seq) \in Trackers /\ Missing(tracker, seq) \in Nat
    BY <2>1, FollowIs, MissingIs
  <2>4. lost' \in Nat
    <3>1. CASE Classify(tracker, seq) = "gap"
      BY <2>1, <2>2, <2>3, <3>1
    <3>2. CASE Classify(tracker, seq) # "gap"
      BY <2>1, <2>2, <3>2
    <3> QED
      BY <3>1, <3>2
  <2>5. PICK some \in Seq(Packets) :
          up' = [up EXCEPT ![c] = some] /\ Len(some) \leq Len(up[c])
    BY <1>7, ReadTornIs
  <2>6. Len(some) \leq Window + 2
    <3>1. Len(up[c]) \in Nat /\ Len(up[c]) \leq Window + 2 /\ Len(some) \in Nat
      BY <1>1 DEF ServeTyped
    <3> QED
      BY <2>5, <3>1, Limits
  <2>7. /\ reader' = [reader EXCEPT ![c] = "head"] /\ from' = c
        /\ UNCHANGED <<used, stalled, broken, writer>>
    BY <1>7, ReadTornIs DEF phoneVars
  <2> QED
    BY <1>1, <2>1, <2>2, <2>3, <2>4, <2>5, <2>6, <2>7 DEF ServeTyped
<1>8. ASSUME NEW c \in Conns,
             ReaderHead(c) \/ ReadEnd(c) \/ AbortServe(c) \/ Writer(c) \/ WriterTick(c)
      PROVE  ServeTyped'
  <2>1. UNCHANGED <<used, up, stalled, broken, tracker, lost, from>>
    BY <1>8 DEF ReaderHead, ReadEnd, AbortServe, Writer, WriterReply, WriterEnds,
                WriterTick, phoneVars, streamVars, ingestVars
  <2>2. TaskMoves
    BY <1>8, TaskMovesIs DEF Reader
  <2>3. /\ reader' \in [Conns -> {"none", "head", "read", "ended"}]
        /\ writer' \in [Conns -> {"none", "on", "done"}]
    BY <1>1, <2>2 DEF ServeTyped, TaskMoves
  <2> QED
    BY <1>1, <2>1, <2>3 DEF ServeTyped
<1> QED
  BY <1>2, <1>3, <1>4, <1>5, <1>6, <1>7, <1>8
     DEF Next, NetworkLoop, OffServe, Connecting, Sending, Reader

(* A connection that was gone stays gone. *)
LEMMA GoneStays ==
  ASSUME SessionInv, Next, NEW c \in 1 .. used, Gone(c)
  PROVE  Gone(c)'
<1>1. /\ ServeTyped /\ used \in 0 .. MaxConns /\ c \in Conns
  <2>1. ServeTyped /\ used \in 0 .. MaxConns
    BY DEF SessionInv, PhoneTyped
  <2> QED
    BY <2>1, Limits DEF Conns
<1>2. CASE OffServe
  BY <1>2, OffServeIs DEF Gone, Served
<1>3. CASE Connecting
  <2>1. /\ used' # c /\ broken' = broken
        /\ reader' = [reader EXCEPT ![used'] = "head"]
        /\ writer' = [writer EXCEPT ![used'] = "on"]
    BY <1>1, <1>3, ConnectingIs
  <2> QED
    BY <1>1, <2>1 DEF Gone, Served, ServeTyped
<1>4. CASE Sending
  BY <1>4, SendingIs DEF Gone, Served
<1>5. ASSUME NEW d \in Conns, Break(d) PROVE Gone(c)'
  <2>1. broken' = [broken EXCEPT ![d] = TRUE] /\ UNCHANGED <<reader, writer>>
    BY <1>5 DEF Break, serveVars
  <2> QED
    BY <1>1, <2>1 DEF Gone, Served, ServeTyped
<1>6. ASSUME NEW d \in Conns, Reader(d) \/ Writer(d) \/ WriterTick(d)
      PROVE  Gone(c)'
  <2>1. broken' = broken
    BY <1>6 DEF Reader, ReaderHead, ReadPacket, ReadTorn, ReadEnd, AbortServe, Writer,
                WriterReply, WriterEnds, WriterTick, streamVars
  <2>2. TaskMoves
    BY <1>6, TaskMovesIs
  <2> QED
    BY <1>1, <2>1, <2>2 DEF Gone, Served, ServeTyped, TaskMoves
<1> QED
  BY <1>2, <1>3, <1>4, <1>5, <1>6
     DEF Next, NetworkLoop, OffServe, Connecting, Sending

(* A writer's step, a tick or a reply: the cells of a message it has, or the
   end of the task. *)
LEMMA WritingIs ==
  ASSUME SessionInv, NEW c \in Conns, WriterTick(c) \/ WriterReply(c)
  PROVE  /\ c \in 1 .. used
         /\ UNCHANGED <<ringVars, phoneVars, heard, up, broken, reader, quit,
                        ingestVars>>
         /\ \/ UNCHANGED <<down, written>>
            \/ /\ ~broken[c] /\ c = conn
               /\ \E msg \in Messages :
                    /\ down' = [down EXCEPT ![c] = down[c] \o Cells(msg)]
                    /\ written' = [written EXCEPT ![c] = Append(written[c], msg)]
<1>1. writer[c] = "on"
  BY DEF WriterTick, WriterReply
<1>2. c \in 1 .. used
  <2>1. ~(c > used) /\ used \in 0 .. MaxConns
    BY <1>1 DEF SessionInv, Unused, PhoneTyped
  <2> QED
    BY <2>1, Limits DEF Conns
<1>3. UNCHANGED <<ringVars, phoneVars, heard, up, broken, reader, quit,
                  ingestVars>>
  BY DEF WriterTick, WriterReply
<1>4. \/ UNCHANGED <<down, written>>
      \/ \E msg \in Messages : Write(c, msg)
  <2>1. CASE WriterTick(c)
    BY <2>1 DEF WriterTick, Messages
  <2>2. CASE WriterReply(c)
    <3>1. replies[c] \in Seq(Messages) /\ replies[c] # << >>
      BY <2>2 DEF SessionInv, TalkTyped, WriterReply
    <3>2. Head(replies[c]) \in Messages
      BY <3>1, HeadTailProperties
    <3> QED
      BY <2>2, <3>2 DEF WriterReply
  <2> QED
    BY <2>1, <2>2
<1>5. ASSUME NEW msg \in Messages, Write(c, msg)
      PROVE  \/ UNCHANGED <<down, written>>
             \/ /\ ~broken[c] /\ c = conn
                /\ down' = [down EXCEPT ![c] = down[c] \o Cells(msg)]
                /\ written' = [written EXCEPT ![c] = Append(written[c], msg)]
  <2>1. PhoneClosed(c) \/ c = conn
    <3>1. c \leq used
      <4>1. used \in 0 .. MaxConns
        BY DEF SessionInv, PhoneTyped
      <4> QED
        BY <1>2, <4>1, Limits
    <3> QED
      BY <3>1 DEF PhoneClosed
  <2> QED
    BY <1>5, <2>1 DEF Write
<1> QED
  BY <1>2, <1>3, <1>4, <1>5

(* The cells a connection's phone polls, of the connection it has. *)
LEMMA ListenIs ==
  ASSUME SessionInv, Listen
  PROVE  /\ conn \in 1 .. used /\ conn \in Conns /\ ~broken[conn]
         /\ UNCHANGED <<conn, used, broken>>
         /\ \E cells : down' = [down EXCEPT ![conn] = cells]
<1>1. /\ net = "listen" /\ ~broken[conn]
      /\ UNCHANGED <<conn, used, broken>>
  BY DEF Listen
<1>2. \E cells : down' = [down EXCEPT ![conn] = cells]
  BY DEF Listen
<1>3. conn \in 1 .. used /\ conn \in Conns
  <2>1. conn # 0 /\ conn \in 0 .. used /\ used \in 0 .. MaxConns
    BY <1>1 DEF SessionInv, PhoneTyped
  <2> QED
    BY <2>1, Limits DEF Conns
<1> QED
  BY <1>1, <1>2, <1>3

(* A connection that was not made yet stays as it was. *)
LEMMA UnusedKept ==
  ASSUME SessionInv, Next
  PROVE  Unused'
<1>1. /\ ServeTyped /\ Unused /\ used \in 0 .. MaxConns /\ conn \in 0 .. used
  BY DEF SessionInv, PhoneTyped
<1> SUFFICES ASSUME NEW c \in Conns, c > used'
             PROVE  /\ up'[c] = << >> /\ down'[c] = << >>
                    /\ reader'[c] = "none" /\ writer'[c] = "none"
  BY DEF Unused
<1>2. c \in Nat /\ MaxConns \in Nat /\ used \in Nat
  BY <1>1, Limits DEF Conns
<1>3. CASE c > used
  <2>1. /\ up[c] = << >> /\ down[c] = << >>
        /\ reader[c] = "none" /\ writer[c] = "none"
    BY <1>1, <1>3 DEF Unused
  <2>2. \A d \in 1 .. used : d # c
    BY <1>1, <1>2, <1>3
  <2>3. CASE OffServe
    <3>1. down'[c] = down[c]
      <4>1. CASE Listen
        BY <2>2, <4>1, ListenIs DEF SessionInv, TalkTyped
      <4>2. CASE ~Listen
        BY <2>3, <4>2 DEF OffServe, Stop, StopSource, StopAsk, StopJoin, Callback,
           LoopHead, ListenFails, FrameEnter, FrameCopy, FramePopped, EncodeFails,
           DrainExpires, EngineStops, streamVars
      <4> QED
        BY <4>1, <4>2
    <3> QED
      BY <2>1, <2>3, <3>1, OffServeIs
  <2>4. CASE Connecting
    <3>1. used' # c
      BY <1>2, <1>1
    <3> QED
      BY <1>1, <2>1, <2>4, <3>1, ConnectingIs DEF ServeTyped
  <2>5. CASE Sending
    <3>1. conn # c
      BY <1>1, <1>2, <1>3
    <3>2. UNCHANGED <<down, reader, writer>>
      BY <2>5 DEF Sending, SayHello, SayPong, FrameSend, SayBye, NetSends,
         serveVars
    <3> QED
      BY <1>1, <2>1, <2>5, <3>1, <3>2, SendingIs DEF ServeTyped
  <2>6. ASSUME NEW d \in Conns, Break(d)
        PROVE  up'[c] = up[c] /\ down'[c] = down[c] /\ UNCHANGED <<reader, writer>>
    <3>1. d # c
      <4>1. d \leq used
        BY <2>6 DEF Break
      <4> QED
        BY <1>2, <1>3, <4>1
    <3>2. PICK some : up' = [up EXCEPT ![d] = some]
      BY <2>6, BreakIs
    <3>3. down' = [down EXCEPT ![d] = << >>] /\ UNCHANGED <<reader, writer>>
      BY <2>6 DEF Break, serveVars
    <3> QED
      BY <1>1, <3>1, <3>2, <3>3 DEF SessionInv, ServeTyped, TalkTyped
  <2>7. ASSUME NEW d \in Conns, WriterTick(d) \/ WriterReply(d)
        PROVE  down'[c] = down[c] /\ up' = up
    <3>1. d # c
      BY <2>2, <2>7, WritingIs
    <3> QED
      BY <2>7, <3>1, WritingIs DEF SessionInv, TalkTyped
  <2>8. ASSUME NEW d \in Conns, Reader(d) \/ WriterEnds(d)
        PROVE  down'[c] = down[c] /\ up'[c] = up[c]
    <3>1. down' = down
      BY <2>8 DEF Reader, ReaderHead, ReadPacket, ReadTorn, ReadEnd, AbortServe, WriterEnds,
         streamVars
    <3>2. CASE ReadPacket(d)
      <4>1. d # c
        BY <2>1, <3>2 DEF ReadPacket
      <4> QED
        BY <1>1, <3>1, <3>2, <4>1 DEF ReadPacket, ServeTyped
    <3>3. CASE ReadTorn(d)
      <4>1. d # c
        BY <2>1, <3>3, ReadTornIs
      <4> QED
        BY <1>1, <3>1, <3>3, <4>1 DEF ReadTorn, ServeTyped
    <3>4. CASE ~ReadPacket(d) /\ ~ReadTorn(d)
      BY <2>8, <3>1, <3>4 DEF Reader, ReaderHead, ReadEnd, AbortServe, WriterEnds,
         streamVars
    <3> QED
      BY <3>2, <3>3, <3>4
  <2>9. ASSUME NEW d \in Conns, Reader(d) \/ Writer(d) \/ WriterTick(d)
        PROVE  reader'[c] = "none" /\ writer'[c] = "none"
    <3>1. TaskMoves
      BY <2>9, TaskMovesIs
    <3> QED
      BY <1>1, <2>1, <3>1 DEF TaskMoves, ServeTyped
  <2> QED
    BY <2>1, <2>3, <2>4, <2>5, <2>6, <2>7, <2>8, <2>9
       DEF Next, NetworkLoop, OffServe, Connecting, Sending, Writer
<1>4. used' \geq used
  <2>1. CASE Connecting
    BY <1>2, <2>1, ConnectingIs
  <2>2. CASE OffServe
    BY <1>2, <2>2, OffServeIs
  <2>3. CASE Sending
    BY <1>2, <2>3, SendingIs
  <2>4. CASE OffPhone
    BY <1>2, <2>4, OffPhoneIs DEF phoneVars
  <2> QED
    BY <2>1, <2>2, <2>3, <2>4
       DEF Next, NetworkLoop, OffServe, Connecting, Sending, OffPhone
<1>5. used' \in Nat
  <2>1. used' \in 0 .. MaxConns
    BY PhoneKept DEF PhoneTyped
  <2> QED
    BY <1>2, <2>1
<1> QED
  BY <1>2, <1>3, <1>4, <1>5

(* A packet is torn only by a send that ran into its timeout. *)
LEMMA UntornKept ==
  ASSUME SessionInv, Next
  PROVE  Untorn'
<1>1. /\ Untorn /\ up \in [Conns -> Seq(Packets)]
  BY DEF SessionInv, ServeTyped
<1>2. CASE UNCHANGED <<up, stalled>>
  BY <1>1, <1>2 DEF Untorn
<1>3. ASSUME NEW c \in Conns, NEW some, up' = [up EXCEPT ![c] = some],
             c \notin stalled' => some \in Seq(WholePackets),
             stalled \subseteq stalled'
      PROVE  Untorn'
  BY <1>1, <1>3 DEF Untorn
<1>4. CASE OffServe \/ Connecting
  BY <1>2, <1>4, OffServeIs, ConnectingIs
<1>5. CASE Sending
  <2>1. conn \in Conns
    BY <1>5, SendingIs
  <2>2. CASE up' = up /\ stalled' = stalled \cup {conn}
    BY <1>1, <2>2 DEF Untorn
  <2>3. ASSUME NEW p \in Packets, up' = [up EXCEPT ![conn] = Append(up[conn], p)],
               stalled' = stalled \cup {conn}
        PROVE  Untorn'
    BY <1>3, <2>1, <2>3
  <2>4. ASSUME NEW p \in WholePackets, stalled' = stalled,
               up' = [up EXCEPT ![conn] = Append(up[conn], p)]
        PROVE  Untorn'
    <3>1. conn \notin stalled => Append(up[conn], p) \in Seq(WholePackets)
      BY <1>1, <2>1, AppendProperties DEF Untorn
    <3> QED
      BY <1>3, <2>1, <2>4, <3>1
  <2> QED
    BY <1>2, <1>5, <2>2, <2>3, <2>4, SendingIs
<1>6. ASSUME NEW c \in Conns, Break(c) PROVE Untorn'
  <2>1. PICK some \in Seq(Packets) :
          /\ up' = [up EXCEPT ![c] = some]
          /\ up[c] \in Seq(WholePackets) => some \in Seq(WholePackets)
    BY <1>6, BreakIs
  <2>2. stalled' = stalled
    BY <1>6, BreakIs
  <2> QED
    BY <1>1, <1>3, <2>1, <2>2 DEF Untorn
<1>7. ASSUME NEW c \in Conns, ReadPacket(c) PROVE Untorn'
  <2>1. up' = [up EXCEPT ![c] = Tail(up[c])] /\ stalled' = stalled /\ up[c] # << >>
    BY <1>7, ReadPacketIs
  <2>2. c \notin stalled => Tail(up[c]) \in Seq(WholePackets)
    BY <1>1, <2>1, HeadTailProperties DEF Untorn
  <2> QED
    BY <1>3, <2>1, <2>2
<1>8. ASSUME NEW c \in Conns, ReadTorn(c) PROVE Untorn'
  <2>1. c \in stalled /\ stalled' = stalled
    BY <1>8, ReadTornIs
  <2>2. PICK some \in Seq(Packets) : up' = [up EXCEPT ![c] = some]
    BY <1>8, ReadTornIs
  <2> QED
    BY <1>3, <2>1, <2>2
<1>9. ASSUME NEW c \in Conns,
             ReaderHead(c) \/ ReadEnd(c) \/ AbortServe(c) \/ Writer(c) \/ WriterTick(c)
      PROVE  Untorn'
  <2>1. UNCHANGED <<up, stalled>>
    BY <1>9 DEF ReaderHead, ReadEnd, AbortServe, Writer, WriterReply, WriterEnds,
                WriterTick, streamVars
  <2> QED
    BY <1>2, <2>1
<1> QED
  BY <1>4, <1>5, <1>6, <1>7, <1>8, <1>9
     DEF Next, NetworkLoop, OffServe, Connecting, Sending, Reader

-----------------------------------------------------------------------------
(* The count of a stream.                                                   *)

(* What leaves the streams, the thread's number and the tracker alone keeps
   the count: a connection that is gone stays gone. *)
LEMMA ConsecutiveRests ==
  ASSUME SessionInv, Next, UNCHANGED <<up, stalled, number, tracker, from>>,
         conn' \in {conn, 0}
  PROVE  Consecutive'
<1>1. /\ Consecutive /\ conn \in 0 .. used /\ from \in 0 .. used
      /\ used \in 0 .. MaxConns
  BY DEF SessionInv, PhoneTyped, ServeTyped
<1>2. conn # 0 => conn \in 1 .. used
  BY <1>1, Limits
<1>3. CASE conn' = 0
  BY <1>1, <1>3 DEF Consecutive
<1>4. CASE conn' = conn
  <2>1. conn # 0 /\ Gone(conn) => Gone(conn)'
    BY <1>2, <1>4, GoneStays DEF Gone, Served
  <2> QED
    BY <1>1, <1>4, <2>1 DEF Consecutive
<1> QED
  BY <1>3, <1>4

(* A packet goes out: it carries the number the tracker will expect of it. *)
LEMMA SendingCounts ==
  ASSUME SessionInv, Sending
  PROVE  Consecutive'
<1>1. /\ Consecutive /\ up \in [Conns -> Seq(Packets)]
  BY DEF SessionInv, ServeTyped
<1>2. /\ conn \in Conns /\ conn # 0 /\ number' = Successor(number)
      /\ UNCHANGED <<conn, broken, reader, writer, tracker, from>>
  <2>1. \A c \in Conns : c # 0
    BY Limits DEF Conns
  <2> QED
    BY <2>1, SendingIs
<1>3. CASE Gone(conn) /\ up' = up /\ stalled' = stalled
  BY <1>1, <1>2, <1>3 DEF Consecutive, Gone, Served
<1>4. ASSUME ~Gone(conn), NEW p \in WholePackets, p.seq = number,
             stalled' = stalled, conn \notin stalled,
             up' = [up EXCEPT ![conn] = Append(up[conn], p)]
      PROVE  Consecutive'
  <2> DEFINE old == up[conn]
             new == Append(up[conn], p)
  <2>1. old \in Seq(Packets) /\ Len(old) \in Nat
    BY <1>1, <1>2
  <2>2. p \in Packets
    BY DEF WholePackets, Packets
  <2>3. /\ new \in Seq(Packets) /\ new # << >> /\ Len(new) = Len(old) + 1
        /\ \A i \in 1 .. Len(old) : new[i] = old[i]
        /\ new[Len(old) + 1] = p
    BY <2>1, <2>2, AppendProperties
  <2>4. /\ up'[conn] = new
        /\ \A c \in Conns : c # conn => up'[c] = up[c]
    BY <1>1, <1>2, <1>4
  <2>5. old # << >> => number = Successor(old[Len(old)].seq)
    BY <1>1, <1>2, <1>4 DEF Consecutive
  <2>6. \A i \in 1 .. Len(old) - 1 : old[i + 1].seq = Successor(old[i].seq)
    BY <1>1, <1>2, <1>4 DEF Consecutive
  <2>7. conn = from => IF old = << >> THEN tracker.expected = number
                                      ELSE tracker.expected = old[1].seq
    BY <1>1, <1>2, <1>4 DEF Consecutive
  <2> HIDE DEF old, new
  <2>8. ASSUME NEW i \in 1 .. Len(new) - 1
        PROVE  new[i + 1].seq = Successor(new[i].seq)
    <3>1. i \in 1 .. Len(old)
      BY <2>1, <2>3
    <3>2. CASE i = Len(old)
      <4>1. old # << >>
        BY <2>1, <3>1, <3>2, EmptySeq
      <4> QED
        BY <1>4, <2>3, <2>5, <3>1, <3>2, <4>1
    <3>3. CASE i < Len(old)
      <4>1. i \in 1 .. Len(old) - 1 /\ i + 1 \in 1 .. Len(old)
        BY <2>1, <3>1, <3>3
      <4> QED
        BY <2>3, <2>6, <3>1, <4>1
    <3> QED
      BY <2>1, <3>1, <3>2, <3>3
  <2>9. number' = Successor(new[Len(new)].seq)
    BY <1>2, <1>4, <2>3
  <2>10. conn = from => tracker.expected = new[1].seq
    <3>1. CASE old = << >>
      <4>1. new[1] = p
        BY <2>3, <3>1, EmptySeq
      <4> QED
        BY <1>4, <2>7, <3>1, <4>1
    <3>2. CASE old # << >>
      <4>1. 1 \in 1 .. Len(old)
        BY <2>1, <3>2, EmptySeq
      <4> QED
        BY <2>3, <2>7, <3>2, <4>1
    <3> QED
      BY <3>1, <3>2
  <2>11. ASSUME NEW c \in Conns, c \notin stalled, NEW i \in 1 .. Len(up'[c]) - 1
         PROVE  up'[c][i + 1].seq = Successor(up'[c][i].seq)
    BY <1>1, <2>4, <2>8, <2>11 DEF Consecutive
  <2>12. from # 0 /\ from \notin stalled /\ up'[from] # << >> =>
           tracker.expected = up'[from][1].seq
    <3>1. CASE conn = from
      BY <2>4, <2>10, <3>1
    <3>2. CASE conn # from
      <4>1. from # 0 => from \in Conns
        <5>1. from \in 0 .. used /\ used \in 0 .. MaxConns
          BY DEF SessionInv, ServeTyped, PhoneTyped
        <5> QED
          BY <5>1, Limits DEF Conns
      <4> QED
        BY <1>1, <2>4, <3>2, <4>1 DEF Consecutive
    <3> QED
      BY <3>1, <3>2
  <2> QED
    BY <1>2, <1>4, <2>3, <2>4, <2>9, <2>11, <2>12 DEF Consecutive
<1>5. ASSUME NEW new, conn \in stalled',
             stalled' = stalled \/ stalled' = stalled \cup {conn},
             up' = up \/ up' = [up EXCEPT ![conn] = new]
      PROVE  Consecutive'
  <2>1. \A c \in Conns : c \notin stalled' => c # conn /\ c \notin stalled /\ up'[c] = up[c]
    BY <1>1, <1>5
  <2>2. \A c \in Conns : c \notin stalled' =>
          \A i \in 1 .. Len(up'[c]) - 1 : up'[c][i + 1].seq = Successor(up'[c][i].seq)
    BY <1>1, <2>1 DEF Consecutive
  <2>3. from # 0 => from \in Conns
    <3>1. from \in 0 .. used /\ used \in 0 .. MaxConns
      BY DEF SessionInv, ServeTyped, PhoneTyped
    <3> QED
      BY <3>1, Limits DEF Conns
  <2>4. from # 0 /\ from \notin stalled' /\ up'[from] # << >> =>
          tracker.expected = up'[from][1].seq
    BY <1>1, <2>1, <2>3 DEF Consecutive
  <2> QED
    BY <1>2, <1>5, <2>1, <2>2, <2>3, <2>4 DEF Consecutive
<1> QED
  <2>1. CASE conn \in stalled'
    <3>1. stalled' = stalled \/ stalled' = stalled \cup {conn}
      BY SendingIs
    <3>2. \E new : up' = up \/ up' = [up EXCEPT ![conn] = new]
      BY SendingIs
    <3> QED
      BY <1>5, <2>1, <3>1, <3>2
  <2>2. CASE conn \notin stalled'
    BY <1>3, <1>4, <2>2, SendingIs
  <2> QED
    BY <2>1, <2>2

(* A link that fails cuts its stream short, behind a phone that cannot add
   to it any more. *)
LEMMA BreakCounts ==
  ASSUME SessionInv, NEW c \in Conns, Break(c)
  PROVE  Consecutive'
<1>1. /\ Consecutive /\ up \in [Conns -> Seq(Packets)]
      /\ broken \in [Conns -> BOOLEAN]
  BY DEF SessionInv, ServeTyped
<1>2. /\ broken' = [broken EXCEPT ![c] = TRUE]
      /\ UNCHANGED <<conn, number, stalled, reader, writer, tracker, from>>
  BY BreakIs DEF phoneVars, serveVars, ingestVars
<1>3. PICK some \in Seq(Packets) :
        /\ up' = [up EXCEPT ![c] = some]
        /\ Len(some) \leq Len(up[c])
        /\ \A i \in 1 .. Len(some) : some[i] = up[c][i]
  BY BreakIs
<1>4. /\ up'[c] = some /\ broken'[c]
      /\ \A d \in Conns : d # c => up'[d] = up[d] /\ broken'[d] = broken[d]
  BY <1>1, <1>2, <1>3
<1>5. Len(some) \in Nat /\ Len(up[c]) \in Nat
  BY <1>1
<1>6. ASSUME c \notin stalled, NEW i \in 1 .. Len(some) - 1
      PROVE  some[i + 1].seq = Successor(some[i].seq)
  <2>1. /\ i \in 1 .. Len(some) /\ i + 1 \in 1 .. Len(some)
        /\ i \in 1 .. Len(up[c]) - 1
    BY <1>3, <1>5
  <2> QED
    BY <1>1, <1>3, <1>6, <2>1 DEF Consecutive
<1>7. some # << >> => some[1] = up[c][1] /\ up[c] # << >>
  <2>1. some # << >> => 1 \in 1 .. Len(some) /\ Len(up[c]) # 0
    BY <1>3, <1>5, EmptySeq
  <2> QED
    BY <1>3, <2>1, EmptySeq
<1>8. ASSUME NEW d \in Conns, d \notin stalled, NEW i \in 1 .. Len(up'[d]) - 1
      PROVE  up'[d][i + 1].seq = Successor(up'[d][i].seq)
  <2>1. CASE d = c
    BY <1>4, <1>6, <1>8, <2>1
  <2>2. CASE d # c
    <3>1. up'[d] = up[d]
      BY <1>4, <2>2
    <3>2. \A j \in 1 .. Len(up[d]) - 1 : up[d][j + 1].seq = Successor(up[d][j].seq)
      BY <1>1, <1>8 DEF Consecutive
    <3> QED
      BY <1>8, <3>1, <3>2, Zenon
  <2> QED
    BY <2>1, <2>2
<1>9. /\ conn # 0 => conn \in Conns
      /\ from # 0 => from \in Conns
  <2>1. /\ from \in 0 .. used /\ used \in 0 .. MaxConns /\ conn \in 0 .. used
    BY DEF SessionInv, ServeTyped, PhoneTyped
  <2> QED
    BY <2>1, Limits DEF Conns
<1>10. from # 0 /\ from \notin stalled /\ up'[from] # << >> =>
         tracker.expected = up'[from][1].seq
  BY <1>1, <1>4, <1>7, <1>9 DEF Consecutive
<1>11. conn # 0 /\ ~Gone(conn)' => conn # c /\ ~Gone(conn)
  BY <1>2, <1>4, <1>9 DEF Gone, Served
<1>12. conn # 0 /\ conn \notin stalled /\ ~Gone(conn)' /\ up'[conn] # << >> =>
         number = Successor(up'[conn][Len(up'[conn])].seq)
  BY <1>1, <1>4, <1>9, <1>11 DEF Consecutive
<1>13. from # 0 /\ from \notin stalled /\ up'[from] = << >> /\ conn = from /\ ~Gone(from)' =>
         tracker.expected = number
  BY <1>1, <1>2, <1>4, <1>9, <1>11 DEF Consecutive, Gone, Served
<1> QED
  BY <1>2, <1>8, <1>10, <1>12, <1>13 DEF Consecutive, Gone, Served

(* A packet is read: what remains of its stream goes on where the tracker
   now is. *)
LEMMA ReadCounts ==
  ASSUME SessionInv, NEW c \in Conns, ReadPacket(c)
  PROVE  Consecutive'
<1> DEFINE old == up[c]
           rest == Tail(up[c])
<1>1. /\ Consecutive /\ up \in [Conns -> Seq(Packets)]
      /\ reader \in [Conns -> {"none", "head", "read", "ended"}]
  BY DEF SessionInv, ServeTyped
<1>2. /\ reader[c] = "read" /\ reader' = [reader EXCEPT ![c] = "head"]
      /\ old \in Seq(Packets) /\ old # << >> /\ old[1] \in Packets
      /\ up' = [up EXCEPT ![c] = rest]
      /\ rest \in Seq(Packets) /\ Len(rest) = Len(old) - 1
      /\ \A i \in 1 .. Len(old) - 1 : rest[i] = old[i + 1]
      /\ tracker' = Follow(old[1].seq) /\ from' = c
      /\ UNCHANGED <<conn, number, stalled, broken, writer>>
  BY ReadPacketIs DEF phoneVars
<1>3. /\ up'[c] = rest
      /\ \A d \in Conns : d # c => up'[d] = up[d]
  BY <1>1, <1>2
<1>4. tracker'.expected = Successor(old[1].seq)
  BY <1>2, FollowIs DEF Packets
<1>5. Len(old) \in Nat /\ Len(old) > 0
  BY <1>2, EmptySeq
<1>6. c \notin stalled => \A i \in 1 .. Len(old) - 1 : old[i + 1].seq = Successor(old[i].seq)
  BY <1>1 DEF Consecutive
<1>7. conn = c /\ c \notin stalled /\ ~Gone(c) => number = Successor(old[Len(old)].seq)
  <2>1. c # 0
    BY Limits DEF Conns
  <2> QED
    BY <1>1, <1>2, <2>1 DEF Consecutive
<1>8. /\ Gone(c)' <=> Gone(c)
      /\ conn # 0 => (Gone(conn)' <=> Gone(conn))
  <2>1. conn # 0 => conn \in Conns
    <3>1. used \in 0 .. MaxConns /\ conn \in 0 .. used
      BY DEF SessionInv, PhoneTyped
    <3> QED
      BY <3>1, Limits DEF Conns
  <2> QED
    BY <1>1, <1>2, <2>1 DEF Gone, Served
<1> HIDE DEF old, rest
<1>9. ASSUME c \notin stalled, NEW i \in 1 .. Len(rest) - 1
      PROVE  rest[i + 1].seq = Successor(rest[i].seq)
  <2>1. /\ i \in 1 .. Len(old) - 1 /\ i + 1 \in 1 .. Len(old) - 1
    BY <1>2, <1>5
  <2>2. rest[i] = old[i + 1] /\ rest[i + 1] = old[(i + 1) + 1]
    BY <1>2, <2>1
  <2> QED
    BY <1>6, <1>9, <2>1, <2>2
<1>10. ASSUME NEW d \in Conns, d \notin stalled, NEW i \in 1 .. Len(up'[d]) - 1
       PROVE  up'[d][i + 1].seq = Successor(up'[d][i].seq)
  <2>1. CASE d = c
    BY <1>3, <1>9, <1>10, <2>1
  <2>2. CASE d # c
    BY <1>1, <1>3, <1>10, <2>2 DEF Consecutive
  <2> QED
    BY <2>1, <2>2
<1>11. conn # 0 => conn \in Conns
  <2>1. used \in 0 .. MaxConns /\ conn \in 0 .. used
    BY DEF SessionInv, PhoneTyped
  <2> QED
    BY <2>1, Limits DEF Conns
<1>12. conn # 0 /\ conn # c /\ conn \notin stalled /\ ~Gone(conn) /\ up'[conn] # << >> =>
         number = Successor(up'[conn][Len(up'[conn])].seq)
  BY <1>1, <1>3, <1>11 DEF Consecutive
<1>13. CASE rest # << >>
  <2>0. Len(rest) \in Nat \ {0}
    BY <1>2, <1>13, EmptySeq
  <2>1. /\ Len(old) - 1 \in 1 .. Len(old) - 1
        /\ 1 \in 1 .. Len(old) - 1 /\ (Len(old) - 1) + 1 = Len(old)
    BY <1>2, <1>5, <2>0
  <2>2. rest[1] = old[1 + 1] /\ rest[Len(rest)] = old[Len(old)]
    BY <1>2, <2>1
  <2>3. c \notin stalled => tracker'.expected = rest[1].seq
    BY <1>4, <1>6, <2>1, <2>2
  <2>4. conn = c /\ c \notin stalled /\ ~Gone(c) => number = Successor(rest[Len(rest)].seq)
    BY <1>7, <2>2
  <2>5. conn # 0 /\ conn \notin stalled /\ ~Gone(conn)' /\ up'[conn] # << >> =>
          number = Successor(up'[conn][Len(up'[conn])].seq)
    <3>1. CASE conn = c
      BY <1>3, <1>8, <2>4, <3>1
    <3>2. CASE conn # c
      BY <1>8, <1>11, <1>12, <3>2
    <3> QED
      BY <3>1, <3>2
  <2> QED
    BY <1>2, <1>3, <1>10, <1>13, <2>3, <2>5 DEF Consecutive, Gone, Served
<1>14. CASE rest = << >>
  <2>1. Len(old) = 1
    BY <1>2, <1>5, <1>14, EmptySeq
  <2>2. conn = c /\ c \notin stalled /\ ~Gone(c) => tracker'.expected = number
    BY <1>4, <1>7, <2>1
  <2>3. conn # 0 /\ conn \notin stalled /\ ~Gone(conn)' /\ up'[conn] # << >> =>
          number = Successor(up'[conn][Len(up'[conn])].seq)
    <3>1. CASE conn = c
      BY <1>3, <1>14, <3>1
    <3>2. CASE conn # c
      BY <1>8, <1>11, <1>12, <3>2
    <3> QED
      BY <3>1, <3>2
  <2>4. conn = c /\ c \notin stalled /\ ~Gone(c)' => tracker'.expected = number
    BY <1>8, <2>2
  <2> QED
    BY <1>2, <1>3, <1>10, <1>14, <2>3, <2>4 DEF Consecutive, Gone, Served
<1> QED
  BY <1>13, <1>14

(* A torn packet is read where nothing is said of the numbers. *)
LEMMA ReadTornCounts ==
  ASSUME SessionInv, NEW c \in Conns, ReadTorn(c)
  PROVE  Consecutive'
<1>1. /\ Consecutive /\ up \in [Conns -> Seq(Packets)]
      /\ reader \in [Conns -> {"none", "head", "read", "ended"}]
  BY DEF SessionInv, ServeTyped
<1>2. /\ reader[c] = "read" /\ reader' = [reader EXCEPT ![c] = "head"]
      /\ c \in stalled /\ from' = c
      /\ UNCHANGED <<conn, number, stalled, broken, writer>>
  BY ReadTornIs DEF phoneVars
<1>3. PICK some \in Seq(Packets) : up' = [up EXCEPT ![c] = some]
  BY ReadTornIs
<1>4. \A d \in Conns : d \notin stalled => d # c /\ up'[d] = up[d]
  BY <1>1, <1>2, <1>3
<1>5. conn # 0 => conn \in Conns
  <2>1. used \in 0 .. MaxConns /\ conn \in 0 .. used
    BY DEF SessionInv, PhoneTyped
  <2> QED
    BY <2>1, Limits DEF Conns
<1>6. conn # 0 => (Gone(conn)' <=> Gone(conn))
  BY <1>1, <1>2, <1>5 DEF Gone, Served
<1>7. \A d \in Conns : d \notin stalled =>
        \A i \in 1 .. Len(up'[d]) - 1 : up'[d][i + 1].seq = Successor(up'[d][i].seq)
  BY <1>1, <1>4 DEF Consecutive
<1>8. conn # 0 /\ conn \notin stalled /\ ~Gone(conn)' /\ up'[conn] # << >> =>
        number = Successor(up'[conn][Len(up'[conn])].seq)
  BY <1>1, <1>4, <1>5, <1>6 DEF Consecutive
<1> QED
  BY <1>2, <1>7, <1>8 DEF Consecutive, Gone, Served

(* A new connection has an empty stream, and the tracker never followed it. *)
LEMMA ConnectingCounts ==
  ASSUME SessionInv, Next, Connecting
  PROVE  Consecutive'
<1>1. /\ Consecutive /\ Unused /\ used \in 0 .. MaxConns /\ from \in 0 .. used
      /\ used' = used + 1 /\ used' \in Conns
      /\ UNCHANGED <<up, stalled, tracker, from>>
  BY ConnectingIs DEF SessionInv, PhoneTyped, ServeTyped
<1>2. CASE StartSession
  <2>1. conn' = used' /\ from # conn' /\ up[conn'] = << >>
    <3>1. conn' = used'
      BY <1>2 DEF StartSession
    <3>2. used' > used /\ from # used'
      BY <1>1, Limits
    <3> QED
      BY <1>1, <3>1, <3>2 DEF Unused
  <2> QED
    BY <1>1, <2>1 DEF Consecutive
<1>3. CASE StartFails
  <2>1. UNCHANGED <<number, conn>>
    BY <1>3 DEF StartFails
  <2> QED
    BY <1>1, <2>1, ConsecutiveRests
<1> QED
  BY <1>2, <1>3 DEF Connecting

(* Every step keeps the numbers of every stream consecutive. *)
LEMMA ConsecutiveKept ==
  ASSUME SessionInv, Next
  PROVE  Consecutive'
<1>1. CASE OffServe
  <2>1. UNCHANGED number /\ conn' \in {conn, 0}
    BY <1>1 DEF OffServe, Stop, StopSource, StopAsk, StopJoin, Callback,
       LoopHead, Listen, ListenFails, FrameEnter, FrameCopy, FramePopped,
       EncodeFails, NumberKept, DrainExpires, EngineStops, phoneVars
  <2> QED
    BY <1>1, <2>1, OffServeIs, ConsecutiveRests
<1>2. ASSUME NEW c \in Conns,
             ReaderHead(c) \/ ReadEnd(c) \/ AbortServe(c) \/ Writer(c) \/ WriterTick(c)
      PROVE  Consecutive'
  <2>1. UNCHANGED <<up, stalled, number, tracker, from, conn>>
    BY <1>2 DEF ReaderHead, ReadEnd, AbortServe, Writer, WriterReply, WriterEnds,
                WriterTick, phoneVars, streamVars, ingestVars
  <2> QED
    BY <2>1, ConsecutiveRests
<1> QED
  BY <1>1, <1>2, ConnectingCounts, SendingCounts, BreakCounts, ReadCounts,
     ReadTornCounts
     DEF Next, NetworkLoop, OffServe, Connecting, Sending, Reader

(* The tracker counts a loss only on a packet of another connection than the
   last one's, or of a connection that stalled. *)
LEMMA LossStep ==
  ASSUME SessionInv, Next, lost' # lost
  PROVE  from' # from \/ from' \in stalled
<1>1. PICK c \in Conns : ReadPacket(c) \/ ReadTorn(c)
  <2>1. CASE OffServe
    BY <2>1, OffServeIs
  <2>2. CASE Connecting
    BY <2>2, ConnectingIs
  <2>3. CASE Sending
    BY <2>3, SendingIs
  <2>4. ASSUME NEW c \in Conns, Break(c) \/ ReaderHead(c) \/ ReadEnd(c)
                                \/ AbortServe(c) \/ Writer(c) \/ WriterTick(c)
        PROVE  FALSE
    BY <2>4 DEF Break, ReaderHead, ReadEnd, AbortServe, Writer, WriterReply,
                WriterEnds, WriterTick, ingestVars
  <2> QED
    BY <2>1, <2>2, <2>3, <2>4
       DEF Next, NetworkLoop, OffServe, Connecting, Sending, Reader
<1>2. CASE ReadTorn(c)
  BY <1>2, ReadTornIs
<1>3. CASE ReadPacket(c)
  <2>1. /\ up[c] # << >> /\ from' = c
        /\ lost' = lost + (IF Classify(tracker, up[c][1].seq) = "gap"
                             THEN Missing(tracker, up[c][1].seq) ELSE 0)
    BY <1>3, ReadPacketIs
  <2>2. lost \in Nat /\ c # 0
    BY Limits DEF SessionInv, ServeTyped, Conns
  <2> SUFFICES ASSUME from = c, c \notin stalled PROVE FALSE
    BY <2>1
  <2>3. tracker.expected = up[c][1].seq
    BY <2>1, <2>2 DEF SessionInv, Consecutive
  <2>4. Classify(tracker, up[c][1].seq) = "in-order"
    BY <2>3 DEF Classify
  <2> QED
    BY <2>1, <2>2, <2>4
<1> QED
  BY <1>1, <1>2, <1>3

-----------------------------------------------------------------------------
(* The streams to the phone.                                                *)

(* What is left of whole packets when cells are taken from the front. *)
LEMMA WholeRest ==
  ASSUME NEW S, NEW s \in Seq(S), NEW t \in Seq(S), NEW k \in Nat,
         Len(t) = Len(s) - k, \A i \in 1 .. Len(t) : t[i] = s[k + i], Whole(s)
  PROVE  Whole(t)
<1>1. Len(s) \in Nat /\ Len(t) \in Nat
  OBVIOUS
<1> SUFFICES ASSUME NEW i \in 1 .. Len(t), t[i] = MagicCell
             PROVE  i + 2 \leq Len(t) /\ t[i + 2] \in Messages
  BY DEF Whole
<1>2. k + i \in 1 .. Len(s) /\ s[k + i] = MagicCell
  BY <1>1
<1>3. (k + i) + 2 \leq Len(s) /\ s[(k + i) + 2] \in Messages
  BY <1>2 DEF Whole
<1>4. i + 2 \in 1 .. Len(t) /\ (k + i) + 2 = k + (i + 2)
  BY <1>1, <1>3
<1> QED
  BY <1>1, <1>3, <1>4

(* The cells of one more message. *)
LEMMA WholeMore ==
  ASSUME NEW s \in Seq(CellTypes), NEW msg \in Messages, Whole(s)
  PROVE  /\ s \o Cells(msg) \in Seq(CellTypes)
         /\ Whole(s \o Cells(msg))
<1> DEFINE t == s \o Cells(msg)
<1>1. /\ Cells(msg) \in Seq(CellTypes) /\ Len(Cells(msg)) = 3
      /\ Cells(msg)[1] = MagicCell /\ Cells(msg)[2] = RestCell
      /\ Cells(msg)[3] = msg
  BY DEF Cells, CellTypes
<1>2. /\ t \in Seq(CellTypes) /\ Len(t) = Len(s) + 3 /\ Len(s) \in Nat
      /\ \A i \in 1 .. Len(s) + 3 :
           t[i] = IF i \leq Len(s) THEN s[i] ELSE Cells(msg)[i - Len(s)]
  <2> DEFINE m == Cells(msg)
  <2>1. m \in Seq(CellTypes) /\ Len(m) = 3
    BY <1>1
  <2> HIDE DEF m
  <2>2. /\ s \o m \in Seq(CellTypes) /\ Len(s \o m) = Len(s) + Len(m)
        /\ \A i \in 1 .. Len(s) + Len(m) :
             (s \o m)[i] = IF i \leq Len(s) THEN s[i] ELSE m[i - Len(s)]
    BY <2>1, ConcatProperties
  <2>3. Len(s) \in Nat
    OBVIOUS
  <2> QED
    BY <2>1, <2>2, <2>3 DEF m
<1> HIDE DEF t
<1>3. ASSUME NEW i \in 1 .. Len(t), t[i] = MagicCell
      PROVE  i + 2 \leq Len(t) /\ t[i + 2] \in Messages
  <2>1. CASE i \leq Len(s)
    <3>1. i \in 1 .. Len(s) /\ s[i] = MagicCell
      BY <1>2, <1>3, <2>1
    <3>2. i + 2 \leq Len(s) /\ s[i + 2] \in Messages
      BY <3>1 DEF Whole
    <3>3. i + 2 \in 1 .. Len(s) + 3 /\ i + 2 \leq Len(t)
      BY <1>2, <3>1, <3>2
    <3> QED
      BY <1>2, <3>2, <3>3
  <2>2. CASE i > Len(s)
    <3>1. i = Len(s) + 1 \/ i = Len(s) + 2 \/ i = Len(s) + 3
      BY <1>2, <2>2
    <3>2. /\ Len(s) + 1 \in 1 .. Len(s) + 3 /\ ~(Len(s) + 1 \leq Len(s))
          /\ Len(s) + 2 \in 1 .. Len(s) + 3 /\ ~(Len(s) + 2 \leq Len(s))
          /\ Len(s) + 3 \in 1 .. Len(s) + 3 /\ ~(Len(s) + 3 \leq Len(s))
          /\ (Len(s) + 1) - Len(s) = 1 /\ (Len(s) + 2) - Len(s) = 2
          /\ (Len(s) + 3) - Len(s) = 3
      BY <1>2
    <3>3. t[Len(s) + 2] = RestCell /\ t[Len(s) + 3] = msg
      BY <1>1, <1>2, <3>2
    <3>4. RestCell # MagicCell /\ msg # MagicCell
      BY DEF RestCell, MagicCell, Messages
    <3>5. i = Len(s) + 1
      BY <1>3, <3>1, <3>3, <3>4
    <3> QED
      BY <1>2, <3>3, <3>5
  <2> QED
    BY <1>2, <2>1, <2>2
<1> QED
  BY <1>2, <1>3 DEF Whole, t

(* A nonempty set of numbers has a least one. *)
LEMMA LeastOf ==
  ASSUME NEW T \in SUBSET Nat, T # {}
  PROVE  \E x \in T : \A y \in T : x <= y
<1> DEFINE R == OpToRel(<, Nat)
<1>1. IsWellFoundedOn(R, Nat)
  BY NatLessThanWellFounded
<1>2. PICK x \in T : \A y \in T : ~(<<y, x>> \in R)
  BY <1>1, WFMin
<1> HIDE DEF R
<1>3. ASSUME NEW y \in T PROVE x <= y
  <2>1. x \in Nat /\ y \in Nat /\ (y < x => <<y, x>> \in R)
    BY DEF R, OpToRel
  <2> QED
    BY <1>2, <2>1
<1> QED
  BY <1>3

(* The cells kept and those on their way; those kept and the first n of those on their way, the rest of them, and
   what is left when the first k are taken. *)
Joined(p, d) == p \o d
Arrived(p, d, n) == p \o SubSeq(d, 1, n)
OnTheWay(d, n) == SubSeq(d, n + 1, Len(d))
Without(s, k) == SubSeq(s, k + 1, Len(s))

Begins(s, all) == /\ Len(s) \leq Len(all)
                  /\ \A i \in 1 .. Len(s) : s[i] = all[i]

(* What a Recv without a message returns. *)
NoMessage == ""

(* The fields of a result. *)
LEMMA FieldsOf ==
  ASSUME NEW r, NEW m, NEW l, r = [msg |-> m, left |-> l]
  PROVE  r.msg = m /\ r.left = l
OBVIOUS

(* Recv takes cells from the front, and a message only from the third of
   its own packet. *)
LEMMA ReceivedIs ==
  ASSUME NEW s \in Seq(CellTypes)
  PROVE  /\ \E k \in 0 .. Len(s) : Received(s).left = Without(s, k)
         /\ \/ Received(s).msg = NoMessage
            \/ \E i \in 1 .. Len(s) : /\ i + 2 \leq Len(s) /\ s[i] = MagicCell
                                      /\ Received(s).msg = s[i + 2]
<1> DEFINE magics == {i \in 2 .. Len(s) : s[i] = MagicCell}
           first == CHOOSE i \in magics : \A j \in magics : i <= j
           at == IF s[1] = MagicCell THEN 1 ELSE first
<1>1. Len(s) \in Nat
  OBVIOUS
<1>2. s = Without(s, 0) /\ 0 \in 0 .. Len(s)
  <2>1. s = SubSeq(s, 0 + 1, Len(s)) /\ 0 \in 0 .. Len(s)
    BY <1>1, SubSeqFull
  <2> QED
    BY <2>1 DEF Without
<1>3. << >> = Without(s, Len(s)) /\ Len(s) \in 0 .. Len(s)
  BY <1>1, SubSeqEmpty DEF Without
<1>4. Received(s) =
        IF Len(s) < 2 THEN [msg |-> NoMessage, left |-> s]
        ELSE IF s[1] # MagicCell /\ magics = {} THEN [msg |-> NoMessage, left |-> << >>]
        ELSE IF at + 2 > Len(s) THEN [msg |-> NoMessage, left |-> << >>]
        ELSE [msg |-> s[at + 2], left |-> SubSeq(s, at + 3, Len(s))]
  BY Zenon DEF Received, Kept, NoMessage
<1>5. magics # {} => first \in magics
  <2>1. magics \in SUBSET Nat
    BY <1>1
  <2> HIDE DEF magics
  <2>2. magics # {} => \E i \in magics : \A j \in magics : i <= j
    BY <2>1, LeastOf
  <2> QED
    BY <2>2
<1>6. ASSUME Len(s) \geq 2, s[1] = MagicCell \/ magics # {}
      PROVE  at \in 1 .. Len(s) /\ s[at] = MagicCell
  <2>1. CASE s[1] = MagicCell
    BY <1>1, <1>6, <2>1
  <2>2. CASE s[1] # MagicCell
    <3>1. first \in magics /\ at = first
      BY <1>5, <1>6, <2>2
    <3> HIDE DEF first, at
    <3> QED
      BY <1>1, <3>1
  <2> QED
    BY <2>1, <2>2
<1> HIDE DEF magics, at
<1>7. CASE Len(s) < 2
  <2>1. Received(s).msg = NoMessage /\ Received(s).left = s
    <3>1. Received(s) = [msg |-> NoMessage, left |-> s]
      BY Zenon, <1>4, <1>7
    <3> QED
      BY <3>1, FieldsOf, Zenon
  <2> QED
    BY <1>2, <2>1
<1>8. CASE ~(Len(s) < 2) /\ s[1] # MagicCell /\ magics = {}
  <2>1. Received(s).msg = NoMessage /\ Received(s).left = << >>
    <3>1. Received(s) = [msg |-> NoMessage, left |-> << >>]
      BY Zenon, <1>4, <1>8
    <3> QED
      BY <3>1, FieldsOf, Zenon
  <2> QED
    BY <1>3, <2>1
<1>9. CASE ~(Len(s) < 2) /\ ~(s[1] # MagicCell /\ magics = {})
  <2>1. at \in 1 .. Len(s) /\ s[at] = MagicCell
    BY <1>1, <1>6, <1>9
  <2>2. CASE at + 2 > Len(s)
    <3>1. Received(s).msg = NoMessage /\ Received(s).left = << >>
      <4>1. Received(s) = [msg |-> NoMessage, left |-> << >>]
        BY Zenon, <1>4, <1>9, <2>2
      <4> QED
        BY <4>1, FieldsOf, Zenon
    <3> QED
      BY <1>3, <3>1
  <2>3. CASE ~(at + 2 > Len(s))
    <3>1. Received(s).msg = s[at + 2] /\ Received(s).left = SubSeq(s, at + 3, Len(s))
      <4>1. Received(s) = [msg |-> s[at + 2], left |-> SubSeq(s, at + 3, Len(s))]
        BY Zenon, <1>4, <1>9, <2>3
      <4> QED
        BY <4>1, FieldsOf, Zenon
    <3>2. at + 2 \in 0 .. Len(s) /\ at + 3 = (at + 2) + 1 /\ at + 2 \leq Len(s)
      BY <1>1, <2>1, <2>3
    <3>3. Received(s).left = Without(s, at + 2)
      BY <3>1, <3>2 DEF Without
    <3> QED
      BY <2>1, <3>1, <3>2, <3>3
  <2> QED
    BY <2>2, <2>3
<1> QED
  BY <1>7, <1>8, <1>9

(* What is left when the first k cells of those kept and those arrived are
   taken, with those still on their way behind it. *)
LEMMA TakeFront ==
  ASSUME NEW S, NEW p \in Seq(S), NEW d \in Seq(S), NEW n \in 0 .. Len(d),
         NEW k \in 0 .. Len(Arrived(p, d, n))
  PROVE  LET all == Joined(p, d)
             s == Arrived(p, d, n)
             left == Without(s, k)
             rest == OnTheWay(d, n)
         IN  /\ all \in Seq(S) /\ s \in Seq(S) /\ left \in Seq(S) /\ rest \in Seq(S)
             /\ Begins(s, all)
             /\ Joined(left, rest) \in Seq(S)
             /\ Len(Joined(left, rest)) = Len(all) - k
             /\ \A i \in 1 .. Len(Joined(left, rest)) : (Joined(left, rest))[i] = all[k + i]
<1> DEFINE a == SubSeq(d, 1, n)
           all == p \o d
           s == p \o a
           left == SubSeq(s, k + 1, Len(s))
           rest == SubSeq(d, n + 1, Len(d))
           t == left \o rest
<1>1. /\ Len(p) \in Nat /\ Len(d) \in Nat /\ n \in Nat /\ n \leq Len(d)
  OBVIOUS
<1>2. /\ a \in Seq(S) /\ Len(a) = n /\ \A i \in 1 .. n : a[i] = d[i]
  <2>1. \A i \in 1 .. n : d[i] \in S
    BY <1>1, ElementOfSeq
  <2> QED
    BY <1>1, <2>1, SubSeqProperties
<1>3. /\ rest \in Seq(S) /\ Len(rest) = Len(d) - n
      /\ \A i \in 1 .. Len(d) - n : rest[i] = d[n + i]
  <2>1. \A i \in n + 1 .. Len(d) : d[i] \in S
    BY <1>1, ElementOfSeq
  <2>2. /\ rest \in Seq(S)
        /\ Len(rest) = IF n + 1 <= Len(d) THEN (Len(d) - (n + 1)) + 1 ELSE 0
        /\ \A i \in 1 .. (Len(d) - (n + 1)) + 1 : rest[i] = d[((n + 1) + i) - 1]
    BY <1>1, <2>1, SubSeqProperties
  <2> HIDE DEF rest
  <2>3. /\ (Len(d) - (n + 1)) + 1 = Len(d) - n
        /\ \A i \in 1 .. Len(d) - n : ((n + 1) + i) - 1 = n + i
    BY <1>1
  <2>4. Len(rest) = Len(d) - n
    BY <1>1, <2>2
  <2> QED
    BY <2>2, <2>3, <2>4
<1>4. /\ all \in Seq(S) /\ Len(all) = Len(p) + Len(d)
      /\ \A i \in 1 .. Len(p) + Len(d) :
           all[i] = IF i \leq Len(p) THEN p[i] ELSE d[i - Len(p)]
  BY ConcatProperties
<1> HIDE DEF a, rest
<1>5. /\ s \in Seq(S) /\ Len(s) = Len(p) + n
      /\ \A i \in 1 .. Len(p) + n :
           s[i] = IF i \leq Len(p) THEN p[i] ELSE a[i - Len(p)]
  BY <1>2, ConcatProperties
<1>6. k \in Nat /\ k \leq Len(p) + n
  BY <1>1, <1>5 DEF a, Arrived
<1> HIDE DEF all, s
<1>7. /\ left \in Seq(S) /\ Len(left) = (Len(p) + n) - k
      /\ \A i \in 1 .. (Len(p) + n) - k : left[i] = s[k + i]
  <2>1. \A i \in k + 1 .. Len(s) : s[i] \in S
    BY <1>1, <1>5, <1>6, ElementOfSeq
  <2>2. /\ left \in Seq(S)
        /\ Len(left) = IF k + 1 <= Len(s) THEN (Len(s) - (k + 1)) + 1 ELSE 0
        /\ \A i \in 1 .. (Len(s) - (k + 1)) + 1 : left[i] = s[((k + 1) + i) - 1]
    BY <1>1, <1>5, <1>6, <2>1, SubSeqProperties
  <2> HIDE DEF left
  <2>3. /\ (Len(s) - (k + 1)) + 1 = (Len(p) + n) - k
        /\ \A i \in 1 .. (Len(p) + n) - k : ((k + 1) + i) - 1 = k + i
    BY <1>1, <1>5, <1>6
  <2>4. Len(left) = (Len(p) + n) - k
    BY <1>1, <1>5, <1>6, <2>2
  <2> QED
    BY <2>2, <2>3, <2>4
<1> HIDE DEF left
<1>8. /\ t \in Seq(S) /\ Len(t) = Len(left) + Len(rest)
      /\ \A i \in 1 .. Len(left) + Len(rest) :
           t[i] = IF i \leq Len(left) THEN left[i] ELSE rest[i - Len(left)]
  BY <1>3, <1>7, ConcatProperties
<1>9. Len(t) = Len(all) - k
  BY <1>1, <1>3, <1>4, <1>6, <1>7, <1>8
<1>10. \A i \in 1 .. Len(s) : s[i] = all[i]
  <2> SUFFICES ASSUME NEW i \in 1 .. Len(p) + n PROVE s[i] = all[i]
    BY <1>5
  <2>1. i \in 1 .. Len(p) + Len(d)
    BY <1>1
  <2>2. CASE i \leq Len(p)
    BY <1>4, <1>5, <2>1, <2>2
  <2>3. CASE ~(i \leq Len(p))
    <3>1. i - Len(p) \in 1 .. n
      BY <1>1, <2>3
    <3> QED
      BY <1>2, <1>4, <1>5, <2>1, <2>3, <3>1
  <2> QED
    BY <2>2, <2>3
<1> HIDE DEF t
<1>11. ASSUME NEW i \in 1 .. Len(t) PROVE t[i] = all[k + i]
  <2>1. i \in 1 .. Len(left) + Len(rest)
    BY <1>8
  <2>2. CASE i \leq Len(left)
    <3>1. i \in 1 .. (Len(p) + n) - k /\ k + i \in 1 .. Len(s)
      BY <1>1, <1>5, <1>6, <1>7, <2>2
    <3> QED
      BY <1>7, <1>8, <1>10, <2>1, <2>2, <3>1
  <2>3. CASE ~(i \leq Len(left))
    <3> DEFINE j == i - Len(left)
    <3>1. /\ j \in 1 .. Len(d) - n /\ n + j = (k + i) - Len(p)
          /\ k + i \in 1 .. Len(p) + Len(d) /\ ~(k + i \leq Len(p))
      BY <1>1, <1>3, <1>6, <1>7, <2>1, <2>3
    <3>2. t[i] = rest[j]
      BY <1>8, <2>1, <2>3
    <3> HIDE DEF j
    <3>3. rest[j] = d[n + j] /\ all[k + i] = d[(k + i) - Len(p)]
      BY <1>3, <1>4, <3>1
    <3> QED
      BY <3>1, <3>2, <3>3
  <2> QED
    BY <2>2, <2>3
<1>12. Len(s) \leq Len(all)
  BY <1>1, <1>4, <1>5
<1> QED
  BY <1>3, <1>4, <1>5, <1>7, <1>8, <1>9, <1>10, <1>11, <1>12
     DEF t, s, Joined, all, left, rest, a, Arrived, Without, OnTheWay, Begins

(* A message received is one of those that are there whole. *)
LEMMA MessageIs ==
  ASSUME NEW s \in Seq(CellTypes), NEW all \in Seq(CellTypes), Whole(all),
         Begins(s, all)
  PROVE  Received(s).msg = NoMessage \/ Received(s).msg \in Messages
<1> SUFFICES ASSUME Received(s).msg # NoMessage PROVE Received(s).msg \in Messages
  OBVIOUS
<1>1. Len(s) \in Nat /\ Len(all) \in Nat
  OBVIOUS
<1>2. PICK i \in 1 .. Len(s) : /\ i + 2 \leq Len(s) /\ s[i] = MagicCell
                               /\ Received(s).msg = s[i + 2]
  BY ReceivedIs
<1>3. i + 2 \in 1 .. Len(s)
  BY <1>1, <1>2
<1>4. i \in 1 .. Len(all)
  BY <1>1 DEF Begins
<1>5. all[i] = MagicCell /\ s[i + 2] = all[i + 2]
  BY <1>2, <1>3 DEF Begins
<1>6. all[i + 2] \in Messages
  BY <1>4, <1>5 DEF Whole
<1> QED
  BY <1>2, <1>5, <1>6

(* A Recv on the cells kept and the first n that are on their way: its message
   is one that was written, and what it leaves is still whole messages. *)
LEMMA TakenIs ==
  ASSUME NEW p \in Seq(CellTypes), NEW d \in Seq(CellTypes), NEW n \in 0 .. Len(d),
         Whole(p \o d)
  PROVE  LET got == Received(Arrived(p, d, n))
         IN  /\ got.left \in Seq(CellTypes) /\ OnTheWay(d, n) \in Seq(CellTypes)
             /\ got.left \o OnTheWay(d, n) \in Seq(CellTypes)
             /\ got.msg = NoMessage \/ got.msg \in Messages
             /\ Whole(got.left \o OnTheWay(d, n))
<1> DEFINE s == Arrived(p, d, n)
<1>1. s \in Seq(CellTypes)
  <2> DEFINE a == SubSeq(d, 1, n)
  <2>1. \A i \in 1 .. n : d[i] \in CellTypes
    BY ElementOfSeq
  <2>2. a \in Seq(CellTypes)
    BY <2>1, SubSeqProperties
  <2> HIDE DEF a
  <2>3. p \o a \in Seq(CellTypes)
    BY <2>2, ConcatProperties
  <2> QED
    BY <2>3 DEF a, Arrived
<1>2. PICK k \in 0 .. Len(s) : Received(s).left = Without(s, k)
  BY <1>1, ReceivedIs
<1> DEFINE all == Joined(p, d)
           l == Without(s, k)
           w == OnTheWay(d, n)
           t == Joined(l, w)
<1>3. /\ all \in Seq(CellTypes) /\ l \in Seq(CellTypes) /\ w \in Seq(CellTypes)
      /\ Begins(s, all)
      /\ t \in Seq(CellTypes) /\ Len(t) = Len(all) - k
      /\ \A i \in 1 .. Len(t) : t[i] = all[k + i]
  BY TakeFront
<1>4. Whole(all) /\ k \in Nat
  BY <1>1 DEF Joined
<1> HIDE DEF all, s, l, w, t
<1>5. Received(s).msg = NoMessage \/ Received(s).msg \in Messages
  BY <1>1, <1>3, <1>4, MessageIs
<1>6. Whole(t)
  BY <1>3, <1>4, WholeRest
<1> QED
  BY <1>2, <1>3, <1>5, <1>6 DEF s, l, w, t, Joined

(* What a Listen does to the cells of its connection. *)
LEMMA ListenTakes ==
  ASSUME SessionInv, Listen
  PROVE  /\ pend' \in Seq(CellTypes) /\ down' \in [Conns -> Seq(CellTypes)]
         /\ heard' \in [Conns -> Seq(Messages)]
         /\ Whole(pend' \o down'[conn])
         /\ UNCHANGED <<conn, broken, written>>
<1>1. /\ conn \in Conns /\ ~broken[conn] /\ pend \in Seq(CellTypes)
      /\ down \in [Conns -> Seq(CellTypes)] /\ down[conn] \in Seq(CellTypes)
      /\ heard \in [Conns -> Seq(Messages)] /\ heard[conn] \in Seq(Messages)
      /\ UNCHANGED <<conn, broken, written>>
  BY ListenIs DEF SessionInv, TalkTyped, Listen, serveVars
<1>2. Whole(pend \o down[conn])
  <2>1. conn # 0
    BY ListenIs, Limits DEF Conns
  <2> QED
    BY <1>1, <2>1 DEF SessionInv, MessagesWhole
<1>3. PICK n \in 0 .. Len(down[conn]) :
        LET got == Received(Arrived(pend, down[conn], n))
            rest == OnTheWay(down[conn], n)
        IN  \/ /\ got.msg = NoMessage /\ pend' = got.left
               /\ down' = [down EXCEPT ![conn] = rest]
               /\ heard' = heard
            \/ /\ got.msg # NoMessage /\ pend' = << >>
               /\ down' = [down EXCEPT ![conn] = got.left \o rest]
               /\ heard' = [heard EXCEPT ![conn] = Append(heard[conn], got.msg)]
  BY Zenon DEF Listen, Arrived, OnTheWay, NoMessage
<1> DEFINE got == Received(Arrived(pend, down[conn], n))
           rest == OnTheWay(down[conn], n)
<1>4. /\ got.left \in Seq(CellTypes) /\ rest \in Seq(CellTypes)
      /\ got.left \o rest \in Seq(CellTypes)
      /\ got.msg = NoMessage \/ got.msg \in Messages
      /\ Whole(got.left \o rest)
  BY <1>1, <1>2, TakenIs
<1>5. \/ /\ got.msg = NoMessage /\ pend' = got.left
         /\ down' = [down EXCEPT ![conn] = rest] /\ heard' = heard
      \/ /\ got.msg # NoMessage /\ pend' = << >>
         /\ down' = [down EXCEPT ![conn] = got.left \o rest]
         /\ heard' = [heard EXCEPT ![conn] = Append(heard[conn], got.msg)]
  BY <1>3
<1> HIDE DEF got, rest
<1>6. CASE /\ got.msg = NoMessage /\ pend' = got.left
           /\ down' = [down EXCEPT ![conn] = rest] /\ heard' = heard
  <2>1. pend' \o down'[conn] = got.left \o rest
    BY <1>1, <1>6
  <2>2. down' \in [Conns -> Seq(CellTypes)]
    BY <1>1, <1>4, <1>6
  <2> QED
    BY <1>1, <1>4, <1>6, <2>1, <2>2
<1>7. CASE /\ got.msg # NoMessage /\ pend' = << >>
           /\ down' = [down EXCEPT ![conn] = got.left \o rest]
           /\ heard' = [heard EXCEPT ![conn] = Append(heard[conn], got.msg)]
  <2> DEFINE t == got.left \o rest
  <2>1. t \in Seq(CellTypes) /\ Whole(t)
    BY <1>4
  <2>2. down' \in [Conns -> Seq(CellTypes)] /\ down'[conn] = t
    BY <1>1, <1>7, <2>1
  <2>3. heard' \in [Conns -> Seq(Messages)]
    BY <1>1, <1>4, <1>7, AppendProperties
  <2> HIDE DEF t
  <2>4. << >> \o t = t
    BY <2>1, ConcatEmptySeq
  <2>5. Whole(pend' \o down'[conn])
    BY <1>7, <2>1, <2>2, <2>4
  <2>6. pend' \in Seq(CellTypes)
    <3>1. pend' = << >>
      BY <1>7
    <3> QED
      BY <3>1, EmptySeq
  <2> QED
    BY <1>1, <2>2, <2>3, <2>5, <2>6
<1> QED
  BY <1>5, <1>6, <1>7

(* The steps that leave the streams to the phone alone. *)
OffTalk ==
  \/ Stop \/ Callback \/ LoopHead \/ ListenFails \/ Sending \/ FrameEnter
  \/ FrameCopy \/ FramePopped \/ EncodeFails \/ DrainExpires \/ EngineStops
  \/ \E c \in Conns : Reader(c) \/ WriterEnds(c)

(* Those steps change nothing on the streams to the phone. *)
LEMMA OffTalkIs ==
  ASSUME OffTalk
  PROVE  /\ UNCHANGED <<heard, down, written, pend, broken>>
         /\ conn' \in {conn, 0}
         /\ (\A c \in Conns : ~ReadPacket(c)) => replies' = replies
<1>1. CASE \E c \in Conns : Reader(c) \/ WriterEnds(c)
  BY <1>1 DEF Reader, ReaderHead, ReadPacket, ReadTorn, ReadEnd, AbortServe, WriterEnds,
              phoneVars, streamVars
<1>2. CASE Sending
  BY <1>2 DEF Sending, SayHello, SayPong, FrameSend, SayBye, NetSends, serveVars
<1>3. CASE Stop
  BY <1>3 DEF Stop, StopSource, StopAsk, StopJoin, streamVars, serveVars
<1>4. CASE ~Stop /\ ~Sending /\ ~(\E c \in Conns : Reader(c) \/ WriterEnds(c))
  BY <1>4 DEF OffTalk, Callback, LoopHead, ListenFails, FrameEnter, FrameCopy,
     FramePopped, EncodeFails, DrainExpires, EngineStops, phoneVars, streamVars,
     serveVars
<1> QED
  BY <1>1, <1>2, <1>3, <1>4

(* An answer is queued only where there is room, and taken from the front. *)
LEMMA RepliesKept ==
  ASSUME SessionInv, Next
  PROVE  /\ replies' \in [Conns -> Seq(Messages)]
         /\ \A c \in Conns : Len(replies'[c]) \leq ReplyCap
<1>1. /\ replies \in [Conns -> Seq(Messages)]
      /\ \A c \in Conns : Len(replies[c]) \leq ReplyCap
  BY DEF SessionInv, TalkTyped
<1>2. ASSUME NEW c \in Conns, ReadPacket(c)
      PROVE  /\ replies' \in [Conns -> Seq(Messages)]
             /\ \A d \in Conns : Len(replies'[d]) \leq ReplyCap
  <2> DEFINE r == Reply(Head(up[c]).kind)
             q == replies[c]
  <2>1. r \in Seq(Messages) /\ q \in Seq(Messages)
    <3>1. r = <<"hello-ack">> \/ r = << >>
      BY DEF Reply
    <3>2. <<"hello-ack">> \in Seq(Messages) /\ << >> \in Seq(Messages)
      BY DEF Messages
    <3> QED
      BY <1>1, <3>1, <3>2
  <2>2. \/ replies' = replies
        \/ replies' = [replies EXCEPT ![c] = q \o r] /\ Len(q) + Len(r) \leq ReplyCap
    <3> DEFINE room == Len(q) + Len(r) <= ReplyCap
    <3>1. replies' = IF room THEN [replies EXCEPT ![c] = q \o r] ELSE replies
      BY <1>2, Zenon DEF ReadPacket
    <3> HIDE DEF room, r, q
    <3>2. \/ replies' = replies
          \/ replies' = [replies EXCEPT ![c] = q \o r] /\ room
      BY <3>1, Zenon
    <3> QED
      BY <3>2 DEF room
  <2> HIDE DEF r
  <2>3. q \o r \in Seq(Messages) /\ Len(q \o r) = Len(q) + Len(r)
    BY <2>1, ConcatProperties
  <2> HIDE DEF q
  <2>4. CASE replies' = [replies EXCEPT ![c] = q \o r] /\ Len(q) + Len(r) \leq ReplyCap
    <3>1. replies' \in [Conns -> Seq(Messages)]
      BY <1>1, <2>3, <2>4
    <3>2. ASSUME NEW d \in Conns PROVE Len(replies'[d]) \leq ReplyCap
      BY <1>1, <2>3, <2>4
    <3> QED
      BY <3>1, <3>2
  <2> QED
    BY <1>1, <2>2, <2>4
<1>3. ASSUME NEW c \in Conns, WriterReply(c)
      PROVE  /\ replies' \in [Conns -> Seq(Messages)]
             /\ \A d \in Conns : Len(replies'[d]) \leq ReplyCap
  <2> DEFINE q == replies[c]
  <2>1. q \in Seq(Messages) /\ q # << >> /\ Len(q) \leq ReplyCap /\ Len(q) \in Nat
    BY <1>1, <1>3 DEF WriterReply
  <2>2. replies' = [replies EXCEPT ![c] = Tail(q)]
    BY <1>3 DEF WriterReply
  <2>3. Tail(q) \in Seq(Messages) /\ Len(Tail(q)) = Len(q) - 1
    BY <2>1, HeadTailProperties
  <2> HIDE DEF q
  <2>4. Len(Tail(q)) \leq ReplyCap
    BY <2>1, <2>3, Limits
  <2> QED
    BY <1>1, <2>2, <2>3, <2>4
<1>4. CASE UNCHANGED replies
  BY <1>1, <1>4
<1>5. CASE OffTalk
  BY <1>2, <1>4, <1>5, OffTalkIs
<1>6. CASE Connecting \/ Listen
  BY <1>4, <1>6, ConnectingIs DEF Listen, serveVars
<1>7. ASSUME NEW c \in Conns, Break(c) \/ WriterTick(c)
      PROVE  UNCHANGED replies
  BY <1>7 DEF Break, WriterTick, serveVars
<1> QED
  BY <1>3, <1>4, <1>5, <1>6, <1>7
     DEF Next, NetworkLoop, OffTalk, Connecting, Sending, Writer

(* Messages keep their types, and each the whole of its cells: the phone has
   taken the front of what was written. *)
LEMMA TalkKept ==
  ASSUME SessionInv, Next
  PROVE  TalkTyped' /\ MessagesWhole'
<1>1. /\ TalkTyped /\ MessagesWhole /\ used \in 0 .. MaxConns /\ Unused
      /\ broken \in [Conns -> BOOLEAN]
  BY DEF SessionInv, PhoneTyped, ServeTyped
<1>2. /\ replies' \in [Conns -> Seq(Messages)]
      /\ \A c \in Conns : Len(replies'[c]) \leq ReplyCap
  BY RepliesKept
<1>3. CASE OffTalk
  <2>1. TalkTyped'
    BY <1>1, <1>2, <1>3, OffTalkIs DEF TalkTyped
  <2>2. MessagesWhole'
    BY <1>1, <1>3, OffTalkIs DEF MessagesWhole
  <2> QED
    BY <2>1, <2>2
<1>4. CASE Listen
  <2>1. /\ pend' \in Seq(CellTypes) /\ down' \in [Conns -> Seq(CellTypes)]
        /\ heard' \in [Conns -> Seq(Messages)]
        /\ Whole(pend' \o down'[conn])
        /\ UNCHANGED <<conn, broken, written>>
    BY <1>4, ListenTakes
  <2> QED
    BY <1>1, <1>2, <2>1 DEF TalkTyped, MessagesWhole
<1>5. CASE StartSession
  <2>1. /\ pend' = << >> /\ conn' = used' /\ used' = used + 1 /\ used' \in Conns
        /\ UNCHANGED <<heard, down, written, broken>>
    BY <1>5, ConnectingIs DEF StartSession, Connecting
  <2>2. down'[conn'] = << >>
    <3>1. used' > used
      BY <1>1, <2>1, Limits
    <3> QED
      BY <1>1, <2>1, <3>1 DEF Unused
  <2>3. Whole(pend' \o down'[conn'])
    <3>1. << >> \o << >> = << >>
      BY ConcatEmptySeq, EmptySeq
    <3> QED
      BY <2>1, <2>2, <3>1 DEF Whole
  <2> QED
    BY <1>1, <1>2, <2>1, <2>3 DEF TalkTyped, MessagesWhole
<1>6. CASE StartFails
  <2>1. UNCHANGED <<heard, down, written, broken, pend, conn>>
    BY <1>6 DEF StartFails, streamVars, serveVars
  <2> QED
    BY <1>1, <1>2, <2>1 DEF TalkTyped, MessagesWhole
<1>7. ASSUME NEW c \in Conns, Break(c) PROVE TalkTyped' /\ MessagesWhole'
  <2>1. /\ broken' = [broken EXCEPT ![c] = TRUE]
        /\ down' = [down EXCEPT ![c] = << >>]
        /\ UNCHANGED <<heard, pend, conn, written>>
    BY <1>7 DEF Break, phoneVars, serveVars
  <2>2. TalkTyped'
    BY <1>1, <1>2, <2>1 DEF TalkTyped
  <2>3. MessagesWhole'
    <3>1. CASE conn \in Conns
      BY <1>1, <2>1, <3>1 DEF MessagesWhole, TalkTyped
    <3>2. CASE conn \notin Conns
      <4>1. conn = 0
        <5>1. conn \in 0 .. used /\ used \in 0 .. MaxConns
          BY DEF SessionInv, PhoneTyped
        <5> QED
          BY <3>2, <5>1, Limits DEF Conns
      <4> QED
        BY <2>1, <4>1 DEF MessagesWhole
    <3> QED
      BY <3>1, <3>2
  <2> QED
    BY <2>2, <2>3
<1>8. ASSUME NEW c \in Conns, WriterTick(c) \/ WriterReply(c)
      PROVE  TalkTyped' /\ MessagesWhole'
  <2>1. UNCHANGED <<heard, pend, conn, broken>>
    BY <1>8, WritingIs DEF phoneVars
  <2>2. CASE UNCHANGED <<down, written>>
    BY <1>1, <1>2, <2>1, <2>2 DEF TalkTyped, MessagesWhole
  <2>3. ASSUME ~broken[c], c = conn, NEW msg \in Messages,
               down' = [down EXCEPT ![c] = down[c] \o Cells(msg)],
               written' = [written EXCEPT ![c] = Append(written[c], msg)]
        PROVE  TalkTyped' /\ MessagesWhole'
    <3> DEFINE d == down[c]
               m == Cells(msg)
    <3>1. /\ d \in Seq(CellTypes) /\ pend \in Seq(CellTypes)
          /\ written[c] \in Seq(Messages)
          /\ down \in [Conns -> Seq(CellTypes)] /\ written \in [Conns -> Seq(Messages)]
      BY <1>1 DEF TalkTyped
    <3>2. c # 0
      BY DEF Conns
    <3>3. Whole(pend \o d)
      BY <1>1, <2>3, <3>2 DEF MessagesWhole
    <3>4. m \in Seq(CellTypes)
      BY DEF Cells, CellTypes
    <3> HIDE DEF m
    <3>5. /\ pend \o d \in Seq(CellTypes) /\ d \o m \in Seq(CellTypes)
          /\ (pend \o d) \o m = pend \o (d \o m)
      BY <3>1, <3>4, ConcatProperties, ConcatAssociative
    <3>6. Whole((pend \o d) \o m)
      BY <3>3, <3>5, WholeMore DEF m
    <3>7. down'[c] = d \o m /\ down' \in [Conns -> Seq(CellTypes)]
      BY <2>3, <3>1, <3>5 DEF m
    <3>8. written' \in [Conns -> Seq(Messages)]
      BY <2>3, <3>1, AppendProperties
    <3>9. TalkTyped'
      BY <1>1, <1>2, <2>1, <3>7, <3>8 DEF TalkTyped
    <3>10. MessagesWhole'
      BY <2>1, <2>3, <3>5, <3>6, <3>7 DEF MessagesWhole
    <3> QED
      BY <3>9, <3>10
  <2> QED
    BY <1>8, <2>2, <2>3, WritingIs
<1> QED
  BY <1>3, <1>4, <1>5, <1>6, <1>7, <1>8
     DEF Next, NetworkLoop, OffTalk, Sending, Writer

-----------------------------------------------------------------------------
(* The invariant.                                                           *)

(* The invariant holds at the start, *)
LEMMA SessionInit == Init => SessionInv
<1> SUFFICES ASSUME Init PROVE SessionInv
  OBVIOUS
<1>1. CaptureInv
  BY EmptyRingIs DEF Init
<1>2. /\ budget \in Budgets
      /\ conn = 0 /\ used = 0 /\ source = FALSE /\ net = "off" /\ stop = FALSE
      /\ number = 0 /\ polled = 0 /\ pend = << >> /\ late = FALSE
      /\ stalled = {}
      /\ heard = [c \in Conns |-> << >>] /\ up = [c \in Conns |-> << >>]
      /\ down = [c \in Conns |-> << >>] /\ broken = [c \in Conns |-> FALSE]
      /\ reader = [c \in Conns |-> "none"] /\ writer = [c \in Conns |-> "none"]
      /\ replies = [c \in Conns |-> << >>] /\ written = [c \in Conns |-> << >>]
      /\ tracker = NewTracker /\ lost = 0 /\ from = 0
      /\ popping = 0
  BY Zenon DEF Init, EmptyRing
<1>3. owed = "" /\ owed \in {"", "pong", "audio"}
  BY Zenon DEF Init
<1>4. PhoneTyped
  <2>1. number \in Numbers /\ polled \in 0 .. DrainMax
    BY <1>2, WordAssumption, Limits DEF Numbers
  <2>2. used \in 0 .. MaxConns /\ conn \in 0 .. used
    BY <1>2, Limits
  <2>3. /\ source \in BOOLEAN /\ stop \in BOOLEAN /\ late \in BOOLEAN
        /\ net \in {"off", "hello", "head", "listen", "frame", "drain", "bye", "done"}
    BY <1>2
  <2> QED
    BY <1>2, <1>3, <2>1, <2>2, <2>3, Zenon DEF PhoneTyped
<1>5. ServeTyped
  <2>1. tracker \in Trackers /\ lost \in Nat /\ from \in 0 .. used
    BY <1>2, WordAssumption DEF NewTracker, Trackers, Numbers
  <2>2. /\ up \in [Conns -> Seq(Packets)]
        /\ \A c \in Conns : Len(up[c]) \leq Window + 2
    BY <1>2, Limits
  <2> QED
    BY <1>2, <2>1, <2>2 DEF ServeTyped
<1>6. TalkTyped
  BY <1>2, Limits DEF TalkTyped
<1>7. Thread
  <2>1. /\ owed # "pong" /\ owed # "audio"
    BY <1>3
  <2> QED
    BY <1>2, <2>1, Zenon DEF Thread
<1>8. Stopping
  BY DEF Init, Stopping, EmptyRing
<1>9. Unused
  BY <1>2 DEF Unused
<1>10. Untorn
  BY <1>2 DEF Untorn
<1>11. Consecutive
  BY <1>2 DEF Consecutive
<1>12. MessagesWhole
  BY <1>2 DEF MessagesWhole
<1> QED
  BY <1>1, <1>4, <1>5, <1>8, <1>9, <1>10, <1>11, <1>12, <1>6, <1>7 DEF SessionInv

(* ... when nothing happens, *)
LEMMA SessionRests ==
  ASSUME SessionInv, UNCHANGED vars
  PROVE  SessionInv'
<1>1. /\ UNCHANGED <<ringVars, heard, stalled, up, down, broken, reader, writer, replies,
                     written, tracker, lost, from, conn, used, source, net, stop,
                     number, polled, owed, pend, late, budget>>
  BY DEF vars, phoneVars, streamVars, serveVars, ingestVars
<1>2. CaptureInv'
  BY <1>1, RingRests DEF SessionInv
<1>3. PhoneTyped' /\ ServeTyped' /\ TalkTyped'
  BY <1>1 DEF SessionInv, PhoneTyped, ServeTyped, TalkTyped
<1>4. Thread' /\ Stopping'
  BY <1>1 DEF SessionInv, Thread, Stopping, Available, ringVars, producerVars,
     consumerVars
<1>5. Unused' /\ Untorn' /\ Consecutive' /\ MessagesWhole'
  BY <1>1 DEF SessionInv, Unused, Untorn, Consecutive, MessagesWhole, Gone, Served
<1> QED
  BY <1>2, <1>3, <1>4, <1>5 DEF SessionInv

(* ... and after every step. *)
LEMMA SessionIsKept ==
  ASSUME SessionInv, [Next]_vars
  PROVE  SessionInv'
<1>1. CASE Next
  <2>1. CaptureInv' /\ PhoneTyped' /\ ServeTyped'
    BY <1>1, CaptureKept, PhoneKept, ServeKept
  <2>2. TalkTyped' /\ MessagesWhole'
    BY <1>1, TalkKept
  <2>3. Thread' /\ Stopping' /\ Unused' /\ Untorn' /\ Consecutive'
    BY <1>1, ThreadKept, StoppingKept, UnusedKept, UntornKept, ConsecutiveKept
  <2> QED
    BY <2>1, <2>2, <2>3 DEF SessionInv
<1> QED
  BY <1>1, SessionRests

(* It holds in every state of every behaviour. *)
LEMMA SessionAlways == Spec => []SessionInv
BY SessionInit, SessionIsKept, PTL DEF Spec

(* It implies the ring's types, *)
LEMMA RingIsTyped == ASSUME CaptureInv PROVE RingTypeOK
<1>1. RingTyped
  BY DEF CaptureInv
<1>2. Len(frame) \in {0, Frame} /\ head - tail < Capacity
  BY <1>1, RingSize DEF RingTyped
<1> QED
  BY <1>1, <1>2 DEF RingTyped, RingTypeOK

(* ... and the session's. *)
LEMMA SessionIsTyped == ASSUME SessionInv PROVE TypeOK
<1>1. RingTypeOK
  BY RingIsTyped DEF SessionInv
<1>2. /\ PhoneTyped /\ ServeTyped /\ TalkTyped
      /\ used \in 0 .. MaxConns /\ conn \in 0 .. used /\ from \in 0 .. used
  BY DEF SessionInv, PhoneTyped, ServeTyped
<1>3. /\ conn \in Conns \cup {0} /\ used \in Conns \cup {0}
      /\ from \in Conns \cup {0}
  BY <1>2, Limits DEF Conns
<1>4. (conn = 0) = (net = "off")
  BY <1>2, Zenon DEF PhoneTyped
<1>5. ASSUME NEW c \in Conns
      PROVE  /\ up[c] \in Seq([kind : {"hello", "pong", "audio", "bye", "torn"}, seq : Numbers])
             /\ Len(up[c]) <= Window + 2 /\ Len(replies[c]) <= ReplyCap
             /\ \A s \in {written[c], heard[c]} : s \in Seq(Messages)
             /\ reader[c] \in {"none", "head", "read", "ended"}
             /\ writer[c] \in {"none", "on", "done"}
  BY <1>2 DEF ServeTyped, TalkTyped, Packets
<1>6. /\ source \in BOOLEAN /\ stop \in BOOLEAN /\ late \in BOOLEAN
      /\ owed \in {"", "pong", "audio"}
      /\ net \in {"off", "hello", "head", "listen", "frame", "drain", "bye", "done"}
      /\ number \in Numbers /\ polled \in 0 .. DrainMax
      /\ tracker \in Trackers /\ lost \in Nat /\ stalled \subseteq Conns
  BY <1>2, Zenon DEF PhoneTyped, ServeTyped
<1> QED
  BY <1>1, <1>3, <1>4, <1>5, <1>6, Zenon DEF TypeOK

(* The bytes popped, and those between the indices, are the bytes accepted. *)
LEMMA RingIsWhole == ASSUME CaptureInv PROVE RingIsAQueue
<1> DEFINE rest == [i \in 1 .. head - tail |-> data[Index(tail + i - 1)]]
<1>1. /\ head \in Nat /\ tail \in Nat /\ tail \leq head
      /\ data \in [0 .. Capacity - 1 -> Bytes]
      /\ accepted \in Seq(Bytes) /\ Len(accepted) = head
      /\ popped \in Seq(Bytes) /\ Len(popped) = tail
  BY DEF CaptureInv, RingTyped
<1> DEFINE n == head - tail
<1>2. n \in Nat /\ tail + n = head
  BY <1>1
<1>3. ASSUME NEW i \in 1 .. n
      PROVE  /\ data[Index(tail + i - 1)] \in Bytes
             /\ data[Index(tail + i - 1)] = accepted[tail + i]
  <2>1. /\ tail + i - 1 \in tail .. head - 1 /\ tail + i - 1 \in Nat
        /\ (tail + i - 1) + 1 = tail + i
    BY <1>1
  <2>2. Index(tail + i - 1) \in 0 .. Capacity - 1
    BY <2>1, CellOfIndex
  <2> QED
    BY <1>1, <2>1, <2>2 DEF CaptureInv, BytesWait
<1>4. /\ rest \in Seq(Bytes) /\ Len(rest) = n
      /\ \A i \in 1 .. n : rest[i] = accepted[tail + i]
  BY <1>2, <1>3
<1> HIDE DEF rest, n
<1> DEFINE all == popped \o rest
<1>5. /\ all \in Seq(Bytes) /\ Len(all) = tail + n
      /\ \A i \in 1 .. tail + n :
           all[i] = IF i \leq tail THEN popped[i] ELSE rest[i - tail]
  BY <1>1, <1>4, ConcatProperties
<1>6. \A i \in 1 .. tail : popped[i] = accepted[i]
  BY DEF CaptureInv, BytesPopped
<1> HIDE DEF all
<1>7. Len(all) = Len(accepted)
  BY <1>1, <1>2, <1>5
<1>8. ASSUME NEW i \in 1 .. head PROVE all[i] = accepted[i]
  <2>1. i \in 1 .. tail + n
    BY <1>2
  <2>2. CASE i \leq tail
    BY <1>1, <1>5, <1>6, <2>1, <2>2
  <2>3. CASE ~(i \leq tail)
    <3>1. i - tail \in 1 .. n /\ tail + (i - tail) = i
      BY <1>1, <1>2, <2>3
    <3> QED
      BY <1>4, <1>5, <2>1, <2>3, <3>1
  <2> QED
    BY <2>2, <2>3
<1>9. all = accepted
  BY <1>1, <1>5, <1>7, <1>8, SeqEqual
<1> QED
  BY <1>9 DEF RingIsAQueue, all, rest

-----------------------------------------------------------------------------
(* The theorems.                                                            *)

(* Every reachable state of a session, on both ends of its stream, is of the
   types the module declares. *)
THEOREM TypeCorrect == Spec => []TypeOK
BY SessionAlways, SessionIsTyped, PTL

(* Whatever the audio callback and the network thread do between each other's
   loads, copies and stores, what was popped of the phone's ring and what
   waits in it are the bytes of the accepted blocks, in order (ring_buffer.cpp,
   Push and Pop). *)
THEOREM RingHoldsWholeBlocks == Spec => []RingIsAQueue
<1>1. SessionInv => RingIsAQueue
  BY RingIsWhole DEF SessionInv
<1> QED
  BY <1>1, SessionAlways, PTL

(* With a drain that meets its deadline no whole frame is left in the ring
   once the bye is out, and no callback is under way (capture_pipeline.cpp,
   Stop and the end of NetworkLoop). *)
THEOREM StopLosesNothing == Spec => []DrainedBeforeBye
<1>1. SessionInv => DrainedBeforeBye
  BY DEF SessionInv, Stopping, DrainedBeforeBye
<1> QED
  BY <1>1, SessionAlways, PTL

(* The receiver counts a loss on a stream only with a packet of another
   connection than the last one's, or where a send of the phone's ran into its
   timeout: within any other connection every number follows the one before
   it. *)
THEOREM NoFalseLoss == Spec => LossOnlyAtReconnect
<1>1. SessionInv /\ [Next]_vars => 
        (lost' # lost => from' # from \/ from' \in stalled)
  <2>1. UNCHANGED vars => lost' = lost
    BY DEF vars, ingestVars
  <2> QED
    BY <2>1, LossStep
<1>2. SessionInv /\ [Next]_vars => 
        [lost' # lost => from' # from \/ from' \in stalled]_vars
  BY <1>1
<1> QED
  BY <1>2, SessionAlways, PTL DEF Spec, LossOnlyAtReconnect
=============================================================================
