--------------------------- MODULE LoopbackProofs ---------------------------
(***************************************************************************)
(* Theorems about the interop tool: the proxy as it drives it (Loopback    *)
(* over Proxy), the framing (Loopback over Framing), and its verdict.      *)
(*                                                                         *)
(* The proxy: delayed datagrams leave in the order of their deadlines,     *)
(* ties in the order they were sent in, and none overstays its deadline.   *)
(* ProxyInv is the inductive invariant.  FeedInOrder and QueueInOrder tie  *)
(* an entry's place of insertion to its datagram's number, which is lower  *)
(* than those of all datagrams that the forwarder has not taken (Ahead).   *)
(* OutInOrder puts what has left before all that is queued: what is        *)
(* released is due, what comes later is due later or was sent later.       *)
(* Tally is the arithmetic of the counters, Armed the sleep's deadline.    *)
(*                                                                         *)
(* The framing: next_packet returns what was sent, to the byte.            *)
(* FramingInv is the inductive invariant.  It remembers the whole stream w *)
(* and says of each of its cells whose it is (Laid), how many of them the  *)
(* framer is through with (Unread), and where among the packets and the    *)
(* noise that place may be in each of the framer's states (Stands).        *)
(*                                                                         *)
(* The verdict: recv exits with 0 exactly when all that was sent, and      *)
(* nothing else, came through in order.  PathInv says of every datagram    *)
(* on the way which packet it is, and that only jitter30 makes copies or   *)
(* overtakes; ArrivedInv traces each packet that the verifier was given    *)
(* to its place on the wire or in the framer's output; CountInv reads the  *)
(* counters back: no event was counted if and only if the wrapped numbers  *)
(* 0, 1, 2, ... arrived.                                                   *)
(***************************************************************************)
EXTENDS Loopback, Integers, FiniteSetTheorems, SequenceTheorems, TLAPS

-----------------------------------------------------------------------------
(* The wire.                                                                *)

(* What the test tools write: packets of numbers. *)
Packets == [kind : Kinds, seq : Nat, payload : Seq(Nat)]

(* A remainder is a number below the divisor. *)
LEMMA Remainder ==
  ASSUME NEW a \in Nat, NEW m \in Nat, m > 0
  PROVE  a % m \in 0 .. m - 1
OBVIOUS

(* A number below the divisor is its own remainder. *)
LEMMA SmallRemainder ==
  ASSUME NEW a \in Nat, NEW m \in Nat, a < m
  PROVE  a % m = a
OBVIOUS

(* The kinds have tags of their own, none of which is reserved. *)
LEMMA TagIs ==
  ASSUME NEW k \in Kinds
  PROVE  Tag[k] \in Nat /\ ~Reserved(Tag[k]) /\ KindOf(Tag[k]) = k
<1>1. Tag["pcm"] = 0 /\ Tag["opus"] = 1 /\ Tag["control"] = 2
  BY DEF Tag, Kinds
<1>2. \A j \in Kinds : Tag[j] = Tag[k] <=> j = k
  BY <1>1 DEF Kinds
<1>3. KindOf(Tag[k]) = k
  BY <1>2 DEF KindOf
<1> QED
  BY <1>1, <1>3 DEF Kinds, Reserved

(* A packet is encoded into numbers, whatever its length. *)
LEMMA EncodedIs ==
  ASSUME NEW p \in Packets
  PROVE  Encode(p) \in Seq(Nat)
<1> DEFINE h == <<MAGIC, Tag[p.kind], p.seq, Len(p.payload) % LenWord>>
<1>1. /\ p.kind \in Kinds /\ p.seq \in Nat /\ p.payload \in Seq(Nat)
      /\ Len(p.payload) \in Nat
  BY DEF Packets
<1>2. Tag[p.kind] \in Nat
  BY <1>1, TagIs
<1>3. Len(p.payload) % LenWord \in Nat
  <2> DEFINE m == Len(p.payload)
  <2>1. m \in Nat
    BY <1>1
  <2> HIDE DEF m
  <2>2. m % LenWord \in Nat
    BY <2>1, Remainder, WireAssumption
  <2> QED
    BY <2>2 DEF m
<1>4. h \in Seq(Nat)
  BY <1>1, <1>2, <1>3 DEF MAGIC
<1>5. Encode(p) = h \o p.payload
  BY DEF Encode
<1> HIDE DEF h
<1> QED
  BY <1>1, <1>4, <1>5, ConcatProperties

(* A packet on the wire: its header, then its payload. *)
LEMMA EncodeIs ==
  ASSUME NEW p \in Packets, Len(p.payload) < LenWord
  PROVE  /\ Encode(p) \in Seq(Nat) /\ Len(Encode(p)) = HEADER_LEN + Len(p.payload)
         /\ Encode(p)[1] = MAGIC /\ Encode(p)[2] = Tag[p.kind]
         /\ Encode(p)[3] = p.seq /\ Encode(p)[4] = Len(p.payload)
         /\ \A i \in 1 .. Len(p.payload) : Encode(p)[HEADER_LEN + i] = p.payload[i]
<1> DEFINE h == <<MAGIC, Tag[p.kind], p.seq, Len(p.payload) % LenWord>>
<1>1. /\ p.kind \in Kinds /\ p.seq \in Nat /\ p.payload \in Seq(Nat)
      /\ Len(p.payload) \in Nat
  BY DEF Packets
<1>2. Tag[p.kind] \in Nat
  BY <1>1, TagIs
<1>3. Len(p.payload) % LenWord = Len(p.payload)
  BY <1>1, SmallRemainder, WireAssumption
<1>4. /\ h \in Seq(Nat) /\ Len(h) = 4
      /\ h[1] = MAGIC /\ h[2] = Tag[p.kind] /\ h[3] = p.seq /\ h[4] = Len(p.payload)
  BY <1>1, <1>2, <1>3 DEF MAGIC
<1>5. Encode(p) = h \o p.payload
  BY DEF Encode
<1> HIDE DEF h
<1>6. /\ Encode(p) \in Seq(Nat) /\ Len(Encode(p)) = 4 + Len(p.payload)
      /\ \A i \in 1 .. 4 + Len(p.payload) :
           Encode(p)[i] = IF i \leq 4 THEN h[i] ELSE p.payload[i - 4]
  <2> DEFINE q == p.payload
  <2>1. q \in Seq(Nat) /\ Encode(p) = h \o q /\ h \in Seq(Nat)
    BY <1>1, <1>4, <1>5
  <2> HIDE DEF q
  <2>2. /\ h \o q \in Seq(Nat) /\ Len(h \o q) = Len(h) + Len(q)
        /\ \A i \in 1 .. Len(h) + Len(q) :
             (h \o q)[i] = IF i \leq Len(h) THEN h[i] ELSE q[i - Len(h)]
    BY <2>1, ConcatProperties
  <2>3. /\ Encode(p) \in Seq(Nat) /\ Len(Encode(p)) = 4 + Len(q)
        /\ \A i \in 1 .. 4 + Len(q) :
             Encode(p)[i] = IF i \leq 4 THEN h[i] ELSE q[i - 4]
    BY <1>4, <2>1, <2>2
  <2> QED
    BY <2>3 DEF q
<1>7. \A i \in 1 .. Len(p.payload) :
        /\ 4 + i \in 1 .. 4 + Len(p.payload) /\ ~(4 + i \leq 4) /\ (4 + i) - 4 = i
  BY <1>1
<1>8. \A i \in 1 .. Len(p.payload) : Encode(p)[4 + i] = p.payload[i]
  BY <1>6, <1>7
<1>9. \A i \in 1 .. 4 : i \in 1 .. 4 + Len(p.payload) /\ Encode(p)[i] = h[i]
  BY <1>1, <1>6
<1> QED
  BY <1>4, <1>6, <1>8, <1>9 DEF HEADER_LEN

(* The tools' packets are packets of numbers. *)
LEMMA TestPacketIs ==
  ASSUME size \in Nat, NEW n \in Nat
  PROVE  TestPacket(n) \in Packets
<1> DEFINE seq == n % SeqWord
<1>1. seq \in Nat
  BY Remainder, WireAssumption
<1> HIDE DEF seq
<1>2. TestPacket(n) = [kind |-> KindOfNumber(seq), seq |-> seq,
                       payload |-> Filler(seq, size)]
  BY DEF TestPacket, seq
<1>3. KindOfNumber(seq) \in Kinds
  BY DEF KindOfNumber, Kinds
<1>4. Filler(seq, size) \in Seq(Nat)
  <2>1. ASSUME NEW i \in 1 .. size
        PROVE  (seq * (i + MAGIC - 1)) % Byte \in Nat
    <3> DEFINE m == seq * (i + MAGIC - 1)
    <3>1. i + MAGIC - 1 \in Nat
      BY DEF MAGIC
    <3>2. m \in Nat
      BY <1>1, <3>1
    <3> HIDE DEF m
    <3>3. m % Byte \in Nat
      BY <3>2, Remainder, WireAssumption
    <3> QED
      BY <3>3 DEF m
  <2>2. Filler(seq, size) \in [1 .. size -> Nat]
    BY <2>1 DEF Filler
  <2> QED
    BY <2>2
<1> QED
  BY <1>1, <1>2, <1>3, <1>4 DEF Packets

-----------------------------------------------------------------------------
(* The proxy's invariant.                                                   *)

(* What the datagrams, the delay queue and what was sent hold. *)
Items == [n : Nat, cells : Seq(Nat)]
Entries == [deadline : Nat, seq : Nat, item : Items]
Departures == [item : Items, delayed : BOOLEAN, deadline : Nat, at : Nat]

ProxyTyped ==
  /\ profile \in Profiles /\ proxy \in {"select", "done"}
  /\ now \in Nat /\ nextSeq \in Nat /\ next \in Nat
  /\ size \in Nat
  /\ socket \in Seq(Items) /\ channel \in Seq(Items)
  /\ queue \in SUBSET Entries /\ IsFiniteSet(queue)
  /\ out \in Seq(Departures)
  /\ stats \in [forwarded : Nat, dropped : Nat, duplicated : Nat, delayed : Nat]

(* The numbers of the datagrams that the forwarder has not taken, or that are
   not sent yet. *)
Ahead ==
  {channel[i].n : i \in 1 .. Len(channel)} \cup {socket[i].n : i \in 1 .. Len(socket)}
    \cup {n \in Nat : n \geq next}

(* They come to the forwarder in the order they were sent in. *)
FeedInOrder ==
  /\ \A i, j \in 1 .. Len(channel) : i < j => channel[i].n < channel[j].n
  /\ \A i, j \in 1 .. Len(socket) : i < j => socket[i].n < socket[j].n
  /\ \A i \in 1 .. Len(channel), j \in 1 .. Len(socket) : channel[i].n < socket[j].n
  /\ \A i \in 1 .. Len(channel) : channel[i].n < next
  /\ \A i \in 1 .. Len(socket) : socket[i].n < next

(* Entries are told apart by their place of insertion, which is that of their
   datagrams. *)
QueueInOrder ==
  /\ \A e \in queue : e.seq \leq nextSeq
  /\ \A e \in queue : \A n \in Ahead : e.item.n < n
  /\ \A e, f \in queue : e # f => e.seq # f.seq
  /\ \A e, f \in queue : e.seq < f.seq => e.item.n < f.item.n

(* a leaves before b: the deadline, then the order they were sent in. *)
InTurn(a, b) ==
  \/ a.deadline < b.deadline
  \/ a.deadline = b.deadline /\ a.item.n < b.item.n

OutInOrder ==
  /\ \A i \in 1 .. Len(out) : out[i].delayed =>
       /\ out[i].deadline \leq out[i].at /\ out[i].at \leq now
       /\ \A n \in Ahead : out[i].item.n < n
       /\ \A e \in queue : InTurn(out[i], e)
  /\ \A i, j \in 1 .. Len(out) :
       i < j /\ out[i].delayed /\ out[j].delayed => InTurn(out[i], out[j])

Tally ==
  /\ stats.forwarded = Len(out)
  /\ profile = "jitter30" =>
       stats.delayed + stats.duplicated = Len(out) + Cardinality(queue)

Armed == proxy = "select" => sched = HeadDeadline(queue)

ProxyInv ==
  ProxyTyped /\ FeedInOrder /\ QueueInOrder /\ OutInOrder /\ Tally /\ Armed

-----------------------------------------------------------------------------
(* The order of the delay queue.                                            *)

(* Entries that no two of are inserted together. *)
Distinct(S) ==
  /\ S \in SUBSET Entries /\ IsFiniteSet(S)
  /\ \A e, f \in S : e # f => e.seq # f.seq

(* How many entries come before one. *)
Earlier(S, e) == {f \in S : Before(f, e)}
Place(S, e) == Cardinality(Earlier(S, e))

(* Fewer entries come before one than there are, and none comes before the one
   in the lowest place. *)
LEMMA EarlierIs ==
  ASSUME NEW S, Distinct(S), NEW e \in S
  PROVE  /\ IsFiniteSet(Earlier(S, e)) /\ Place(S, e) \in Nat
         /\ Place(S, e) < Cardinality(S)
         /\ Place(S, e) = 0 => \A f \in S : e.deadline \leq f.deadline
<1>1. IsFiniteSet(S) /\ Earlier(S, e) \in SUBSET S /\ e.deadline \in Nat /\ e.seq \in Nat
  BY DEF Distinct, Earlier, Entries
<1>2. e \notin Earlier(S, e)
  BY <1>1 DEF Earlier, Before
<1>3. Earlier(S, e) # S
  BY <1>2
<1>4. /\ IsFiniteSet(Earlier(S, e)) /\ Place(S, e) \leq Cardinality(S)
      /\ Cardinality(S) # Place(S, e)
  BY <1>1, <1>3, FS_Subset DEF Place
<1>5. Place(S, e) \in Nat /\ Cardinality(S) \in Nat
  BY <1>1, <1>4, FS_CardinalityType DEF Place
<1>6. ASSUME Place(S, e) = 0, NEW f \in S
      PROVE  e.deadline \leq f.deadline
  <2>1. Earlier(S, e) = {}
    BY <1>4, <1>6, FS_EmptySet DEF Place
  <2>2. ~Before(f, e)
    BY <2>1 DEF Earlier
  <2>3. f.deadline \in Nat
    BY DEF Distinct, Entries
  <2> QED
    BY <1>1, <2>2, <2>3 DEF Before
<1> QED
  BY <1>4, <1>5, <1>6

(* Of two entries one comes first, and has the lower place. *)
LEMMA PlacesDiffer ==
  ASSUME NEW S, Distinct(S), NEW e \in S, NEW f \in S, e # f
  PROVE  /\ Before(e, f) \/ Before(f, e)
         /\ Before(e, f) => Place(S, e) < Place(S, f)
<1>1. /\ e.deadline \in Nat /\ e.seq \in Nat /\ f.deadline \in Nat /\ f.seq \in Nat
      /\ e.seq # f.seq
  BY DEF Distinct, Entries
<1>2. Before(e, f) \/ Before(f, e)
  BY <1>1 DEF Before
<1>3. ASSUME Before(e, f)
      PROVE  Place(S, e) < Place(S, f)
  <2>1. Earlier(S, e) \in SUBSET Earlier(S, f)
    <3> SUFFICES ASSUME NEW g \in S, Before(g, e)
                 PROVE  Before(g, f)
      BY DEF Earlier
    <3>1. g.deadline \in Nat /\ g.seq \in Nat
      BY DEF Distinct, Entries
    <3> QED
      BY <1>1, <1>3, <3>1 DEF Before
  <2>2. e \in Earlier(S, f) /\ e \notin Earlier(S, e)
    BY <1>1, <1>3 DEF Earlier, Before
  <2>3. IsFiniteSet(Earlier(S, f)) /\ Place(S, e) \in Nat /\ Place(S, f) \in Nat
    BY EarlierIs
  <2>4. Place(S, e) \leq Place(S, f) /\ Place(S, f) # Place(S, e)
    BY <2>1, <2>2, <2>3, FS_Subset DEF Place
  <2> QED
    BY <2>3, <2>4
<1> QED
  BY <1>2, <1>3

(* Each place is taken. *)
LEMMA PlacesTaken ==
  ASSUME NEW S, Distinct(S), NEW k \in 0 .. Cardinality(S) - 1
  PROVE  \E e \in S : Place(S, e) = k
<1> DEFINE n == Cardinality(S)
           T == 0 .. n - 1
           f == [e \in S |-> Place(S, e)]
<1>1. IsFiniteSet(S) /\ n \in Nat
  BY FS_CardinalityType DEF Distinct
<1>2. f \in [S -> T]
  BY <1>1, EarlierIs
<1>3. \A e, g \in S : e # g => f[e] # f[g]
  <2> SUFFICES ASSUME NEW e \in S, NEW g \in S, e # g
               PROVE  Place(S, e) # Place(S, g)
    OBVIOUS
  <2>1. Place(S, e) \in Nat /\ Place(S, g) \in Nat
    BY EarlierIs
  <2> QED
    BY <2>1, PlacesDiffer
<1>4. f \in Injection(S, T)
  BY <1>2, <1>3 DEF Injection, IsInjective
<1>5. IsFiniteSet(T) /\ Cardinality(T) = n
  <2>1. 0 \in Int /\ n - 1 \in Int
    BY <1>1
  <2>2. IsFiniteSet(T) /\ Cardinality(T) = IF 0 > n - 1 THEN 0 ELSE (n - 1) - 0 + 1
    BY <2>1, FS_Interval
  <2> HIDE DEF T
  <2> QED
    BY <1>1, <2>2
<1>6. f \in Surjection(S, T)
  BY <1>4, <1>5, FS_Injection
<1> QED
  BY <1>6 DEF Surjection

(* The heap gives out each of its entries, in their order. *)
LEMMA InOrderIs ==
  ASSUME NEW S, Distinct(S)
  PROVE  LET q == InOrder(S)
             n == Cardinality(S)
         IN  /\ n \in Nat /\ q \in [1 .. n -> S]
             /\ \A i, j \in 1 .. n : i < j => Before(q[i], q[j])
             /\ n > 0 => \A e \in S : q[1].deadline \leq e.deadline
<1> DEFINE q == InOrder(S)
           n == Cardinality(S)
<1>1. IsFiniteSet(S) /\ n \in Nat
  BY FS_CardinalityType DEF Distinct
<1>2. q = [i \in 1 .. n |-> CHOOSE e \in S : Place(S, e) = i - 1]
  BY DEF InOrder, Place, Earlier
<1> HIDE DEF q
<1>3. ASSUME NEW i \in 1 .. n
      PROVE  q[i] \in S /\ Place(S, q[i]) = i - 1
  <2>1. i - 1 \in 0 .. n - 1
    BY <1>1
  <2>2. \E e \in S : Place(S, e) = i - 1
    BY <2>1, PlacesTaken
  <2>3. q[i] = CHOOSE e \in S : Place(S, e) = i - 1
    BY <1>2
  <2> QED
    BY <2>2, <2>3
<1> HIDE DEF n
<1>4. q \in [1 .. n -> S]
  BY <1>2, <1>3
<1>5. ASSUME NEW i \in 1 .. n, NEW j \in 1 .. n, i < j
      PROVE  Before(q[i], q[j])
  <2>1. /\ q[i] \in S /\ q[j] \in S
        /\ Place(S, q[i]) = i - 1 /\ Place(S, q[j]) = j - 1
    BY <1>3
  <2>2. q[i] # q[j]
    BY <1>1, <1>5, <2>1
  <2>3. Before(q[j], q[i]) => Place(S, q[j]) < Place(S, q[i])
    BY <2>1, <2>2, PlacesDiffer
  <2>4. Before(q[i], q[j]) \/ Before(q[j], q[i])
    BY <2>1, <2>2, PlacesDiffer
  <2> QED
    BY <1>1, <1>5, <2>1, <2>3, <2>4
<1>6. ASSUME n > 0, NEW e \in S
      PROVE  q[1].deadline \leq e.deadline
  <2>1. q[1] \in S /\ Place(S, q[1]) = 0
    BY <1>1, <1>3, <1>6
  <2> QED
    BY <2>1, EarlierIs
<1> QED
  BY <1>1, <1>4, <1>5, <1>6 DEF q, n

-----------------------------------------------------------------------------
(* The datagrams on their way to the forwarder.                             *)

(* What the steps do to the way to the forwarder. *)
Posts == /\ \E c \in Seq(Nat) : socket' = Append(socket, [n |-> next, cells |-> c])
         /\ channel' = channel /\ next' = next + 1
Moves == /\ socket # << >> /\ channel' = Append(channel, Head(socket))
         /\ socket' = Tail(socket) /\ next' = next
Takes == /\ channel # << >> /\ channel' = Tail(channel)
         /\ UNCHANGED <<socket, next>>
Skips == UNCHANGED <<socket, channel>> /\ next' \in {next, next + 1}

(* Each of them keeps the order; what is taken was the first still ahead. *)
LEMMA FeedSteps ==
  ASSUME ProxyTyped, FeedInOrder, Posts \/ Moves \/ Takes \/ Skips
  PROVE  /\ socket' \in Seq(Items) /\ channel' \in Seq(Items) /\ next' \in Nat
         /\ FeedInOrder' /\ Ahead' \subseteq Ahead
         /\ Takes => /\ Head(channel) \in Items /\ Head(channel).n \in Ahead
                     /\ \A n \in Ahead' : Head(channel).n < n
<1>1. /\ socket \in Seq(Items) /\ channel \in Seq(Items) /\ next \in Nat
      /\ Len(socket) \in Nat /\ Len(channel) \in Nat
  BY DEF ProxyTyped
<1>2. /\ \A i \in 1 .. Len(socket) : socket[i] \in Items /\ socket[i].n \in Nat
      /\ \A i \in 1 .. Len(channel) : channel[i] \in Items /\ channel[i].n \in Nat
  <2>1. /\ \A i \in 1 .. Len(socket) : socket[i] \in Items
        /\ \A i \in 1 .. Len(channel) : channel[i] \in Items
    BY <1>1, ElementOfSeq
  <2>2. \A x \in Items : x.n \in Nat
    BY DEF Items
  <2> QED
    BY <2>1, <2>2
<1>3. CASE Posts
  <2>1. PICK c \in Seq(Nat) : socket' = Append(socket, [n |-> next, cells |-> c])
    BY <1>3 DEF Posts
  <2> DEFINE x == [n |-> next, cells |-> c]
  <2>2. x \in Items /\ x.n = next /\ socket' = Append(socket, x)
    BY <1>1, <2>1 DEF Items
  <2> HIDE DEF x
  <2>3. /\ socket' \in Seq(Items) /\ Len(socket') = Len(socket) + 1
        /\ \A i \in 1 .. Len(socket) : socket'[i] = socket[i]
        /\ socket'[Len(socket) + 1] = x
    BY <1>1, <2>2, AppendProperties
  <2>4. channel' = channel /\ next' = next + 1
    BY <1>3 DEF Posts
  <2>5. \A i \in 1 .. Len(socket') : i \in 1 .. Len(socket) \/ i = Len(socket) + 1
    BY <1>1, <2>3
  <2>6. \A i \in 1 .. Len(socket) : i # Len(socket) + 1 /\ i < Len(socket) + 1
    BY <1>1
  <2>7. FeedInOrder'
    BY <1>1, <1>2, <2>2, <2>3, <2>4, <2>5, <2>6 DEF FeedInOrder
  <2>8. Ahead' \subseteq Ahead
    BY <1>1, <1>2, <2>2, <2>3, <2>4, <2>5 DEF Ahead
  <2>9. ~Takes
    BY <1>1, <2>4 DEF Takes
  <2> QED
    BY <1>1, <2>3, <2>4, <2>7, <2>8, <2>9
<1>4. CASE Moves
  <2> DEFINE x == Head(socket)
  <2>1. /\ x = socket[1] /\ x \in Items /\ Len(socket) \geq 1
        /\ Len(socket') = Len(socket) - 1 /\ socket' \in Seq(Items)
        /\ \A i \in 1 .. Len(socket') : socket'[i] = socket[i + 1]
    BY <1>1, <1>4, HeadTailProperties, EmptySeq DEF Moves
  <2>2. channel' = Append(channel, x) /\ next' = next
    BY <1>4 DEF Moves
  <2> HIDE DEF x
  <2>3. /\ channel' \in Seq(Items) /\ Len(channel') = Len(channel) + 1
        /\ \A i \in 1 .. Len(channel) : channel'[i] = channel[i]
        /\ channel'[Len(channel) + 1] = x
    BY <1>1, <2>1, <2>2, AppendProperties
  <2>4. /\ \A i \in 1 .. Len(channel') : i \in 1 .. Len(channel) \/ i = Len(channel) + 1
        /\ \A i \in 1 .. Len(channel) : i < Len(channel) + 1
        /\ \A i \in 1 .. Len(socket') : i + 1 \in 1 .. Len(socket) /\ 1 < i + 1
        /\ \A i, j \in 1 .. Len(socket') : i < j => i + 1 < j + 1
        /\ 1 \in 1 .. Len(socket)
    BY <1>1, <2>1, <2>3
  <2>5. FeedInOrder'
    <3>1. \A i, j \in 1 .. Len(channel') : i < j => channel'[i].n < channel'[j].n
      <4> SUFFICES ASSUME NEW i \in 1 .. Len(channel'), NEW j \in 1 .. Len(channel'), i < j
                   PROVE  channel'[i].n < channel'[j].n
        OBVIOUS
      <4>1. i \in 1 .. Len(channel)
        BY <1>1, <2>3
      <4>2. CASE j \in 1 .. Len(channel)
        BY <2>3, <4>1, <4>2 DEF FeedInOrder
      <4>3. CASE j = Len(channel) + 1
        BY <2>1, <2>3, <2>4, <4>1, <4>3 DEF FeedInOrder
      <4> QED
        BY <2>4, <4>2, <4>3
    <3>2. \A i, j \in 1 .. Len(socket') : i < j => socket'[i].n < socket'[j].n
      BY <2>1, <2>4 DEF FeedInOrder
    <3>3. \A i \in 1 .. Len(channel'), j \in 1 .. Len(socket') : channel'[i].n < socket'[j].n
      <4> SUFFICES ASSUME NEW i \in 1 .. Len(channel'), NEW j \in 1 .. Len(socket')
                   PROVE  channel'[i].n < socket'[j].n
        OBVIOUS
      <4>1. socket'[j] = socket[j + 1] /\ j + 1 \in 1 .. Len(socket) /\ 1 < j + 1
        BY <2>1, <2>4
      <4>2. CASE i \in 1 .. Len(channel)
        BY <2>3, <4>1, <4>2 DEF FeedInOrder
      <4>3. CASE i = Len(channel) + 1
        BY <2>1, <2>3, <2>4, <4>1, <4>3 DEF FeedInOrder
      <4> QED
        BY <2>4, <4>2, <4>3
    <3>4. \A i \in 1 .. Len(channel') : channel'[i].n < next'
      BY <2>1, <2>2, <2>3, <2>4 DEF FeedInOrder
    <3>5. \A i \in 1 .. Len(socket') : socket'[i].n < next'
      BY <2>1, <2>2, <2>4 DEF FeedInOrder
    <3> QED
      BY <3>1, <3>2, <3>3, <3>4, <3>5 DEF FeedInOrder
  <2>6. Ahead' \subseteq Ahead
    BY <2>1, <2>2, <2>3, <2>4 DEF Ahead
  <2>7. ~Takes
    <3>1. Len(channel') # Len(Tail(channel)) \/ channel = << >>
      BY <1>1, <2>3, HeadTailProperties
    <3> QED
      BY <3>1 DEF Takes
  <2> QED
    BY <1>1, <2>1, <2>2, <2>3, <2>5, <2>6, <2>7
<1>5. CASE Takes
  <2> DEFINE x == Head(channel)
  <2>1. /\ x = channel[1] /\ x \in Items /\ Len(channel) \geq 1
        /\ Len(channel') = Len(channel) - 1 /\ channel' \in Seq(Items)
        /\ \A i \in 1 .. Len(channel') : channel'[i] = channel[i + 1]
    BY <1>1, <1>5, HeadTailProperties, EmptySeq DEF Takes
  <2>2. socket' = socket /\ next' = next
    BY <1>5 DEF Takes
  <2> HIDE DEF x
  <2>3. /\ \A i \in 1 .. Len(channel') : i + 1 \in 1 .. Len(channel) /\ 1 < i + 1
        /\ \A i, j \in 1 .. Len(channel') : i < j => i + 1 < j + 1
        /\ 1 \in 1 .. Len(channel)
    BY <1>1, <2>1
  <2>4. FeedInOrder'
    BY <2>1, <2>2, <2>3 DEF FeedInOrder
  <2>5. Ahead' \subseteq Ahead /\ x.n \in Ahead
    BY <2>1, <2>2, <2>3 DEF Ahead
  <2>6. \A n \in Ahead' : x.n < n
    <3>1. x.n < next /\ x.n \in Nat
      BY <1>2, <2>1, <2>3 DEF FeedInOrder
    <3>2. \A i \in 1 .. Len(socket) : x.n < socket[i].n
      BY <2>1, <2>3 DEF FeedInOrder
    <3>3. \A i \in 1 .. Len(channel') : x.n < channel'[i].n
      BY <2>1, <2>3 DEF FeedInOrder
    <3> QED
      BY <1>1, <2>2, <3>1, <3>2, <3>3 DEF Ahead
  <2> QED
    BY <1>1, <2>1, <2>2, <2>4, <2>5, <2>6 DEF x
<1>6. CASE Skips
  <2>1. UNCHANGED <<socket, channel>> /\ next' \in {next, next + 1}
    BY <1>6 DEF Skips
  <2>2. FeedInOrder'
    BY <1>1, <1>2, <2>1 DEF FeedInOrder
  <2>3. Ahead' \subseteq Ahead
    BY <1>1, <2>1 DEF Ahead
  <2>4. ~Takes
    <3>1. channel # << >> => Len(Tail(channel)) = Len(channel) - 1
      BY <1>1, HeadTailProperties
    <3> QED
      BY <1>1, <2>1, <3>1 DEF Takes
  <2> QED
    BY <1>1, <2>1, <2>2, <2>3, <2>4
<1> QED
  BY <1>3, <1>4, <1>5, <1>6

-----------------------------------------------------------------------------
(* The forwarder.                                                           *)

(* What is released leaves in its turn, after all that left before: all that
   has expired, or those of it that come first. *)
LEMMA ReleaseKeeps ==
  ASSUME ProxyTyped, QueueInOrder, OutInOrder, Tally,
         NEW E \in SUBSET Expired, Release(E),
         \A e \in E, f \in Expired : Before(f, e) => f \in E,
         Ahead' \subseteq Ahead, UNCHANGED <<now, profile, nextSeq>>
  PROVE  /\ queue' \in SUBSET Entries /\ IsFiniteSet(queue') /\ out' \in Seq(Departures)
         /\ stats' \in [forwarded : Nat, dropped : Nat, duplicated : Nat, delayed : Nat]
         /\ QueueInOrder' /\ OutInOrder' /\ Tally'
<1> DEFINE k == Cardinality(E)
           q == InOrder(E)
           r == [i \in 1 .. k |-> Sends(q[i])]
<1>1. /\ queue \in SUBSET Entries /\ IsFiniteSet(queue) /\ now \in Nat
      /\ out \in Seq(Departures) /\ Len(out) \in Nat
  BY DEF ProxyTyped
<1>2. /\ E \in SUBSET queue /\ E \in SUBSET Entries /\ IsFiniteSet(E)
      /\ \A e \in E : e.deadline \leq now
  <2>1. E \in SUBSET queue /\ \A e \in E : e.deadline \leq now
    BY DEF Expired
  <2> QED
    BY <1>1, <2>1, FS_Subset
<1>3. Distinct(E)
  BY <1>2 DEF Distinct, QueueInOrder
<1>4. /\ k \in Nat /\ q \in [1 .. k -> E]
      /\ \A i, j \in 1 .. k : i < j => Before(q[i], q[j])
  BY <1>3, InOrderIs
<1>5. /\ out' = out \o r /\ queue' = queue \ E
      /\ stats' = [stats EXCEPT !.forwarded = @ + k]
  BY DEF Release
<1> HIDE DEF q, k
<1>6. r \in Seq(Departures) /\ Len(r) = k
  <2>1. ASSUME NEW i \in 1 .. k
        PROVE  Sends(q[i]) \in Departures
    <3>1. q[i] \in Entries
      BY <1>2, <1>4
    <3> QED
      BY <1>1, <3>1 DEF Sends, Entries, Departures
  <2> QED
    BY <1>4, <2>1
<1>7. \A i \in 1 .. k : r[i] = Sends(q[i]) /\ q[i] \in E
  BY <1>4
<1> HIDE DEF r
<1>8. /\ out' \in Seq(Departures) /\ Len(out') = Len(out) + k
      /\ \A i \in 1 .. Len(out) + k :
           out'[i] = IF i \leq Len(out) THEN out[i] ELSE r[i - Len(out)]
  BY <1>1, <1>5, <1>6, ConcatProperties
<1>9. \A i \in 1 .. Len(out') :
        \/ i \in 1 .. Len(out) /\ out'[i] = out[i]
        \/ /\ i > Len(out) /\ i - Len(out) \in 1 .. k
           /\ out'[i] = Sends(q[i - Len(out)]) /\ q[i - Len(out)] \in E
  <2> SUFFICES ASSUME NEW i \in 1 .. Len(out')
               PROVE  \/ i \in 1 .. Len(out) /\ out'[i] = out[i]
                      \/ /\ i > Len(out) /\ i - Len(out) \in 1 .. k
                         /\ out'[i] = Sends(q[i - Len(out)]) /\ q[i - Len(out)] \in E
    OBVIOUS
  <2>1. CASE i \leq Len(out)
    BY <1>1, <1>4, <1>8, <2>1
  <2>2. CASE i > Len(out)
    <3>1. i - Len(out) \in 1 .. k /\ out'[i] = r[i - Len(out)]
      BY <1>1, <1>4, <1>8, <2>2
    <3> QED
      BY <1>7, <2>2, <3>1
  <2> QED
    BY <1>1, <2>1, <2>2
<1>10. queue' \in SUBSET queue /\ IsFiniteSet(queue')
       /\ Cardinality(queue') = Cardinality(queue) - k
  <2>1. queue \cap E = E
    BY <1>2
  <2>2. /\ IsFiniteSet(queue \ E)
        /\ Cardinality(queue \ E) = Cardinality(queue) - Cardinality(queue \cap E)
    BY <1>1, FS_Difference
  <2>3. k = Cardinality(queue \cap E)
    BY <2>1 DEF k
  <2> QED
    BY <1>5, <2>2, <2>3
<1>11. QueueInOrder'
  BY <1>10 DEF QueueInOrder
<1>12. \A e \in E : Sends(e).delayed /\ Sends(e).deadline = e.deadline
                    /\ Sends(e).at = now /\ Sends(e).item = e.item
  BY DEF Sends
<1>13. OutInOrder'
  <2>1. ASSUME NEW i \in 1 .. Len(out'), out'[i].delayed
        PROVE  /\ out'[i].deadline \leq out'[i].at /\ out'[i].at \leq now'
               /\ \A n \in Ahead' : out'[i].item.n < n
               /\ \A e \in queue' : InTurn(out'[i], e)
    <3>1. CASE i \in 1 .. Len(out) /\ out'[i] = out[i]
      BY <1>10, <2>1, <3>1 DEF OutInOrder
    <3>2. ASSUME NEW e \in E, out'[i] = Sends(e)
          PROVE  /\ out'[i].deadline \leq out'[i].at /\ out'[i].at \leq now'
                 /\ \A n \in Ahead' : out'[i].item.n < n
                 /\ \A f \in queue' : InTurn(out'[i], f)
      <4>1. /\ out'[i].deadline = e.deadline /\ out'[i].at = now
            /\ out'[i].item = e.item /\ now' = now
        BY <1>12, <3>2
      <4>2. e.deadline \leq now /\ e.deadline \in Nat
        BY <1>2 DEF Entries
      <4>3. \A n \in Ahead' : e.item.n < n
        BY <1>2 DEF QueueInOrder
      <4>4. ASSUME NEW f \in queue'
            PROVE  InTurn(e, f)
        <5>1. /\ f \in queue /\ f \notin E /\ e \in queue
              /\ e.deadline \in Nat /\ f.deadline \in Nat
              /\ e.seq \in Nat /\ f.seq \in Nat
          BY <1>1, <1>2, <1>5 DEF Entries
        <5>2. CASE f \in Expired
          <6>1. ~Before(f, e)
            BY <5>1, <5>2
          <6>2. e.seq # f.seq /\ (e.seq < f.seq => e.item.n < f.item.n)
            BY <5>1 DEF QueueInOrder
          <6> QED
            BY <5>1, <6>1, <6>2 DEF Before, InTurn
        <5>3. CASE f \notin Expired
          <6>1. ~(f.deadline \leq now)
            BY <5>1, <5>3 DEF Expired
          <6> QED
            BY <1>1, <4>2, <5>1, <6>1 DEF InTurn
        <5> QED
          BY <5>2, <5>3
      <4> QED
        BY <1>1, <4>1, <4>2, <4>3, <4>4 DEF InTurn
    <3> QED
      BY <1>9, <3>1, <3>2
  <2>2. ASSUME NEW i \in 1 .. Len(out'), NEW j \in 1 .. Len(out'),
               i < j, out'[i].delayed, out'[j].delayed
        PROVE  InTurn(out'[i], out'[j])
    <3>1. CASE j \in 1 .. Len(out) /\ out'[j] = out[j]
      <4>1. i \in 1 .. Len(out)
        BY <1>1, <2>2, <3>1
      <4>2. out'[i] = out[i]
        BY <1>1, <1>4, <1>8, <4>1
      <4> QED
        BY <2>2, <3>1, <4>1, <4>2 DEF OutInOrder
    <3>2. CASE /\ j > Len(out) /\ j - Len(out) \in 1 .. k
               /\ out'[j] = Sends(q[j - Len(out)]) /\ q[j - Len(out)] \in E
      <4> DEFINE f == q[j - Len(out)]
      <4>1. f \in E /\ f \in queue /\ out'[j].deadline = f.deadline /\ out'[j].item = f.item
        BY <1>2, <1>12, <3>2
      <4>2. CASE i \in 1 .. Len(out) /\ out'[i] = out[i]
        <5>1. InTurn(out[i], f)
          BY <2>2, <4>1, <4>2 DEF OutInOrder
        <5> QED
          BY <4>1, <4>2, <5>1 DEF InTurn
      <4>3. CASE /\ i > Len(out) /\ i - Len(out) \in 1 .. k
                 /\ out'[i] = Sends(q[i - Len(out)]) /\ q[i - Len(out)] \in E
        <5> DEFINE e == q[i - Len(out)]
        <5>1. e \in E /\ e \in queue /\ out'[i].deadline = e.deadline /\ out'[i].item = e.item
          BY <1>2, <1>12, <4>3
        <5>2. i - Len(out) < j - Len(out)
          BY <1>1, <2>2
        <5>3. Before(e, f)
          BY <1>4, <3>2, <4>3, <5>2
        <5> HIDE DEF e, f
        <5>4. e.seq < f.seq => e.item.n < f.item.n
          BY <4>1, <5>1 DEF QueueInOrder
        <5> QED
          BY <4>1, <5>1, <5>3, <5>4 DEF InTurn, Before
      <4> QED
        BY <1>9, <4>2, <4>3
    <3> QED
      BY <1>9, <3>1, <3>2
  <2> QED
    BY <2>1, <2>2 DEF OutInOrder
<1>14. /\ stats' \in [forwarded : Nat, dropped : Nat, duplicated : Nat, delayed : Nat]
       /\ stats'.forwarded = stats.forwarded + k
       /\ stats'.delayed = stats.delayed /\ stats'.duplicated = stats.duplicated
  <2>1. stats \in [forwarded : Nat, dropped : Nat, duplicated : Nat, delayed : Nat]
    BY DEF ProxyTyped
  <2> QED
    BY <1>4, <1>5, <2>1
<1>15. Tally'
  <2>1. Cardinality(queue) \in Nat
    BY <1>1, FS_CardinalityType
  <2>2. /\ stats.forwarded \in Nat /\ stats.delayed \in Nat /\ stats.duplicated \in Nat
    BY DEF ProxyTyped
  <2> QED
    BY <1>1, <1>4, <1>8, <1>10, <1>14, <2>1, <2>2 DEF Tally
<1> QED
  BY <1>1, <1>8, <1>10, <1>11, <1>13, <1>14, <1>15

(* A datagram that is forwarded at once, or waits behind all that wait for the
   same time, or both. *)
LEMMA ForwardKeeps ==
  ASSUME ProxyTyped, QueueInOrder, OutInOrder, Tally,
         NEW item \in Items, NEW decision \in Decisions, NEW delay \in Delays,
         Forward(item, decision, delay),
         item.n \in Ahead, \A n \in Ahead' : item.n < n,
         Ahead' \subseteq Ahead, UNCHANGED <<now, profile>>
  PROVE  /\ queue' \in SUBSET Entries /\ IsFiniteSet(queue') /\ out' \in Seq(Departures)
         /\ stats' \in [forwarded : Nat, dropped : Nat, duplicated : Nat, delayed : Nat]
         /\ nextSeq' \in Nat
         /\ QueueInOrder' /\ OutInOrder' /\ Tally'
<1> DEFINE x == Entry(now + delay, item)
           y == SendsNow(item)
           sends == decision \in AtOnce
           waits == decision \in Later
           one(yes) == IF yes THEN 1 ELSE 0
<1>1. /\ queue \in SUBSET Entries /\ IsFiniteSet(queue) /\ now \in Nat /\ nextSeq \in Nat
      /\ out \in Seq(Departures) /\ Len(out) \in Nat
      /\ stats \in [forwarded : Nat, dropped : Nat, duplicated : Nat, delayed : Nat]
  BY DEF ProxyTyped
<1>2. delay \in Nat
  BY ProxyAssumption DEF Delays
<1>3. /\ out' = IF sends THEN Append(out, y) ELSE out
      /\ queue' = IF waits THEN queue \cup {x} ELSE queue
      /\ nextSeq' = nextSeq + one(waits)
      /\ stats' = [forwarded |-> stats.forwarded + one(sends),
                   dropped |-> stats.dropped + one(decision = "drop"),
                   duplicated |-> stats.duplicated + one(decision = "duplicated"),
                   delayed |-> stats.delayed + one(waits)]
  BY DEF Forward
<1>4. /\ x \in Entries /\ x.deadline = now + delay /\ x.seq = nextSeq + 1 /\ x.item = item
  BY <1>1, <1>2 DEF Entry, Entries
<1>5. y \in Departures /\ ~y.delayed
  BY <1>1 DEF SendsNow, Departures
<1> HIDE DEF x, y
<1>6. /\ out' \in Seq(Departures)
      /\ sends => Len(out') = Len(out) + 1
      /\ ~sends => Len(out') = Len(out)
      /\ \A i \in 1 .. Len(out') :
           \/ i \in 1 .. Len(out) /\ out'[i] = out[i]
           \/ i = Len(out) + 1 /\ ~out'[i].delayed
  <2>1. CASE sends
    <3>1. out' = Append(out, y)
      BY <1>3, <2>1
    <3>2. /\ out' \in Seq(Departures) /\ Len(out') = Len(out) + 1
          /\ \A i \in 1 .. Len(out) : out'[i] = out[i]
          /\ out'[Len(out) + 1] = y
      BY <1>1, <1>5, <3>1, AppendProperties
    <3>3. \A i \in 1 .. Len(out') : i \in 1 .. Len(out) \/ i = Len(out) + 1
      BY <1>1, <3>2
    <3> QED
      BY <1>5, <2>1, <3>2, <3>3
  <2>2. CASE ~sends
    BY <1>1, <1>3, <2>2
  <2> QED
    BY <2>1, <2>2
<1>7. /\ nextSeq' \in Nat /\ nextSeq' \geq nextSeq
      /\ stats' \in [forwarded : Nat, dropped : Nat, duplicated : Nat, delayed : Nat]
  BY <1>1, <1>3
<1>8. x \notin queue
  <2>1. \A e \in queue : e.seq \in Nat /\ e.seq \leq nextSeq
    BY <1>1 DEF Entries, QueueInOrder
  <2> QED
    BY <1>1, <1>4, <2>1
<1>9. /\ queue' \in SUBSET Entries /\ IsFiniteSet(queue')
      /\ waits => Cardinality(queue') = Cardinality(queue) + 1
      /\ ~waits => Cardinality(queue') = Cardinality(queue)
  <2>1. IsFiniteSet(queue \cup {x}) /\ Cardinality(queue \cup {x}) = Cardinality(queue) + 1
    BY <1>1, <1>8, FS_AddElement
  <2> QED
    BY <1>1, <1>3, <1>4, <2>1
<1>10. \A e \in queue' : e \in queue \/ (waits /\ e = x)
  BY <1>3
<1>11. \A e \in queue : e.item.n < item.n /\ e.seq \in Nat /\ e.seq \leq nextSeq
  BY <1>1 DEF QueueInOrder, Entries
<1>12. item.n \in Nat /\ \A e \in queue : e.item.n \in Nat
  BY <1>1 DEF Items, Entries
<1>13. QueueInOrder'
  <2>1. \A e \in queue' : e.seq \leq nextSeq'
    BY <1>1, <1>3, <1>4, <1>10, <1>11
  <2>2. \A e \in queue' : \A n \in Ahead' : e.item.n < n
    BY <1>4, <1>10 DEF QueueInOrder
  <2>3. \A e \in queue : e.seq # x.seq /\ ~(x.seq < e.seq)
    BY <1>1, <1>4, <1>11
  <2>4. \A e, f \in queue' : e # f => e.seq # f.seq
    BY <1>10, <2>3 DEF QueueInOrder
  <2>5. ASSUME NEW e \in queue', NEW f \in queue', e.seq < f.seq
        PROVE  e.item.n < f.item.n
    <3>1. CASE e \in queue /\ f \in queue
      BY <2>5, <3>1 DEF QueueInOrder
    <3>2. CASE e \in queue /\ f = x
      BY <1>4, <1>11, <3>2
    <3>3. CASE e = x /\ f \in queue
      BY <2>3, <2>5, <3>3
    <3>4. CASE e = x /\ f = x
      BY <1>1, <1>4, <2>5, <3>4
    <3> QED
      BY <1>10, <3>1, <3>2, <3>3, <3>4
  <2> QED
    BY <2>1, <2>2, <2>4, <2>5 DEF QueueInOrder
<1>14. OutInOrder'
  <2>1. ASSUME NEW i \in 1 .. Len(out'), out'[i].delayed
        PROVE  /\ out'[i].deadline \leq out'[i].at /\ out'[i].at \leq now'
               /\ \A n \in Ahead' : out'[i].item.n < n
               /\ \A e \in queue' : InTurn(out'[i], e)
    <3>1. i \in 1 .. Len(out) /\ out'[i] = out[i]
      BY <1>6, <2>1
    <3>2. /\ out[i].deadline \leq out[i].at /\ out[i].at \leq now
          /\ \A n \in Ahead : out[i].item.n < n
          /\ \A e \in queue : InTurn(out[i], e)
      BY <2>1, <3>1 DEF OutInOrder
    <3>3. out[i].deadline \in Nat /\ out[i].at \in Nat
      <4>1. out[i] \in Departures
        BY <1>1, <3>1, ElementOfSeq
      <4> QED
        BY <4>1 DEF Departures
    <3>4. out[i].item.n < item.n
      BY <3>2
    <3>5. InTurn(out[i], x)
      <4> DEFINE d == out[i].deadline
                 t == out[i].at
      <4>1. d \in Nat /\ t \in Nat /\ d \leq t /\ t \leq now
        BY <3>2, <3>3
      <4> HIDE DEF d, t
      <4>2. d < now + delay \/ d = now + delay
        BY <1>1, <1>2, <4>1
      <4> QED
        BY <1>4, <3>4, <4>2 DEF d, InTurn
    <3>6. \A e \in queue' : InTurn(out[i], e)
      BY <1>10, <3>2, <3>5
    <3> QED
      BY <3>1, <3>2, <3>6
  <2>2. ASSUME NEW i \in 1 .. Len(out'), NEW j \in 1 .. Len(out'),
               i < j, out'[i].delayed, out'[j].delayed
        PROVE  InTurn(out'[i], out'[j])
    <3>1. i \in 1 .. Len(out) /\ out'[i] = out[i] /\ j \in 1 .. Len(out) /\ out'[j] = out[j]
      BY <1>6, <2>2
    <3> QED
      BY <2>2, <3>1 DEF OutInOrder
  <2> QED
    BY <2>1, <2>2 DEF OutInOrder
<1>15. Tally'
  <2>1. Cardinality(queue) \in Nat
    BY <1>1, FS_CardinalityType
  <2>2. /\ stats.forwarded \in Nat /\ stats.delayed \in Nat /\ stats.duplicated \in Nat
    BY <1>1
  <2>3. stats'.forwarded = Len(out')
    BY <1>1, <1>3, <1>6, <2>2 DEF Tally
  <2>4. ASSUME profile = "jitter30"
        PROVE  stats'.delayed + stats'.duplicated = Len(out') + Cardinality(queue')
    <3>1. decision \in {"delayed", "duplicated"}
      BY <2>4 DEF Decisions
    <3>2. waits /\ (sends <=> decision = "duplicated")
      BY <3>1 DEF AtOnce, Later
    <3>3. /\ stats'.delayed = stats.delayed + 1
          /\ stats'.duplicated = stats.duplicated + one(sends)
      BY <1>3, <3>2
    <3>4. Len(out') = Len(out) + one(sends) /\ Cardinality(queue') = Cardinality(queue) + 1
      BY <1>1, <1>6, <1>9, <3>2
    <3>5. stats.delayed + stats.duplicated = Len(out) + Cardinality(queue)
      BY <2>4 DEF Tally
    <3> DEFINE more == one(sends)
    <3>6. more \in Nat
      OBVIOUS
    <3> HIDE DEF more
    <3>7. /\ stats'.delayed = stats.delayed + 1
          /\ stats'.duplicated = stats.duplicated + more
          /\ Len(out') = Len(out) + more /\ Cardinality(queue') = Cardinality(queue) + 1
      BY <3>3, <3>4 DEF more
    <3>8. Len(out) \in Nat
      BY <1>1
    <3> DEFINE a == stats.delayed
               b == stats.duplicated
               l == Len(out)
               c == Cardinality(queue)
    <3>9. a \in Nat /\ b \in Nat /\ l \in Nat /\ c \in Nat /\ a + b = l + c
      BY <2>1, <2>2, <3>5, <3>8
    <3> HIDE DEF a, b, l, c
    <3>10. (a + 1) + (b + more) = (l + more) + (c + 1)
      BY <3>6, <3>9
    <3>11. /\ stats'.delayed = a + 1 /\ stats'.duplicated = b + more
           /\ Len(out') = l + more /\ Cardinality(queue') = c + 1
      BY <3>7 DEF a, b, l, c
    <3> QED
      BY <3>10, <3>11
  <2> QED
    BY <2>3, <2>4 DEF Tally
<1> QED
  BY <1>6, <1>7, <1>9, <1>13, <1>14, <1>15

-----------------------------------------------------------------------------
(* The tool's steps.                                                        *)

(* A step that leaves the delay queue and what was sent as they are. *)
LEMMA QueueRests ==
  ASSUME ProxyInv, Posts \/ Moves \/ Takes \/ Skips,
         UNCHANGED <<profile, size, queue, nextSeq, sched, stats, out>>,
         proxy' \in {proxy, "done"}, now' = now \/ now' = now + 1
  PROVE  ProxyInv'
<1>1. /\ ProxyTyped /\ FeedInOrder /\ QueueInOrder /\ OutInOrder /\ Tally /\ Armed
  BY DEF ProxyInv
<1>2. /\ socket' \in Seq(Items) /\ channel' \in Seq(Items) /\ next' \in Nat
      /\ FeedInOrder' /\ Ahead' \subseteq Ahead
  BY <1>1, FeedSteps
<1>3. now \in Nat /\ now' \in Nat /\ now \leq now'
  BY <1>1 DEF ProxyTyped
<1>4. ProxyTyped'
  BY <1>1, <1>2, <1>3 DEF ProxyTyped
<1>5. QueueInOrder'
  BY <1>1, <1>2 DEF QueueInOrder
<1>6. OutInOrder'
  <2>1. ASSUME NEW i \in 1 .. Len(out), out[i].delayed
        PROVE  /\ out[i].deadline \leq out[i].at /\ out[i].at \leq now'
               /\ \A n \in Ahead' : out[i].item.n < n
               /\ \A e \in queue : InTurn(out[i], e)
    <3>1. /\ out[i].deadline \leq out[i].at /\ out[i].at \leq now
          /\ \A n \in Ahead : out[i].item.n < n
          /\ \A e \in queue : InTurn(out[i], e)
      BY <1>1, <2>1 DEF OutInOrder
    <3>2. out[i] \in Departures
      BY <1>1, ElementOfSeq DEF ProxyTyped
    <3>3. out[i].at \in Nat
      BY <3>2 DEF Departures
    <3> QED
      BY <1>2, <1>3, <3>1, <3>3
  <2>2. \A i, j \in 1 .. Len(out) :
          i < j /\ out[i].delayed /\ out[j].delayed => InTurn(out[i], out[j])
    BY <1>1 DEF OutInOrder
  <2> QED
    BY <2>1, <2>2 DEF OutInOrder
<1>7. Tally' /\ Armed'
  BY <1>1 DEF Tally, Armed
<1> QED
  BY <1>2, <1>4, <1>5, <1>6, <1>7 DEF ProxyInv

(* The step that handles a datagram arms the sleep again. *)
LEMMA ReceiveKeeps ==
  ASSUME ProxyInv, Receive, UNCHANGED <<size, next>>
  PROVE  ProxyInv'
<1>1. /\ ProxyTyped /\ FeedInOrder /\ QueueInOrder /\ OutInOrder /\ Tally
  BY DEF ProxyInv
<1>2. /\ channel # << >> /\ channel' = Tail(channel) /\ sched' = HeadDeadline(queue')
      /\ UNCHANGED <<profile, socket, proxy, quit, now>>
  BY DEF Receive, Rearm
<1>3. PICK decision \in Decisions, delay \in Delays :
        Forward(Head(channel), decision, delay)
  BY DEF Receive
<1>4. /\ socket' \in Seq(Items) /\ channel' \in Seq(Items) /\ next' \in Nat
      /\ FeedInOrder' /\ Ahead' \subseteq Ahead
      /\ Head(channel) \in Items /\ Head(channel).n \in Ahead
      /\ \A n \in Ahead' : Head(channel).n < n
  <2>1. Takes
    BY <1>2 DEF Takes
  <2> QED
    BY <1>1, <2>1, FeedSteps
<1>5. /\ queue' \in SUBSET Entries /\ IsFiniteSet(queue') /\ out' \in Seq(Departures)
      /\ stats' \in [forwarded : Nat, dropped : Nat, duplicated : Nat, delayed : Nat]
      /\ nextSeq' \in Nat
      /\ QueueInOrder' /\ OutInOrder' /\ Tally'
  <2> DEFINE item == Head(channel)
  <2>1. item \in Items /\ item.n \in Ahead /\ \A n \in Ahead' : item.n < n
    BY <1>4
  <2>2. Forward(item, decision, delay)
    BY <1>3
  <2> HIDE DEF item
  <2> QED
    BY <1>1, <1>2, <1>4, <2>1, <2>2, ForwardKeeps
<1>6. ProxyTyped'
  BY <1>1, <1>2, <1>4, <1>5 DEF ProxyTyped
<1>7. Armed'
  BY <1>2 DEF Armed
<1> QED
  BY <1>4, <1>5, <1>6, <1>7 DEF ProxyInv

(* So does the one that releases what is due; neither the exit nor a send that
   fails has a sleep to arm. *)
LEMMA ReleasingKeeps ==
  ASSUME ProxyInv, UNCHANGED <<size, next>>, NEW E \in SUBSET Expired, Release(E),
         \A e \in E, f \in Expired : Before(f, e) => f \in E,
         UNCHANGED <<profile, socket, channel, nextSeq, now>>,
         proxy' \in {"select", "done"},
         proxy' = "select" => sched' = HeadDeadline(queue')
  PROVE  ProxyInv'
<1>1. /\ ProxyTyped /\ FeedInOrder /\ QueueInOrder /\ OutInOrder /\ Tally
  BY DEF ProxyInv
<1>2. /\ FeedInOrder' /\ Ahead' \subseteq Ahead
  <2>1. Skips
    BY DEF Skips
  <2> QED
    BY <1>1, <2>1, FeedSteps
<1>3. /\ queue' \in SUBSET Entries /\ IsFiniteSet(queue') /\ out' \in Seq(Departures)
      /\ stats' \in [forwarded : Nat, dropped : Nat, duplicated : Nat, delayed : Nat]
      /\ QueueInOrder' /\ OutInOrder' /\ Tally'
  BY <1>1, <1>2, ReleaseKeeps
<1>4. ProxyTyped'
  BY <1>1, <1>3 DEF ProxyTyped
<1>5. Armed'
  BY DEF Armed
<1> QED
  BY <1>2, <1>3, <1>4, <1>5 DEF ProxyInv

(* A send that fails takes a datagram and forwards it to nobody, or has released
   those that come first. *)
LEMMA SendFailsIs ==
  ASSUME SendFails
  PROVE  /\ proxy' = "done" /\ UNCHANGED <<profile, socket, nextSeq, sched, now>>
         /\ \/ /\ channel # << >> /\ channel' = Tail(channel)
               /\ UNCHANGED <<queue, stats, out>>
            \/ /\ channel' = channel
               /\ \E E \in SUBSET Expired :
                    /\ Release(E)
                    /\ \A e \in E, f \in Expired : Before(f, e) => f \in E
<1>1. proxy' = "done" /\ UNCHANGED <<profile, socket, nextSeq, sched, now>>
  BY DEF SendFails
<1>2. CASE channel # << >> /\ channel' = Tail(channel) /\ UNCHANGED <<queue, stats, out>>
  BY <1>1, <1>2
<1>3. ASSUME NEW first \in SUBSET Expired, Release(first), UNCHANGED channel,
             \A e \in first, f \in queue : Before(f, e) => f \in first
      PROVE  \E E \in SUBSET Expired :
               /\ Release(E)
               /\ \A e \in E, f \in Expired : Before(f, e) => f \in E
  <2>1. \A e \in first, f \in Expired : Before(f, e) => f \in first
    BY <1>3 DEF Expired
  <2> QED
    BY <1>3, <2>1
<1> QED
  BY <1>1, <1>2, <1>3 DEF SendFails

(* Nothing is on its way in the initial states. *)
LEMMA InitKeeps ==
  ASSUME Init
  PROVE  ProxyInv
<1>1. /\ profile \in Profiles /\ socket = << >> /\ channel = << >>
      /\ queue = {} /\ nextSeq = 0 /\ sched = NoSleep /\ proxy = "select" /\ now = 0
      /\ stats = [forwarded |-> 0, dropped |-> 0, duplicated |-> 0, delayed |-> 0]
      /\ out = << >> /\ next = 0
  BY DEF Init, ProxyInit
<1>2. size \in Nat
  BY LoopbackAssumption DEF Init
<1>3. IsFiniteSet(queue) /\ Cardinality(queue) = 0
  BY <1>1, FS_EmptySet
<1>4. /\ socket \in Seq(Items) /\ channel \in Seq(Items) /\ out \in Seq(Departures)
      /\ Len(socket) = 0 /\ Len(channel) = 0 /\ Len(out) = 0
  BY <1>1, EmptySeq
<1>5. ProxyTyped
  BY <1>1, <1>2, <1>3, <1>4 DEF ProxyTyped
<1>6. FeedInOrder /\ OutInOrder
  BY <1>4 DEF FeedInOrder, OutInOrder
<1>7. QueueInOrder /\ Armed
  BY <1>1 DEF QueueInOrder, Armed, HeadDeadline
<1>8. Tally
  BY <1>1, <1>3, <1>4 DEF Tally
<1> QED
  BY <1>5, <1>6, <1>7, <1>8 DEF ProxyInv

(* Every step of the tool keeps the invariant. *)
LEMMA StepKeeps ==
  ASSUME ProxyInv, [Next]_vars
  PROVE  ProxyInv'
<1> USE DEF proxyVars, forwarderVars, delayVars, argVars, senderVars
<1>1. ASSUME SendUdp
      PROVE  ProxyInv'
  <2> DEFINE c == Encode(TestPacket(next))
  <2>1. c \in Seq(Nat)
    BY TestPacketIs, EncodedIs DEF ProxyInv, ProxyTyped
  <2>2. socket' = Append(socket, [n |-> next, cells |-> c])
    BY <1>1 DEF SendUdp, SendDatagram
  <2> HIDE DEF c
  <2>3. Posts
    BY <1>1, <2>1, <2>2 DEF SendUdp, Posts
  <2> QED
    BY <1>1, <2>3, QueueRests DEF SendUdp
<1>2. ASSUME SendTcp
      PROVE  ProxyInv'
  <2>1. Skips
    BY <1>2 DEF SendTcp, Skips
  <2> QED
    BY <1>2, <2>1, QueueRests DEF SendTcp
<1>3. ASSUME UNCHANGED <<argVars, senderVars, proxyVars>>
      PROVE  ProxyInv'
  <2>1. Skips
    BY <1>3 DEF Skips
  <2> QED
    BY <1>3, <2>1, QueueRests
<1>4. ASSUME WriteGarbage \/ SenderShutdown \/ RecvUdp \/ Overflow \/ RecvStray
               \/ RecvTcpStep \/ RecvTcp \/ GiveUp
      PROVE  ProxyInv'
  <2>1. UNCHANGED <<argVars, senderVars, proxyVars>>
    BY <1>4 DEF WriteGarbage, SenderShutdown, RecvUdp, Overflow, RecvStray,
                RecvTcpStep, RecvTcp, GiveUp
  <2> QED
    BY <1>3, <2>1
<1>5. ASSUME Network
      PROVE  ProxyInv'
  <2>1. UNCHANGED <<size, next>>
    BY <1>5 DEF Network
  <2>2. ASSUME ReaderStep
        PROVE  ProxyInv'
    <3>1. Moves
      BY <2>1, <2>2 DEF ReaderStep, Moves
    <3> QED
      BY <2>1, <2>2, <3>1, QueueRests DEF ReaderStep
  <2>3. ASSUME Receive
        PROVE  ProxyInv'
    BY <2>1, <2>3, ReceiveKeeps
  <2>4. ASSUME Wakes \/ Exits
        PROVE  ProxyInv'
    <3>1. /\ Release(Expired) /\ UNCHANGED <<profile, socket, channel, nextSeq, now>>
          /\ proxy' \in {"select", "done"}
          /\ proxy' = "select" => sched' = HeadDeadline(queue')
      BY <2>4 DEF Wakes, Exits, Rearm, ProxyInv, ProxyTyped
    <3> QED
      BY <2>1, <3>1, ReleasingKeeps
  <2>5. ASSUME SendFails
        PROVE  ProxyInv'
    <3>1. CASE channel # << >> /\ channel' = Tail(channel) /\ UNCHANGED <<queue, stats, out>>
      <4>1. Takes
        BY <2>1, <2>5, <3>1, SendFailsIs DEF Takes
      <4> QED
        BY <2>1, <2>5, <3>1, <4>1, QueueRests, SendFailsIs
    <3>2. ASSUME NEW E \in SUBSET Expired, Release(E), channel' = channel,
                 \A e \in E, f \in Expired : Before(f, e) => f \in E
          PROVE  ProxyInv'
      BY <2>1, <2>5, <3>2, ReleasingKeeps, SendFailsIs
    <3> QED
      BY <2>5, <3>1, <3>2, SendFailsIs
  <2>6. ASSUME TimePasses \/ Signal
        PROVE  ProxyInv'
    <3>1. Skips
      BY <2>1, <2>6 DEF TimePasses, Signal, Skips
    <3> QED
      BY <2>1, <2>6, <3>1, QueueRests DEF TimePasses, Signal
  <2> QED
    BY <1>5, <2>2, <2>3, <2>4, <2>5, <2>6 DEF Network, ProxyStep
<1>6. ASSUME UNCHANGED vars
      PROVE  ProxyInv'
  BY <1>3, <1>6 DEF vars
<1> QED
  BY <1>1, <1>2, <1>4, <1>5, <1>6 DEF Next

(* The proxy's invariant, in every state of the tool. *)
THEOREM ProxyStaysSound == Spec => []ProxyInv
<1>1. Init => ProxyInv
  BY InitKeeps
<1>2. ProxyInv /\ [Next]_vars => ProxyInv'
  BY StepKeeps
<1> QED
  BY <1>1, <1>2, PTL DEF Spec

(* Delayed datagrams leave the proxy in the order of their deadlines and, for
   one deadline, in the order they were sent in; none leaves before its
   deadline; and what the exit prints adds up. *)
THEOREM ReleasedInOrder == Spec => []DelayedLeaveInOrder
<1>1. ProxyInv => DelayedLeaveInOrder
  BY DEF ProxyInv, OutInOrder, InTurn, Tally, DelayedLeaveInOrder
<1> QED
  BY <1>1, ProxyStaysSound, PTL

(* The clock leaves no deadline behind that is still queued: the sleep is
   armed on the earliest one whatever was handled in between. *)
THEOREM SleepIsInTime == Spec => NothingIsOverdue
<1>1. ASSUME ProxyInv, TimePasses, NEW e \in queue
      PROVE  e.deadline > now
  <2> DEFINE q == InOrder(queue)
             n == Cardinality(queue)
  <2>1. /\ queue \in SUBSET Entries /\ IsFiniteSet(queue) /\ now \in Nat
        /\ Distinct(queue)
    BY <1>1 DEF ProxyInv, ProxyTyped, QueueInOrder, Distinct
  <2>2. /\ n \in Nat /\ q \in [1 .. n -> queue]
        /\ n > 0 => \A f \in queue : q[1].deadline \leq f.deadline
    BY <2>1, InOrderIs
  <2>3. n > 0
    BY <1>1, <2>1, <2>2, FS_EmptySet
  <2>4. sched = q[1].deadline
    BY <1>1 DEF ProxyInv, Armed, TimePasses, HeadDeadline
  <2> HIDE DEF q, n
  <2>5. q[1] \in queue
    BY <2>2, <2>3
  <2>6. q[1].deadline \in Nat /\ e.deadline \in Nat /\ q[1].deadline \leq e.deadline
    BY <1>1, <2>1, <2>2, <2>3, <2>5 DEF Entries
  <2>7. ~(sched \leq now)
    BY <1>1, <2>4, <2>6, ProxyAssumption DEF TimePasses, Due
  <2> QED
    BY <2>1, <2>4, <2>6, <2>7
<1>2. ASSUME [Next]_vars, now' # now
      PROVE  TimePasses
  <2> USE DEF proxyVars
  <2>1. Next
    BY <1>2 DEF vars
  <2>2. ~SendUdp /\ ~SendTcp
    BY <1>2 DEF SendUdp, SendTcp
  <2>3. ~(WriteGarbage \/ SenderShutdown \/ RecvUdp \/ Overflow \/ RecvStray
            \/ RecvTcpStep \/ RecvTcp \/ GiveUp)
    BY <1>2 DEF WriteGarbage, SenderShutdown, RecvUdp, Overflow, RecvStray,
                RecvTcpStep, RecvTcp, GiveUp
  <2>4. ~(ReaderStep \/ Receive \/ Wakes \/ Exits \/ SendFails \/ Signal)
    BY <1>2 DEF ReaderStep, Receive, Wakes, Exits, SendFails, Signal
  <2>5. Network
    BY <2>1, <2>2, <2>3 DEF Next
  <2> QED
    BY <2>4, <2>5 DEF Network, ProxyStep
<1>3. ProxyInv /\ [Next]_vars
        => [now' # now => \A e \in queue : e.deadline > now]_proxyVars
  BY <1>1, <1>2
<1> QED
  BY <1>3, ProxyStaysSound, PTL DEF Spec, NothingIsOverdue

-----------------------------------------------------------------------------
(* The framer's invariant.                                                  *)

(* What FramesAreExact asks of the writer. *)
Plain ==
  /\ noise = << >> \/ Skippable(noise)
  /\ \A i \in 1 .. Len(sent) : Len(sent[i].payload) < LenWord

(* The noise, if it is what follows packet k. *)
Gap(hole, k) == IF k = hole THEN Len(noise) ELSE 0

(* w is all that was written: packet k ends with its cell ends[k], and the
   noise follows the packet hole (none, if it is 0). *)
Laid(w, ends, hole) ==
  /\ w \in Seq(Nat) /\ hole \in 0 .. Len(sent)
  /\ ends \in [0 .. Len(sent) -> Nat] /\ ends[0] = 0
  /\ \A k \in 1 .. Len(sent) :
       /\ ends[k] = ends[k - 1] + Gap(hole, k - 1) + HEADER_LEN + Len(sent[k].payload)
       /\ \A i \in 1 .. HEADER_LEN + Len(sent[k].payload) :
            w[ends[k - 1] + Gap(hole, k - 1) + i] = Encode(sent[k])[i]
  /\ \A k \in 0 .. Len(sent) : ends[k] + Gap(hole, k) \leq Len(w)
  /\ Len(w) = ends[Len(sent)] + Gap(hole, Len(sent))
  /\ \A i \in 1 .. Len(noise) : w[ends[hole] + i] = noise[i]

(* The framer is through with c cells of it, and holds or will read the rest. *)
Unread(w, c) ==
  /\ c \in Nat /\ c + Len(pending) + Len(stream) = Len(w)
  /\ \A i \in 1 .. Len(pending) : pending[i] = w[c + i]
  /\ \A i \in 1 .. Len(stream) : stream[i] = w[c + Len(pending) + i]

(* Where it stands: before the noise or behind it, inside the next packet, or
   in the middle of the noise. *)
Stands(ends, hole, c) ==
  LET g == Len(got)
  IN  /\ framer = "header" => c = ends[g] \/ c = ends[g] + Gap(hole, g)
      /\ framer = "payload" =>
           /\ g < Len(sent) /\ c = ends[g] + Gap(hole, g) + HEADER_LEN
           /\ header = SubSeq(Encode(sent[g + 1]), 1, HEADER_LEN)
      /\ framer = "resync" =>
           /\ hole = g /\ ends[g] + HEADER_LEN \leq c /\ c \leq ends[g] + Len(noise)
           /\ scanned = c - (ends[g] + HEADER_LEN)

(* What it has returned, and how it ended. *)
Returned ==
  /\ got \in Seq(Packets) /\ Len(got) \leq Len(sent)
  /\ \A i \in 1 .. Len(got) : got[i] = sent[i]
  /\ framer \in {"eof", "corrupt"} => closed /\ stream = << >> /\ Len(got) = Len(sent)

Cut(w, ends, hole, c) ==
  Laid(w, ends, hole) /\ Unread(w, c) /\ Stands(ends, hole, c) /\ Returned

HistoryTyped ==
  /\ transport \in {"udp", "tcp"} /\ size \in Nat /\ next \in Nat
  /\ sent \in Seq(Packets) /\ noise \in Seq(Nat)

StreamTyped ==
  /\ HistoryTyped
  /\ framer \in {"header", "payload", "resync", "eof", "corrupt"}
  /\ stream \in Seq(Nat) /\ pending \in Seq(Nat)

FramingInv ==
  /\ HistoryTyped
  /\ transport = "udp" => got = << >> /\ framer = "header"
  /\ transport = "tcp" /\ Plain =>
       StreamTyped /\ \E w, ends, hole, c : Cut(w, ends, hole, c)

-----------------------------------------------------------------------------
(* The framer's steps on an honest stream.                                  *)

(* A longer piece of the stream is pending; the cells are the same. *)
LEMMA PieceMoves ==
  ASSUME NEW w, NEW c, Unread(w, c), stream \in Seq(Nat), pending \in Seq(Nat),
         NEW n \in Nat, n \leq Len(stream),
         pending' = pending \o SubSeq(stream, 1, n),
         stream' = SubSeq(stream, n + 1, Len(stream))
  PROVE  stream' \in Seq(Nat) /\ pending' \in Seq(Nat) /\ Unread(w, c)'
<1>1. Len(stream) \in Nat /\ Len(pending) \in Nat /\ c \in Nat
  BY DEF Unread
<1>2. \A i \in 1 .. Len(stream) : stream[i] \in Nat
  BY ElementOfSeq
<1> DEFINE piece == SubSeq(stream, 1, n)
<1>3. /\ piece \in Seq(Nat) /\ Len(piece) = n
      /\ \A i \in 1 .. n : piece[i] = stream[i]
  <2>1. 1 \in Int /\ n \in Int /\ \A i \in 1 .. n : stream[i] \in Nat
    BY <1>1, <1>2
  <2>2. /\ piece \in Seq(Nat) /\ Len(piece) = IF 1 \leq n THEN n - 1 + 1 ELSE 0
        /\ \A i \in 1 .. n - 1 + 1 : piece[i] = stream[1 + i - 1]
    BY <2>1, SubSeqProperties
  <2> HIDE DEF piece
  <2> QED
    BY <2>2
<1> HIDE DEF piece
<1>4. /\ stream' \in Seq(Nat) /\ Len(stream') = Len(stream) - n
      /\ \A i \in 1 .. Len(stream) - n : stream'[i] = stream[n + i]
  <2> DEFINE a == n + 1
             b == Len(stream)
  <2>1. a \in Int /\ b \in Int /\ \A i \in a .. b : stream[i] \in Nat
    BY <1>1, <1>2
  <2>2. stream' = SubSeq(stream, a, b)
    OBVIOUS
  <2> HIDE DEF a, b
  <2>3. LET s == SubSeq(stream, a, b)
        IN  /\ s \in Seq(Nat) /\ Len(s) = IF a \leq b THEN b - a + 1 ELSE 0
            /\ \A i \in 1 .. b - a + 1 : s[i] = stream[a + i - 1]
    BY <2>1, SubSeqProperties
  <2>4. /\ a \in Nat /\ b \in Nat /\ a \leq b + 1 /\ b - a + 1 = Len(stream) - n
        /\ \A i \in 1 .. Len(stream) - n : a + i - 1 = n + i
    BY <1>1 DEF a, b
  <2>5. IF a \leq b THEN b - a + 1 = Len(stream) - n ELSE Len(stream) - n = 0
    BY <2>4
  <2> QED
    BY <2>2, <2>3, <2>4, <2>5
<1>5. /\ pending' \in Seq(Nat) /\ Len(pending') = Len(pending) + n
      /\ \A i \in 1 .. Len(pending) + n :
           pending'[i] = IF i \leq Len(pending) THEN pending[i] ELSE piece[i - Len(pending)]
  <2>1. LET s == pending \o piece
        IN  /\ s \in Seq(Nat) /\ Len(s) = Len(pending) + Len(piece)
            /\ \A i \in 1 .. Len(pending) + Len(piece) :
                 s[i] = IF i \leq Len(pending) THEN pending[i] ELSE piece[i - Len(pending)]
    BY <1>3, ConcatProperties
  <2>2. pending' = pending \o piece
    BY DEF piece
  <2> QED
    BY <1>3, <2>1, <2>2
<1>6. ASSUME NEW i \in 1 .. Len(pending')
      PROVE  pending'[i] = w[c + i]
  <2>1. CASE i \leq Len(pending)
    <3>1. i \in 1 .. Len(pending) /\ pending'[i] = pending[i]
      BY <1>1, <1>5, <2>1
    <3> QED
      BY <3>1 DEF Unread
  <2>2. CASE ~(i \leq Len(pending))
    <3> DEFINE j == i - Len(pending)
    <3>1. j \in 1 .. n /\ j \in 1 .. Len(stream) /\ Len(pending) + j = i
      BY <1>1, <1>5, <2>2
    <3>2. pending'[i] = piece[j]
      BY <1>1, <1>5, <2>2
    <3>3. c + i = c + Len(pending) + j
      BY <1>1, <3>1
    <3> HIDE DEF j
    <3>4. pending'[i] = stream[j]
      BY <1>3, <3>1, <3>2
    <3> QED
      BY <3>1, <3>3, <3>4 DEF Unread
  <2> QED
    BY <2>1, <2>2
<1>7. ASSUME NEW i \in 1 .. Len(stream')
      PROVE  stream'[i] = w[c + Len(pending') + i]
  <2>1. n + i \in 1 .. Len(stream) /\ stream'[i] = stream[n + i]
    BY <1>1, <1>4
  <2>2. c + Len(pending') + i = c + Len(pending) + (n + i)
    <3> DEFINE p == Len(pending)
               q == Len(pending')
    <3>1. p \in Nat /\ q = p + n /\ i \in Nat
      BY <1>1, <1>4, <1>5
    <3> HIDE DEF p, q
    <3>2. c + q + i = c + p + (n + i)
      BY <1>1, <3>1
    <3> QED
      BY <3>2 DEF p, q
  <2> QED
    BY <2>1, <2>2 DEF Unread
<1>8. c + Len(pending') + Len(stream') = Len(w)
  <2> DEFINE p == Len(pending)
             q == Len(pending')
             s == Len(stream)
             t == Len(stream')
  <2>1. p \in Nat /\ s \in Nat /\ q = p + n /\ t = s - n /\ c + p + s = Len(w)
    BY <1>1, <1>4, <1>5 DEF Unread
  <2> HIDE DEF p, q, s, t
  <2>2. c + q + t = c + p + s
    BY <1>1, <2>1
  <2> QED
    BY <2>1, <2>2 DEF q, t
<1> QED
  BY <1>1, <1>4, <1>5, <1>6, <1>7, <1>8 DEF Unread

(* The first cells of what is pending are done with. *)
LEMMA CellsGo ==
  ASSUME NEW w, NEW c, Unread(w, c), stream \in Seq(Nat), pending \in Seq(Nat),
         NEW n \in Nat, n \leq Len(pending),
         pending' = SubSeq(pending, n + 1, Len(pending)), stream' = stream
  PROVE  pending' \in Seq(Nat) /\ Unread(w, c + n)'
<1>1. Len(stream) \in Nat /\ Len(pending) \in Nat /\ c \in Nat
  BY DEF Unread
<1>2. /\ pending' \in Seq(Nat) /\ Len(pending') = Len(pending) - n
      /\ \A i \in 1 .. Len(pending) - n : pending'[i] = pending[n + i]
  <2> DEFINE a == n + 1
             b == Len(pending)
  <2>1. a \in Int /\ b \in Int /\ \A i \in a .. b : pending[i] \in Nat
    BY <1>1, ElementOfSeq
  <2>2. pending' = SubSeq(pending, a, b)
    OBVIOUS
  <2> HIDE DEF a, b
  <2>3. LET s == SubSeq(pending, a, b)
        IN  /\ s \in Seq(Nat) /\ Len(s) = IF a \leq b THEN b - a + 1 ELSE 0
            /\ \A i \in 1 .. b - a + 1 : s[i] = pending[a + i - 1]
    BY <2>1, SubSeqProperties
  <2>4. /\ a \in Nat /\ b \in Nat /\ a \leq b + 1 /\ b - a + 1 = Len(pending) - n
        /\ \A i \in 1 .. Len(pending) - n : a + i - 1 = n + i
    BY <1>1 DEF a, b
  <2>5. IF a \leq b THEN b - a + 1 = Len(pending) - n ELSE Len(pending) - n = 0
    BY <2>4
  <2> QED
    BY <2>2, <2>3, <2>4, <2>5
<1>3. ASSUME NEW i \in 1 .. Len(pending')
      PROVE  pending'[i] = w[(c + n) + i]
  <2>1. n + i \in 1 .. Len(pending) /\ pending'[i] = pending[n + i]
    BY <1>1, <1>2
  <2>2. (c + n) + i = c + (n + i)
    BY <1>1, <1>2
  <2> QED
    BY <2>1, <2>2 DEF Unread
<1>4. ASSUME NEW i \in 1 .. Len(stream)
      PROVE  stream[i] = w[(c + n) + Len(pending') + i]
  <2>1. (c + n) + Len(pending') + i = c + Len(pending) + i
    <3> DEFINE p == Len(pending)
               q == Len(pending')
    <3>1. p \in Nat /\ q = p - n /\ i \in Nat
      BY <1>1, <1>2
    <3> HIDE DEF p, q
    <3>2. (c + n) + q + i = c + p + i
      BY <1>1, <3>1
    <3> QED
      BY <3>2 DEF p, q
  <2> QED
    BY <2>1 DEF Unread
<1>5. (c + n) + Len(pending') + Len(stream) = Len(w) /\ c + n \in Nat
  <2> DEFINE p == Len(pending)
             q == Len(pending')
             s == Len(stream)
  <2>1. p \in Nat /\ s \in Nat /\ q = p - n /\ c + p + s = Len(w)
    BY <1>1, <1>2 DEF Unread
  <2> HIDE DEF p, q, s
  <2>2. (c + n) + q + s = c + p + s /\ c + n \in Nat
    BY <1>1, <2>1
  <2> QED
    BY <2>1, <2>2 DEF q, s
<1> QED
  BY <1>2, <1>3, <1>4, <1>5 DEF Unread

-----------------------------------------------------------------------------
USE DEF HEADER_LEN

(* The packet to be returned next, and where it starts. *)
NextSent == sent[Len(got) + 1]
Start(ends, hole) == ends[Len(got)] + Gap(hole, Len(got))

(* What is known of the stream before the next packet. *)
LEMMA NoiseLies ==
  ASSUME StreamTyped, Plain, NEW w, NEW ends, NEW hole, NEW c, Cut(w, ends, hole, c)
  PROVE  /\ Len(got) \in Nat /\ Len(sent) \in Nat /\ Len(got) \leq Len(sent)
         /\ Len(noise) \in Nat /\ Len(w) \in Nat
         /\ Len(pending) \in Nat /\ Len(stream) \in Nat /\ c \in Nat
         /\ ends[Len(got)] \in Nat /\ Gap(hole, Len(got)) \in Nat
         /\ Start(ends, hole) \in Nat /\ Start(ends, hole) \leq Len(w)
         /\ Len(got) = Len(sent) => Len(w) = Start(ends, hole)
         /\ Gap(hole, Len(got)) # 0 =>
              /\ Gap(hole, Len(got)) = Len(noise) /\ HEADER_LEN \leq Len(noise)
              /\ Len(noise) - HEADER_LEN < MaxScan
              /\ \A i \in 1 .. Len(noise) : w[ends[Len(got)] + i] # MAGIC
<1>1. /\ Len(got) \in Nat /\ Len(sent) \in Nat /\ Len(got) \leq Len(sent)
      /\ Len(noise) \in Nat /\ Len(w) \in Nat
      /\ Len(pending) \in Nat /\ Len(stream) \in Nat /\ c \in Nat
  BY DEF StreamTyped, HistoryTyped, Cut, Laid, Unread, Returned
<1>2. Len(got) \in 0 .. Len(sent)
  BY <1>1
<1>3. ends[Len(got)] \in Nat
  BY <1>2 DEF Cut, Laid
<1>4. Gap(hole, Len(got)) \in Nat
  BY <1>1 DEF Gap
<1>5. ends[Len(got)] + Gap(hole, Len(got)) \leq Len(w)
  BY <1>2 DEF Cut, Laid
<1>6. Len(w) = ends[Len(sent)] + Gap(hole, Len(sent))
  BY DEF Cut, Laid
<1>7. ASSUME Gap(hole, Len(got)) # 0
      PROVE  /\ Gap(hole, Len(got)) = Len(noise) /\ HEADER_LEN \leq Len(noise)
             /\ Len(noise) - HEADER_LEN < MaxScan
             /\ \A i \in 1 .. Len(noise) : w[ends[Len(got)] + i] # MAGIC
  <2>1. hole = Len(got) /\ Gap(hole, Len(got)) = Len(noise) /\ Len(noise) # 0
    BY <1>7 DEF Gap
  <2>2. Skippable(noise)
    BY <2>1 DEF Plain
  <2>3. \A i \in 1 .. Len(noise) : noise[i] # MAGIC
    <3>1. DOMAIN noise = 1 .. Len(noise)
      BY DEF StreamTyped, HistoryTyped
    <3> QED
      BY <2>2, <3>1 DEF Skippable, Range
  <2>4. \A i \in 1 .. Len(noise) : w[ends[hole] + i] = noise[i]
    BY DEF Cut, Laid
  <2> QED
    BY <1>1, <2>1, <2>2, <2>3, <2>4 DEF Skippable
<1> QED
  BY <1>1, <1>3, <1>4, <1>5, <1>6, <1>7 DEF Start

(* What is known of the next packet. *)
LEMMA PacketLies ==
  ASSUME StreamTyped, Plain, NEW w, NEW ends, NEW hole, NEW c, Cut(w, ends, hole, c),
         Len(got) < Len(sent)
  PROVE  /\ NextSent \in Packets /\ Len(NextSent.payload) \in Nat
         /\ Len(NextSent.payload) < LenWord
         /\ ends[Len(got) + 1] = Start(ends, hole) + HEADER_LEN + Len(NextSent.payload)
         /\ ends[Len(got) + 1] \leq Len(w)
         /\ \A i \in 1 .. HEADER_LEN + Len(NextSent.payload) :
              w[Start(ends, hole) + i] = Encode(NextSent)[i]
<1> DEFINE k == Len(got) + 1
<1>1. k \in 1 .. Len(sent) /\ k - 1 = Len(got) /\ k \in 0 .. Len(sent)
  BY NoiseLies
<1>2. NextSent = sent[k]
  BY DEF NextSent
<1> HIDE DEF k
<1>3. sent[k] \in Packets
  BY <1>1, ElementOfSeq DEF StreamTyped, HistoryTyped
<1>4. Len(sent[k].payload) \in Nat
  BY <1>3 DEF Packets
<1>5. Len(sent[k].payload) < LenWord
  BY <1>1 DEF Plain
<1>6. /\ ends[k] = ends[k - 1] + Gap(hole, k - 1) + HEADER_LEN + Len(sent[k].payload)
      /\ \A i \in 1 .. HEADER_LEN + Len(sent[k].payload) :
           w[ends[k - 1] + Gap(hole, k - 1) + i] = Encode(sent[k])[i]
  BY <1>1 DEF Cut, Laid
<1>7. Start(ends, hole) = ends[k - 1] + Gap(hole, k - 1)
  BY <1>1 DEF Start
<1>8. ends[k] \in Nat /\ Gap(hole, k) \in Nat /\ ends[k] + Gap(hole, k) \leq Len(w)
  BY <1>1, NoiseLies DEF Cut, Laid, Gap
<1>9. ends[k] \leq Len(w)
  <2> DEFINE a == ends[k]
             b == Gap(hole, k)
             m == Len(w)
  <2>1. a \in Nat /\ b \in Nat /\ m \in Nat /\ a + b \leq m
    BY <1>8, NoiseLies
  <2> HIDE DEF a, b, m
  <2>2. a \leq m
    BY <2>1
  <2> QED
    BY <2>2 DEF a, m
<1> QED
  BY <1>2, <1>3, <1>4, <1>5, <1>6, <1>7, <1>9 DEF k

(* The packet that the header and the payload on the wire make. *)
LEMMA PacketIs ==
  ASSUME NEW p \in Packets, Len(p.payload) < LenWord
  PROVE  LET h == SubSeq(Encode(p), 1, HEADER_LEN)
         IN  h[4] = Len(p.payload) /\ PacketOf(h, p.payload) = p
<1> DEFINE h == SubSeq(Encode(p), 1, HEADER_LEN)
<1>1. /\ Encode(p) \in Seq(Nat) /\ Len(Encode(p)) = HEADER_LEN + Len(p.payload)
      /\ Encode(p)[2] = Tag[p.kind] /\ Encode(p)[3] = p.seq
      /\ Encode(p)[4] = Len(p.payload)
  BY EncodeIs
<1>2. p.kind \in Kinds /\ Len(p.payload) \in Nat
  BY DEF Packets
<1>3. /\ h[2] = Tag[p.kind] /\ h[3] = p.seq
      /\ h[4] = Len(p.payload)
  <2>1. \A i \in 1 .. 4 : Encode(p)[i] \in Nat
    BY <1>1, <1>2, ElementOfSeq
  <2> DEFINE e == Encode(p)
  <2> HIDE DEF e
  <2>2. \A i \in 1 .. 4 - 1 + 1 : SubSeq(e, 1, 4)[i] = e[1 + i - 1]
    BY <2>1, SubSeqProperties DEF e
  <2>3. SubSeq(e, 1, 4)[2] = e[2] /\ SubSeq(e, 1, 4)[3] = e[3] /\ SubSeq(e, 1, 4)[4] = e[4]
    BY <2>2
  <2> QED
    BY <1>1, <2>3 DEF e
<1> HIDE DEF h
<1>4. KindOf(Tag[p.kind]) = p.kind
  BY <1>2, TagIs
<1>5. PacketOf(h, p.payload)
        = [kind |-> p.kind, seq |-> p.seq, payload |-> p.payload]
  BY <1>3, <1>4 DEF PacketOf
<1> QED
  BY <1>3, <1>5 DEF Packets, h

(* Reading leaves the framer where it is. *)
LEMMA ReadKeeps ==
  ASSUME StreamTyped, Plain, NEW w, NEW ends, NEW hole, NEW c, Cut(w, ends, hole, c),
         NEW n \in Nat, Read(n)
  PROVE  stream' \in Seq(Nat) /\ pending' \in Seq(Nat) /\ Cut(w, ends, hole, c)'
<1>1. /\ stream \in Seq(Nat) /\ pending \in Seq(Nat)
      /\ framer \in {"header", "payload", "resync", "eof", "corrupt"}
  BY DEF StreamTyped, HistoryTyped
<1>2. /\ n \leq Len(stream) /\ pending' = pending \o SubSeq(stream, 1, n)
      /\ stream' = SubSeq(stream, n + 1, Len(stream))
      /\ UNCHANGED <<closed, sent, noise, header, scanned, framer, got>>
  BY DEF Read
<1>3. stream' \in Seq(Nat) /\ pending' \in Seq(Nat) /\ Unread(w, c)'
  BY <1>1, <1>2, PieceMoves DEF Cut
<1>4. framer \notin {"eof", "corrupt"}
  BY NoiseLies DEF Read, Wanted
<1>5. Laid(w, ends, hole)'
  BY <1>2 DEF Cut, Laid, Gap
<1>6. Stands(ends, hole, c)'
  BY <1>2 DEF Cut, Stands, Gap
<1>7. Returned'
  BY <1>2, <1>4 DEF Cut, Returned
<1> QED
  BY <1>3, <1>5, <1>6, <1>7 DEF Cut

(* The stream ends behind the last packet, or in the noise behind it. *)
LEMMA EndKeeps ==
  ASSUME StreamTyped, Plain, NEW w, NEW ends, NEW hole, NEW c, Cut(w, ends, hole, c),
         ReadEnd
  PROVE  framer' \in {"eof", "corrupt"} /\ Cut(w, ends, hole, c)'
<1>1. /\ Len(pending) < Wanted /\ stream = << >> /\ closed
      /\ framer' \in {"eof", "corrupt"}
      /\ UNCHANGED <<writerVars, pending, header, scanned, got>>
  BY DEF ReadEnd
<1> DEFINE g == Len(got)
           l == Len(w)
           p == Len(pending)
           a == ends[g]
           b == Gap(hole, g)
<1>2. /\ l \in Nat /\ p \in Nat /\ a \in Nat /\ b \in Nat /\ c \in Nat /\ c + p = l
      /\ a + b \leq l /\ (b # 0 => 4 \leq b)
  <2>1. Len(stream) = 0
    BY <1>1
  <2>2. c + Len(pending) + Len(stream) = Len(w)
    BY DEF Cut, Unread
  <2>3. c + Len(pending) = Len(w)
    BY <2>1, <2>2, NoiseLies
  <2> QED
    BY <2>3, NoiseLies DEF Start
<1> DEFINE m == Len(NextSent.payload)
<1>3. g # Len(sent) => /\ m \in Nat /\ (a + b) + 4 + m \leq l
  <2> SUFFICES ASSUME g # Len(sent) PROVE m \in Nat /\ (a + b) + 4 + m \leq l
    OBVIOUS
  <2>1. Len(got) < Len(sent)
    BY NoiseLies
  <2> QED
    BY <2>1, PacketLies DEF Start
<1>4. g = Len(sent)
  <2>1. framer \in {"header", "payload", "resync", "eof", "corrupt"}
    BY DEF StreamTyped, HistoryTyped
  <2>2. CASE framer = "header"
    <3>1. c = a \/ c = a + b
      BY <2>2 DEF Cut, Stands
    <3>2. p < 4
      BY <1>1, <2>2 DEF Wanted
    <3>3. SUFFICES ASSUME g # Len(sent) PROVE FALSE
      OBVIOUS
    <3>4. m \in Nat /\ (a + b) + 4 + m \leq l
      BY <1>3, <3>3
    <3> HIDE DEF g, l, p, a, b, m
    <3> QED
      BY <1>2, <3>1, <3>2, <3>4
  <2>3. CASE framer = "payload"
    <3>1. /\ c = (a + b) + 4 /\ g < Len(sent)
          /\ header = SubSeq(Encode(NextSent), 1, HEADER_LEN)
      BY <2>3 DEF Cut, Stands, NextSent
    <3>2. NextSent \in Packets /\ Len(NextSent.payload) < LenWord
      BY <3>1, PacketLies
    <3>3. header[4] = m
      BY <3>1, <3>2, PacketIs
    <3>4. p < m
      BY <1>1, <2>3, <3>3 DEF Wanted
    <3>5. g # Len(sent)
      BY <3>1, NoiseLies
    <3>6. m \in Nat /\ (a + b) + 4 + m \leq l
      BY <1>3, <3>5
    <3> HIDE DEF g, l, p, a, b, m
    <3> QED
      BY <1>2, <3>1, <3>4, <3>6
  <2>4. CASE framer = "resync"
    <3>1. /\ a + 4 \leq c /\ c \leq a + Len(noise) /\ hole = g
      BY <2>4 DEF Cut, Stands
    <3>2. c \leq a + b
      BY <3>1 DEF Gap
    <3>3. p < 1
      BY <1>1, <2>4 DEF Wanted
    <3>4. SUFFICES ASSUME g # Len(sent) PROVE FALSE
      OBVIOUS
    <3>5. m \in Nat /\ (a + b) + 4 + m \leq l
      BY <1>3, <3>4
    <3> HIDE DEF g, l, p, a, b, m
    <3> QED
      BY <1>2, <3>2, <3>3, <3>5
  <2>5. CASE framer \in {"eof", "corrupt"}
    BY <2>5 DEF Cut, Returned
  <2> QED
    BY <2>1, <2>2, <2>3, <2>4, <2>5
<1>5. Laid(w, ends, hole)' /\ Unread(w, c)'
  BY <1>1 DEF Cut, Laid, Gap, Unread, writerVars
<1>6. Stands(ends, hole, c)'
  BY <1>1 DEF Stands
<1>7. Returned'
  BY <1>1, <1>4 DEF Cut, Returned, writerVars
<1> QED
  BY <1>1, <1>5, <1>6, <1>7 DEF Cut

(* A header that is taken is the next packet's, or the first of the noise. *)
LEMMA HeaderKeeps ==
  ASSUME StreamTyped, Plain, NEW w, NEW ends, NEW hole, NEW c, Cut(w, ends, hole, c),
         TakeHeader
  PROVE  /\ framer' \in {"payload", "resync"} /\ pending' \in Seq(Nat)
         /\ Cut(w, ends, hole, c + HEADER_LEN)'
<1> DEFINE g == Len(got)
           l == Len(w)
           p == Len(pending)
           a == ends[g]
           b == Gap(hole, g)
           taken == SubSeq(pending, 1, HEADER_LEN)
<1>1. /\ framer = "header" /\ 4 \leq p
      /\ UNCHANGED <<stream, closed, sent, noise, got>>
  BY DEF TakeHeader, writerVars
<1>2. /\ l \in Nat /\ p \in Nat /\ a \in Nat /\ b \in Nat /\ c \in Nat
      /\ Len(stream) \in Nat /\ c + p + Len(stream) = l
      /\ pending \in Seq(Nat)
  BY NoiseLies DEF Cut, Unread, StreamTyped, HistoryTyped
<1>3. c = a \/ c = a + b
  BY <1>1 DEF Cut, Stands
<1>4. /\ taken \in Seq(Nat) /\ Len(taken) = 4
      /\ \A i \in 1 .. 4 : taken[i] = w[c + i]
  <2>1. \A i \in 1 .. 4 : i \in 1 .. Len(pending)
    BY <1>1, <1>2
  <2>2. \A i \in 1 .. 4 : pending[i] \in Nat /\ pending[i] = w[c + i]
    BY <1>2, <2>1, ElementOfSeq DEF Cut, Unread
  <2>3. LET s == SubSeq(pending, 1, 4)
        IN  /\ s \in Seq(Nat) /\ Len(s) = IF 1 \leq 4 THEN 4 - 1 + 1 ELSE 0
            /\ \A i \in 1 .. 4 - 1 + 1 : s[i] = pending[1 + i - 1]
    BY <2>2, SubSeqProperties
  <2> QED
    BY <2>2, <2>3
<1> HIDE DEF taken
<1>5. /\ framer' = CASE HeaderOf(taken) = "BadMagic" -> "resync"
                     [] HeaderOf(taken) = "ReservedType" -> "corrupt"
                     [] OTHER -> "payload"
      /\ pending' = IF HeaderOf(taken) = "ReservedType" THEN pending ELSE AfterHeader
      /\ header' = IF HeaderOf(taken) = "ok" THEN taken ELSE << >>
      /\ scanned' = 0
  BY DEF TakeHeader, taken
<1>6. Laid(w, ends, hole)'
  BY <1>1 DEF Cut, Laid, Gap
<1>7. ASSUME HeaderOf(taken) \in {"BadMagic", "ok"}
      PROVE  /\ framer' \in {"payload", "resync"} /\ pending' \in Seq(Nat)
             /\ Unread(w, c + HEADER_LEN)' /\ Returned'
  <2>1. pending' = SubSeq(pending, 4 + 1, Len(pending))
    BY <1>5, <1>7 DEF AfterHeader
  <2>2. pending' \in Seq(Nat) /\ Unread(w, c + 4)'
    BY <1>1, <1>2, <2>1, CellsGo DEF Cut, StreamTyped, HistoryTyped
  <2>3. framer' \in {"payload", "resync"}
    BY <1>5, <1>7
  <2>4. Returned'
    BY <1>1, <2>3 DEF Cut, Returned
  <2> QED
    BY <2>2, <2>3, <2>4
<1>8. CASE c = a + b
  <2>1. g < Len(sent)
    <3>1. g = Len(sent) => l = a + b
      BY NoiseLies DEF Start
    <3> DEFINE s == Len(stream)
    <3>2. s \in Nat /\ c + p + s = l
      BY <1>2
    <3> HIDE DEF l, p, a, b, s
    <3>3. l # a + b
      BY <1>1, <1>2, <1>8, <3>2
    <3>4. g # Len(sent) /\ g \leq Len(sent) /\ g \in Nat /\ Len(sent) \in Nat
      BY <3>1, <3>3, NoiseLies
    <3> QED
      BY <3>4
  <2>2. /\ NextSent \in Packets /\ Len(NextSent.payload) < LenWord
        /\ Len(NextSent.payload) \in Nat
        /\ \A i \in 1 .. HEADER_LEN + Len(NextSent.payload) :
             w[c + i] = Encode(NextSent)[i]
    BY <1>8, <2>1, PacketLies DEF Start
  <2> DEFINE e == Encode(NextSent)
  <2>3. /\ e \in Seq(Nat) /\ Len(e) = 4 + Len(NextSent.payload)
        /\ e[1] = MAGIC /\ e[2] = Tag[NextSent.kind]
    BY <2>2, EncodeIs
  <2>4. \A i \in 1 .. 4 : taken[i] = e[i] /\ e[i] \in Nat
    <3>1. \A i \in 1 .. 4 : i \in 1 .. 4 + Len(NextSent.payload)
      BY <2>2
    <3>2. \A i \in 1 .. 4 : taken[i] = e[i]
      BY <1>4, <2>2, <3>1
    <3> HIDE DEF e
    <3>3. \A i \in 1 .. 4 : e[i] \in Nat
      BY <2>3, <3>1, ElementOfSeq
    <3> QED
      BY <3>2, <3>3
  <2>5. HeaderOf(taken) = "ok"
    <3>1. ~Reserved(Tag[NextSent.kind])
      BY <2>2, TagIs DEF Packets
    <3>2. taken[1] = MAGIC /\ taken[2] = Tag[NextSent.kind]
      BY <2>3, <2>4
    <3> QED
      BY <3>1, <3>2 DEF HeaderOf
  <2>6. taken = SubSeq(e, 1, 4)
    <3> HIDE DEF e
    <3>1. LET s == SubSeq(e, 1, 4)
          IN  /\ s \in Seq(Nat) /\ Len(s) = IF 1 \leq 4 THEN 4 - 1 + 1 ELSE 0
              /\ \A i \in 1 .. 4 - 1 + 1 : s[i] = e[1 + i - 1]
      BY <2>4, SubSeqProperties
    <3> DEFINE s == SubSeq(e, 1, 4)
    <3>2. s \in Seq(Nat) /\ Len(taken) = Len(s) /\ \A i \in 1 .. Len(taken) : taken[i] = s[i]
      BY <1>4, <2>4, <3>1
    <3> HIDE DEF s
    <3>3. taken = s
      BY <1>4, <3>2, SeqEqual
    <3> QED
      BY <3>3 DEF s
  <2>7. framer' = "payload" /\ header' = taken
    BY <1>5, <2>5
  <2>8. Stands(ends, hole, c + HEADER_LEN)'
    BY <1>1, <1>8, <2>1, <2>6, <2>7 DEF Stands, Gap, NextSent
  <2> QED
    BY <1>6, <1>7, <2>5, <2>8 DEF Cut
<1>9. CASE c = a /\ c # a + b
  <2>1. /\ b # 0 /\ b = Len(noise) /\ 4 \leq Len(noise) /\ Len(noise) \in Nat
        /\ \A i \in 1 .. Len(noise) : w[a + i] # MAGIC
        /\ hole = g
    <3>1. b # 0
      BY <1>2, <1>9
    <3> QED
      BY <3>1, NoiseLies DEF Gap
  <2>2. w[c + 1] # MAGIC
    <3>1. 1 \in 1 .. Len(noise)
      BY <2>1
    <3> QED
      BY <1>9, <2>1, <3>1
  <2>3. HeaderOf(taken) = "BadMagic"
    BY <1>4, <2>2 DEF HeaderOf
  <2>4. framer' = "resync" /\ scanned' = 0
    BY <1>5, <2>3
  <2>5. /\ a + 4 \leq c + 4 /\ c + 4 \leq a + Len(noise) /\ (c + 4) - (a + 4) = 0
    BY <1>2, <1>9, <2>1
  <2>6. Stands(ends, hole, c + HEADER_LEN)'
    BY <1>1, <2>1, <2>4, <2>5 DEF Stands
  <2> QED
    BY <1>6, <1>7, <2>3, <2>6 DEF Cut
<1> QED
  BY <1>3, <1>8, <1>9

(* The payload that is taken is the next packet's. *)
LEMMA PayloadKeeps ==
  ASSUME StreamTyped, Plain, NEW w, NEW ends, NEW hole, NEW c, Cut(w, ends, hole, c),
         TakePayload
  PROVE  /\ pending' \in Seq(Nat) /\ framer' = "header"
         /\ \E d \in Nat : Cut(w, ends, hole, d)'
<1> DEFINE g == Len(got)
           p == NextSent
           m == Len(p.payload)
           taken == SubSeq(pending, 1, header[4])
<1>1. /\ framer = "payload" /\ header[4] \leq Len(pending)
      /\ got' = Append(got, PacketOf(header, taken))
      /\ pending' = AfterPayload /\ framer' = "header"
      /\ UNCHANGED <<stream, closed, sent, noise>>
  BY DEF TakePayload, writerVars
<1>2. /\ c = Start(ends, hole) + 4 /\ g < Len(sent)
      /\ header = SubSeq(Encode(p), 1, HEADER_LEN)
  BY <1>1 DEF Cut, Stands, Start, NextSent
<1>3. /\ p \in Packets /\ m \in Nat /\ m < LenWord
      /\ ends[g + 1] = Start(ends, hole) + 4 + m
      /\ \A i \in 1 .. 4 + m : w[Start(ends, hole) + i] = Encode(p)[i]
  BY <1>2, PacketLies
<1>4. header[4] = m /\ PacketOf(header, p.payload) = p
  BY <1>2, <1>3, PacketIs
<1>5. /\ g \in Nat /\ Len(sent) \in Nat /\ c \in Nat /\ Start(ends, hole) \in Nat
      /\ pending \in Seq(Nat) /\ Len(pending) \in Nat /\ stream \in Seq(Nat)
  BY NoiseLies DEF StreamTyped, HistoryTyped
<1>6. \A i \in 1 .. m : pending[i] = p.payload[i]
  <2> SUFFICES ASSUME NEW i \in 1 .. m PROVE pending[i] = p.payload[i]
    OBVIOUS
  <2>1. i \in 1 .. Len(pending)
    BY <1>1, <1>3, <1>4, <1>5
  <2>2. pending[i] = w[c + i]
    BY <2>1 DEF Cut, Unread
  <2>3. c + i = Start(ends, hole) + (4 + i) /\ 4 + i \in 1 .. 4 + m
    <3> DEFINE s == Start(ends, hole)
    <3>1. c = s + 4 /\ s \in Nat /\ m \in Nat
      BY <1>2, <1>3, <1>5
    <3> HIDE DEF s, m
    <3>2. c + i = s + (4 + i) /\ 4 + i \in 1 .. 4 + m
      BY <3>1
    <3> QED
      BY <3>2 DEF s
  <2>4. pending[i] = Encode(p)[4 + i]
    BY <1>3, <2>2, <2>3
  <2>5. Encode(p)[4 + i] = p.payload[i]
    BY <1>3, EncodeIs
  <2> QED
    BY <2>4, <2>5
<1> DEFINE q == p.payload
<1>7. q \in Seq(Nat) /\ Len(q) = m
  BY <1>3 DEF Packets
<1>8. taken = q
  <2>1. \A i \in 1 .. m : pending[i] = q[i] /\ q[i] \in Nat
    <3> HIDE DEF q
    <3>1. \A i \in 1 .. m : q[i] \in Nat
      BY <1>7, ElementOfSeq
    <3> QED
      BY <1>6, <3>1 DEF q
  <2>2. taken = SubSeq(pending, 1, m)
    BY <1>4
  <2> HIDE DEF m, q, taken
  <2>3. /\ taken \in Seq(Nat) /\ Len(taken) = IF 1 \leq m THEN m - 1 + 1 ELSE 0
        /\ \A i \in 1 .. m - 1 + 1 : taken[i] = pending[1 + i - 1]
    BY <1>3, <2>1, <2>2, SubSeqProperties
  <2>4. m \in Nat /\ Len(q) = m
    BY <1>3, <1>7
  <2>5. Len(taken) = m /\ \A i \in 1 .. m : taken[i] = pending[i]
    BY <2>3, <2>4
  <2> QED
    BY <1>7, <2>1, <2>3, <2>4, <2>5, SeqEqual
<1>9. got' = Append(got, p)
  BY <1>1, <1>4, <1>8
<1> HIDE DEF p, m, taken, q
<1>10. /\ got' \in Seq(Packets) /\ Len(got') = g + 1
       /\ \A i \in 1 .. g : got'[i] = got[i]
       /\ got'[g + 1] = p
  <2>1. got \in Seq(Packets)
    BY DEF Cut, Returned
  <2> QED
    BY <1>3, <1>9, <2>1, AppendProperties
<1>11. Returned'
  <2>1. ASSUME NEW i \in 1 .. g + 1
        PROVE  got'[i] = sent[i]
    <3>1. CASE i \in 1 .. g
      BY <1>10, <3>1 DEF Cut, Returned
    <3>2. CASE i = g + 1
      BY <1>10, <3>2 DEF p, NextSent
    <3> QED
      BY <1>5, <3>1, <3>2
  <2>2. g + 1 \leq Len(sent)
    BY <1>2, <1>5
  <2> QED
    BY <1>1, <1>10, <2>1, <2>2 DEF Returned
<1>12. PICK k \in Nat : k = m
  BY <1>3
<1>13. /\ pending' \in Seq(Nat) /\ Unread(w, c + k)'
  <2>1. /\ pending' = SubSeq(pending, k + 1, Len(pending)) /\ k \leq Len(pending)
        /\ stream' = stream /\ Unread(w, c)
    BY <1>1, <1>4, <1>12 DEF AfterPayload, Cut
  <2> QED
    BY <1>5, <2>1, CellsGo
<1>14. Laid(w, ends, hole)'
  BY <1>1 DEF Cut, Laid, Gap
<1>15. c + k = ends[g + 1] /\ c + k \in Nat
  BY <1>2, <1>3, <1>5, <1>12
<1>16. Stands(ends, hole, c + k)'
  BY <1>1, <1>10, <1>15 DEF Stands
<1>17. Cut(w, ends, hole, c + k)'
  BY <1>11, <1>13, <1>14, <1>16 DEF Cut
<1> QED
  BY <1>1, <1>13, <1>15, <1>17

(* In a scan, the first magic byte is that of the next packet. *)
LEMMA MagicLies ==
  ASSUME StreamTyped, Plain, NEW w, NEW ends, NEW hole, NEW c, Cut(w, ends, hole, c),
         framer = "resync"
  PROVE  LET j == (Start(ends, hole) - c) + 1
         IN  /\ j \in Nat /\ j > 0 /\ c + (j - 1) = Start(ends, hole)
             /\ hole = Len(got)
             /\ ends[Len(got)] + HEADER_LEN \leq c
             /\ scanned = c - (ends[Len(got)] + HEADER_LEN)
             /\ scanned + (j - 1) < MaxScan
             /\ \A i \in Magics : j \leq i
             /\ j \leq Len(pending) => j \in Magics
<1> DEFINE a == ends[Len(got)]
           b == Gap(hole, Len(got))
           p == Len(pending)
           l == Len(w)
           s == Len(stream)
           j == ((a + b) - c) + 1
<1>1. /\ hole = Len(got) /\ a + 4 \leq c /\ c \leq a + b /\ scanned = c - (a + 4)
      /\ b = Len(noise)
  BY DEF Cut, Stands, Gap
<1>2. /\ a \in Nat /\ b \in Nat /\ c \in Nat /\ p \in Nat /\ l \in Nat /\ s \in Nat
      /\ a + b \leq l /\ c + p + s = l /\ MaxScan \in Nat
      /\ Start(ends, hole) = a + b
  BY NoiseLies, FramingAssumption DEF Start, Cut, Unread
<1>3. /\ b # 0 /\ b - 4 < MaxScan /\ \A i \in 1 .. b : w[a + i] # MAGIC
  <2>1. b # 0
    <3> HIDE DEF a, b, p, l, s
    <3> QED
      BY <1>1, <1>2
  <2> QED
    BY <1>1, <2>1, NoiseLies
<1>4. /\ j \in Nat /\ j > 0 /\ c + (j - 1) = a + b
      /\ scanned + (j - 1) < MaxScan
  <2> HIDE DEF a, b, p, l, s
  <2> QED
    BY <1>1, <1>2, <1>3
<1>5. ASSUME NEW i \in Magics
      PROVE  j \leq i
  <2>1. i \in 1 .. p /\ pending[i] = MAGIC
    BY DEF Magics
  <2>2. w[c + i] = MAGIC
    BY <2>1 DEF Cut, Unread
  <2> SUFFICES ASSUME ~(j \leq i) PROVE FALSE
    OBVIOUS
  <2> DEFINE k == (c - a) + i
  <2>3. k \in 1 .. b /\ a + k = c + i
    <3> HIDE DEF a, b, p, l, s
    <3> QED
      BY <1>1, <1>2, <2>1
  <2> HIDE DEF k, a, b
  <2> QED
    BY <1>3, <2>2, <2>3
<1>6. ASSUME j \leq p
      PROVE  j \in Magics
  <2>1. /\ j \in 1 .. p /\ l # a + b /\ c + j = (a + b) + 1
    <3> HIDE DEF a, b, p, l, s
    <3> QED
      BY <1>1, <1>2, <1>6
  <2>2. Len(got) < Len(sent)
    BY <1>2, <2>1, NoiseLies DEF Start
  <2>3. /\ NextSent \in Packets /\ Len(NextSent.payload) < LenWord
        /\ Len(NextSent.payload) \in Nat
        /\ \A i \in 1 .. 4 + Len(NextSent.payload) :
             w[(a + b) + i] = Encode(NextSent)[i]
    BY <2>2, PacketLies DEF Start
  <2>4. w[(a + b) + 1] = MAGIC
    <3>1. 1 \in 1 .. 4 + Len(NextSent.payload)
      BY <2>3
    <3> QED
      BY <2>3, <3>1, EncodeIs
  <2>5. pending[j] = w[c + j]
    BY <2>1 DEF Cut, Unread
  <2> HIDE DEF a, b, p
  <2> QED
    BY <2>1, <2>4, <2>5 DEF Magics, p
<1> QED
  BY <1>1, <1>2, <1>4, <1>5, <1>6

(* The scan goes on at the next packet ... *)
LEMMA FindKeeps ==
  ASSUME StreamTyped, Plain, NEW w, NEW ends, NEW hole, NEW c, Cut(w, ends, hole, c),
         FindMagic
  PROVE  /\ pending' \in Seq(Nat) /\ framer' = "header"
         /\ \E d \in Nat : Cut(w, ends, hole, d)'
<1>1. /\ framer = "resync" /\ Magics # {}
      /\ UNCHANGED <<stream, closed, sent, noise, header, got>>
  BY DEF FindMagic, writerVars
<1> DEFINE j == (Start(ends, hole) - c) + 1
           first == CHOOSE i \in Magics : \A k \in Magics : i \leq k
<1>2. /\ j \in Nat /\ j > 0 /\ c + (j - 1) = Start(ends, hole) /\ hole = Len(got)
      /\ scanned + (j - 1) < MaxScan
      /\ \A i \in Magics : j \leq i
      /\ j \leq Len(pending) => j \in Magics
  BY <1>1, MagicLies
<1>3. Magics \subseteq 1 .. Len(pending) /\ Len(pending) \in Nat /\ c \in Nat
  BY NoiseLies DEF Magics
<1> HIDE DEF j
<1>4. j \in Magics
  <2>1. PICK i \in Magics : TRUE
    BY <1>1
  <2>2. j \leq i /\ i \in 1 .. Len(pending)
    BY <1>2, <1>3, <2>1
  <2>3. j \leq Len(pending)
    BY <1>2, <1>3, <2>2
  <2> QED
    BY <1>2, <2>3
<1>5. first = j
  <2>1. first \in Magics /\ \A k \in Magics : first \leq k
    BY <1>2, <1>4
  <2> HIDE DEF first
  <2>2. first \leq j /\ j \leq first /\ first \in Nat
    BY <1>2, <1>3, <1>4, <2>1
  <2> QED
    BY <1>2, <2>2
<1>6. /\ scanned' = scanned + first - 1
      /\ IF scanned' > MaxScan
           THEN framer' = "corrupt" /\ UNCHANGED pending
           ELSE framer' = "header" /\ pending' = FromMagic(first)
  BY DEF FindMagic
<1> HIDE DEF first
<1>7. scanned \in Nat /\ MaxScan \in Nat
  <2>1. /\ ends[Len(got)] + 4 \leq c /\ scanned = c - (ends[Len(got)] + 4)
        /\ ends[Len(got)] \in Nat
    BY <1>1, MagicLies, NoiseLies
  <2> DEFINE a == ends[Len(got)]
  <2> HIDE DEF a
  <2>2. a \in Nat /\ a + 4 \leq c /\ scanned = c - (a + 4)
    BY <2>1 DEF a
  <2> QED
    BY <1>3, <2>2, FramingAssumption
<1>8. framer' = "header" /\ pending' = SubSeq(pending, j, Len(pending))
  <2>1. ~(scanned' > MaxScan)
    BY <1>2, <1>5, <1>6, <1>7
  <2> QED
    BY <1>5, <1>6, <2>1 DEF FromMagic
<1>9. PICK k \in Nat : k = j - 1
  BY <1>2
<1>10. pending' \in Seq(Nat) /\ Unread(w, c + k)'
  <2>1. /\ k \leq Len(pending) /\ k + 1 = j
    BY <1>2, <1>3, <1>4, <1>9
  <2>2. pending' = SubSeq(pending, k + 1, Len(pending)) /\ stream' = stream
    BY <1>1, <1>8, <2>1
  <2> QED
    BY <2>1, <2>2, CellsGo DEF Cut, StreamTyped, HistoryTyped
<1>11. c + k = ends[Len(got)] + Gap(hole, Len(got)) /\ c + k \in Nat
  BY <1>2, <1>3, <1>9 DEF Start
<1>12. Laid(w, ends, hole)'
  BY <1>1 DEF Cut, Laid, Gap
<1>13. Stands(ends, hole, c + k)'
  BY <1>1, <1>8, <1>11 DEF Stands, Gap
<1>14. Returned'
  BY <1>1, <1>8 DEF Cut, Returned
<1>15. Cut(w, ends, hole, c + k)'
  BY <1>10, <1>12, <1>13, <1>14 DEF Cut
<1> QED
  BY <1>8, <1>10, <1>11, <1>15

(* ... or discards nothing but noise. *)
LEMMA DiscardKeeps ==
  ASSUME StreamTyped, Plain, NEW w, NEW ends, NEW hole, NEW c, Cut(w, ends, hole, c),
         DiscardAll
  PROVE  /\ pending' \in Seq(Nat) /\ framer' = "resync"
         /\ \E d \in Nat : Cut(w, ends, hole, d)'
<1>1. /\ framer = "resync" /\ Magics = {}
      /\ scanned' = scanned + Len(pending) /\ pending' = << >>
      /\ framer' = IF scanned' \geq MaxScan THEN "corrupt" ELSE "resync"
      /\ UNCHANGED <<stream, closed, sent, noise, header, got>>
  BY DEF DiscardAll, writerVars
<1> DEFINE j == (Start(ends, hole) - c) + 1
           a == ends[Len(got)]
<1>2. /\ j \in Nat /\ j > 0 /\ c + (j - 1) = Start(ends, hole) /\ hole = Len(got)
      /\ a + 4 \leq c /\ scanned = c - (a + 4)
      /\ scanned + (j - 1) < MaxScan
      /\ j \leq Len(pending) => j \in Magics
  BY <1>1, MagicLies
<1>3. PICK k \in Nat : k = Len(pending)
  BY NoiseLies
<1>4. /\ c \in Nat /\ a \in Nat /\ MaxScan \in Nat
      /\ Start(ends, hole) = a + Len(noise)
  BY <1>2, NoiseLies, FramingAssumption DEF Start, Gap
<1> HIDE DEF j, a
<1>5. k \leq j - 1
  BY <1>1, <1>2, <1>3
<1>6. /\ framer' = "resync" /\ scanned' = (c + k) - (a + 4)
  <2>1. scanned \in Nat
    BY <1>2, <1>4
  <2>2. scanned' = scanned + k
    BY <1>1, <1>3
  <2>3. ~(scanned' \geq MaxScan) /\ scanned' = (c + k) - (a + 4)
    BY <1>2, <1>3, <1>4, <1>5, <2>1, <2>2
  <2> QED
    BY <1>1, <2>3
<1>7. /\ a + 4 \leq c + k /\ c + k \leq a + Len(noise)
  <2> DEFINE n == Len(noise)
  <2>1. n \in Nat /\ c + (j - 1) = a + n
    BY <1>2, <1>4, NoiseLies
  <2> HIDE DEF n
  <2>2. a + 4 \leq c + k /\ c + k \leq a + n
    BY <1>2, <1>3, <1>4, <1>5, <2>1
  <2> QED
    BY <2>2 DEF n
<1>8. pending' \in Seq(Nat) /\ Unread(w, c + k)'
  <2>1. pending' = SubSeq(pending, k + 1, Len(pending))
    BY <1>1, <1>3, SubSeqEmpty
  <2>2. /\ k \in Nat /\ k \leq Len(pending) /\ stream' = stream /\ Unread(w, c)
        /\ stream \in Seq(Nat) /\ pending \in Seq(Nat)
    BY <1>1, <1>3 DEF Cut, StreamTyped, HistoryTyped
  <2> QED
    BY <2>1, <2>2, CellsGo
<1>9. Laid(w, ends, hole)'
  BY <1>1 DEF Cut, Laid, Gap
<1>10. Stands(ends, hole, c + k)'
  BY <1>1, <1>2, <1>6, <1>7 DEF Stands, a
<1>11. Returned'
  BY <1>1, <1>6 DEF Cut, Returned
<1>12. Cut(w, ends, hole, c + k)'
  BY <1>8, <1>9, <1>10, <1>11 DEF Cut
<1> QED
  BY <1>3, <1>4, <1>6, <1>8, <1>12

(* What is written goes behind all that was. *)
LEMMA StreamGrows ==
  ASSUME NEW w \in Seq(Nat), NEW c, Unread(w, c), stream \in Seq(Nat),
         pending \in Seq(Nat), NEW e \in Seq(Nat),
         stream' = stream \o e, pending' = pending
  PROVE  /\ stream' \in Seq(Nat)
         /\ \E v \in Seq(Nat) :
              /\ Len(v) = Len(w) + Len(e)
              /\ \A i \in 1 .. Len(w) : v[i] = w[i]
              /\ \A i \in 1 .. Len(e) : v[Len(w) + i] = e[i]
              /\ Unread(v, c)'
<1> DEFINE l == Len(w)
           a == Len(pending)
           s == Len(stream)
           n == Len(e)
<1>1. l \in Nat /\ a \in Nat /\ s \in Nat /\ n \in Nat /\ c \in Nat /\ c + a + s = l
  BY DEF Unread
<1>2. PICK v : v = w \o e
  OBVIOUS
<1>3. /\ v \in Seq(Nat) /\ Len(v) = l + n
      /\ \A i \in 1 .. l + n : v[i] = IF i \leq l THEN w[i] ELSE e[i - l]
  <2>1. /\ w \o e \in Seq(Nat) /\ Len(w \o e) = Len(w) + Len(e)
        /\ \A i \in 1 .. Len(w) + Len(e) :
             (w \o e)[i] = IF i \leq Len(w) THEN w[i] ELSE e[i - Len(w)]
    BY ConcatProperties
  <2> QED
    BY <1>2, <2>1
<1>4. /\ stream' \in Seq(Nat) /\ Len(stream') = s + n
      /\ \A i \in 1 .. s + n : stream'[i] = IF i \leq s THEN stream[i] ELSE e[i - s]
  <2>1. LET t == stream \o e
        IN  /\ t \in Seq(Nat) /\ Len(t) = Len(stream) + Len(e)
            /\ \A i \in 1 .. Len(stream) + Len(e) :
                 t[i] = IF i \leq Len(stream) THEN stream[i] ELSE e[i - Len(stream)]
    BY ConcatProperties
  <2> QED
    BY <2>1
<1>5. \A i \in 1 .. a : pending[i] = w[c + i]
  BY DEF Unread
<1>6. \A i \in 1 .. s : stream[i] = w[c + a + i]
  BY DEF Unread
<1> HIDE DEF l, a, s, n
<1>7. ASSUME NEW i \in 1 .. l
      PROVE  v[i] = w[i]
  <2>1. i \in 1 .. l + n /\ i \leq l
    BY <1>1
  <2> QED
    BY <1>3, <2>1
<1>8. ASSUME NEW i \in 1 .. n
      PROVE  v[l + i] = e[i]
  <2>1. l + i \in 1 .. l + n /\ ~(l + i \leq l) /\ (l + i) - l = i
    BY <1>1
  <2> QED
    BY <1>3, <2>1
<1>9. ASSUME NEW i \in 1 .. a
      PROVE  pending[i] = v[c + i]
  <2>1. c + i \in 1 .. l
    BY <1>1
  <2> QED
    BY <1>5, <1>7, <2>1
<1>10. ASSUME NEW i \in 1 .. s + n
       PROVE  stream'[i] = v[c + a + i]
  <2>1. CASE i \leq s
    <3>1. i \in 1 .. s /\ c + a + i \in 1 .. l
      BY <1>1, <2>1
    <3> QED
      BY <1>4, <1>6, <1>7, <2>1, <3>1
  <2>2. CASE ~(i \leq s)
    <3>1. i - s \in 1 .. n /\ c + a + i = l + (i - s)
      BY <1>1, <2>2
    <3>2. v[l + (i - s)] = e[i - s]
      BY <1>8, <3>1
    <3> QED
      BY <1>4, <2>2, <3>1, <3>2
  <2> QED
    BY <2>1, <2>2
<1>11. c + a + (s + n) = Len(v)
  BY <1>1, <1>3
<1>12. Unread(v, c)'
  BY <1>1, <1>4, <1>9, <1>10, <1>11 DEF Unread, a, s
<1> QED
  BY <1>3, <1>4, <1>7, <1>8, <1>12 DEF l, n

(* A packet that is written goes behind all that was. *)
LEMMA PacketLaid ==
  ASSUME StreamTyped, Plain', NEW w, NEW ends, NEW hole, NEW c, Cut(w, ends, hole, c),
         NEW p \in Packets, WritePacket(p)
  PROVE  \E v, after : Cut(v, after, hole, c)'
<1> DEFINE n == Len(sent)
           l == Len(w)
           e == Encode(p)
           m == Len(p.payload)
<1>1. /\ ~closed /\ stream' = stream \o e /\ sent' = Append(sent, p)
      /\ UNCHANGED <<closed, noise, pending, header, scanned, framer, got>>
  BY DEF WritePacket, framerVars
<1>2. /\ sent \in Seq(Packets) /\ noise \in Seq(Nat) /\ stream \in Seq(Nat)
      /\ n \in Nat /\ Len(noise) \in Nat /\ Len(stream) \in Nat
  BY DEF StreamTyped, HistoryTyped
<1>3. /\ sent' \in Seq(Packets) /\ Len(sent') = n + 1
      /\ \A k \in 1 .. n : sent'[k] = sent[k]
      /\ sent'[n + 1] = p
  BY <1>1, <1>2, AppendProperties
<1>4. m \in Nat /\ m < LenWord
  <2>1. m \in Nat
    BY DEF Packets
  <2>2. n + 1 \in 1 .. Len(sent')
    BY <1>2, <1>3
  <2>3. Len(sent'[n + 1].payload) < LenWord
    BY <2>2 DEF Plain
  <2> QED
    BY <1>3, <2>1, <2>3
<1>5. e \in Seq(Nat) /\ Len(e) = 4 + m
  BY <1>4, EncodeIs
<1>6. /\ w \in Seq(Nat) /\ l \in Nat /\ hole \in 0 .. n
      /\ ends \in [0 .. n -> Nat] /\ ends[0] = 0
      /\ l = ends[n] + Gap(hole, n)
      /\ c \in Nat /\ c + Len(pending) + Len(stream) = l /\ Len(pending) \in Nat
  BY DEF Cut, Laid, Unread, StreamTyped, HistoryTyped
<1> HIDE DEF e
<1>7. PICK pkt \in Seq(Nat) : pkt = e
  BY <1>5
<1>8. PICK v \in Seq(Nat) :
        /\ Len(v) = l + (4 + m)
        /\ \A i \in 1 .. l : v[i] = w[i]
        /\ \A i \in 1 .. 4 + m : v[l + i] = e[i]
        /\ Unread(v, c)'
  <2>1. Unread(w, c) /\ stream' = stream \o pkt /\ pending' = pending /\ pending \in Seq(Nat)
    BY <1>1, <1>7 DEF Cut, StreamTyped, HistoryTyped
  <2>2. \E v \in Seq(Nat) :
          /\ Len(v) = Len(w) + Len(pkt)
          /\ \A i \in 1 .. Len(w) : v[i] = w[i]
          /\ \A i \in 1 .. Len(pkt) : v[Len(w) + i] = pkt[i]
          /\ Unread(v, c)'
    BY <1>2, <1>6, <2>1, StreamGrows
  <2> QED
    BY <1>5, <1>7, <2>2
<1>9. PICK after : after = [k \in 0 .. n + 1 |-> IF k = n + 1 THEN l + (4 + m) ELSE ends[k]]
  OBVIOUS
<1>10. /\ after \in [0 .. n + 1 -> Nat] /\ after[n + 1] = l + (4 + m)
       /\ \A k \in 0 .. n : after[k] = ends[k]
  <2> HIDE DEF l, m, n
  <2>1. \A k \in 0 .. n + 1 : k # n + 1 => k \in 0 .. n
    BY <1>2
  <2>2. \A k \in 0 .. n : k \in 0 .. n + 1 /\ k # n + 1
    BY <1>2
  <2>3. l + (4 + m) \in Nat /\ n + 1 \in 0 .. n + 1
    BY <1>2, <1>4, <1>6
  <2> QED
    BY <1>6, <1>9, <2>1, <2>2, <2>3
<1>11. \A k : Gap(hole, k)' = Gap(hole, k)
  BY <1>1 DEF Gap
<1>12. Gap(hole, n + 1) = 0
  BY <1>2, <1>6 DEF Gap
<1>13. ASSUME NEW k \in 1 .. n + 1
       PROVE  /\ after[k] = after[k - 1] + Gap(hole, k - 1) + HEADER_LEN
                              + Len(sent'[k].payload)
              /\ \A i \in 1 .. HEADER_LEN + Len(sent'[k].payload) :
                   v[after[k - 1] + Gap(hole, k - 1) + i] = Encode(sent'[k])[i]
  <2>1. CASE k \in 1 .. n
    <3>1. sent'[k] = sent[k] /\ k - 1 \in 0 .. n /\ k \in 0 .. n
      <4>1. n \in Nat /\ k \in 1 .. n
        BY <1>2, <2>1
      <4>2. sent'[k] = sent[k]
        BY <1>3, <2>1
      <4> HIDE DEF n
      <4> QED
        BY <4>1, <4>2
    <3>2. after[k] = ends[k] /\ after[k - 1] = ends[k - 1]
      BY <1>10, <3>1
    <3>3. /\ ends[k] = ends[k - 1] + Gap(hole, k - 1) + 4 + Len(sent[k].payload)
          /\ \A i \in 1 .. 4 + Len(sent[k].payload) :
               w[ends[k - 1] + Gap(hole, k - 1) + i] = Encode(sent[k])[i]
      BY <2>1 DEF Cut, Laid
    <3> DEFINE s == ends[k - 1] + Gap(hole, k - 1)
               q == Len(sent[k].payload)
               g == Gap(hole, k)
               x == ends[k]
    <3>4. s \in Nat /\ q \in Nat /\ g \in Nat /\ x \in Nat /\ x + g \leq l /\ x = s + 4 + q
      <4>1. sent[k] \in Packets
        BY <1>2, <2>1, ElementOfSeq
      <4>2. ends[k - 1] \in Nat /\ ends[k] \in Nat
        BY <1>6, <3>1
      <4>3. Gap(hole, k) \in Nat /\ Gap(hole, k - 1) \in Nat
        BY <1>2 DEF Gap
      <4>4. x + g \leq l
        BY <3>1 DEF Cut, Laid
      <4>5. q \in Nat
        BY <4>1 DEF Packets
      <4>6. x = ends[k - 1] + Gap(hole, k - 1) + 4 + q
        BY <3>3
      <4> QED
        BY <4>2, <4>3, <4>4, <4>5, <4>6
    <3>5. \A i \in 1 .. 4 + q : s + i \in 1 .. l
      <4> HIDE DEF s, q, g, x, l
      <4> QED
        BY <1>6, <3>4
    <3>6. \A i \in 1 .. 4 + q : v[s + i] = Encode(sent[k])[i]
      BY <1>8, <3>3, <3>5
    <3> QED
      BY <3>1, <3>2, <3>3, <3>6
  <2>2. CASE k = n + 1
    <3>1. /\ sent'[k] = p /\ k - 1 = n /\ after[k] = l + (4 + m)
          /\ after[k - 1] = ends[n]
      BY <1>2, <1>3, <1>10, <2>2
    <3>2. after[k - 1] + Gap(hole, k - 1) = l
      BY <1>6, <3>1
    <3>3. l + (4 + m) = l + 4 + m
      BY <1>4, <1>6
    <3> QED
      BY <1>8, <3>1, <3>2, <3>3 DEF e
  <2> QED
    BY <1>2, <2>1, <2>2
<1>14. ASSUME NEW k \in 0 .. n + 1
       PROVE  after[k] + Gap(hole, k) \leq Len(v)
  <2>1. CASE k \in 0 .. n
    <3> DEFINE x == ends[k]
               g == Gap(hole, k)
    <3>1. after[k] = x /\ x \in Nat /\ g \in Nat /\ x + g \leq l
      BY <1>2, <1>6, <1>10, <2>1 DEF Cut, Laid, Gap
    <3> HIDE DEF x, l, m
    <3>2. x + g \leq l + (4 + m)
      BY <1>4, <1>6, <3>1
    <3> QED
      BY <1>8, <3>1, <3>2
  <2>2. CASE k = n + 1
    BY <1>4, <1>6, <1>8, <1>10, <1>12, <2>2
  <2> QED
    BY <1>2, <2>1, <2>2
<1>15. Len(v) = after[n + 1] + Gap(hole, n + 1)
  BY <1>4, <1>6, <1>8, <1>10, <1>12
<1>16. \A i \in 1 .. Len(noise) : v[after[hole] + i] = noise[i]
  <2> SUFFICES ASSUME NEW i \in 1 .. Len(noise) PROVE v[after[hole] + i] = noise[i]
    OBVIOUS
  <2>1. after[hole] = ends[hole] /\ w[ends[hole] + i] = noise[i]
    BY <1>6, <1>10 DEF Cut, Laid
  <2> DEFINE x == ends[hole]
             z == Len(noise)
  <2>2. x \in Nat /\ z \in Nat /\ x + z \leq l
    BY <1>2, <1>6 DEF Cut, Laid, Gap
  <2>3. x + i \in 1 .. l
    <3>1. i \in 1 .. z
      OBVIOUS
    <3> HIDE DEF x, z, l
    <3> QED
      BY <1>6, <2>2, <3>1
  <2> QED
    BY <1>8, <2>1, <2>3
<1>17. Laid(v, after, hole)'
  <2>1. /\ hole \in 0 .. Len(sent') /\ after[0] = 0
        /\ after \in [0 .. Len(sent') -> Nat]
    BY <1>2, <1>3, <1>6, <1>10
  <2>2. \A k \in 1 .. Len(sent') :
          /\ after[k] = after[k - 1] + Gap(hole, k - 1)' + HEADER_LEN
                          + Len(sent'[k].payload)
          /\ \A i \in 1 .. HEADER_LEN + Len(sent'[k].payload) :
               v[after[k - 1] + Gap(hole, k - 1)' + i] = Encode(sent'[k])[i]
    <3> SUFFICES ASSUME NEW k \in 1 .. n + 1
                 PROVE  /\ after[k] = after[k - 1] + Gap(hole, k - 1)' + HEADER_LEN
                                         + Len(sent'[k].payload)
                        /\ \A i \in 1 .. HEADER_LEN + Len(sent'[k].payload) :
                             v[after[k - 1] + Gap(hole, k - 1)' + i] = Encode(sent'[k])[i]
      BY <1>3
    <3>1. Gap(hole, k - 1)' = Gap(hole, k - 1)
      BY <1>11
    <3> QED
      BY <1>13, <3>1
  <2>3. \A k \in 0 .. Len(sent') : after[k] + Gap(hole, k)' \leq Len(v)
    BY <1>3, <1>11, <1>14
  <2>4. Len(v) = after[Len(sent')] + Gap(hole, Len(sent'))
    BY <1>3, <1>15
  <2>5. Gap(hole, Len(sent'))  = Gap(hole, Len(sent))'
    BY <1>1 DEF Gap
  <2>6. \A i \in 1 .. Len(noise') : v[after[hole] + i] = noise'[i]
    BY <1>1, <1>16
  <2> QED
    BY <1>8, <2>1, <2>2, <2>3, <2>4, <2>5, <2>6 DEF Laid
<1>18. Stands(after, hole, c)'
  <2>1. /\ Len(got) \in 0 .. n
        /\ Len(got) < Len(sent) => Len(got) + 1 \in 1 .. n
    BY <1>2 DEF Cut, Returned
  <2>2. after[Len(got)] = ends[Len(got)]
    BY <1>10, <2>1
  <2>3. Len(got) < Len(sent) =>
          Len(got) < Len(sent') /\ sent'[Len(got) + 1] = sent[Len(got) + 1]
    BY <1>2, <1>3, <2>1
  <2> QED
    BY <1>1, <1>11, <2>2, <2>3 DEF Cut, Stands
<1>19. Returned'
  <2>1. /\ got \in Seq(Packets) /\ Len(got) \in Nat /\ Len(got) \leq n
        /\ \A i \in 1 .. Len(got) : got[i] = sent[i]
        /\ framer \notin {"eof", "corrupt"}
    BY <1>1 DEF Cut, Returned
  <2>2. Len(got) \leq n + 1 /\ \A i \in 1 .. Len(got) : got[i] = sent'[i]
    BY <1>2, <1>3, <2>1
  <2> QED
    BY <1>1, <1>3, <2>1, <2>2 DEF Returned
<1> QED
  BY <1>8, <1>17, <1>18, <1>19 DEF Cut

(* Noise goes there too, once. *)
LEMMA NoiseLaid ==
  ASSUME StreamTyped, NEW w, NEW ends, NEW hole, NEW c, Cut(w, ends, hole, c),
         NEW n \in Seq(Nat), WriteNoise(n)
  PROVE  \E v, h : Cut(v, ends, h, c)'
<1> DEFINE N == Len(sent)
           l == Len(w)
<1>1. /\ ~closed /\ noise = << >> /\ stream' = stream \o n /\ noise' = n
      /\ UNCHANGED <<closed, sent, pending, header, scanned, framer, got>>
  BY DEF WriteNoise, framerVars
<1>2. /\ sent \in Seq(Packets) /\ stream \in Seq(Nat) /\ pending \in Seq(Nat)
      /\ N \in Nat /\ Len(n) \in Nat
  BY DEF StreamTyped, HistoryTyped
<1>3. \A k : Gap(hole, k) = 0
  BY <1>1 DEF Gap
<1>4. /\ w \in Seq(Nat) /\ l \in Nat /\ ends \in [0 .. N -> Nat] /\ ends[0] = 0
      /\ l = ends[N] /\ c \in Nat
      /\ \A k \in 0 .. N : ends[k] \leq l
  <2>1. /\ w \in Seq(Nat) /\ ends \in [0 .. N -> Nat] /\ ends[0] = 0
        /\ l = ends[N] + Gap(hole, N) /\ c \in Nat
        /\ \A k \in 0 .. N : ends[k] + Gap(hole, k) \leq l
    BY DEF Cut, Laid, Unread
  <2>2. \A k \in 0 .. N : ends[k] \in Nat
    BY <2>1
  <2>3. N \in 0 .. N
    BY <1>2
  <2>4. \A k \in 0 .. N : ends[k] \leq l
    <3> SUFFICES ASSUME NEW k \in 0 .. N PROVE ends[k] \leq l
      OBVIOUS
    <3>1. Gap(hole, k) = 0
      BY <1>3
    <3>2. ends[k] + Gap(hole, k) \leq l
      BY <2>1
    <3>3. ends[k] \in Nat
      BY <2>2
    <3> QED
      BY <3>1, <3>2, <3>3
  <2>5. l = ends[N]
    <3>1. Gap(hole, N) = 0
      BY <1>3
    <3>2. ends[N] \in Nat
      BY <2>2, <2>3
    <3> QED
      BY <2>1, <3>1, <3>2
  <2>6. l \in Nat
    BY <2>1, LenProperties
  <2> QED
    BY <2>1, <2>4, <2>5, <2>6
<1>5. PICK v \in Seq(Nat) :
        /\ Len(v) = l + Len(n)
        /\ \A i \in 1 .. l : v[i] = w[i]
        /\ \A i \in 1 .. Len(n) : v[l + i] = n[i]
        /\ Unread(v, c)'
  BY <1>1, <1>2, <1>4, StreamGrows DEF Cut
<1>6. \A k : Gap(N, k)' = IF k = N THEN Len(n) ELSE 0
  BY <1>1 DEF Gap
<1>7. PICK h \in Nat : h = N
  BY <1>2
<1>8. \A k : Gap(h, k)' = IF k = h THEN Len(n) ELSE 0
  BY <1>1 DEF Gap
<1>9. ASSUME NEW k \in 1 .. N
      PROVE  /\ ends[k] = ends[k - 1] + Gap(h, k - 1)' + HEADER_LEN + Len(sent[k].payload)
             /\ \A i \in 1 .. HEADER_LEN + Len(sent[k].payload) :
                  v[ends[k - 1] + Gap(h, k - 1)' + i] = Encode(sent[k])[i]
  <2> DEFINE s == ends[k - 1]
             q == Len(sent[k].payload)
             x == ends[k]
  <2>1. k - 1 \in 0 .. N /\ k \in 0 .. N /\ k - 1 # h
    <3>1. N \in Nat /\ k \in 1 .. N
      BY <1>2
    <3> HIDE DEF N
    <3> QED
      BY <1>7, <3>1
  <2>2. Gap(h, k - 1)' = 0 /\ Gap(hole, k - 1) = 0
    BY <1>3, <1>8, <2>1
  <2>3. /\ x = s + Gap(hole, k - 1) + 4 + q
        /\ \A i \in 1 .. 4 + q : w[s + Gap(hole, k - 1) + i] = Encode(sent[k])[i]
    BY DEF Cut, Laid
  <2>4. s \in Nat /\ x \in Nat /\ x \leq l /\ q \in Nat
    <3>1. sent[k] \in Packets
      BY <1>2, ElementOfSeq
    <3>2. q \in Nat
      BY <3>1 DEF Packets
    <3> QED
      BY <1>4, <2>1, <3>2
  <2>5. x = s + 4 + q /\ \A i \in 1 .. 4 + q : s + 0 + i = s + i /\ s + i \in 1 .. l
    <3>1. x = s + 4 + q
      BY <2>2, <2>3, <2>4
    <3> HIDE DEF s, q, x, l
    <3> QED
      BY <1>4, <2>4, <3>1
  <2>6. \A i \in 1 .. 4 + q : v[s + 0 + i] = Encode(sent[k])[i]
    BY <1>5, <2>2, <2>3, <2>5
  <2>7. x = s + 0 + 4 + q
    BY <2>4, <2>5
  <2> QED
    BY <2>2, <2>6, <2>7
<1>10. ASSUME NEW k \in 0 .. N
       PROVE  ends[k] + Gap(h, k)' \leq Len(v)
  <2> DEFINE x == ends[k]
             z == Len(n)
  <2>1. x \in Nat /\ x \leq l /\ z \in Nat
    BY <1>2, <1>4
  <2>2. CASE k = h
    <3> HIDE DEF x, l
    <3>1. x + z \leq l + z
      BY <1>4, <2>1
    <3> QED
      BY <1>5, <1>8, <2>2, <3>1 DEF x
  <2>3. CASE k # h
    <3> HIDE DEF x, l
    <3>1. x + 0 \leq l + z
      BY <1>4, <2>1
    <3> QED
      BY <1>5, <1>8, <2>3, <3>1 DEF x
  <2> QED
    BY <2>2, <2>3
<1>11. Laid(v, ends, h)'
  <2>1. h \in 0 .. N
    BY <1>7
  <2>2. Len(v) = ends[N] + Gap(h, h)'
    <3>1. Gap(h, h)' = Len(n)
      BY <1>8
    <3>2. Len(v) = ends[N] + Len(n)
      BY <1>4, <1>5
    <3> QED
      BY <3>1, <3>2
  <2>3. \A i \in 1 .. Len(n) : v[ends[h] + i] = n[i]
    BY <1>4, <1>5, <1>7
  <2> QED
    BY <1>1, <1>4, <1>5, <1>7, <1>9, <1>10, <2>1, <2>2, <2>3 DEF Laid
<1>12. /\ got \in Seq(Packets) /\ Len(got) \in Nat /\ Len(got) \leq N
       /\ \A i \in 1 .. Len(got) : got[i] = sent[i]
       /\ framer \notin {"eof", "corrupt"}
  BY <1>1 DEF Cut, Returned
<1>13. Stands(ends, h, c)'
  <2> DEFINE g == Len(got)
  <2>1. ends[g] \in Nat
    BY <1>2, <1>4, <1>12
  <2>2. ASSUME framer = "header"
        PROVE  c = ends[g]
    BY <1>3, <2>1, <2>2 DEF Cut, Stands
  <2>3. ASSUME framer = "payload"
        PROVE  /\ g < N /\ c = ends[g] + Gap(h, g)' + HEADER_LEN
               /\ header = SubSeq(Encode(sent[g + 1]), 1, HEADER_LEN)
    <3>1. /\ g < N /\ c = ends[g] + Gap(hole, g) + HEADER_LEN
          /\ header = SubSeq(Encode(sent[g + 1]), 1, HEADER_LEN)
      BY <2>3 DEF Cut, Stands
    <3>2. g # h
      BY <1>2, <1>7, <1>12, <3>1
    <3>3. Gap(hole, g) = 0 /\ Gap(h, g)' = 0
      <4> PICK m \in Nat : m = g
        BY <1>12
      <4>1. Gap(hole, m) = 0 /\ Gap(h, m)' = 0
        BY <1>3, <1>8, <3>2
      <4> QED
        BY <1>1, <4>1
    <3> QED
      BY <3>1, <3>3
  <2>4. framer # "resync"
    <3> SUFFICES ASSUME framer = "resync" PROVE FALSE
      OBVIOUS
    <3>1. ends[g] + 4 \leq c /\ c \leq ends[g] + 0
      BY <1>1 DEF Cut, Stands
    <3> QED
      BY <1>4, <2>1, <3>1
  <2> QED
    BY <1>1, <2>2, <2>3, <2>4 DEF Stands
<1>14. Returned'
  BY <1>1, <1>12 DEF Returned
<1>15. Cut(v, ends, h, c)'
  BY <1>5, <1>11, <1>13, <1>14 DEF Cut
<1> QED
  BY <1>15

-----------------------------------------------------------------------------
(* Every step of the tool.                                                  *)

(* The end of the stream is announced once all was written. *)
LEMMA ShutdownKeeps ==
  ASSUME StreamTyped, NEW w, NEW ends, NEW hole, NEW c, Cut(w, ends, hole, c),
         Shutdown
  PROVE  Cut(w, ends, hole, c)'
<1>1. /\ ~closed /\ closed' = TRUE
      /\ UNCHANGED <<stream, sent, noise, pending, header, scanned, framer, got>>
  BY DEF Shutdown, framerVars
<1>2. Laid(w, ends, hole)' /\ Unread(w, c)'
  BY <1>1 DEF Cut, Laid, Gap, Unread
<1>3. Stands(ends, hole, c)'
  BY <1>1 DEF Cut, Stands, Gap
<1>4. Returned'
  BY <1>1 DEF Cut, Returned
<1> QED
  BY <1>2, <1>3, <1>4 DEF Cut

(* Whatever next_packet does next. *)
LEMMA ReaderKeeps ==
  ASSUME StreamTyped, Plain, NEW w, NEW ends, NEW hole, NEW c, Cut(w, ends, hole, c),
         FramerStep \/ FramerReads, UNCHANGED <<transport, size, next>>
  PROVE  StreamTyped' /\ \E d : Cut(w, ends, hole, d)'
<1>1. /\ HistoryTyped /\ stream \in Seq(Nat) /\ pending \in Seq(Nat)
      /\ framer \in {"header", "payload", "resync", "eof", "corrupt"}
  BY DEF StreamTyped
<1>2. ASSUME UNCHANGED <<sent, noise>>
      PROVE  HistoryTyped'
  BY <1>1, <1>2 DEF HistoryTyped
<1>3. CASE TakeHeader
  <2>1. UNCHANGED <<stream, sent, noise>>
    BY <1>3 DEF TakeHeader, writerVars
  <2>2. /\ framer' \in {"payload", "resync"} /\ pending' \in Seq(Nat)
        /\ Cut(w, ends, hole, c + HEADER_LEN)'
    BY <1>3, HeaderKeeps
  <2> QED
    BY <1>1, <1>2, <2>1, <2>2 DEF StreamTyped
<1>4. CASE TakePayload
  <2>1. UNCHANGED <<stream, sent, noise>>
    BY <1>4 DEF TakePayload, writerVars
  <2>2. /\ pending' \in Seq(Nat) /\ framer' = "header"
        /\ \E d \in Nat : Cut(w, ends, hole, d)'
    BY <1>4, PayloadKeeps
  <2> QED
    BY <1>1, <1>2, <2>1, <2>2 DEF StreamTyped
<1>5. CASE FindMagic
  <2>1. UNCHANGED <<stream, sent, noise>>
    BY <1>5 DEF FindMagic, writerVars
  <2>2. /\ pending' \in Seq(Nat) /\ framer' = "header"
        /\ \E d \in Nat : Cut(w, ends, hole, d)'
    BY <1>5, FindKeeps
  <2> QED
    BY <1>1, <1>2, <2>1, <2>2 DEF StreamTyped
<1>6. CASE DiscardAll
  <2>1. UNCHANGED <<stream, sent, noise>>
    BY <1>6 DEF DiscardAll, writerVars
  <2>2. /\ pending' \in Seq(Nat) /\ framer' = "resync"
        /\ \E d \in Nat : Cut(w, ends, hole, d)'
    BY <1>6, DiscardKeeps
  <2> QED
    BY <1>1, <1>2, <2>1, <2>2 DEF StreamTyped
<1>7. CASE ReadEnd
  <2>1. UNCHANGED <<stream, sent, noise, pending>>
    BY <1>7 DEF ReadEnd, writerVars
  <2>2. framer' \in {"eof", "corrupt"} /\ Cut(w, ends, hole, c)'
    BY <1>7, EndKeeps
  <2> QED
    BY <1>1, <1>2, <2>1, <2>2 DEF StreamTyped
<1>8. ASSUME NEW n \in 1 .. Chunk, Read(n)
      PROVE  StreamTyped' /\ \E d : Cut(w, ends, hole, d)'
  <2>1. UNCHANGED <<sent, noise, framer>>
    BY <1>8 DEF Read
  <2>2. n \in Nat
    BY FramingAssumption
  <2>3. stream' \in Seq(Nat) /\ pending' \in Seq(Nat) /\ Cut(w, ends, hole, c)'
    BY <1>8, <2>2, ReadKeeps
  <2> QED
    BY <1>1, <1>2, <2>1, <2>3 DEF StreamTyped
<1> QED
  BY <1>3, <1>4, <1>5, <1>6, <1>7, <1>8 DEF FramerStep, FramerReads

(* Nothing is written in the initial states. *)
LEMMA FramingStarts ==
  ASSUME Init
  PROVE  FramingInv
<1>1. /\ transport \in {"udp", "tcp"} /\ size \in Nat /\ next = 0
      /\ stream = << >> /\ closed = FALSE /\ sent = << >> /\ noise = << >>
      /\ pending = << >> /\ header = << >> /\ scanned = 0
      /\ framer = "header" /\ got = << >>
  BY LoopbackAssumption DEF Init, FramingInit
<1>2. /\ HistoryTyped /\ StreamTyped
      /\ Len(sent) = 0 /\ Len(noise) = 0 /\ Len(stream) = 0 /\ Len(pending) = 0
      /\ Len(got) = 0 /\ got \in Seq(Packets)
  BY <1>1 DEF HistoryTyped, StreamTyped
<1> DEFINE w == << >>
           ends == [k \in 0 .. 0 |-> 0]
<1>3. w \in Seq(Nat) /\ Len(w) = 0 /\ ends \in [0 .. 0 -> Nat] /\ ends[0] = 0
  OBVIOUS
<1> HIDE DEF w, ends
<1>4. \A k : Gap(0, k) = 0
  BY <1>2 DEF Gap
<1>5. Laid(w, ends, 0)
  BY <1>2, <1>3, <1>4 DEF Laid
<1>6. Unread(w, 0)
  BY <1>2, <1>3 DEF Unread
<1>7. Stands(ends, 0, 0)
  BY <1>1, <1>2, <1>3 DEF Stands
<1>8. Returned
  BY <1>1, <1>2 DEF Returned
<1>9. Cut(w, ends, 0, 0)
  BY <1>5, <1>6, <1>7, <1>8 DEF Cut
<1> QED
  BY <1>1, <1>2, <1>9 DEF FramingInv

(* A step that the framing has no part in. *)
LEMMA FramingRests ==
  ASSUME FramingInv, UNCHANGED <<transport, size, next, framingVars>>
  PROVE  FramingInv'
<1>1. UNCHANGED <<transport, size, next, stream, closed, sent, noise, pending,
                  header, scanned, framer, got>>
  BY DEF framingVars, writerVars, framerVars
<1>2. HistoryTyped' /\ (transport = "udp" => got = << >> /\ framer = "header")'
  BY <1>1 DEF FramingInv, HistoryTyped
<1>3. ASSUME transport = "tcp", Plain'
      PROVE  StreamTyped' /\ (\E w, ends, hole, c : Cut(w, ends, hole, c))'
  <2>1. Plain
    BY <1>1, <1>3 DEF Plain
  <2>2. StreamTyped
    BY <1>3, <2>1 DEF FramingInv
  <2>3. PICK w, ends, hole, c : Cut(w, ends, hole, c)
    BY <1>3, <2>1 DEF FramingInv
  <2>4. Cut(w, ends, hole, c)'
    BY <1>1, <2>3 DEF Cut, Laid, Gap, Unread, Stands, Returned
  <2>5. StreamTyped'
    BY <1>1, <1>2, <2>2 DEF StreamTyped
  <2> QED
    BY <2>4, <2>5
<1> QED
  BY <1>1, <1>2, <1>3 DEF FramingInv

(* A packet is written: those before it are what they were. *)
LEMMA SendKeeps ==
  ASSUME FramingInv, SendTcp
  PROVE  FramingInv'
<1> DEFINE p == TestPacket(next)
<1>1. /\ HistoryTyped /\ transport = "tcp" /\ WritePacket(p)
      /\ transport' = transport /\ size' = size /\ next' = next + 1
  BY DEF FramingInv, SendTcp, argVars
<1>2. p \in Packets
  BY <1>1, TestPacketIs DEF HistoryTyped
<1> HIDE DEF p
<1>3. /\ sent' = Append(sent, p) /\ stream' = stream \o Encode(p)
      /\ UNCHANGED <<noise, pending, framer>>
  BY <1>1 DEF WritePacket, framerVars
<1>4. /\ sent' \in Seq(Packets) /\ Len(sent) \in Nat /\ Len(sent') = Len(sent) + 1
      /\ \A i \in 1 .. Len(sent) : sent'[i] = sent[i]
      /\ sent'[Len(sent) + 1] = p
  BY <1>1, <1>2, <1>3, AppendProperties DEF HistoryTyped
<1>5. HistoryTyped'
  BY <1>1, <1>3, <1>4 DEF HistoryTyped
<1>6. ASSUME Plain'
      PROVE  StreamTyped' /\ (\E w, ends, hole, c : Cut(w, ends, hole, c))'
  <2>1. Plain /\ Len(p.payload) < LenWord
    <3>1. /\ \A i \in 1 .. Len(sent) : i \in 1 .. Len(sent')
          /\ Len(sent) + 1 \in 1 .. Len(sent')
      BY <1>4
    <3>2. noise = << >> \/ Skippable(noise)
      BY <1>3, <1>6 DEF Plain, Skippable
    <3> QED
      BY <1>4, <1>6, <3>1, <3>2 DEF Plain
  <2>2. StreamTyped
    BY <1>1, <2>1 DEF FramingInv
  <2>3. PICK w, ends, hole, c : Cut(w, ends, hole, c)
    BY <1>1, <2>1 DEF FramingInv
  <2>4. \E v, after : Cut(v, after, hole, c)'
    BY <1>1, <1>2, <1>6, <2>1, <2>2, <2>3, PacketLaid
  <2>5. Encode(p) \in Seq(Nat)
    BY <1>2, <2>1, EncodeIs
  <2>6. stream' \in Seq(Nat)
    BY <1>3, <2>2, <2>5, ConcatProperties DEF StreamTyped
  <2>7. StreamTyped'
    BY <1>3, <1>5, <2>2, <2>6 DEF StreamTyped
  <2> QED
    BY <2>4, <2>7
<1> QED
  BY <1>1, <1>5, <1>6 DEF FramingInv

(* Noise is written: there was none before it. *)
LEMMA GarbageKeeps ==
  ASSUME FramingInv, WriteGarbage
  PROVE  FramingInv'
<1>1. /\ HistoryTyped /\ transport = "tcp"
      /\ transport' = transport /\ size' = size /\ next' = next
  BY DEF FramingInv, WriteGarbage, argVars, senderVars
<1>2. PICK n \in Noises : WriteNoise(n)
  BY DEF WriteGarbage
<1>3. n \in Seq(Nat)
  <2> DEFINE T == 0 .. Byte - 1
  <2>1. n \in Seq(T)
    BY FramingAssumption
  <2>2. T \subseteq Nat
    BY WireAssumption
  <2> HIDE DEF T
  <2>3. n \in [1 .. Len(n) -> T] /\ Len(n) \in Nat
    BY <2>1, LenProperties
  <2>4. n \in [1 .. Len(n) -> Nat]
    BY <2>2, <2>3
  <2> QED
    BY <2>3, <2>4
<1>4. /\ noise = << >> /\ noise' = n /\ stream' = stream \o n
      /\ UNCHANGED <<sent, pending, framer>>
  BY <1>2 DEF WriteNoise, framerVars
<1>5. HistoryTyped'
  BY <1>1, <1>3, <1>4 DEF HistoryTyped
<1>6. ASSUME Plain'
      PROVE  StreamTyped' /\ (\E w, ends, hole, c : Cut(w, ends, hole, c))'
  <2>1. Plain
    BY <1>4, <1>6 DEF Plain
  <2>2. StreamTyped
    BY <1>1, <2>1 DEF FramingInv
  <2>3. PICK w, ends, hole, c : Cut(w, ends, hole, c)
    BY <1>1, <2>1 DEF FramingInv
  <2>4. \E v, h : Cut(v, ends, h, c)'
    BY <1>2, <1>3, <2>2, <2>3, NoiseLaid
  <2>5. stream' \in Seq(Nat)
    BY <1>3, <1>4, <2>2, ConcatProperties DEF StreamTyped
  <2>6. StreamTyped'
    BY <1>4, <1>5, <2>2, <2>5 DEF StreamTyped
  <2> QED
    BY <2>4, <2>6
<1> QED
  BY <1>1, <1>5, <1>6 DEF FramingInv

(* Every step of the tool keeps the stream cut where the framer stands. *)
LEMMA FramingGoesOn ==
  ASSUME FramingInv, [Next]_vars
  PROVE  FramingInv'
<1> USE DEF argVars, senderVars
<1>1. ASSUME SendUdp
      PROVE  FramingInv'
  <2> DEFINE p == TestPacket(next)
  <2>1. HistoryTyped /\ got = << >> /\ framer = "header" /\ transport = "udp"
    BY <1>1 DEF FramingInv, SendUdp
  <2>2. p \in Packets
    BY <2>1, TestPacketIs DEF HistoryTyped
  <2>3. sent' = Append(sent, p)
    BY <1>1 DEF SendUdp, SendDatagram
  <2>4. UNCHANGED <<transport, size, noise, got, framer>> /\ next' = next + 1
    BY <1>1 DEF SendUdp, framerVars
  <2> HIDE DEF p
  <2>5. sent' \in Seq(Packets)
    BY <2>1, <2>2, <2>3, AppendProperties DEF HistoryTyped
  <2>6. HistoryTyped'
    BY <2>1, <2>4, <2>5 DEF HistoryTyped
  <2> QED
    BY <2>1, <2>4, <2>6 DEF FramingInv
<1>2. ASSUME SenderShutdown
      PROVE  FramingInv'
  <2>1. HistoryTyped /\ transport = "tcp" /\ Shutdown /\ UNCHANGED <<transport, size, next>>
    BY <1>2 DEF FramingInv, SenderShutdown
  <2>2. UNCHANGED <<sent, noise, stream, pending, framer>>
    BY <2>1 DEF Shutdown, framerVars
  <2>3. HistoryTyped'
    BY <2>1, <2>2 DEF HistoryTyped
  <2>4. ASSUME Plain'
        PROVE  StreamTyped' /\ (\E w, ends, hole, c : Cut(w, ends, hole, c))'
    <3>1. Plain
      BY <2>2, <2>4 DEF Plain
    <3>2. StreamTyped
      BY <2>1, <3>1 DEF FramingInv
    <3>3. PICK w, ends, hole, c : Cut(w, ends, hole, c)
      BY <2>1, <3>1 DEF FramingInv
    <3>4. Cut(w, ends, hole, c)'
      BY <2>1, <3>2, <3>3, ShutdownKeeps
    <3>5. StreamTyped'
      BY <2>2, <2>3, <3>2 DEF StreamTyped
    <3> QED
      BY <3>4, <3>5
  <2> QED
    BY <2>1, <2>3, <2>4 DEF FramingInv
<1>3. ASSUME RecvTcpStep
      PROVE  FramingInv'
  <2>1. /\ HistoryTyped /\ transport = "tcp"
        /\ FramerStep \/ FramerReads
        /\ UNCHANGED <<transport, size, next>>
    BY <1>3 DEF FramingInv, RecvTcpStep
  <2>2. UNCHANGED <<sent, noise>>
    BY <2>1 DEF FramerStep, FramerReads, TakeHeader, TakePayload, FindMagic,
                DiscardAll, ReadEnd, Read, writerVars
  <2>3. HistoryTyped'
    BY <2>1, <2>2 DEF HistoryTyped
  <2>4. ASSUME Plain'
        PROVE  StreamTyped' /\ (\E w, ends, hole, c : Cut(w, ends, hole, c))'
    <3>1. Plain
      BY <2>2, <2>4 DEF Plain
    <3>2. StreamTyped
      BY <2>1, <3>1 DEF FramingInv
    <3>3. PICK w, ends, hole, c : Cut(w, ends, hole, c)
      BY <2>1, <3>1 DEF FramingInv
    <3>4. StreamTyped' /\ \E d : Cut(w, ends, hole, d)'
      BY <2>1, <3>1, <3>2, <3>3, ReaderKeeps
    <3> QED
      BY <3>4
  <2> QED
    BY <2>1, <2>3, <2>4 DEF FramingInv
<1>4. ASSUME UNCHANGED <<argVars, senderVars, framingVars>>
      PROVE  FramingInv'
  BY <1>4, FramingRests
<1>5. ASSUME RecvUdp \/ Overflow \/ RecvStray \/ RecvTcp \/ GiveUp \/ Network
      PROVE  FramingInv'
  <2>1. UNCHANGED <<argVars, senderVars, framingVars>>
    BY <1>5 DEF RecvUdp, Overflow, RecvStray, RecvTcp, GiveUp, Network
  <2> QED
    BY <1>4, <2>1
<1>6. ASSUME UNCHANGED vars
      PROVE  FramingInv'
  BY <1>4, <1>6 DEF vars
<1> QED
  BY <1>1, <1>2, <1>3, <1>5, <1>6, SendKeeps, GarbageKeeps DEF Next

(* The framer's invariant, in every state of the tool. *)
THEOREM StreamStaysCut == Spec => []FramingInv
<1>1. Init => FramingInv
  BY FramingStarts
<1>2. FramingInv /\ [Next]_vars => FramingInv'
  BY FramingGoesOn
<1> QED
  BY <1>1, <1>2, PTL DEF Spec

(* next_packet returns exactly the packets that were sent, in their order,
   whatever the stream was cut into and whatever noise a scan can skip was
   between them, and it ends only where the stream does. *)
THEOREM FramingIsExact == Spec => []FramesAreExact
<1>1. ASSUME FramingInv
      PROVE  FramesAreExact
  <2>1. SUFFICES ASSUME Plain
                 PROVE  /\ IsPrefix(got, sent)
                        /\ framer = "eof" => got = sent
                        /\ framer = "corrupt" => closed /\ stream = << >> /\ got = sent
    BY DEF FramesAreExact, Plain
  <2>2. HistoryTyped /\ sent \in Seq(Packets)
    BY <1>1 DEF FramingInv, HistoryTyped
  <2>3. CASE transport = "udp"
    <3>1. got = << >> /\ framer = "header"
      BY <1>1, <2>3 DEF FramingInv
    <3>2. IsPrefix(got, sent)
      <4>1. SubSeq(sent, 1, 0) = << >>
        BY <2>2, SubSeqEmpty
      <4>2. Len(got) = 0 /\ 0 \leq Len(sent)
        BY <2>2, <3>1
      <4> QED
        BY <3>1, <4>1, <4>2 DEF IsPrefix
    <3> QED
      BY <3>1, <3>2
  <2>4. CASE transport = "tcp"
    <3>1. Returned
      BY <1>1, <2>1, <2>4 DEF FramingInv, Cut
    <3>2. /\ got \in Seq(Packets) /\ Len(got) \in Nat /\ Len(sent) \in Nat
          /\ Len(got) \leq Len(sent)
          /\ \A i \in 1 .. Len(got) : got[i] = sent[i]
      BY <2>2, <3>1 DEF Returned
    <3>3. got = SubSeq(sent, 1, Len(got))
      <4> DEFINE s == SubSeq(sent, 1, Len(got))
      <4>1. /\ s \in Seq(Packets) /\ Len(s) = Len(got)
            /\ \A i \in 1 .. Len(got) : s[i] = sent[i]
        BY <2>2, <3>2
      <4> HIDE DEF s
      <4>2. got = s
        BY <3>2, <4>1, SeqEqual
      <4> QED
        BY <4>2 DEF s
    <3>4. IsPrefix(got, sent)
      BY <3>2, <3>3 DEF IsPrefix
    <3>5. ASSUME framer \in {"eof", "corrupt"}
          PROVE  closed /\ stream = << >> /\ got = sent
      <4>1. closed /\ stream = << >> /\ Len(got) = Len(sent)
        BY <3>1, <3>5 DEF Returned
      <4>2. got = sent
        BY <2>2, <3>2, <4>1, SeqEqual
      <4> QED
        BY <4>1, <4>2
    <3> QED
      BY <3>4, <3>5
  <2> QED
    BY <2>2, <2>3, <2>4 DEF HistoryTyped
<1> QED
  BY <1>1, StreamStaysCut, PTL

-----------------------------------------------------------------------------
(* The verdict's invariant.                                                 *)

(* A datagram that was sent, with the packet of its number. *)
Genuine(item) == item.n < next /\ item.cells = Encode(TestPacket(item.n))

(* What was sent, ... *)
SentInv ==
  /\ count \in Nat /\ next \in Nat /\ next \leq count
  /\ profile = "jitter30" => count \leq SeqWord
  /\ sent \in Seq(Packets) /\ Len(sent) = next
  /\ \A i \in 1 .. Len(sent) : sent[i] = TestPacket(i - 1)

(* ... and what becomes of it on its way: *)
AllGenuine ==
  /\ \A i \in 1 .. Len(socket) : Genuine(socket[i])
  /\ \A i \in 1 .. Len(channel) : Genuine(channel[i])
  /\ \A e \in queue : Genuine(e.item)
  /\ \A i \in 1 .. Len(out) : Genuine(out[i].item)

(* no profile but jitter30 makes copies or changes the order. *)
WireInv ==
  profile # "jitter30" =>
    /\ queue = {}
    /\ \A i, j \in 1 .. Len(out) : i \leq j => out[i].item.n + (j - i) \leq out[j].item.n
    /\ \A i \in 1 .. Len(out) : \A n \in Ahead : out[i].item.n < n

NoWire == transport = "tcp" =>
  socket = << >> /\ channel = << >> /\ queue = {} /\ out = << >>

PathInv == SentInv /\ AllGenuine /\ WireInv /\ NoWire

(* Where what arrived came from: datagrams on the wire, in the order they have
   there, or packets of the framer. *)
ArrivedInv ==
  /\ arrived \in Seq(Packets) /\ hop \in 0 .. Len(out)
  /\ transport = "udp" =>
       \E place \in [1 .. Len(arrived) -> 1 .. hop] :
         /\ \A i, j \in 1 .. Len(arrived) : i \leq j => place[i] + (j - i) \leq place[j]
         /\ \A i \in 1 .. Len(arrived) : arrived[i] = TestPacket(out[place[i]].item.n)
  /\ transport = "tcp" =>
       /\ Len(arrived) \leq Len(got) /\ Len(got) \leq Len(arrived) + 1
       /\ \A i \in 1 .. Len(arrived) : arrived[i] = got[i]

(* The numbers that arrived are 0, 1, 2, ..., wrapped. *)
InSequence == \A i \in 1 .. Len(arrived) : arrived[i].seq = (i - 1) % SeqWord

(* No event was counted. *)
Quiet == verifier["lost"] = 0 /\ verifier["duplicate"] = 0 /\ verifier["out_of_order"] = 0

CountInv ==
  /\ verifier \in [Counters -> Nat] /\ tracker \in Trackers
  /\ delays \in [fast : Nat, slow : Nat]
  /\ mode = "recv" =>
       /\ verifier["received"] = Len(arrived) /\ verifier["content_errors"] = 0
       /\ Quiet <=> InSequence
       /\ InSequence => tracker.expected = Len(arrived) % SeqWord
  /\ mode = "bench" => delays.fast + delays.slow = Len(arrived)

ReceiptInv == Plain => ArrivedInv /\ CountInv

-----------------------------------------------------------------------------
(* The path of a datagram.                                                  *)

(* The sender's next packet. *)
LEMMA SentGrows ==
  ASSUME SentInv, size \in Nat, next < count,
         sent' = Append(sent, TestPacket(next)), next' = next + 1,
         UNCHANGED <<size, count, profile>>
  PROVE  SentInv'
<1> DEFINE p == TestPacket(next)
<1>1. p \in Packets
  BY TestPacketIs DEF SentInv
<1>2. /\ sent \in Seq(Packets) /\ next \in Nat /\ count \in Nat /\ Len(sent) = next
      /\ \A i \in 1 .. Len(sent) : sent[i] = TestPacket(i - 1)
  BY DEF SentInv
<1>3. sent' = Append(sent, p)
  OBVIOUS
<1> HIDE DEF p
<1>4. /\ sent' \in Seq(Packets) /\ Len(sent') = Len(sent) + 1
      /\ \A i \in 1 .. Len(sent) : sent'[i] = sent[i]
      /\ sent'[Len(sent) + 1] = p
  BY <1>1, <1>2, <1>3, AppendProperties
<1>5. ASSUME NEW i \in 1 .. Len(sent')
      PROVE  sent'[i] = TestPacket(i - 1)'
  <2>1. TestPacket(i - 1)' = TestPacket(i - 1)
    BY DEF TestPacket
  <2>2. CASE i \in 1 .. Len(sent)
    BY <1>2, <1>4, <2>1, <2>2
  <2>3. CASE i = Len(sent) + 1
    <3>1. i - 1 = next
      BY <1>2, <2>3
    <3>2. TestPacket(i - 1) = p
      BY <3>1 DEF p
    <3> QED
      BY <1>4, <2>1, <2>3, <3>2
  <2> QED
    BY <1>2, <1>4, <2>2, <2>3
<1>6. next' \in Nat /\ next' \leq count' /\ Len(sent') = next'
  BY <1>2, <1>4
<1>7. count' \in Nat /\ (profile' = "jitter30" => count' \leq SeqWord)
  BY DEF SentInv
<1> QED
  BY <1>4, <1>5, <1>6, <1>7 DEF SentInv

(* What was genuine stays so while the sender goes on. *)
LEMMA GenuineStays ==
  ASSUME size' = size, next \in Nat, next' \in {next, next + 1},
         NEW x \in Items, Genuine(x)
  PROVE  Genuine(x)'
<1>1. x.n \in Nat /\ x.n < next
  BY DEF Items, Genuine
<1>2. x.n < next'
  BY <1>1
<1> QED
  BY <1>2 DEF Genuine, TestPacket

(* What the types of the proxy's variables say of their members. *)
LEMMA MembersAre ==
  ASSUME ProxyTyped
  PROVE  /\ next \in Nat /\ size \in Nat
         /\ Len(socket) \in Nat /\ Len(channel) \in Nat /\ Len(out) \in Nat
         /\ \A i \in 1 .. Len(socket) : socket[i] \in Items
         /\ \A i \in 1 .. Len(channel) : channel[i] \in Items
         /\ \A e \in queue : e.item \in Items
         /\ \A i \in 1 .. Len(out) : out[i].item \in Items
         /\ \A i \in 1 .. Len(out) : out[i].item.n \in Nat
<1>1. /\ socket \in Seq(Items) /\ channel \in Seq(Items) /\ out \in Seq(Departures)
      /\ queue \in SUBSET Entries /\ next \in Nat /\ size \in Nat
  BY DEF ProxyTyped
<1>2. \A i \in 1 .. Len(out) : out[i] \in Departures
  BY <1>1, ElementOfSeq
<1>3. \A i \in 1 .. Len(out) : out[i].item \in Items
  BY <1>2 DEF Departures
<1>4. \A i \in 1 .. Len(out) : out[i].item.n \in Nat
  BY <1>3 DEF Items
<1>5. \A e \in queue : e.item \in Items
  BY <1>1 DEF Entries
<1> QED
  BY <1>1, <1>3, <1>4, <1>5, ElementOfSeq

(* Datagrams on their way: posted, moved along, taken, or left where they are. *)
LEMMA WayGoesOn ==
  ASSUME ProxyTyped, FeedInOrder, AllGenuine, WireInv,
         \/ /\ socket' = Append(socket, [n |-> next, cells |-> Encode(TestPacket(next))])
            /\ channel' = channel /\ next' = next + 1
         \/ Moves
         \/ Takes
         \/ Skips,
         UNCHANGED <<size, profile, queue, out>>
  PROVE  AllGenuine' /\ WireInv'
<1>1. /\ next \in Nat /\ size \in Nat
      /\ Len(socket) \in Nat /\ Len(channel) \in Nat /\ Len(out) \in Nat
      /\ \A i \in 1 .. Len(socket) : socket[i] \in Items
      /\ \A i \in 1 .. Len(channel) : channel[i] \in Items
      /\ \A e \in queue : e.item \in Items
      /\ \A i \in 1 .. Len(out) : out[i].item \in Items
  BY MembersAre
<1>2. socket \in Seq(Items) /\ channel \in Seq(Items)
  BY DEF ProxyTyped
<1> DEFINE c == Encode(TestPacket(next))
<1>3. c \in Seq(Nat)
  BY <1>1, TestPacketIs, EncodedIs
<1>4. PICK x \in Items : x = [n |-> next, cells |-> c]
  BY <1>1, <1>3 DEF Items
<1>5. next' \in {next, next + 1} /\ (Posts \/ Moves \/ Takes \/ Skips)
  BY <1>3 DEF Posts, Moves, Takes, Skips
<1>6. Ahead' \subseteq Ahead
  BY <1>5, FeedSteps
<1>7. ASSUME NEW y \in Items, Genuine(y)
      PROVE  Genuine(y)'
  BY <1>1, <1>5, <1>7, GenuineStays
<1>8. ASSUME next' = next + 1
      PROVE  Genuine(x)'
  BY <1>1, <1>4, <1>8 DEF Genuine, TestPacket
<1>9. ASSUME NEW i \in 1 .. Len(socket')
      PROVE  Genuine(socket[i])' /\ socket'[i] \in Items
  <2>1. PICK y : y = socket'[i]
    OBVIOUS
  <2>2. y \in Items /\ (Genuine(y) \/ (next' = next + 1 /\ y = x))
    <3>1. CASE socket' = Append(socket, [n |-> next, cells |-> c]) /\ next' = next + 1
      <4>1. socket' = Append(socket, x)
        BY <1>4, <3>1
      <4>2. /\ Len(socket') = Len(socket) + 1
            /\ \A j \in 1 .. Len(socket) : socket'[j] = socket[j]
            /\ socket'[Len(socket) + 1] = x
        BY <1>2, <4>1, AppendProperties
      <4>3. i \in 1 .. Len(socket) \/ i = Len(socket) + 1
        BY <1>1, <4>2
      <4> QED
        BY <1>1, <2>1, <3>1, <4>2, <4>3 DEF AllGenuine
    <3>2. CASE Moves
      <4>1. socket # << >> /\ socket' = Tail(socket)
        BY <3>2 DEF Moves
      <4>2. /\ Len(socket') = Len(socket) - 1
            /\ \A j \in 1 .. Len(socket') : socket'[j] = socket[j + 1]
        BY <1>2, <4>1, HeadTailProperties
      <4>3. i + 1 \in 1 .. Len(socket)
        BY <1>1, <4>2
      <4> QED
        BY <1>1, <2>1, <4>2, <4>3 DEF AllGenuine
    <3>3. CASE Takes \/ Skips
      BY <1>1, <2>1, <3>3 DEF Takes, Skips, AllGenuine
    <3> QED
      BY <3>1, <3>2, <3>3
  <2>3. Genuine(y)'
    BY <1>7, <1>8, <2>2
  <2> QED
    BY <2>1, <2>2, <2>3 DEF Genuine
<1>10. ASSUME NEW i \in 1 .. Len(channel')
       PROVE  Genuine(channel[i])'
  <2>1. PICK y : y = channel'[i]
    OBVIOUS
  <2>2. y \in Items /\ Genuine(y)
    <3>1. CASE UNCHANGED channel
      BY <1>1, <2>1, <3>1 DEF AllGenuine
    <3>2. CASE Moves
      <4>1. socket # << >> /\ channel' = Append(channel, Head(socket))
        BY <3>2 DEF Moves
      <4>2. Head(socket) = socket[1] /\ 1 \in 1 .. Len(socket)
        BY <1>1, <1>2, <4>1, EmptySeq
      <4>3. PICK h : h = Head(socket)
        OBVIOUS
      <4>4. h \in Items /\ Genuine(h) /\ channel' = Append(channel, h)
        BY <1>1, <4>1, <4>2, <4>3 DEF AllGenuine
      <4>5. /\ Len(channel') = Len(channel) + 1
            /\ \A j \in 1 .. Len(channel) : channel'[j] = channel[j]
            /\ channel'[Len(channel) + 1] = h
        BY <1>2, <4>4, AppendProperties
      <4>6. i \in 1 .. Len(channel) \/ i = Len(channel) + 1
        BY <1>1, <4>5
      <4> QED
        BY <1>1, <2>1, <4>4, <4>5, <4>6 DEF AllGenuine
    <3>3. CASE Takes
      <4>1. channel # << >> /\ channel' = Tail(channel)
        BY <3>3 DEF Takes
      <4>2. /\ Len(channel') = Len(channel) - 1
            /\ \A j \in 1 .. Len(channel') : channel'[j] = channel[j + 1]
        BY <1>2, <4>1, HeadTailProperties
      <4>3. i + 1 \in 1 .. Len(channel)
        BY <1>1, <4>2
      <4> QED
        BY <1>1, <2>1, <4>2, <4>3 DEF AllGenuine
    <3> QED
      BY <3>1, <3>2, <3>3 DEF Skips
  <2>3. Genuine(y)'
    BY <1>7, <2>2
  <2> QED
    BY <2>1, <2>3 DEF Genuine
<1>11. ASSUME NEW e \in queue
       PROVE  Genuine(e.item)'
  BY <1>1, <1>7 DEF AllGenuine
<1>12. ASSUME NEW i \in 1 .. Len(out)
       PROVE  Genuine(out[i].item)'
  <2>1. PICK y : y = out[i].item
    OBVIOUS
  <2>2. Genuine(y)'
    BY <1>1, <1>7, <2>1 DEF AllGenuine
  <2> QED
    BY <2>1, <2>2 DEF Genuine
<1>13. AllGenuine'
  BY <1>9, <1>10, <1>11, <1>12 DEF AllGenuine
<1>14. WireInv'
  BY <1>6 DEF WireInv
<1> QED
  BY <1>13, <1>14

(* A datagram is taken, and sent, kept, dropped, or sent and kept. *)
LEMMA WayForwards ==
  ASSUME ProxyInv, AllGenuine, WireInv, Receive, UNCHANGED <<size, next>>
  PROVE  AllGenuine' /\ WireInv'
<1>1. ProxyTyped /\ FeedInOrder
  BY DEF ProxyInv
<1>2. /\ next \in Nat /\ size \in Nat
      /\ Len(socket) \in Nat /\ Len(channel) \in Nat /\ Len(out) \in Nat
      /\ \A i \in 1 .. Len(socket) : socket[i] \in Items
      /\ \A i \in 1 .. Len(channel) : channel[i] \in Items
      /\ \A e \in queue : e.item \in Items
      /\ \A i \in 1 .. Len(out) : out[i].item \in Items
      /\ \A i \in 1 .. Len(out) : out[i].item.n \in Nat
  BY <1>1, MembersAre
<1>3. /\ channel # << >> /\ channel' = Tail(channel) /\ UNCHANGED <<profile, socket, now>>
  BY DEF Receive
<1>4. PICK decision \in Decisions, delay \in Delays :
        Forward(Head(channel), decision, delay)
  BY DEF Receive
<1>5. PICK item : item = Head(channel)
  OBVIOUS
<1>6. Takes
  BY <1>3 DEF Takes
<1>7. /\ Ahead' \subseteq Ahead /\ item \in Items /\ item.n \in Ahead
      /\ \A n \in Ahead' : item.n < n
  BY <1>1, <1>5, <1>6, FeedSteps
<1>8. channel \in Seq(Items) /\ out \in Seq(Departures)
  BY <1>1 DEF ProxyTyped
<1>9. /\ Head(channel) = channel[1] /\ 1 \in 1 .. Len(channel)
      /\ Len(channel') = Len(channel) - 1
      /\ \A i \in 1 .. Len(channel') : channel'[i] = channel[i + 1]
  BY <1>2, <1>3, <1>8, HeadTailProperties, EmptySeq
<1>10. ASSUME NEW y \in Items, Genuine(y)
       PROVE  Genuine(y)'
  BY <1>2, <1>10, GenuineStays
<1>11. Genuine(item) /\ Genuine(item)'
  BY <1>5, <1>7, <1>9, <1>10 DEF AllGenuine
<1> DEFINE x == Entry(now + delay, item)
           y == SendsNow(item)
<1>12. /\ out' = IF decision \in AtOnce THEN Append(out, y) ELSE out
       /\ queue' = IF decision \in Later THEN queue \cup {x} ELSE queue
  BY <1>4, <1>5 DEF Forward
<1>13. x.item = item /\ y.item = item /\ y \in Departures
  <2>1. now \in Nat
    BY <1>1 DEF ProxyTyped
  <2> QED
    BY <1>7, <2>1 DEF Entry, SendsNow, Departures
<1> HIDE DEF x, y
<1>14. \/ Len(out') = Len(out) /\ \A i \in 1 .. Len(out) : out'[i] = out[i]
       \/ /\ Len(out') = Len(out) + 1 /\ out'[Len(out) + 1].item = item
          /\ \A i \in 1 .. Len(out) : out'[i] = out[i]
  <2>1. CASE decision \in AtOnce
    <3>1. out' = Append(out, y)
      BY <1>12, <2>1
    <3>2. /\ Len(out') = Len(out) + 1 /\ out'[Len(out) + 1] = y
          /\ \A i \in 1 .. Len(out) : out'[i] = out[i]
      BY <1>8, <1>13, <3>1, AppendProperties
    <3> QED
      BY <1>13, <3>2
  <2>2. CASE decision \notin AtOnce
    BY <1>12, <2>2
  <2> QED
    BY <2>1, <2>2
<1>15. AllGenuine'
  <2>1. ASSUME NEW i \in 1 .. Len(socket')
        PROVE  Genuine(socket[i])'
    <3>1. PICK z : z = socket'[i]
      OBVIOUS
    <3>2. z \in Items /\ Genuine(z)
      BY <1>2, <1>3, <3>1 DEF AllGenuine
    <3>3. Genuine(z)'
      BY <1>10, <3>2
    <3> QED
      BY <3>1, <3>3 DEF Genuine
  <2>2. ASSUME NEW i \in 1 .. Len(channel')
        PROVE  Genuine(channel[i])'
    <3>1. PICK z : z = channel'[i]
      OBVIOUS
    <3>2. i + 1 \in 1 .. Len(channel)
      BY <1>2, <1>9
    <3>3. z \in Items /\ Genuine(z)
      BY <1>2, <1>9, <3>1, <3>2 DEF AllGenuine
    <3>4. Genuine(z)'
      BY <1>10, <3>3
    <3> QED
      BY <3>1, <3>4 DEF Genuine
  <2>3. ASSUME NEW e \in queue'
        PROVE  Genuine(e.item)'
    <3>1. e \in queue \/ e = x
      BY <1>12
    <3>2. CASE e = x
      BY <1>11, <1>13, <3>2 DEF Genuine
    <3>3. CASE e \in queue
      BY <1>2, <1>10, <3>3 DEF AllGenuine
    <3> QED
      BY <3>1, <3>2, <3>3
  <2>4. ASSUME NEW i \in 1 .. Len(out')
        PROVE  Genuine(out[i].item)'
    <3>1. PICK z : z = out'[i].item
      OBVIOUS
    <3>2. (i \in 1 .. Len(out) /\ z = out[i].item) \/ z = item
      BY <1>2, <1>14, <3>1
    <3>3. Genuine(z)'
      BY <1>2, <1>10, <1>11, <3>2 DEF AllGenuine
    <3> QED
      BY <3>1, <3>3 DEF Genuine
  <2> QED
    BY <2>1, <2>2, <2>3, <2>4 DEF AllGenuine
<1>16. WireInv'
  <2> SUFFICES ASSUME profile # "jitter30"
               PROVE  /\ queue' = {}
                      /\ \A i, j \in 1 .. Len(out') :
                           i \leq j => out'[i].item.n + (j - i) \leq out'[j].item.n
                      /\ \A i \in 1 .. Len(out') : \A n \in Ahead' : out'[i].item.n < n
    BY <1>3 DEF WireInv
  <2>1. /\ queue = {}
        /\ \A i, j \in 1 .. Len(out) : i \leq j => out[i].item.n + (j - i) \leq out[j].item.n
        /\ \A i \in 1 .. Len(out) : \A n \in Ahead : out[i].item.n < n
    BY DEF WireInv
  <2>2. queue' = {}
    <3>1. profile \in {"clean", "loss2", "burst"}
      BY <1>1 DEF ProxyTyped, Profiles
    <3>2. decision \in {"immediate", "drop"}
      BY <3>1 DEF Decisions
    <3> QED
      BY <1>12, <2>1, <3>2 DEF Later
  <2>3. ASSUME NEW i \in 1 .. Len(out')
        PROVE  \A n \in Ahead' : out'[i].item.n < n
    BY <1>2, <1>7, <1>14, <2>1
  <2>4. ASSUME NEW i \in 1 .. Len(out'), NEW j \in 1 .. Len(out'), i \leq j
        PROVE  out'[i].item.n + (j - i) \leq out'[j].item.n
    <3>1. CASE j \in 1 .. Len(out)
      <4>1. i \in 1 .. Len(out)
        BY <1>2, <2>4, <3>1
      <4>2. out'[i] = out[i] /\ out'[j] = out[j]
        BY <1>14, <3>1, <4>1
      <4> QED
        BY <2>1, <2>4, <3>1, <4>1, <4>2
    <3>2. CASE j \notin 1 .. Len(out)
      <4>1. j = Len(out) + 1 /\ out'[j].item.n = item.n
        BY <1>2, <1>14, <3>2
      <4>2. item.n \in Nat
        BY <1>7 DEF Items
      <4>3. CASE i = j
        BY <4>1, <4>2, <4>3
      <4>4. CASE i # j
        <5> DEFINE l == Len(out)
                   a == out[i].item.n
                   b == out[l].item.n
                   d == item.n
        <5>1. i \in 1 .. l /\ l \in 1 .. l /\ out'[i] = out[i]
          BY <1>2, <1>14, <2>4, <4>1, <4>4
        <5>2. a \in Nat /\ b \in Nat /\ d \in Nat
          BY <1>2, <4>2, <5>1
        <5>3. a + (l - i) \leq b /\ b < d
          <6>1. i \leq l
            BY <5>1
          <6> QED
            BY <1>7, <2>1, <5>1, <6>1
        <5>4. l \in Nat /\ i \in Nat /\ j = l + 1
          BY <1>2, <4>1
        <5> HIDE DEF l, a, b, d
        <5>5. a + (j - i) \leq d
          BY <5>2, <5>3, <5>4
        <5> QED
          BY <4>1, <5>1, <5>5 DEF a, d
      <4> QED
        BY <4>3, <4>4
    <3> QED
      BY <3>1, <3>2
  <2> QED
    BY <2>2, <2>3, <2>4
<1> QED
  BY <1>15, <1>16

(* What is released was queued. *)
LEMMA ReleasedAre ==
  ASSUME ProxyTyped, QueueInOrder, NEW E \in SUBSET Expired, Release(E)
  PROVE  /\ queue' \subseteq queue
         /\ queue = {} => Len(out') = Len(out)
         /\ Len(out') \in Nat
         /\ \A i \in 1 .. Len(out') :
              \/ i \in 1 .. Len(out) /\ out'[i] = out[i]
              \/ i \notin 1 .. Len(out) /\ \E e \in queue : out'[i].item = e.item
         /\ \A i \in 1 .. Len(out) : i \in 1 .. Len(out') /\ out'[i] = out[i]
<1> DEFINE k == Cardinality(E)
           q == InOrder(E)
           r == [i \in 1 .. k |-> Sends(q[i])]
<1>1. /\ queue \in SUBSET Entries /\ IsFiniteSet(queue) /\ now \in Nat
      /\ out \in Seq(Departures) /\ Len(out) \in Nat
  BY DEF ProxyTyped
<1>2. E \in SUBSET queue /\ E \in SUBSET Entries /\ IsFiniteSet(E)
  <2>1. E \in SUBSET queue
    BY DEF Expired
  <2> QED
    BY <1>1, <2>1, FS_Subset
<1>3. Distinct(E)
  BY <1>2 DEF Distinct, QueueInOrder
<1>4. out' = out \o r /\ queue' \subseteq queue
  BY DEF Release
<1>5. queue = {} => k = 0
  BY <1>2, FS_EmptySet
<1>6. k \in Nat /\ q \in [1 .. k -> E]
  BY <1>3, InOrderIs
<1> HIDE DEF q, k
<1>7. \A i \in 1 .. k : Sends(q[i]) \in Departures
  <2> SUFFICES ASSUME NEW i \in 1 .. k PROVE Sends(q[i]) \in Departures
    OBVIOUS
  <2>1. q[i] \in Entries
    BY <1>2, <1>6
  <2> QED
    BY <1>1, <2>1 DEF Sends, Entries, Departures
<1>8. r \in Seq(Departures) /\ Len(r) = k
  BY <1>6, <1>7
<1>9. \A i \in 1 .. k : r[i].item = q[i].item /\ q[i] \in queue
  BY <1>2, <1>6 DEF Sends
<1> HIDE DEF r
<1>10. /\ Len(out') = Len(out) + k
       /\ \A i \in 1 .. Len(out) + k :
            out'[i] = IF i \leq Len(out) THEN out[i] ELSE r[i - Len(out)]
  BY <1>1, <1>4, <1>8, ConcatProperties
<1>11. \A i \in 1 .. Len(out) : i \in 1 .. Len(out') /\ out'[i] = out[i]
  BY <1>1, <1>6, <1>10
<1>12. ASSUME NEW i \in 1 .. Len(out')
       PROVE  \/ i \in 1 .. Len(out) /\ out'[i] = out[i]
              \/ i \notin 1 .. Len(out) /\ \E e \in queue : out'[i].item = e.item
  <2>1. CASE i \in 1 .. Len(out)
    BY <1>11, <2>1
  <2>2. CASE i \notin 1 .. Len(out)
    <3>1. i - Len(out) \in 1 .. k /\ out'[i] = r[i - Len(out)]
      BY <1>1, <1>6, <1>10, <2>2
    <3> QED
      BY <1>9, <2>2, <3>1
  <2> QED
    BY <2>1, <2>2
<1> QED
  BY <1>1, <1>4, <1>5, <1>6, <1>10, <1>11, <1>12

(* A release sends what was queued, if anything ever is. *)
LEMMA WayReleases ==
  ASSUME ProxyInv, AllGenuine, WireInv, NEW E \in SUBSET Expired, Release(E),
         UNCHANGED <<size, next, profile, socket, channel>>
  PROVE  AllGenuine' /\ WireInv'
<1>1. ProxyTyped /\ FeedInOrder /\ QueueInOrder
  BY DEF ProxyInv
<1>2. /\ next \in Nat
      /\ \A i \in 1 .. Len(socket) : socket[i] \in Items
      /\ \A i \in 1 .. Len(channel) : channel[i] \in Items
      /\ \A e \in queue : e.item \in Items
      /\ \A i \in 1 .. Len(out) : out[i].item \in Items
  BY <1>1, MembersAre
<1>3. /\ queue' \subseteq queue
      /\ queue = {} => Len(out') = Len(out)
      /\ \A i \in 1 .. Len(out') :
           \/ i \in 1 .. Len(out) /\ out'[i] = out[i]
           \/ i \notin 1 .. Len(out) /\ \E e \in queue : out'[i].item = e.item
      /\ \A i \in 1 .. Len(out) : i \in 1 .. Len(out') /\ out'[i] = out[i]
  BY <1>1, ReleasedAre
<1>4. ASSUME NEW y \in Items, Genuine(y)
      PROVE  Genuine(y)'
  BY <1>2, <1>4, GenuineStays
<1>5. ASSUME NEW i \in 1 .. Len(socket)
      PROVE  Genuine(socket[i])'
  <2>1. PICK z : z = socket[i]
    OBVIOUS
  <2>2. Genuine(z)'
    BY <1>2, <1>4, <2>1 DEF AllGenuine
  <2> QED
    BY <2>1, <2>2 DEF Genuine
<1>6. ASSUME NEW i \in 1 .. Len(channel)
      PROVE  Genuine(channel[i])'
  <2>1. PICK z : z = channel[i]
    OBVIOUS
  <2>2. Genuine(z)'
    BY <1>2, <1>4, <2>1 DEF AllGenuine
  <2> QED
    BY <2>1, <2>2 DEF Genuine
<1>7. ASSUME NEW e \in queue
      PROVE  Genuine(e.item)'
  BY <1>2, <1>4 DEF AllGenuine
<1>8. ASSUME NEW i \in 1 .. Len(out')
      PROVE  Genuine(out[i].item)'
  <2>1. PICK z : z = out'[i].item
    OBVIOUS
  <2>2. z \in Items /\ Genuine(z)
    BY <1>2, <1>3, <2>1 DEF AllGenuine
  <2>3. Genuine(z)'
    BY <1>4, <2>2
  <2> QED
    BY <2>1, <2>3 DEF Genuine
<1>9. AllGenuine'
  BY <1>3, <1>5, <1>6, <1>7, <1>8 DEF AllGenuine
<1>10. Ahead' = Ahead
  BY DEF Ahead
<1>11. WireInv'
  <2> SUFFICES ASSUME profile # "jitter30"
               PROVE  /\ queue' = {}
                      /\ \A i, j \in 1 .. Len(out') :
                           i \leq j => out'[i].item.n + (j - i) \leq out'[j].item.n
                      /\ \A i \in 1 .. Len(out') : \A n \in Ahead' : out'[i].item.n < n
    BY DEF WireInv
  <2>1. /\ queue = {} /\ Len(out') = Len(out)
        /\ \A i \in 1 .. Len(out) : out'[i] = out[i]
    BY <1>3 DEF WireInv
  <2> QED
    BY <1>3, <1>10, <2>1 DEF WireInv
<1> QED
  BY <1>9, <1>11

(* Every step of the tool keeps what is on the way. *)
LEMMA PathGoesOn ==
  ASSUME ProxyInv, PathInv, [Next]_vars
  PROVE  PathInv'
<1> USE DEF proxyVars, forwarderVars, delayVars, argVars, senderVars
<1>1. /\ ProxyTyped /\ FeedInOrder /\ size \in Nat
      /\ SentInv /\ AllGenuine /\ WireInv /\ NoWire
  BY DEF ProxyInv, ProxyTyped, PathInv
<1>2. ASSUME SendUdp
      PROVE  PathInv'
  <2>1. /\ socket' = Append(socket, [n |-> next, cells |-> Encode(TestPacket(next))])
        /\ sent' = Append(sent, TestPacket(next)) /\ next' = next + 1 /\ next < count
        /\ transport = "udp"
        /\ UNCHANGED <<transport, size, count, profile, channel, queue, out>>
    BY <1>2 DEF SendUdp, SendDatagram
  <2>2. SentInv'
    BY <1>1, <2>1, SentGrows
  <2>3. AllGenuine' /\ WireInv'
    BY <1>1, <2>1, WayGoesOn
  <2>4. NoWire'
    BY <2>1 DEF NoWire
  <2> QED
    BY <2>2, <2>3, <2>4 DEF PathInv
<1>3. ASSUME SendTcp
      PROVE  PathInv'
  <2>1. /\ sent' = Append(sent, TestPacket(next)) /\ next' = next + 1 /\ next < count
        /\ UNCHANGED <<transport, size, count, profile, socket, channel, queue, out>>
    BY <1>3 DEF SendTcp, WritePacket
  <2>2. SentInv'
    BY <1>1, <2>1, SentGrows
  <2>3. Skips
    BY <2>1 DEF Skips
  <2>4. AllGenuine' /\ WireInv'
    BY <1>1, <2>1, <2>3, WayGoesOn
  <2>5. NoWire'
    BY <1>1, <2>1 DEF NoWire
  <2> QED
    BY <2>2, <2>4, <2>5 DEF PathInv
<1>4. ASSUME UNCHANGED <<size, count, profile, sent, next>>
      PROVE  SentInv'
  BY <1>1, <1>4 DEF SentInv, TestPacket
<1>5. ASSUME UNCHANGED <<argVars, sent, next, socket, channel, queue, out, profile>>
      PROVE  PathInv'
  <2>1. Skips
    BY <1>5 DEF Skips
  <2>2. AllGenuine' /\ WireInv'
    BY <1>1, <1>5, <2>1, WayGoesOn
  <2>3. NoWire'
    BY <1>1, <1>5 DEF NoWire
  <2> QED
    BY <1>4, <1>5, <2>2, <2>3 DEF PathInv
<1>6. ASSUME WriteGarbage \/ SenderShutdown \/ RecvUdp \/ Overflow \/ RecvStray
               \/ RecvTcpStep \/ RecvTcp \/ GiveUp
      PROVE  PathInv'
  <2>1. UNCHANGED <<argVars, next, proxyVars>>
    BY <1>6 DEF WriteGarbage, SenderShutdown, RecvUdp, Overflow, RecvStray,
                RecvTcpStep, RecvTcp, GiveUp
  <2>2. sent' = sent
    <3>1. CASE WriteGarbage \/ SenderShutdown
      BY <3>1 DEF WriteGarbage, WriteNoise, SenderShutdown, Shutdown
    <3>2. CASE RecvUdp \/ Overflow \/ RecvStray \/ RecvTcp \/ GiveUp
      BY <3>2 DEF RecvUdp, Overflow, RecvStray, RecvTcp, GiveUp, framingVars, writerVars
    <3>3. CASE RecvTcpStep
      BY <3>3 DEF RecvTcpStep, FramerStep, FramerReads, TakeHeader, TakePayload, FindMagic,
                  DiscardAll, ReadEnd, Read, writerVars
    <3> QED
      BY <1>6, <3>1, <3>2, <3>3
  <2> QED
    BY <1>5, <2>1, <2>2
<1>7. ASSUME Network
      PROVE  PathInv'
  <2>1. transport = "udp" /\ UNCHANGED <<argVars, next, sent>>
    BY <1>7 DEF Network, framingVars, writerVars
  <2>2. profile' = profile
    BY <1>7 DEF Network, ProxyStep, ReaderStep, Receive, Wakes, Exits, SendFails,
                TimePasses, Signal
  <2>3. NoWire' /\ SentInv'
    BY <1>4, <2>1, <2>2 DEF NoWire
  <2>4. ASSUME ReaderStep
        PROVE  AllGenuine' /\ WireInv'
    <3>1. Moves /\ UNCHANGED <<queue, out>>
      BY <2>1, <2>4 DEF ReaderStep, Moves
    <3> QED
      BY <1>1, <2>1, <2>2, <3>1, WayGoesOn
  <2>5. ASSUME Receive
        PROVE  AllGenuine' /\ WireInv'
    BY <1>1, <2>1, <2>5, WayForwards
  <2>6. ASSUME Wakes \/ Exits
        PROVE  AllGenuine' /\ WireInv'
    <3>1. Release(Expired) /\ UNCHANGED <<socket, channel>>
      BY <2>6 DEF Wakes, Exits
    <3> QED
      BY <1>1, <2>1, <2>2, <3>1, WayReleases
  <2>7. ASSUME TimePasses \/ Signal
        PROVE  AllGenuine' /\ WireInv'
    <3>1. Skips /\ UNCHANGED <<queue, out>>
      BY <2>1, <2>7 DEF TimePasses, Signal, Skips
    <3> QED
      BY <1>1, <2>1, <2>2, <3>1, WayGoesOn
  <2>8. ASSUME SendFails
        PROVE  AllGenuine' /\ WireInv'
    <3>1. CASE channel # << >> /\ channel' = Tail(channel) /\ UNCHANGED <<queue, out>>
      <4>1. Takes
        BY <2>1, <2>8, <3>1, SendFailsIs DEF Takes
      <4> QED
        BY <1>1, <2>1, <2>2, <3>1, <4>1, WayGoesOn
    <3>2. ASSUME NEW E \in SUBSET Expired, Release(E), channel' = channel
          PROVE  AllGenuine' /\ WireInv'
      BY <1>1, <2>1, <2>2, <2>8, <3>2, WayReleases, SendFailsIs
    <3> QED
      BY <2>8, <3>1, <3>2, SendFailsIs
  <2> QED
    BY <1>7, <2>3, <2>4, <2>5, <2>6, <2>7, <2>8 DEF Network, ProxyStep, PathInv
<1>8. ASSUME UNCHANGED vars
      PROVE  PathInv'
  BY <1>5, <1>8 DEF vars, framingVars, writerVars
<1> QED
  BY <1>2, <1>3, <1>6, <1>7, <1>8 DEF Next

(* Nothing is sent in the initial states. *)
LEMMA PathStarts ==
  ASSUME Init
  PROVE  PathInv
<1>1. /\ count \in Nat /\ next = 0 /\ (profile = "jitter30" => count \leq SeqWord)
      /\ sent = << >> /\ socket = << >> /\ channel = << >> /\ queue = {} /\ out = << >>
  BY LoopbackAssumption DEF Init, Legal, FramingInit, ProxyInit
<1>2. SentInv
  BY <1>1 DEF SentInv
<1>3. AllGenuine /\ WireInv /\ NoWire
  BY <1>1 DEF AllGenuine, WireInv, NoWire
<1> QED
  BY <1>2, <1>3 DEF PathInv

-----------------------------------------------------------------------------
(* The verifier.                                                            *)

(* Division with remainder. *)
LEMMA Quotient ==
  ASSUME NEW a \in Nat, NEW m \in Nat, m > 0
  PROVE  a \div m \in Nat /\ a = (m * (a \div m)) + (a % m)
<1>1. a \div m \in Nat
  OBVIOUS
<1>2. a = (m * (a \div m)) + (a % m)
  OBVIOUS
<1> QED
  BY <1>1, <1>2

(* The remainder of a number that is given as a multiple and a rest. *)
LEMMA RestIs ==
  ASSUME NEW q \in Nat, NEW m \in Nat, m > 0, NEW r \in 0 .. m - 1
  PROVE  ((m * q) + r) % m = r
OBVIOUS

(* Once around. *)
LEMMA Wrapped ==
  ASSUME NEW b \in Nat, NEW m \in Nat, b < m
  PROVE  (b + m) % m = b
OBVIOUS

(* The number after a wrapped one is the wrapped next one. *)
LEMMA NextWrapped ==
  ASSUME NEW k \in Nat, NEW m \in Nat, m > 1
  PROVE  ((k % m) + 1) % m = (k + 1) % m
<1> DEFINE q == k \div m
           r == k % m
<1>1. q \in Nat /\ k = (m * q) + r
  BY Quotient
<1>2. r \in 0 .. m - 1
  BY Remainder
<1> SUFFICES (r + 1) % m = (k + 1) % m
  OBVIOUS
<1> HIDE DEF q, r
<1>3. CASE r + 1 < m
  <2>1. PICK s \in 0 .. m - 1 : s = r + 1
    BY <1>2, <1>3
  <2>2. ((m * q) + s) % m = s
    BY <1>1, RestIs
  <2>3. k + 1 = (m * q) + s
    BY <1>1, <1>2, <2>1
  <2>4. s % m = s
    BY SmallRemainder
  <2> QED
    BY <2>1, <2>2, <2>3, <2>4
<1>4. CASE r + 1 = m
  <2>1. q + 1 \in Nat /\ 0 \in 0 .. m - 1
    BY <1>1
  <2>2. ((m * (q + 1)) + 0) % m = 0
    BY <2>1, RestIs
  <2>3. k + 1 = (m * (q + 1)) + 0
    BY <1>1, <1>2, <1>4
  <2>4. (r + 1) % m = 0
    BY <1>4
  <2> QED
    BY <2>2, <2>3, <2>4
<1> QED
  BY <1>2, <1>3, <1>4

(* A distance counts packets, and none only from a number to itself. *)
LEMMA DistanceIs ==
  ASSUME NEW s \in 0 .. SeqWord - 1, NEW e \in 0 .. SeqWord - 1
  PROVE  Distance(s, e) \in Nat /\ (s # e => Distance(s, e) > 0)
<1>1. SeqWord \in Nat /\ SeqWord > 1
  BY WireAssumption
<1> DEFINE a == (s + SeqWord) - e
<1>2. a \in Nat /\ Distance(s, e) = a % SeqWord
  BY <1>1 DEF Distance
<1>3. a % SeqWord \in Nat
  BY <1>1, <1>2, Remainder
<1>4. CASE s < e
  <2>1. a < SeqWord /\ a > 0
    BY <1>1, <1>4
  <2>2. a % SeqWord = a
    BY <1>1, <1>2, <2>1, SmallRemainder
  <2> QED
    BY <1>2, <2>1, <2>2
<1>5. CASE s > e
  <2>1. PICK b \in Nat : b = s - e
    BY <1>1, <1>5
  <2>2. b < SeqWord /\ b > 0 /\ a = b + SeqWord
    BY <1>1, <1>5, <2>1
  <2>3. a % SeqWord = b
    BY <1>1, <2>2, Wrapped
  <2> QED
    BY <1>2, <2>2, <2>3
<1>6. s < e \/ s > e \/ s = e
  BY <1>1
<1> QED
  BY <1>2, <1>3, <1>4, <1>5, <1>6

(* What was encoded is decoded. *)
LEMMA DecodeIs ==
  ASSUME NEW p \in Packets, Len(p.payload) < LenWord
  PROVE  Decode(Encode(p)) = p
<1> DEFINE e == Encode(p)
           q == p.payload
           n == Len(e)
           t == SubSeq(e, 5, n)
<1>1. /\ e \in Seq(Nat) /\ n = 4 + Len(q)
      /\ \A i \in 1 .. Len(q) : e[4 + i] = q[i]
  BY EncodeIs
<1>2. q \in Seq(Nat) /\ Len(q) \in Nat
  BY DEF Packets
<1>3. PacketOf(SubSeq(e, 1, 4), q) = p
  BY PacketIs
<1>4. Decode(e) = PacketOf(SubSeq(e, 1, 4), SubSeq(e, 5, n))
  BY DEF Decode
<1> HIDE DEF e, q
<1>5. t = q
  <2>1. \A i \in 5 .. n : e[i] \in Nat
    <3>1. \A i \in 5 .. n : i \in 1 .. Len(e)
      BY <1>1, <1>2
    <3> QED
      BY <1>1, <3>1, ElementOfSeq
  <2>2. 5 \in Int /\ n \in Int
    BY <1>1, <1>2
  <2> HIDE DEF n
  <2>3. /\ SubSeq(e, 5, n) \in Seq(Nat)
        /\ Len(SubSeq(e, 5, n)) = IF 5 \leq n THEN n - 5 + 1 ELSE 0
        /\ \A i \in 1 .. n - 5 + 1 : SubSeq(e, 5, n)[i] = e[5 + i - 1]
    BY <2>1, <2>2, SubSeqProperties
  <2> HIDE DEF t
  <2>4. t \in Seq(Nat) /\ Len(t) = Len(q)
    BY <1>1, <1>2, <2>3 DEF t
  <2>5. ASSUME NEW i \in 1 .. Len(q)
        PROVE  t[i] = q[i]
    <3>1. i \in 1 .. n - 5 + 1 /\ 5 + i - 1 = 4 + i
      BY <1>1, <1>2
    <3>2. t[i] = e[4 + i]
      BY <2>3, <3>1 DEF t
    <3> QED
      BY <1>1, <3>2
  <2> QED
    BY <1>2, <2>4, <2>5, SeqEqual
<1> QED
  BY <1>3, <1>4, <1>5 DEF e, t

(* What is in a test packet. *)
LEMMA TestPacketHas ==
  ASSUME size \in Nat, NEW n \in Nat, NEW p, p = TestPacket(n)
  PROVE  /\ p \in Packets /\ p.seq = n % SeqWord /\ p.seq \in 0 .. SeqWord - 1
         /\ p.kind = KindOfNumber(p.seq) /\ p.payload = Filler(p.seq, size)
         /\ Len(p.payload) = size
<1>1. p \in Packets
  BY TestPacketIs
<1>2. n % SeqWord \in 0 .. SeqWord - 1
  BY WireAssumption, Remainder
<1>3. /\ p.seq = n % SeqWord /\ p.kind = KindOfNumber(n % SeqWord)
      /\ p.payload = Filler(n % SeqWord, size)
  BY DEF TestPacket
<1>4. Len(Filler(n % SeqWord, size)) = size
  BY DEF Filler
<1> QED
  BY <1>1, <1>2, <1>3, <1>4

(* Its content is what the verifier expects of its number. *)
LEMMA NoContentErrors ==
  ASSUME size \in Nat, NEW n \in Nat, NEW p, p = TestPacket(n)
  PROVE  ContentErrors(p) = 0
<1> DEFINE wrong == {e \in {"kind", "payload"} :
                       CASE e = "kind"    -> p.kind # KindOfNumber(p.seq)
                         [] e = "payload" -> p.payload # Filler(p.seq, size)}
<1>1. p.kind = KindOfNumber(p.seq) /\ p.payload = Filler(p.seq, size)
  BY TestPacketHas
<1>2. wrong = {}
  <2> SUFFICES ASSUME NEW e \in {"kind", "payload"},
                      CASE e = "kind"    -> p.kind # KindOfNumber(p.seq)
                        [] e = "payload" -> p.payload # Filler(p.seq, size)
               PROVE  FALSE
    OBVIOUS
  <2> QED
    BY <1>1
<1>3. ContentErrors(p) = Cardinality(wrong)
  BY DEF ContentErrors
<1> HIDE DEF wrong
<1> QED
  BY <1>2, <1>3, FS_EmptySet

(* A packet that is not the expected one is counted as an event. *)
LEMMA CheckedIs ==
  ASSUME size \in Nat, verifier \in [Counters -> Nat], tracker \in Trackers,
         NEW n \in Nat, NEW p, p = TestPacket(n)
  PROVE  LET v == Checked(p)
         IN  /\ v \in [Counters -> Nat]
             /\ v["received"] = verifier["received"] + 1
             /\ v["content_errors"] = verifier["content_errors"]
             /\ (v["lost"] = 0 /\ v["duplicate"] = 0 /\ v["out_of_order"] = 0)
                  <=> (Quiet /\ p.seq = tracker.expected)
<1> DEFINE event == Classify(tracker, p.seq)
           m == Missing(tracker, p.seq)
           v == Checked(p)
<1>1. p.seq \in 0 .. SeqWord - 1
  BY TestPacketHas
<1>2. tracker.expected \in 0 .. SeqWord - 1
  BY DEF Trackers, Numbers
<1>3. m \in Nat /\ (p.seq # tracker.expected => m > 0)
  BY <1>1, <1>2, DistanceIs DEF Missing
<1>4. /\ event \in {"in-order", "duplicate", "gap", "reorder"}
      /\ event = "in-order" <=> p.seq = tracker.expected
  BY DEF Classify
<1>5. ContentErrors(p) = 0
  BY NoContentErrors
<1>6. v = [verifier EXCEPT
             !["received"] = @ + 1,
             !["lost"] = @ + (IF event = "gap" THEN m ELSE 0),
             !["duplicate"] = @ + (IF event = "duplicate" THEN 1 ELSE 0),
             !["out_of_order"] = @ + (IF event = "reorder" THEN 1 ELSE 0),
             !["content_errors"] = @ + 0]
  BY <1>5 DEF Checked
<1> HIDE DEF event, m, v
<1>7. /\ v \in [Counters -> Nat]
      /\ v["received"] = verifier["received"] + 1
      /\ v["content_errors"] = verifier["content_errors"]
      /\ v["lost"] = verifier["lost"] + (IF event = "gap" THEN m ELSE 0)
      /\ v["duplicate"] = verifier["duplicate"] + (IF event = "duplicate" THEN 1 ELSE 0)
      /\ v["out_of_order"] = verifier["out_of_order"] + (IF event = "reorder" THEN 1 ELSE 0)
  BY <1>3, <1>6 DEF Counters
<1>8. verifier["lost"] \in Nat /\ verifier["duplicate"] \in Nat /\ verifier["out_of_order"] \in Nat
  BY DEF Counters
<1>9. (v["lost"] = 0 /\ v["duplicate"] = 0 /\ v["out_of_order"] = 0)
        <=> (Quiet /\ p.seq = tracker.expected)
  BY <1>3, <1>4, <1>7, <1>8 DEF Quiet
<1> QED
  BY <1>7, <1>9 DEF v

(* What the tool counts when it is given a test packet. *)
LEMMA HandleCounts ==
  ASSUME size \in Nat, CountInv, arrived \in Seq(Packets),
         NEW n \in Nat, NEW p, p = TestPacket(n), Handle(p), mode' = mode
  PROVE  /\ arrived' \in Seq(Packets) /\ Len(arrived') = Len(arrived) + 1
         /\ \A i \in 1 .. Len(arrived) : arrived'[i] = arrived[i]
         /\ arrived'[Len(arrived) + 1] = p
         /\ CountInv'
<1> DEFINE l == Len(arrived)
<1>1. /\ p \in Packets /\ p.seq \in 0 .. SeqWord - 1
      /\ SeqWord \in Nat /\ SeqWord > 1 /\ l \in Nat
  <2>1. p \in Packets /\ p.seq \in 0 .. SeqWord - 1
    BY TestPacketHas
  <2>2. l \in Nat
    OBVIOUS
  <2> QED
    BY <2>1, <2>2, WireAssumption
<1>2. arrived' = Append(arrived, p)
  BY DEF Handle
<1>3. /\ arrived' \in Seq(Packets) /\ Len(arrived') = l + 1
      /\ \A i \in 1 .. l : arrived'[i] = arrived[i]
      /\ arrived'[l + 1] = p
  BY <1>1, <1>2, AppendProperties
<1>4. /\ verifier \in [Counters -> Nat] /\ tracker \in Trackers
      /\ delays \in [fast : Nat, slow : Nat]
  BY DEF CountInv
<1>5. ASSUME Check(p)
      PROVE  CountInv'
  <2>1. /\ mode = "recv" /\ verifier' = Checked(p) /\ tracker' = Follow(p.seq)
        /\ delays' = delays
    BY <1>5 DEF Check
  <2>2. /\ verifier' \in [Counters -> Nat]
        /\ verifier'["received"] = verifier["received"] + 1
        /\ verifier'["content_errors"] = verifier["content_errors"]
        /\ Quiet' <=> (Quiet /\ p.seq = tracker.expected)
    BY <1>4, <2>1, CheckedIs DEF Quiet
  <2>3. tracker' \in Trackers /\ tracker'.expected = (p.seq + 1) % SeqWord
    <3>1. p.seq + 1 \in Nat
      BY <1>1
    <3>2. (p.seq + 1) % SeqWord \in 0 .. SeqWord - 1
      BY <1>1, <3>1, Remainder
    <3> QED
      BY <1>1, <2>1, <3>2 DEF Follow, Trackers, Numbers
  <2>4. /\ verifier["received"] = l /\ verifier["content_errors"] = 0
        /\ Quiet <=> InSequence
        /\ InSequence => tracker.expected = l % SeqWord
    BY <2>1 DEF CountInv
  <2>5. InSequence' <=> (InSequence /\ p.seq = l % SeqWord)
    <3>1. InSequence' <=> \A i \in 1 .. l + 1 : arrived'[i].seq = (i - 1) % SeqWord
      BY <1>3 DEF InSequence
    <3>2. (l + 1) - 1 = l
      BY <1>1
    <3>3. \A i \in 1 .. l + 1 : i \in 1 .. l \/ i = l + 1
      BY <1>1
    <3>4. l + 1 \in 1 .. l + 1 /\ \A i \in 1 .. l : i \in 1 .. l + 1
      BY <1>1
    <3> HIDE DEF l
    <3>5. (\A i \in 1 .. l + 1 : arrived'[i].seq = (i - 1) % SeqWord)
            <=> /\ \A i \in 1 .. l : arrived[i].seq = (i - 1) % SeqWord
                /\ p.seq = l % SeqWord
      BY <1>3, <3>2, <3>3, <3>4
    <3> QED
      BY <3>1, <3>5 DEF InSequence, l
  <2>6. Quiet' <=> InSequence'
    BY <2>2, <2>4, <2>5
  <2>7. InSequence' => tracker'.expected = (l + 1) % SeqWord
    <3>1. ((l % SeqWord) + 1) % SeqWord = (l + 1) % SeqWord
      BY <1>1, NextWrapped
    <3> QED
      BY <2>3, <2>5, <3>1
  <2>8. verifier'["received"] = Len(arrived')
    BY <1>3, <2>2, <2>4
  <2> HIDE DEF l
  <2> QED
    BY <1>3, <1>4, <2>1, <2>2, <2>3, <2>4, <2>6, <2>7, <2>8 DEF CountInv
<1>6. ASSUME BenchCheck(p)
      PROVE  CountInv'
  <2>1. /\ mode = "bench" /\ UNCHANGED <<verifier, tracker>>
        /\ \E d \in {"fast", "slow"} : delays' = [delays EXCEPT ![d] = @ + 1]
    BY <1>6 DEF BenchCheck
  <2>2. delays.fast \in Nat /\ delays.slow \in Nat /\ delays.fast + delays.slow = l
    BY <1>4, <2>1 DEF CountInv
  <2>3. delays' \in [fast : Nat, slow : Nat] /\ delays'.fast + delays'.slow = l + 1
    <3>1. CASE delays' = [delays EXCEPT !["fast"] = @ + 1]
      BY <1>4, <2>2, <3>1
    <3>2. CASE delays' = [delays EXCEPT !["slow"] = @ + 1]
      BY <1>4, <2>2, <3>2
    <3> QED
      BY <2>1, <3>1, <3>2
  <2> HIDE DEF l
  <2> QED
    BY <1>3, <1>4, <2>1, <2>3 DEF CountInv
<1> QED
  BY <1>3, <1>5, <1>6 DEF Handle

-----------------------------------------------------------------------------
(* The receiver.                                                            *)

(* An honest writer was honest all along. *)
LEMMA PlainBefore ==
  ASSUME sent \in Seq(Packets), size \in Nat, next \in Nat, [Next]_vars, Plain'
  PROVE  Plain
<1>1. ASSUME UNCHANGED <<sent, noise>>
      PROVE  Plain
  BY <1>1 DEF Plain
<1>2. ASSUME SendUdp \/ SendTcp
      PROVE  Plain
  <2>1. PICK p \in Packets : p = TestPacket(next)
    BY TestPacketIs
  <2>2. sent' = Append(sent, p) /\ noise' = noise
    BY <1>2, <2>1 DEF SendUdp, SendDatagram, SendTcp, WritePacket
  <2>3. /\ Len(sent) \in Nat /\ Len(sent') = Len(sent) + 1
        /\ \A i \in 1 .. Len(sent) : sent'[i] = sent[i]
    BY <2>2, AppendProperties
  <2>4. \A i \in 1 .. Len(sent) : i \in 1 .. Len(sent')
    BY <2>3
  <2> QED
    BY <2>2, <2>3, <2>4 DEF Plain
<1>3. ASSUME WriteGarbage
      PROVE  Plain
  <2>1. noise = << >> /\ sent' = sent
    BY <1>3 DEF WriteGarbage, WriteNoise
  <2> QED
    BY <2>1 DEF Plain
<1>4. ASSUME SenderShutdown \/ RecvUdp \/ Overflow \/ RecvStray \/ RecvTcpStep \/ RecvTcp
               \/ GiveUp \/ Network
      PROVE  Plain
  <2>1. CASE SenderShutdown
    BY <1>1, <2>1 DEF SenderShutdown, Shutdown
  <2>2. CASE RecvUdp \/ Overflow \/ RecvStray \/ RecvTcp \/ GiveUp \/ Network
    BY <1>1, <2>2 DEF RecvUdp, Overflow, RecvStray, RecvTcp, GiveUp, Network,
                      framingVars, writerVars
  <2>3. CASE RecvTcpStep
    BY <1>1, <2>3 DEF RecvTcpStep, FramerStep, FramerReads, TakeHeader, TakePayload,
                      FindMagic, DiscardAll, ReadEnd, Read, writerVars
  <2> QED
    BY <1>4, <2>1, <2>2, <2>3
<1>5. ASSUME UNCHANGED vars
      PROVE  Plain
  BY <1>1, <1>5 DEF vars, framingVars, writerVars
<1> QED
  BY <1>2, <1>3, <1>4, <1>5 DEF Next

(* What is on the wire to the receiver stays there. *)
LEMMA OutGrows ==
  ASSUME ProxyInv, [Next]_vars
  PROVE  \A i \in 1 .. Len(out) : i \in 1 .. Len(out') /\ out'[i] = out[i]
<1> USE DEF proxyVars, forwarderVars
<1>1. ProxyTyped /\ QueueInOrder /\ out \in Seq(Departures) /\ Len(out) \in Nat
  BY DEF ProxyInv, ProxyTyped
<1>2. ASSUME out' = out
      PROVE  \A i \in 1 .. Len(out) : i \in 1 .. Len(out') /\ out'[i] = out[i]
  BY <1>2
<1>3. ASSUME Receive
      PROVE  \A i \in 1 .. Len(out) : i \in 1 .. Len(out') /\ out'[i] = out[i]
  <2>1. PICK decision \in Decisions, delay \in Delays :
          Forward(Head(channel), decision, delay)
    BY <1>3 DEF Receive
  <2> DEFINE y == SendsNow(Head(channel))
             S == Departures \cup {y}
  <2>2. out' = Append(out, y) \/ out' = out
    BY <2>1 DEF Forward
  <2>3. CASE out' = Append(out, y)
    <3>1. out \in Seq(S) /\ y \in S
      BY <1>1
    <3> HIDE DEF y, S
    <3>2. /\ Len(out') = Len(out) + 1
          /\ \A i \in 1 .. Len(out) : out'[i] = out[i]
      BY <2>3, <3>1, AppendProperties
    <3> QED
      BY <1>1, <3>2
  <2> QED
    BY <1>2, <2>2, <2>3
<1>4. ASSUME Wakes \/ Exits
      PROVE  \A i \in 1 .. Len(out) : i \in 1 .. Len(out') /\ out'[i] = out[i]
  <2>1. Release(Expired)
    BY <1>4 DEF Wakes, Exits
  <2> QED
    BY <1>1, <2>1, ReleasedAre
<1>5. ASSUME SendFails
      PROVE  \A i \in 1 .. Len(out) : i \in 1 .. Len(out') /\ out'[i] = out[i]
  BY <1>1, <1>2, <1>5, ReleasedAre, SendFailsIs
<1>6. ASSUME ReaderStep \/ TimePasses \/ Signal
      PROVE  out' = out
  BY <1>6 DEF ReaderStep, TimePasses, Signal
<1>7. ASSUME SendUdp \/ SendTcp \/ WriteGarbage \/ SenderShutdown \/ RecvUdp \/ Overflow
               \/ RecvStray \/ RecvTcpStep \/ RecvTcp \/ GiveUp
      PROVE  out' = out
  BY <1>7 DEF SendUdp, SendTcp, WriteGarbage, SenderShutdown, RecvUdp, Overflow,
              RecvStray, RecvTcpStep, RecvTcp, GiveUp
<1> QED
  BY <1>2, <1>3, <1>4, <1>5, <1>6, <1>7 DEF Next, Network, ProxyStep, vars

(* A step that the receiver has no part in. *)
LEMMA ReceiptRests ==
  ASSUME ArrivedInv, CountInv, Len(out) \in Nat, Len(out') \in Nat,
         UNCHANGED <<mode, transport, size, hop, verifier, tracker, delays, arrived, got>>,
         \A i \in 1 .. Len(out) : i \in 1 .. Len(out') /\ out'[i] = out[i]
  PROVE  ArrivedInv' /\ CountInv'
<1>1. CountInv'
  BY DEF CountInv, Quiet, InSequence
<1>2. hop' \in 0 .. Len(out') /\ hop \in Nat /\ hop \leq Len(out)
  BY DEF ArrivedInv
<1>3. ASSUME transport = "udp"
      PROVE  \E place \in [1 .. Len(arrived') -> 1 .. hop'] :
               /\ \A i, j \in 1 .. Len(arrived') : i \leq j => place[i] + (j - i) \leq place[j]
               /\ \A i \in 1 .. Len(arrived') :
                    arrived'[i] = TestPacket(out[place[i]].item.n)'
  <2>1. PICK place \in [1 .. Len(arrived) -> 1 .. hop] :
          /\ \A i, j \in 1 .. Len(arrived) : i \leq j => place[i] + (j - i) \leq place[j]
          /\ \A i \in 1 .. Len(arrived) : arrived[i] = TestPacket(out[place[i]].item.n)
    BY <1>3 DEF ArrivedInv
  <2>2. \A i \in 1 .. Len(arrived) : place[i] \in 1 .. Len(out)
    BY <1>2
  <2>3. \A i \in 1 .. Len(arrived) : arrived'[i] = TestPacket(out[place[i]].item.n)'
    BY <2>1, <2>2 DEF TestPacket
  <2> QED
    BY <2>1, <2>3
<1>4. ASSUME transport = "tcp"
      PROVE  /\ Len(arrived') \leq Len(got') /\ Len(got') \leq Len(arrived') + 1
             /\ \A i \in 1 .. Len(arrived') : arrived'[i] = got'[i]
  BY <1>4 DEF ArrivedInv
<1>5. arrived' \in Seq(Packets)
  BY DEF ArrivedInv
<1> QED
  BY <1>1, <1>2, <1>3, <1>4, <1>5 DEF ArrivedInv

(* A datagram arrives: the packet it was sent with, from behind all that
   arrived before. *)
LEMMA DatagramArrives ==
  ASSUME ProxyInv, PathInv, Plain, ArrivedInv, CountInv, transport \in {"udp", "tcp"},
         RecvUdp
  PROVE  ArrivedInv' /\ CountInv'
<1>1. /\ ProxyTyped /\ size \in Nat /\ SentInv /\ AllGenuine /\ WireInv /\ NoWire
  BY DEF ProxyInv, ProxyTyped, PathInv
<1>2. /\ hop < Len(out) /\ hop' = hop + 1
      /\ UNCHANGED <<mode, transport, size, out>>
  BY DEF RecvUdp, argVars, proxyVars, forwarderVars
<1>3. /\ Len(out) \in Nat /\ \A i \in 1 .. Len(out) : out[i].item.n \in Nat
  BY <1>1, MembersAre
<1>4. hop \in Nat /\ arrived \in Seq(Packets) /\ Len(arrived) \in Nat
  BY <1>3 DEF ArrivedInv
<1>5. hop + 1 \in 1 .. Len(out)
  BY <1>2, <1>3, <1>4
<1>6. transport = "udp"
  <2> SUFFICES ASSUME transport = "tcp" PROVE FALSE
    OBVIOUS
  <2>1. Len(out) = 0
    BY <1>1 DEF NoWire
  <2> QED
    BY <1>3, <1>5, <2>1
<1>7. PICK item : item = out[hop + 1].item
  OBVIOUS
<1>8. /\ item.n \in Nat /\ item.n < next /\ item.cells = Encode(TestPacket(item.n))
  BY <1>1, <1>3, <1>5, <1>7 DEF AllGenuine, Genuine
<1>9. PICK n \in Nat : n = item.n
  BY <1>8
<1>10. PICK p : p = TestPacket(n)
  OBVIOUS
<1>11. p \in Packets /\ Len(p.payload) < LenWord
  <2>1. p \in Packets
    BY <1>1, <1>10, TestPacketHas
  <2>2. next \in Nat /\ Len(sent) = next /\ \A i \in 1 .. Len(sent) : sent[i] = TestPacket(i - 1)
    BY <1>1 DEF SentInv
  <2>3. n + 1 \in 1 .. Len(sent) /\ (n + 1) - 1 = n
    BY <1>8, <1>9, <2>2
  <2>4. sent[n + 1] = p
    BY <1>10, <2>2, <2>3
  <2> QED
    BY <2>1, <2>3, <2>4 DEF Plain
<1>12. Decode(out[hop + 1].item.cells) = p
  BY <1>7, <1>8, <1>9, <1>10, <1>11, DecodeIs
<1>13. Handle(p)
  BY <1>12 DEF RecvUdp
<1>14. /\ arrived' \in Seq(Packets) /\ Len(arrived') = Len(arrived) + 1
       /\ \A i \in 1 .. Len(arrived) : arrived'[i] = arrived[i]
       /\ arrived'[Len(arrived) + 1] = p
       /\ CountInv'
  BY <1>1, <1>2, <1>4, <1>10, <1>13, HandleCounts
<1>15. PICK place \in [1 .. Len(arrived) -> 1 .. hop] :
         /\ \A i, j \in 1 .. Len(arrived) : i \leq j => place[i] + (j - i) \leq place[j]
         /\ \A i \in 1 .. Len(arrived) : arrived[i] = TestPacket(out[place[i]].item.n)
  BY <1>6 DEF ArrivedInv
<1> DEFINE l == Len(arrived)
<1>16. /\ l \in Nat /\ l + 1 \in 1 .. l + 1 /\ l + 1 \notin 1 .. l
       /\ \A i \in 1 .. l + 1 : i \in 1 .. l \/ i = l + 1
       /\ \A i \in 1 .. l : i \in 1 .. l + 1 /\ place[i] \in 1 .. hop
  BY <1>4
<1>17. PICK more \in [1 .. l + 1 -> 1 .. hop + 1] :
         /\ \A i \in 1 .. l : more[i] = place[i]
         /\ more[l + 1] = hop + 1
  <2> DEFINE f == [i \in 1 .. l + 1 |-> IF i \in 1 .. l THEN place[i] ELSE hop + 1]
  <2>1. f \in [1 .. l + 1 -> 1 .. hop + 1]
    BY <1>4, <1>16
  <2>2. (\A i \in 1 .. l : f[i] = place[i]) /\ f[l + 1] = hop + 1
    BY <1>16
  <2> QED
    BY <2>1, <2>2
<1>18. ASSUME NEW i \in 1 .. l + 1, NEW j \in 1 .. l + 1, i \leq j
       PROVE  more[i] + (j - i) \leq more[j]
  <2>1. CASE j \in 1 .. l
    <3>1. i \in 1 .. l
      BY <1>16, <1>18, <2>1
    <3> QED
      BY <1>15, <1>17, <1>18, <2>1, <3>1
  <2>2. CASE j = l + 1 /\ i = j
    BY <1>4, <1>17, <2>2
  <2>3. CASE j = l + 1 /\ i \in 1 .. l
    <3> HIDE DEF l
    <3>1. l \in 1 .. l /\ i \leq l
      BY <1>16, <2>3
    <3>2. place[i] + (l - i) \leq place[l]
      BY <1>15, <2>3, <3>1 DEF l
    <3>3. place[i] \in 1 .. hop /\ place[l] \in 1 .. hop
      BY <1>16, <2>3, <3>1
    <3>4. place[i] + (j - i) \leq hop + 1
      <4> DEFINE a == place[i]
                 b == place[l]
      <4>1. /\ l \in Nat /\ i \in Nat /\ j = l + 1 /\ hop \in Nat
        BY <1>4, <1>16, <2>3
      <4>2. a \in 1 .. hop /\ b \in 1 .. hop /\ a + (l - i) \leq b
        BY <3>2, <3>3
      <4> HIDE DEF a, b
      <4>3. a + (j - i) \leq hop + 1
        BY <4>1, <4>2
      <4> QED
        BY <4>3 DEF a
    <3> QED
      BY <1>17, <2>3, <3>4
  <2> QED
    BY <1>16, <2>1, <2>2, <2>3
<1>19. ASSUME NEW i \in 1 .. l + 1
       PROVE  arrived'[i] = TestPacket(out[more[i]].item.n)'
  <2>1. PICK m : m = out[more[i]].item.n
    OBVIOUS
  <2>2. arrived'[i] = TestPacket(m)
    <3>1. CASE i \in 1 .. l
      BY <1>14, <1>15, <1>17, <2>1, <3>1
    <3>2. CASE i = l + 1
      BY <1>7, <1>9, <1>10, <1>14, <1>17, <2>1, <3>2
    <3> QED
      BY <1>16, <3>1, <3>2
  <2>3. arrived'[i] = TestPacket(m)'
    BY <1>2, <2>2 DEF TestPacket
  <2>4. m = out'[more[i]].item.n
    BY <1>2, <2>1
  <2> QED
    BY <2>3, <2>4 DEF TestPacket
<1>20. hop' \in 0 .. Len(out')
  BY <1>2, <1>3, <1>4
<1> HIDE DEF l
<1>21. Len(arrived') = l + 1
  BY <1>14 DEF l
<1>22. transport' = "udp" /\ arrived' \in Seq(Packets) /\ CountInv'
  BY <1>2, <1>6, <1>14
<1>23. /\ more \in [1 .. Len(arrived') -> 1 .. hop']
       /\ \A i, j \in 1 .. Len(arrived') : i \leq j => more[i] + (j - i) \leq more[j]
       /\ \A i \in 1 .. Len(arrived') : arrived'[i] = TestPacket(out[more[i]].item.n)'
  BY <1>2, <1>17, <1>18, <1>19, <1>21
<1> QED
  BY <1>20, <1>22, <1>23 DEF ArrivedInv

(* The kernel drops one. *)
LEMMA OverflowKeeps ==
  ASSUME ProxyInv, ArrivedInv, CountInv, Overflow
  PROVE  ArrivedInv' /\ CountInv'
<1>1. /\ hop < Len(out) /\ hop' = hop + 1
      /\ UNCHANGED <<mode, transport, size, verifier, tracker, delays, arrived, got, out>>
  BY DEF Overflow, argVars, verdictVars, framingVars, framerVars, proxyVars, forwarderVars
<1>2. Len(out) \in Nat
  BY MembersAre DEF ProxyInv
<1>3. hop \in Nat /\ hop' \in 0 .. Len(out')
  BY <1>1, <1>2 DEF ArrivedInv
<1>4. CountInv'
  BY <1>1 DEF CountInv, Quiet, InSequence
<1>5. ASSUME transport = "udp"
      PROVE  \E place \in [1 .. Len(arrived) -> 1 .. hop'] :
               /\ \A i, j \in 1 .. Len(arrived) : i \leq j => place[i] + (j - i) \leq place[j]
               /\ \A i \in 1 .. Len(arrived) :
                    arrived[i] = TestPacket(out[place[i]].item.n)'
  <2>1. PICK place \in [1 .. Len(arrived) -> 1 .. hop] :
          /\ \A i, j \in 1 .. Len(arrived) : i \leq j => place[i] + (j - i) \leq place[j]
          /\ \A i \in 1 .. Len(arrived) : arrived[i] = TestPacket(out[place[i]].item.n)
    BY <1>5 DEF ArrivedInv
  <2>2. 1 .. hop \subseteq 1 .. hop'
    BY <1>1, <1>3
  <2>3. place \in [1 .. Len(arrived) -> 1 .. hop']
    BY <2>2
  <2>4. \A i \in 1 .. Len(arrived) : arrived[i] = TestPacket(out[place[i]].item.n)'
    BY <1>1, <2>1 DEF TestPacket
  <2> QED
    BY <2>1, <2>3, <2>4
<1> QED
  BY <1>1, <1>3, <1>4, <1>5 DEF ArrivedInv

(* A stray datagram is counted as malformed, and as nothing else. *)
LEMMA StrayKeeps ==
  ASSUME ProxyInv, ArrivedInv, CountInv, RecvStray
  PROVE  ArrivedInv' /\ CountInv'
<1>1. /\ verifier' = [verifier EXCEPT !["malformed"] = @ + 1]
      /\ UNCHANGED <<mode, transport, size, hop, tracker, delays, arrived, got, out>>
  BY DEF RecvStray, argVars, verdictVars, framingVars, framerVars, proxyVars, forwarderVars
<1>2. ArrivedInv'
  BY <1>1 DEF ArrivedInv, TestPacket
<1>3. /\ verifier' \in [Counters -> Nat]
      /\ \A c \in Counters \ {"malformed"} : verifier'[c] = verifier[c]
  BY <1>1 DEF CountInv, Counters
<1>4. /\ verifier'["received"] = verifier["received"]
      /\ verifier'["content_errors"] = verifier["content_errors"]
      /\ Quiet' = Quiet
  BY <1>3 DEF Counters, Quiet
<1>5. CountInv'
  BY <1>1, <1>3, <1>4 DEF CountInv, InSequence
<1> QED
  BY <1>2, <1>5

(* The framer's packet is the one that was sent, and the next to arrive. *)
LEMMA TcpArrives ==
  ASSUME ProxyInv, FramingInv, PathInv, Plain, ArrivedInv, CountInv, RecvTcp
  PROVE  ArrivedInv' /\ CountInv'
<1>1. /\ ProxyTyped /\ size \in Nat /\ SentInv
  BY DEF ProxyInv, ProxyTyped, PathInv
<1>2. /\ Len(got) > Len(arrived)
      /\ UNCHANGED <<mode, transport, size, hop, got, out>>
  BY DEF RecvTcp, argVars, framingVars, framerVars, proxyVars, forwarderVars
<1>3. arrived \in Seq(Packets) /\ Len(arrived) \in Nat /\ hop \in 0 .. Len(out)
  BY DEF ArrivedInv
<1>4. transport = "tcp"
  <2>1. transport \in {"udp", "tcp"} /\ (transport = "udp" => got = << >>)
    BY DEF FramingInv, HistoryTyped
  <2>2. ASSUME got = << >>
        PROVE  FALSE
    <3>1. Len(got) = 0
      BY <2>2
    <3> QED
      BY <1>2, <1>3, <3>1
  <2> QED
    BY <2>1, <2>2
<1>5. /\ got \in Seq(Packets) /\ Len(got) \leq Len(sent)
      /\ \A i \in 1 .. Len(got) : got[i] = sent[i]
  <2>1. Returned
    BY <1>4 DEF FramingInv, Cut
  <2> QED
    BY <2>1 DEF Returned
<1> DEFINE l == Len(arrived)
<1>6. /\ Len(got) = l + 1 /\ l \in Nat /\ l + 1 \in 1 .. Len(got) /\ (l + 1) - 1 = l
      /\ \A i \in 1 .. l : arrived[i] = got[i]
  <2>1. /\ Len(got) \leq l + 1
        /\ \A i \in 1 .. l : arrived[i] = got[i]
    BY <1>4 DEF ArrivedInv
  <2>2. Len(got) \in Nat
    BY <1>5
  <2> QED
    BY <1>2, <1>3, <2>1, <2>2
<1>7. l + 1 \in 1 .. Len(sent)
  <2>1. Len(sent) \in Nat
    BY <1>1 DEF SentInv
  <2> QED
    BY <1>5, <1>6, <2>1
<1>8. PICK n \in Nat : n = l
  BY <1>6
<1>9. PICK p : p = TestPacket(n)
  OBVIOUS
<1>10. got[l + 1] = p
  <2>1. sent[l + 1] = TestPacket((l + 1) - 1)
    BY <1>1, <1>7 DEF SentInv
  <2> QED
    BY <1>5, <1>6, <1>8, <1>9, <2>1
<1>11. Handle(p)
  BY <1>6, <1>10 DEF RecvTcp
<1>12. /\ arrived' \in Seq(Packets) /\ Len(arrived') = Len(arrived) + 1
       /\ \A i \in 1 .. Len(arrived) : arrived'[i] = arrived[i]
       /\ arrived'[Len(arrived) + 1] = p
       /\ CountInv'
  BY <1>1, <1>2, <1>3, <1>9, <1>11, HandleCounts
<1>13. \A i \in 1 .. l + 1 : arrived'[i] = got[i]
  <2>1. \A i \in 1 .. l + 1 : i \in 1 .. l \/ i = l + 1
    BY <1>6
  <2> QED
    BY <1>6, <1>10, <1>12, <2>1
<1> HIDE DEF l
<1>14. /\ Len(arrived') \leq Len(got') /\ Len(got') \leq Len(arrived') + 1
       /\ \A i \in 1 .. Len(arrived') : arrived'[i] = got'[i]
  BY <1>2, <1>6, <1>12, <1>13 DEF l
<1>15. hop' \in 0 .. Len(out') /\ transport' = "tcp" /\ arrived' \in Seq(Packets)
  BY <1>2, <1>3, <1>4, <1>12
<1> QED
  BY <1>12, <1>14, <1>15 DEF ArrivedInv

(* The framer makes at most one packet while none waits to be handled. *)
LEMMA FramerMakesOne ==
  ASSUME FramingInv, Plain, ArrivedInv, CountInv, RecvTcpStep
  PROVE  ArrivedInv' /\ CountInv'
<1>1. /\ transport = "tcp" /\ Len(got) = Len(arrived)
      /\ UNCHANGED <<mode, transport, size, hop, verifier, tracker, delays, arrived, out>>
  BY DEF RecvTcpStep, argVars, receiverVars, verdictVars, proxyVars, forwarderVars
<1>2. CountInv'
  BY <1>1 DEF CountInv, Quiet, InSequence
<1>3. got \in Seq(Packets)
  <2>1. Returned
    BY <1>1 DEF FramingInv, Cut
  <2> QED
    BY <2>1 DEF Returned
<1>4. got' = got \/ \E x : got' = Append(got, x)
  BY DEF RecvTcpStep, FramerStep, FramerReads, TakeHeader, TakePayload, FindMagic, DiscardAll,
         ReadEnd, Read
<1>5. /\ Len(got) \leq Len(got') /\ Len(got') \leq Len(got) + 1
      /\ \A i \in 1 .. Len(got) : got'[i] = got[i]
  <2>1. CASE got' = got
    BY <1>3, <2>1
  <2>2. ASSUME NEW x, got' = Append(got, x)
        PROVE  /\ Len(got) \leq Len(got') /\ Len(got') \leq Len(got) + 1
               /\ \A i \in 1 .. Len(got) : got'[i] = got[i]
    <3> DEFINE S == Packets \cup {x}
    <3>1. got \in Seq(S) /\ x \in S
      BY <1>3
    <3> HIDE DEF S
    <3>2. /\ Len(got') = Len(got) + 1 /\ Len(got) \in Nat
          /\ \A i \in 1 .. Len(got) : got'[i] = got[i]
      BY <2>2, <3>1, AppendProperties
    <3> QED
      BY <3>2
  <2> QED
    BY <1>4, <2>1, <2>2
<1>6. /\ arrived \in Seq(Packets) /\ hop \in 0 .. Len(out)
      /\ \A i \in 1 .. Len(arrived) : arrived[i] = got[i]
  BY <1>1 DEF ArrivedInv
<1>7. /\ Len(arrived') \leq Len(got') /\ Len(got') \leq Len(arrived') + 1
      /\ \A i \in 1 .. Len(arrived') : arrived'[i] = got'[i]
  BY <1>1, <1>5, <1>6
<1>8. hop' \in 0 .. Len(out') /\ arrived' \in Seq(Packets) /\ transport' = "tcp"
  BY <1>1, <1>6
<1> QED
  BY <1>2, <1>7, <1>8 DEF ArrivedInv

(* Every step of the tool keeps what it counts to what arrived. *)
LEMMA ReceiptGoesOn ==
  ASSUME ProxyInv, ProxyInv', FramingInv, PathInv, ReceiptInv, [Next]_vars
  PROVE  ReceiptInv'
<1>1. ProxyTyped /\ next \in Nat /\ size \in Nat /\ sent \in Seq(Packets)
  BY MembersAre DEF ProxyInv, PathInv, SentInv
<1>2. transport \in {"udp", "tcp"}
  BY DEF FramingInv, HistoryTyped
<1>3. Len(out) \in Nat
  BY <1>1, MembersAre
<1>4. Len(out') \in Nat
  BY DEF ProxyInv, ProxyTyped
<1>5. SUFFICES ASSUME Plain'
               PROVE  ArrivedInv' /\ CountInv'
  BY DEF ReceiptInv
<1>6. Plain /\ ArrivedInv /\ CountInv
  BY <1>1, <1>5, PlainBefore DEF ReceiptInv
<1>7. ASSUME UNCHANGED <<mode, transport, size, hop, verifier, tracker, delays, arrived, got>>
      PROVE  ArrivedInv' /\ CountInv'
  BY <1>3, <1>4, <1>6, <1>7, OutGrows, ReceiptRests
<1>8. ASSUME SendUdp \/ SendTcp \/ WriteGarbage \/ SenderShutdown \/ GiveUp \/ Network
      PROVE  ArrivedInv' /\ CountInv'
  BY <1>7, <1>8 DEF SendUdp, SendTcp, WriteGarbage, SenderShutdown, GiveUp, Network,
                    WritePacket, WriteNoise, Shutdown, argVars, receiverVars, verdictVars,
                    framingVars, framerVars
<1>9. ASSUME UNCHANGED vars
      PROVE  ArrivedInv' /\ CountInv'
  BY <1>7, <1>9 DEF vars, argVars, receiverVars, verdictVars, framingVars, framerVars
<1>10. ASSUME RecvUdp
       PROVE  ArrivedInv' /\ CountInv'
  BY <1>2, <1>6, <1>10, DatagramArrives
<1>11. ASSUME Overflow \/ RecvStray
       PROVE  ArrivedInv' /\ CountInv'
  BY <1>6, <1>11, OverflowKeeps, StrayKeeps
<1>12. ASSUME RecvTcpStep \/ RecvTcp
       PROVE  ArrivedInv' /\ CountInv'
  BY <1>6, <1>12, FramerMakesOne, TcpArrives
<1> QED
  BY <1>8, <1>9, <1>10, <1>11, <1>12 DEF Next

(* Nothing has arrived in the initial states. *)
LEMMA ReceiptStarts ==
  ASSUME Init
  PROVE  ReceiptInv
<1>1. /\ arrived = << >> /\ hop = 0 /\ out = << >> /\ got = << >>
      /\ verifier = [c \in Counters |-> 0] /\ tracker = NewTracker
      /\ delays = [fast |-> 0, slow |-> 0]
  BY DEF Init, FramingInit, ProxyInit
<1>2. SeqWord \in Nat /\ SeqWord > 1
  BY WireAssumption
<1>3. tracker \in Trackers /\ tracker.expected = 0 /\ 0 % SeqWord = 0
  <2>1. 0 % SeqWord = 0
    BY <1>2, SmallRemainder
  <2> QED
    BY <1>1, <1>2, <2>1 DEF NewTracker, Trackers, Numbers, NoNumber
<1>4. /\ verifier \in [Counters -> Nat] /\ \A c \in Counters : verifier[c] = 0
      /\ delays \in [fast : Nat, slow : Nat] /\ delays.fast + delays.slow = 0
  BY <1>1
<1>5. Len(arrived) = 0 /\ Len(got) = 0 /\ Len(out) = 0 /\ arrived \in Seq(Packets)
  BY <1>1
<1>6. Quiet /\ InSequence /\ verifier["received"] = 0 /\ verifier["content_errors"] = 0
  BY <1>4, <1>5 DEF Quiet, InSequence, Counters
<1>7. CountInv
  BY <1>3, <1>4, <1>5, <1>6 DEF CountInv
<1>8. \E place \in [1 .. 0 -> 1 .. 0] :
        /\ \A i, j \in 1 .. 0 : i \leq j => place[i] + (j - i) \leq place[j]
        /\ \A i \in 1 .. 0 : arrived[i] = TestPacket(out[place[i]].item.n)
  <2> DEFINE f == [i \in 1 .. 0 |-> i]
  <2>1. f \in [1 .. 0 -> 1 .. 0]
    OBVIOUS
  <2>2. \A i \in 1 .. 0 : FALSE
    OBVIOUS
  <2> HIDE DEF f
  <2> QED
    BY <2>1, <2>2
<1>9. hop \in 0 .. Len(out)
  BY <1>1, <1>5
<1>10. \E place \in [1 .. Len(arrived) -> 1 .. hop] :
         /\ \A i, j \in 1 .. Len(arrived) : i \leq j => place[i] + (j - i) \leq place[j]
         /\ \A i \in 1 .. Len(arrived) : arrived[i] = TestPacket(out[place[i]].item.n)
  <2>1. Len(arrived) = 0 /\ hop = 0
    BY <1>1, <1>5
  <2> QED
    BY <1>8, <2>1
<1>11. /\ Len(arrived) \leq Len(got) /\ Len(got) \leq Len(arrived) + 1
       /\ \A i \in 1 .. Len(arrived) : arrived[i] = got[i]
  <2>1. \A i \in 1 .. 0 : FALSE
    OBVIOUS
  <2> QED
    BY <1>5, <2>1
<1>12. ArrivedInv
  BY <1>5, <1>9, <1>10, <1>11 DEF ArrivedInv
<1> QED
  BY <1>7, <1>12 DEF ReceiptInv

-----------------------------------------------------------------------------
(* The verdict.                                                             *)

(* As many packets as were to be sent, with the numbers in sequence, are all
   the packets, each once.  Off a wire without jitter the count alone says
   it; with jitter the numbers must not have wrapped. *)
LEMMA NothingIsMissing ==
  ASSUME ProxyInv, FramingInv, PathInv, Plain, ArrivedInv, InSequence, Len(arrived) = count
  PROVE  arrived = sent /\ next = count
<1> DEFINE l == Len(arrived)
<1>1. /\ ProxyTyped /\ size \in Nat /\ SentInv /\ AllGenuine /\ WireInv
      /\ transport \in {"udp", "tcp"}
  BY DEF ProxyInv, ProxyTyped, PathInv, FramingInv, HistoryTyped
<1>2. /\ count \in Nat /\ next \in Nat /\ next \leq count
      /\ sent \in Seq(Packets) /\ Len(sent) = next
      /\ \A i \in 1 .. Len(sent) : sent[i] = TestPacket(i - 1)
  BY <1>1 DEF SentInv
<1>3. arrived \in Seq(Packets) /\ hop \in 0 .. Len(out) /\ l \in Nat /\ l = count
  BY DEF ArrivedInv
<1>4. \A i \in 1 .. l : i \in Nat /\ i - 1 \in Nat /\ i - 1 < l /\ l \in 1 .. l /\ 1 \in 1 .. l
  BY <1>3
<1>5. CASE transport = "udp"
  <2>1. PICK place \in [1 .. l -> 1 .. hop] :
          /\ \A i, j \in 1 .. l : i \leq j => place[i] + (j - i) \leq place[j]
          /\ \A i \in 1 .. l : arrived[i] = TestPacket(out[place[i]].item.n)
    BY <1>5 DEF ArrivedInv
  <2> DEFINE m(i) == out[place[i]].item.n
  <2>2. Len(out) \in Nat /\ \A i \in 1 .. Len(out) : out[i].item.n \in Nat
    BY <1>1, MembersAre
  <2>3. \A i \in 1 .. l : place[i] \in Nat /\ place[i] \in 1 .. Len(out)
    BY <1>3, <2>1, <2>2
  <2>4. \A i \in 1 .. l : m(i) \in Nat /\ m(i) < next /\ m(i) < l
    <3>1. \A i \in 1 .. Len(out) : out[i].item.n < next
      BY <1>1 DEF AllGenuine, Genuine
    <3> QED
      BY <1>2, <1>3, <2>2, <2>3, <3>1
  <2>5. \A i \in 1 .. l : arrived[i] = TestPacket(m(i))
    BY <2>1
  <2>6. ASSUME NEW i \in 1 .. l, profile = "jitter30"
        PROVE  m(i) = i - 1
    <3>1. PICK k \in Nat : k = m(i) /\ k < l
      BY <2>4
    <3>2. arrived[i].seq = k % SeqWord
      BY <1>1, <2>5, <3>1, TestPacketHas
    <3>3. l \leq SeqWord /\ SeqWord \in Nat
      BY <1>1, <1>3, <2>6, WireAssumption DEF SentInv
    <3>4. k < SeqWord /\ i - 1 < SeqWord /\ i - 1 \in Nat
      BY <1>3, <1>4, <3>1, <3>3
    <3>5. k % SeqWord = k /\ (i - 1) % SeqWord = i - 1
      BY <3>3, <3>4, SmallRemainder
    <3>6. arrived[i].seq = (i - 1) % SeqWord
      BY DEF InSequence
    <3> QED
      BY <3>1, <3>2, <3>5, <3>6
  <2>7. ASSUME NEW i \in 1 .. l, profile # "jitter30"
        PROVE  m(i) = i - 1
    <3>1. \A a, b \in 1 .. Len(out) : a \leq b => out[a].item.n + (b - a) \leq out[b].item.n
      BY <1>1, <2>7 DEF WireInv
    <3>2. ASSUME NEW a \in 1 .. l, NEW b \in 1 .. l, a \leq b
          PROVE  m(a) + (b - a) \leq m(b)
      <4>1. place[a] + (b - a) \leq place[b]
        BY <2>1, <3>2
      <4>2. place[a] \in Nat /\ place[b] \in Nat /\ place[a] \leq place[b]
        BY <1>4, <2>3, <4>1, <3>2
      <4>3. m(a) + (place[b] - place[a]) \leq m(b)
        BY <2>3, <3>1, <4>2
      <4> DEFINE x == place[a]
                 y == place[b]
      <4>4. x \in Nat /\ y \in Nat /\ m(a) \in Nat /\ m(b) \in Nat
        BY <2>4, <4>2
      <4>5. x + (b - a) \leq y /\ m(a) + (y - x) \leq m(b)
        BY <4>1, <4>3
      <4> HIDE DEF x, y, m
      <4> QED
        BY <1>4, <4>4, <4>5
    <3>3. 1 \in 1 .. l /\ l \in 1 .. l /\ 1 \leq i /\ i \leq l /\ i \in Nat
      BY <1>3
    <3>4. m(1) + (i - 1) \leq m(i) /\ m(i) + (l - i) \leq m(l)
      BY <3>2, <3>3
    <3>5. m(1) \in Nat /\ m(i) \in Nat /\ m(l) \in Nat /\ m(l) < l
      BY <2>4, <3>3
    <3> DEFINE x == m(1)
               y == m(i)
               z == m(l)
    <3> HIDE DEF x, y, z
    <3>6. /\ x \in Nat /\ y \in Nat /\ z \in Nat /\ z < l
          /\ x + (i - 1) \leq y /\ y + (l - i) \leq z
      BY <3>4, <3>5 DEF x, y, z
    <3> HIDE DEF m, l
    <3>7. y = i - 1
      BY <1>3, <3>3, <3>6
    <3> QED
      BY <3>7 DEF y
  <2>8. \A i \in 1 .. l : m(i) = i - 1
    BY <2>6, <2>7
  <2>9. \A i \in 1 .. l : arrived[i] = TestPacket(i - 1)
    BY <2>5, <2>8
  <2>10. next = l
    <3>1. CASE l = 0
      BY <1>2, <1>3, <3>1
    <3>2. CASE l > 0
      <4>1. l \in 1 .. l
        BY <1>3, <3>2
      <4>2. m(l) = l - 1 /\ m(l) < next
        BY <2>4, <2>8, <4>1
      <4> HIDE DEF m, l
      <4> QED
        BY <1>2, <1>3, <4>2
    <3> QED
      BY <1>3, <3>1, <3>2
  <2>11. \A i \in 1 .. l : arrived[i] = sent[i]
    BY <1>2, <2>9, <2>10
  <2> QED
    BY <1>2, <1>3, <2>10, <2>11, SeqEqual
<1>6. CASE transport = "tcp"
  <2>1. /\ l \leq Len(got) /\ \A i \in 1 .. l : arrived[i] = got[i]
    BY <1>6 DEF ArrivedInv
  <2>2. /\ got \in Seq(Packets) /\ Len(got) \leq Len(sent)
        /\ \A i \in 1 .. Len(got) : got[i] = sent[i]
    <3>1. Returned
      BY <1>6 DEF FramingInv, Cut
    <3> QED
      BY <3>1 DEF Returned
  <2>3. Len(got) \in Nat /\ l = next
    BY <1>2, <1>3, <2>1, <2>2
  <2>4. \A i \in 1 .. l : arrived[i] = sent[i]
    BY <1>3, <2>1, <2>2, <2>3
  <2> QED
    BY <1>2, <1>3, <2>3, <2>4, SeqEqual
<1> QED
  BY <1>1, <1>5, <1>6

(* What a receiver without errors received. *)
LEMMA FinishedIs ==
  ASSUME ProxyInv, FramingInv, PathInv, Plain, ArrivedInv, CountInv, mode = "recv"
  PROVE  FinishedOk <=> (arrived = sent /\ next = count /\ verifier["malformed"] = 0)
<1>1. SentInv /\ size \in Nat
  BY DEF PathInv, ProxyInv, ProxyTyped
<1>2. /\ verifier["received"] = Len(arrived) /\ verifier["content_errors"] = 0
      /\ Quiet <=> InSequence
  BY DEF CountInv
<1>3. FinishedOk <=> (Len(arrived) = count /\ Quiet /\ verifier["malformed"] = 0)
  BY <1>2 DEF FinishedOk, Quiet, Counters
<1>4. ASSUME Len(arrived) = count, Quiet
      PROVE  arrived = sent /\ next = count
  BY <1>2, <1>4, NothingIsMissing
<1>5. ASSUME arrived = sent, next = count
      PROVE  Len(arrived) = count /\ Quiet
  <2>1. Len(sent) = count
    BY <1>1, <1>5 DEF SentInv
  <2>2. ASSUME NEW i \in 1 .. Len(arrived)
        PROVE  arrived[i].seq = (i - 1) % SeqWord
    <3>1. PICK n \in Nat : n = i - 1
      BY <1>1, <1>5, <2>1 DEF SentInv
    <3>2. arrived[i] = TestPacket(n)
      BY <1>1, <1>5, <3>1 DEF SentInv
    <3> QED
      BY <1>1, <3>1, <3>2, TestPacketHas
  <2> QED
    BY <1>2, <1>5, <2>1, <2>2 DEF InSequence
<1> QED
  BY <1>3, <1>4, <1>5

(* What a bench that passes counted: at most one late packet in a hundred. *)
LEMMA BenchIs ==
  ASSUME CountInv, mode = "bench", BenchOk, arrived \in Seq(Packets)
  PROVE  100 * delays.slow \leq Len(arrived)
<1> DEFINE n == Len(arrived)
           f == delays.fast
           s == delays.slow
           q == Rank(n)
<1>1. f \in Nat /\ s \in Nat /\ f + s = n /\ n \in Nat
  BY DEF CountInv
<1>2. f \geq q
  BY <1>1 DEF BenchOk
<1>3. q \in Nat /\ 99 * n \leq 100 * q
  BY <1>1 DEF Rank
<1> HIDE DEF n, f, s, q
<1>4. 100 * s \leq n
  BY <1>1, <1>2, <1>3
<1> QED
  BY <1>4 DEF n, s

(* The path and the receipt hold together throughout. *)
THEOREM ReceiptStaysTrue == Spec => [](PathInv /\ ReceiptInv)
<1>1. Init => PathInv /\ ReceiptInv
  BY PathStarts, ReceiptStarts
<1>2. ProxyInv /\ ProxyInv' /\ FramingInv /\ (PathInv /\ ReceiptInv) /\ [Next]_vars
        => (PathInv /\ ReceiptInv)'
  BY PathGoesOn, ReceiptGoesOn
<1> QED
  BY <1>1, <1>2, ProxyStaysSound, StreamStaysCut, PTL DEF Spec

(* The exit code of recv-* is 0 exactly when what was sent, and nothing else,
   came through in order, and a bench that passes had no more than one late
   packet in a hundred - for packets that fit the length field, and noise
   that the scan of the framing can skip. *)
THEOREM VerdictIsHonest == Spec => [](Plain => VerdictIsSound)
<1>1. ASSUME ProxyInv, FramingInv, PathInv, ReceiptInv, Plain
      PROVE  VerdictIsSound
  <2>1. ArrivedInv /\ CountInv /\ arrived \in Seq(Packets)
    BY <1>1 DEF ReceiptInv, ArrivedInv
  <2>2. ASSUME mode = "recv"
        PROVE  Verdict <=> (arrived = sent /\ next = count /\ verifier["malformed"] = 0)
    BY <1>1, <2>1, <2>2, FinishedIs DEF Verdict
  <2>3. ASSUME mode = "bench", Verdict
        PROVE  100 * delays.slow \leq Len(arrived)
    <3>1. BenchOk
      BY <2>3 DEF Verdict
    <3> QED
      BY <2>1, <2>3, <3>1, BenchIs
  <2> QED
    BY <2>2, <2>3 DEF VerdictIsSound
<1> QED
  BY <1>1, ProxyStaysSound, StreamStaysCut, ReceiptStaysTrue, PTL
=============================================================================
