---------------------------- MODULE UdpLoopProofs ----------------------------
(***************************************************************************)
(* Proofs about the UDP receive path, for every width of the sequence      *)
(* numbers, both timeouts and any number of datagrams in flight: first the *)
(* arithmetic of the sequence tracker across its wrap, then the invariant  *)
(* that ties the tracker and the latch to what the senders sent.           *)
(***************************************************************************)
EXTENDS UdpLoop, Integers, FiniteSetTheorems, TLAPS

(* The sequence number that packet n carries. *)
OnWire(n) == n % Word

(* A datagram is in flight under its own number only, from one address. *)
Numbered ==
  \A d \in flight :
    /\ d.id.n < sent[d.id.by]
    /\ \A e \in flight : d.id = e.id => d = e

(* The tracker stands behind the last accepted packet, or is fresh. *)
Tracked ==
  tracker = IF newest = NoPacket THEN NewTracker ELSE Follow(OnWire(newest.n))

(* The last accepted packet came from the peer, and so do its copies. *)
Pinned ==
  /\ newest = NoPacket => pushes = 0
  /\ newest = NoPacket <=> peer = "none"
  /\ newest # NoPacket =>
       /\ newest.n < sent[newest.by]
       /\ \A d \in flight : d.id = newest => d.src = peer

(* What was counted has left the wire, or left a copy there. *)
Accounted ==
  /\ IsFiniteSet(flight)
  /\ counts["received"] + counts["foreign"] + Cardinality(flight) \leq
       sent["phone"] + sent["other"] + copies

(* The deadline the latch looks at is the peer's real silence. *)
Heeded == quiet = silence

UdpInv ==
  /\ TypeOK /\ Numbered /\ Tracked /\ Pinned /\ Accounted /\ Heeded
  /\ NoImmediateEcho /\ LossIsExact

-----------------------------------------------------------------------------
(* The arithmetic of u16, for any word.                                    *)

(* A word is more than one number. *)
LEMMA WordIsNumber == Word \in Nat /\ Word > 1
BY WordAssumption

(* Division with remainder. *)
LEMMA Remainder ==
  ASSUME NEW n \in Nat
  PROVE  /\ OnWire(n) \in 0 .. Word - 1
         /\ n \div Word \in Nat
         /\ n = Word * (n \div Word) + OnWire(n)
BY WordIsNumber DEF OnWire

(* A whole multiple of the word is at least the word. *)
LEMMA MultipleOfWord ==
  ASSUME NEW q \in Int, q \geq 1
  PROVE  Word * q \geq Word
BY WordIsNumber

(* Of two packets less than a word apart the numbers are as far apart as
   they are, or a word less where the wire's number wrapped in between. *)
LEMMA CloseNumbers ==
  ASSUME NEW m \in Nat, NEW n \in Nat, m \leq n, n < m + Word
  PROVE  \/ OnWire(n) - OnWire(m) = n - m
         \/ OnWire(n) - OnWire(m) = n - m - Word
<1> DEFINE p == m \div Word
           q == n \div Word
           k == OnWire(m)
           l == OnWire(n)
<1>1. p \in Int /\ k \in 0 .. Word - 1 /\ m = Word * p + k
  BY Remainder
<1>2. q \in Int /\ l \in 0 .. Word - 1 /\ n = Word * q + l
  BY Remainder
<1> HIDE DEF p, q, k, l
<1>3. n - m = Word * (q - p) + (l - k)
  BY <1>1, <1>2, WordIsNumber
<1>4. q - p \geq 0
  <2>1. CASE p - q \geq 1
    <3>1. Word * (p - q) \geq Word
      BY <1>1, <1>2, <2>1, MultipleOfWord
    <3>2. m - n = Word * (p - q) + (k - l)
      BY <1>1, <1>2, WordIsNumber
    <3> QED
      BY <1>1, <1>2, <3>1, <3>2, WordIsNumber
  <2> QED
    BY <1>1, <1>2, <2>1
<1>5. CASE q - p = 0
  BY <1>1, <1>2, <1>3, <1>5, WordIsNumber DEF k, l
<1>6. CASE q - p = 1
  BY <1>1, <1>2, <1>3, <1>6, WordIsNumber DEF k, l
<1>7. CASE q - p \geq 2
  <2>1. Word * (q - p - 1) \geq Word
    BY <1>1, <1>2, <1>7, MultipleOfWord
  <2>2. Word * (q - p) = Word * (q - p - 1) + Word
    BY <1>1, <1>2, WordIsNumber
  <2> QED
    BY <1>1, <1>2, <1>3, <2>1, <2>2, WordIsNumber
<1> QED
  BY <1>1, <1>2, <1>4, <1>5, <1>6, <1>7

(* A number below the word is its own remainder, and so is what exceeds the
   word once. *)
LEMMA SmallNumber ==
  ASSUME NEW n \in 0 .. Word - 1
  PROVE  OnWire(n) = n
<1>1. OnWire(0) = 0 /\ n \in Nat /\ 0 \in Nat
  BY WordIsNumber DEF OnWire
<1>2. OnWire(n) - OnWire(0) = n - 0 \/ OnWire(n) - OnWire(0) = n - 0 - Word
  BY <1>1, CloseNumbers, WordIsNumber
<1>3. OnWire(n) \in 0 .. Word - 1
  BY <1>1, Remainder
<1> QED
  BY <1>1, <1>2, <1>3, WordIsNumber

(* Once around. *)
LEMMA WrappedNumber ==
  ASSUME NEW n \in 0 .. Word - 1
  PROVE  OnWire(n + Word) = n
<1>1. OnWire(Word) = 0 /\ Word \in Nat /\ n + Word \in Nat
  BY WordIsNumber DEF OnWire
<1>2. \/ OnWire(n + Word) - OnWire(Word) = (n + Word) - Word
      \/ OnWire(n + Word) - OnWire(Word) = (n + Word) - Word - Word
  BY <1>1, CloseNumbers, WordIsNumber
<1>3. OnWire(n + Word) \in 0 .. Word - 1
  BY <1>1, Remainder
<1> QED
  BY <1>1, <1>2, <1>3, WordIsNumber

(* The number after the last one. *)
LEMMA NextOnWire ==
  ASSUME NEW n \in Nat
  PROVE  OnWire(OnWire(n) + 1) = OnWire(n + 1)
<1> DEFINE k == OnWire(n)
           l == OnWire(n + 1)
<1>1. k \in 0 .. Word - 1 /\ l \in 0 .. Word - 1
  BY Remainder
<1>2. l - k = 1 \/ l - k = 1 - Word
  <2>1. l - k = (n + 1) - n \/ l - k = (n + 1) - n - Word
    BY CloseNumbers, WordIsNumber
  <2> HIDE DEF k, l
  <2> QED
    BY <1>1, <2>1, WordIsNumber
<1> SUFFICES OnWire(k + 1) = l
  OBVIOUS
<1> HIDE DEF k, l
<1>3. CASE k + 1 < Word
  <2>1. OnWire(k + 1) = k + 1
    BY <1>1, <1>3, SmallNumber, WordIsNumber
  <2> QED
    BY <1>1, <1>2, <1>3, <2>1, WordIsNumber
<1>4. CASE k + 1 = Word
  <2>1. OnWire(k + 1) = 0
    BY <1>4, WordIsNumber DEF OnWire
  <2> QED
    BY <1>1, <1>2, <1>4, <2>1, WordIsNumber
<1> QED
  BY <1>1, <1>3, <1>4, WordIsNumber

(* The distance the tracker computes is the number of packets between two
   that are less than a word apart, across the wrap. *)
LEMMA DistanceIsExact ==
  ASSUME NEW m \in Nat, NEW n \in Nat, m \leq n, n < m + Word
  PROVE  Distance(OnWire(n), OnWire(m)) = n - m
<1> DEFINE k == OnWire(m)
           l == OnWire(n)
           gap == n - m
<1>1. k \in 0 .. Word - 1 /\ l \in 0 .. Word - 1 /\ gap \in 0 .. Word - 1
  BY Remainder, WordIsNumber
<1>2. l - k = gap \/ l - k = gap - Word
  BY CloseNumbers
<1> SUFFICES OnWire(l + Word - k) = gap
  BY DEF Distance, OnWire
<1> HIDE DEF k, l, gap
<1>3. CASE l - k = gap
  <2>1. l + Word - k = gap + Word
    BY <1>1, <1>3, WordIsNumber
  <2> QED
    BY <1>1, <2>1, WrappedNumber
<1>4. CASE l - k = gap - Word
  <2>1. l + Word - k = gap
    BY <1>1, <1>4, WordIsNumber
  <2> QED
    BY <1>1, <2>1, SmallNumber
<1> QED
  BY <1>2, <1>3, <1>4

(* Two packets less than a word apart carry different numbers. *)
LEMMA NumbersDiffer ==
  ASSUME NEW m \in Nat, NEW n \in Nat, m < n, n < m + Word
  PROVE  OnWire(n) # OnWire(m)
<1>1. OnWire(n) \in 0 .. Word - 1 /\ OnWire(m) \in 0 .. Word - 1
  BY Remainder
<1>2. \/ OnWire(n) - OnWire(m) = n - m
      \/ OnWire(n) - OnWire(m) = n - m - Word
  BY CloseNumbers
<1> QED
  BY <1>1, <1>2, WordIsNumber

-----------------------------------------------------------------------------
(* The tracker and the packets. *)

(* A distance counts packets. *)
LEMMA DistanceType ==
  ASSUME NEW k \in 0 .. Word - 1, NEW l \in 0 .. Word - 1
  PROVE  Distance(k, l) \in Nat
<1>1. k + Word - l \in Nat
  BY WordIsNumber
<1>2. OnWire(k + Word - l) \in 0 .. Word - 1
  BY <1>1, Remainder
<1> QED
  BY <1>2, WordIsNumber DEF Distance, OnWire

(* The tracker expects the number of the packet after the last accepted. *)
LEMMA TrackerExpects ==
  ASSUME TypeOK, Tracked
  PROVE  /\ NextNumber \in Nat
         /\ tracker.expected = OnWire(NextNumber)
         /\ tracker.expected \in 0 .. Word - 1
         /\ newest # NoPacket => /\ newest.n \in Nat
                                 /\ NextNumber = newest.n + 1
                                 /\ tracker.last = OnWire(newest.n)
         /\ newest = NoPacket => tracker.last = Word
<1>1. CASE newest = NoPacket
  <2>1. OnWire(0) = 0
    BY WordIsNumber DEF OnWire
  <2> QED
    BY <1>1, <2>1, WordIsNumber
       DEF Tracked, NewTracker, NoNumber, NextNumber
<1>2. CASE newest # NoPacket
  <2>1. newest.n \in Nat /\ NextNumber = newest.n + 1
    BY <1>2, BoundsAssumption DEF TypeOK, Packets, NextNumber
  <2>2. tracker = [expected |-> (OnWire(newest.n) + 1) % Word,
                   last |-> OnWire(newest.n)]
    BY <1>2 DEF Tracked, Follow
  <2>3. (OnWire(newest.n) + 1) % Word = OnWire(newest.n + 1)
    BY <2>1, NextOnWire DEF OnWire
  <2>4. OnWire(newest.n + 1) \in 0 .. Word - 1
    BY <2>1, Remainder
  <2> QED
    BY <1>2, <2>1, <2>2, <2>3, <2>4
<1> QED
  BY <1>1, <1>2

(* What it has just seen, it takes for a duplicate. *)
LEMMA RepeatIsDuplicate ==
  ASSUME TypeOK, Tracked, newest # NoPacket
  PROVE  Classify(tracker, OnWire(newest.n)) = "duplicate"
<1>1. /\ newest.n \in Nat
      /\ tracker.expected = OnWire(newest.n + 1)
      /\ tracker.last = OnWire(newest.n)
  BY TrackerExpects
<1>2. OnWire(newest.n + 1) # OnWire(newest.n)
  BY <1>1, NumbersDiffer, WordIsNumber
<1> QED
  BY <1>1, <1>2 DEF Classify

(* Of a packet that comes in order, less than half a word ahead, it counts
   exactly the packets skipped as lost. *)
LEMMA GapIsExact ==
  ASSUME TypeOK, Tracked,
         NEW n \in Nat, NextNumber \leq n, n < NextNumber + (Word \div 2)
  PROVE  (IF Classify(tracker, OnWire(n)) = "gap"
            THEN Missing(tracker, OnWire(n)) ELSE 0) = n - NextNumber
<1>1. Word \div 2 \in Nat /\ Word \div 2 < Word
  BY WordIsNumber
<1>2. /\ NextNumber \in Nat /\ tracker.expected = OnWire(NextNumber)
      /\ newest # NoPacket => /\ newest.n \in Nat /\ NextNumber = newest.n + 1
                              /\ tracker.last = OnWire(newest.n)
      /\ newest = NoPacket => tracker.last = Word
  BY TrackerExpects
<1>3. Distance(OnWire(n), tracker.expected) = n - NextNumber
  BY <1>1, <1>2, DistanceIsExact, WordIsNumber
<1>4. OnWire(n) # tracker.last
  <2>1. OnWire(n) \in 0 .. Word - 1
    BY Remainder
  <2>2. CASE newest = NoPacket
    BY <1>2, <2>1, <2>2, WordIsNumber
  <2>3. CASE newest # NoPacket
    <3>1. newest.n < n /\ n < newest.n + Word
      BY <1>1, <1>2, <2>3, WordIsNumber
    <3> QED
      BY <1>2, <2>3, <3>1, NumbersDiffer
  <2> QED
    BY <2>2, <2>3
<1>5. CASE n = NextNumber
  BY <1>2, <1>5 DEF Classify
<1>6. CASE n # NextNumber
  <2>1. OnWire(n) # tracker.expected
    BY <1>1, <1>2, <1>6, NumbersDiffer, WordIsNumber
  <2>2. Distance(OnWire(n), tracker.expected) < Word \div 2
    BY <1>1, <1>2, <1>3
  <2> QED
    BY <1>3, <1>4, <2>1, <2>2 DEF Classify, Missing
<1> QED
  BY <1>5, <1>6

-----------------------------------------------------------------------------
(* The steps of the senders and the network. *)

(* At first nothing is sent, and the tracker is fresh. *)
LEMMA UdpInit == Init => UdpInv
<1> SUFFICES ASSUME Init PROVE UdpInv
  OBVIOUS
<1> USE BoundsAssumption, TimeAssumption DEF Init
<1>1. NewTracker \in Trackers
  BY WordIsNumber DEF NewTracker, Trackers, Numbers, NoNumber
<1>2. TypeOK
  BY <1>1 DEF TypeOK, Senders, Counters
<1>3. IsFiniteSet({}) /\ Cardinality({}) = 0
  BY FS_EmptySet
<1>4. Numbered /\ Tracked /\ Pinned /\ Accounted /\ Heeded
  BY <1>3 DEF Numbered, Tracked, Pinned, Accounted, Heeded, Senders, Counters
<1>5. NoImmediateEcho /\ LossIsExact
  BY DEF NoImmediateEcho, LossIsExact, NextNumber, Counters
<1> QED
  BY <1>2, <1>4, <1>5 DEF UdpInv

(* A sender sends under a number it has not used. *)
LEMMA SendKeeps ==
  ASSUME UdpInv, NEW s \in Senders, NEW kind \in Kinds, Send(s, kind)
  PROVE  UdpInv'
<1> DEFINE d == [id |-> [by |-> s, n |-> sent[s]],
                 src |-> IF s = "phone" THEN addr ELSE "other", kind |-> kind]
<1>1. /\ sent \in [Senders -> Nat]
      /\ sent[s] < Bound[s] /\ Bound[s] \in 0 .. MaxSent + MaxForeign
      /\ flight' = flight \cup {d}
      /\ sent' = [sent EXCEPT ![s] = sent[s] + 1]
      /\ UNCHANGED <<addr, copies, latchVars, pingVars, ingestVars>>
  BY BoundsAssumption DEF Send, Bound, Senders, UdpInv, TypeOK
<1>2. d \in Datagrams
  BY <1>1, BoundsAssumption
     DEF Datagrams, Packets, Sources, Senders, UdpInv, TypeOK
<1>3. d.id.by = s /\ d.id.n = sent[s]
  OBVIOUS
<1> HIDE DEF d
<1>4. /\ sent'[s] = sent[s] + 1
      /\ \A t \in Senders : sent'[t] \geq sent[t]
      /\ sent' \in [Senders -> 0 .. MaxSent + MaxForeign]
      /\ sent'["phone"] + sent'["other"] = sent["phone"] + sent["other"] + 1
  BY <1>1, BoundsAssumption DEF Senders, UdpInv, TypeOK
<1>5. /\ IsFiniteSet(flight')
      /\ Cardinality(flight') \in Nat
      /\ Cardinality(flight') \leq Cardinality(flight) + 1
      /\ Cardinality(flight) \in Nat
  <2>1. IsFiniteSet(flight) /\ Cardinality(flight) \in Nat
    BY FS_CardinalityType DEF UdpInv, Accounted
  <2>2. /\ IsFiniteSet(flight \cup {d})
        /\ \/ Cardinality(flight \cup {d}) = Cardinality(flight)
           \/ Cardinality(flight \cup {d}) = Cardinality(flight) + 1
    BY <2>1, FS_AddElement
  <2> QED
    BY <1>1, <2>1, <2>2
<1>6. TypeOK'
  BY <1>1, <1>2, <1>4, <1>5
     DEF UdpInv, TypeOK, Accounted, Senders, Counters, latchVars, pingVars,
         ingestVars
<1>7. Numbered'
  <2>1. \A e \in flight : e.id # d.id /\ e.id.by \in Senders
    BY <1>3 DEF UdpInv, TypeOK, Numbered, Datagrams, Packets
  <2>2. \A e \in flight : /\ e.id.n \in Nat
                            /\ sent[e.id.by] \in Nat /\ sent'[e.id.by] \in Nat
    BY <1>1, <1>4, <2>1, BoundsAssumption DEF UdpInv, TypeOK, Datagrams, Packets
  <2>3. \A e \in flight' : e.id.n < sent'[e.id.by]
    BY <1>1, <1>3, <1>4, <2>1, <2>2 DEF UdpInv, Numbered
  <2>4. \A e, f \in flight' : e.id = f.id => e = f
    BY <1>1, <2>1 DEF UdpInv, Numbered
  <2> QED
    BY <2>3, <2>4 DEF Numbered
<1>8. Tracked' /\ Heeded' /\ NoImmediateEcho' /\ LossIsExact'
  BY <1>1 DEF UdpInv, Tracked, Heeded, NoImmediateEcho, LossIsExact,
              NextNumber, latchVars, ingestVars
<1>9. Pinned'
  <2>1. newest # NoPacket => newest # d.id /\ newest.by \in Senders
    BY <1>3 DEF UdpInv, TypeOK, Pinned, Packets
  <2> QED
    BY <1>1, <1>4, <2>1
       DEF UdpInv, TypeOK, Pinned, Packets, latchVars, ingestVars
<1>10. Accounted'
  BY <1>1, <1>4, <1>5
     DEF UdpInv, TypeOK, Accounted, Senders, Counters, ingestVars
<1> QED
  BY <1>6, <1>7, <1>8, <1>9, <1>10 DEF UdpInv

(* What leaves the wire, or leaves a copy there. *)
LEMMA ArrivalLeaves ==
  ASSUME UdpInv, NEW d \in flight, Arrives(d)
  PROVE  /\ flight' \subseteq flight /\ IsFiniteSet(flight')
         /\ copies' \in 0 .. MaxCopies /\ copies \in 0 .. MaxCopies
         /\ sent' = sent /\ addr' = addr
         /\ Cardinality(flight') \in Nat /\ Cardinality(flight) \in Nat
         /\ Cardinality(flight') + 1 - copies' \leq Cardinality(flight) - copies
<1>1. IsFiniteSet(flight) /\ Cardinality(flight) \in Nat
  BY FS_CardinalityType DEF UdpInv, Accounted
<1>2. /\ IsFiniteSet(flight \ {d})
      /\ Cardinality(flight \ {d}) = Cardinality(flight) - 1
      /\ Cardinality(flight \ {d}) \in Nat
  BY <1>1, FS_RemoveElement, FS_CardinalityType
<1>3. copies \in 0 .. MaxCopies /\ UNCHANGED <<addr, sent>>
  BY DEF Arrives, UdpInv, TypeOK
<1>4. CASE flight' = flight \ {d} /\ UNCHANGED copies
  BY <1>1, <1>2, <1>3, <1>4, BoundsAssumption
<1>5. CASE copies < MaxCopies /\ copies' = copies + 1 /\ UNCHANGED flight
  BY <1>1, <1>3, <1>5, BoundsAssumption
<1> QED
  BY <1>4, <1>5 DEF Arrives

(* A datagram is lost. *)
LEMMA LoseKeeps ==
  ASSUME UdpInv, NEW d \in flight, Lose(d)
  PROVE  UdpInv'
<1>1. /\ flight' = flight \ {d}
      /\ UNCHANGED <<addr, sent, copies, latchVars, pingVars, ingestVars>>
  BY DEF Lose
<1>2. /\ IsFiniteSet(flight) /\ Cardinality(flight) \in Nat
      /\ IsFiniteSet(flight') /\ Cardinality(flight') \in Nat
      /\ Cardinality(flight') \leq Cardinality(flight)
  <2>1. IsFiniteSet(flight) /\ Cardinality(flight) \in Nat
    BY FS_CardinalityType DEF UdpInv, Accounted
  <2>2. /\ IsFiniteSet(flight \ {d})
        /\ Cardinality(flight \ {d}) = Cardinality(flight) - 1
        /\ Cardinality(flight \ {d}) \in Nat
    BY <2>1, FS_RemoveElement, FS_CardinalityType
  <2> QED
    BY <1>1, <2>1, <2>2
<1>3. TypeOK' /\ Numbered' /\ Pinned'
  BY <1>1 DEF UdpInv, TypeOK, Numbered, Pinned, latchVars, pingVars, ingestVars
<1>4. Tracked' /\ Heeded' /\ NoImmediateEcho' /\ LossIsExact'
  BY <1>1 DEF UdpInv, Tracked, Heeded, NoImmediateEcho, LossIsExact,
              NextNumber, latchVars, ingestVars
<1>5. Accounted'
  BY <1>1, <1>2, BoundsAssumption
     DEF UdpInv, TypeOK, Accounted, Senders, Counters, ingestVars
<1> QED
  BY <1>3, <1>4, <1>5 DEF UdpInv

(* The phone's new address, the timer, and time. *)
LEMMA TimeKeeps ==
  ASSUME UdpInv, Roam \/ Wake \/ Tick
  PROVE  UdpInv'
<1> USE TimeAssumption DEF UdpInv
<1>1. UNCHANGED <<flight, sent, copies, peer, tracker, counts, newest, pushes,
                  tidy>>
  BY DEF Roam, Wake, Tick, wireVars, latchVars, ingestVars
<1>2. /\ addr' \in {"home", "away"}
      /\ quiet' \in 0 .. StaleAfter /\ silence' \in 0 .. StaleAfter
      /\ quiet' = silence'
      /\ pingAge' \in 0 .. PingAfter /\ told' \in Sources \cup {"none"}
  BY DEF TypeOK, Heeded, Roam, Wake, Tick, EndTurn, Smaller, wireVars,
         latchVars, pingVars
<1>3. TypeOK' /\ Heeded'
  BY <1>1, <1>2 DEF TypeOK, Heeded
<1>4. Numbered' /\ Tracked' /\ Pinned' /\ Accounted' /\ NoImmediateEcho'
      /\ LossIsExact'
  BY <1>1 DEF Numbered, Tracked, Pinned, Accounted, NoImmediateEcho,
              LossIsExact, NextNumber
<1> QED
  BY <1>3, <1>4

-----------------------------------------------------------------------------
(* The steps of the loop. *)

(* Garbage changes nothing but the wire. *)
LEMMA GarbageKeeps ==
  ASSUME UdpInv, NEW d \in flight, ReceiveGarbage(d)
  PROVE  UdpInv'
<1>1. /\ UNCHANGED <<peer, quiet, silence, tracker, counts, newest, pushes,
                     tidy>>
      /\ Arrives(d) /\ EndTurn(peer, pingAge, told)
  BY DEF ReceiveGarbage, latchVars, ingestVars
<1>2. pingAge' \in 0 .. PingAfter /\ told' \in Sources \cup {"none"}
  BY <1>1, TimeAssumption DEF EndTurn, UdpInv, TypeOK
<1>3. /\ flight' \subseteq flight /\ IsFiniteSet(flight')
      /\ copies' \in 0 .. MaxCopies /\ copies \in 0 .. MaxCopies
      /\ sent' = sent /\ addr' = addr
      /\ Cardinality(flight') \in Nat /\ Cardinality(flight) \in Nat
      /\ Cardinality(flight') + 1 - copies' \leq Cardinality(flight) - copies
  BY <1>1, ArrivalLeaves
<1>4. /\ counts["received"] \in Nat /\ counts["foreign"] \in Nat
      /\ sent["phone"] \in Nat /\ sent["other"] \in Nat
      /\ counts["received"] + counts["foreign"] + Cardinality(flight) \leq
           sent["phone"] + sent["other"] + copies
  BY BoundsAssumption DEF UdpInv, TypeOK, Accounted, Senders, Counters
<1>5. Accounted' /\ TypeOK'
  <2>1. counts["received"] + counts["foreign"] + Cardinality(flight') \leq
           sent["phone"] + sent["other"] + copies'
    BY <1>3, <1>4, BoundsAssumption
  <2>2. counts["received"] + counts["foreign"] \leq
           sent["phone"] + sent["other"] + copies'
    BY <1>3, <1>4, <2>1, BoundsAssumption
  <2> QED
    BY <1>1, <1>2, <1>3, <2>1, <2>2 DEF UdpInv, TypeOK, Accounted
<1>6. Numbered' /\ Pinned'
  BY <1>1, <1>3 DEF UdpInv, Numbered, Pinned
<1>7. Tracked' /\ Heeded' /\ NoImmediateEcho' /\ LossIsExact'
  BY <1>1 DEF UdpInv, Tracked, Heeded, NoImmediateEcho, LossIsExact, NextNumber
<1> QED
  BY <1>5, <1>6, <1>7 DEF UdpInv

(* A rejected datagram is counted, and is no sign of life of the peer. *)
LEMMA ForeignKeeps ==
  ASSUME UdpInv, NEW d \in flight, ReceiveForeign(d)
  PROVE  UdpInv'
<1>1. /\ UNCHANGED <<peer, quiet, silence, tracker, newest, pushes, tidy>>
      /\ counts' = [counts EXCEPT !["foreign"] = counts["foreign"] + 1]
      /\ Arrives(d) /\ EndTurn(peer, pingAge, told)
  BY DEF ReceiveForeign, QuietAfterForeign, ToldAfterForeign
<1>2. pingAge' \in 0 .. PingAfter /\ told' \in Sources \cup {"none"}
  BY <1>1, TimeAssumption DEF EndTurn, UdpInv, TypeOK
<1>3. /\ flight' \subseteq flight /\ IsFiniteSet(flight')
      /\ copies' \in 0 .. MaxCopies /\ copies \in 0 .. MaxCopies
      /\ sent' = sent /\ addr' = addr
      /\ Cardinality(flight') \in Nat /\ Cardinality(flight) \in Nat
      /\ Cardinality(flight') + 1 - copies' \leq Cardinality(flight) - copies
  BY <1>1, ArrivalLeaves
<1>4. /\ counts["received"] \in Nat /\ counts["foreign"] \in Nat
      /\ counts' \in [Counters -> Nat]
      /\ counts'["received"] = counts["received"]
      /\ counts'["lost"] = counts["lost"]
      /\ counts'["foreign"] = counts["foreign"] + 1
      /\ sent["phone"] \in Nat /\ sent["other"] \in Nat
      /\ counts["received"] + counts["foreign"] + Cardinality(flight) \leq
           sent["phone"] + sent["other"] + copies
  BY <1>1, BoundsAssumption DEF UdpInv, TypeOK, Accounted, Senders, Counters
<1>5. Accounted' /\ TypeOK'
  <2>1. counts'["received"] + counts'["foreign"] + Cardinality(flight') \leq
           sent["phone"] + sent["other"] + copies'
    BY <1>3, <1>4, BoundsAssumption
  <2>2. counts'["received"] + counts'["foreign"] \leq
           sent["phone"] + sent["other"] + copies'
    BY <1>3, <1>4, <2>1, BoundsAssumption
  <2> QED
    BY <1>1, <1>2, <1>3, <1>4, <2>1, <2>2 DEF UdpInv, TypeOK, Accounted
<1>6. Numbered' /\ Pinned'
  BY <1>1, <1>3 DEF UdpInv, Numbered, Pinned
<1>7. Tracked' /\ Heeded' /\ NoImmediateEcho' /\ LossIsExact'
  BY <1>1, <1>4 DEF UdpInv, Tracked, Heeded, NoImmediateEcho, LossIsExact,
                    NextNumber
<1> QED
  BY <1>5, <1>6, <1>7 DEF UdpInv

(* An accepted packet: a repetition of the last one is a duplicate, since its
   copies come from where it came from; and one in order is counted with the
   ones it skipped. *)
LEMMA PacketKeeps ==
  ASSUME UdpInv, NEW d \in flight, ReceivePacket(d)
  PROVE  UdpInv'
<1> DEFINE t == IF Elsewhere(d) THEN NewTracker ELSE tracker
           seq == OnWire(d.id.n)
           event == Classify(t, seq)
           plays == d.kind = "audio" /\ event # "duplicate"
           skipped == IF event = "gap" THEN Missing(t, seq) ELSE 0
<1>1. /\ Arrives(d)
      /\ peer' = d.src /\ quiet' = 0 /\ silence' = 0
      /\ counts' = [counts EXCEPT !["received"] = @ + 1,
                                  !["lost"] = @ + skipped]
      /\ tracker' = Follow(seq)
      /\ newest' = d.id
      /\ pushes' = (IF d.id = newest THEN pushes ELSE 0)
                     + (IF plays THEN 1 ELSE 0)
      /\ tidy' = (tidy /\ ~Elsewhere(d) /\ d.id.n \geq NextNumber
                       /\ d.id.n < NextNumber + Word \div 2)
  BY DEF ReceivePacket, IngestPacket, OnWire
<1>2. d \in Datagrams /\ d.src \in Sources /\ d.id \in Packets /\ d.id.n \in Nat
      /\ d.id # NoPacket /\ d.src # "none"
  BY BoundsAssumption
     DEF UdpInv, TypeOK, Datagrams, Packets, NoPacket, Sources, Senders
<1>3. /\ flight' \subseteq flight /\ IsFiniteSet(flight')
      /\ copies' \in 0 .. MaxCopies /\ copies \in 0 .. MaxCopies
      /\ sent' = sent /\ addr' = addr
      /\ Cardinality(flight') \in Nat /\ Cardinality(flight) \in Nat
      /\ Cardinality(flight') + 1 - copies' \leq Cardinality(flight) - copies
  BY <1>1, ArrivalLeaves
<1>4. pingAge' \in 0 .. PingAfter /\ told' \in Sources \cup {"none"}
  BY <1>2, TimeAssumption DEF ReceivePacket, EndTurn, UdpInv, TypeOK
<1>5. seq \in 0 .. Word - 1
  BY <1>2, Remainder
<1>6. skipped \in Nat
  <2>1. NewTracker.expected \in 0 .. Word - 1
    BY WordIsNumber DEF NewTracker
  <2>2. t.expected \in 0 .. Word - 1
    BY <2>1, TrackerExpects DEF UdpInv
  <2> QED
    BY <1>5, <2>2, DistanceType DEF Missing
<1>7. /\ counts["received"] \in Nat /\ counts["foreign"] \in Nat
      /\ counts["lost"] \in Nat
      /\ counts' \in [Counters -> Nat]
      /\ counts'["received"] = counts["received"] + 1
      /\ counts'["lost"] = counts["lost"] + skipped
      /\ counts'["foreign"] = counts["foreign"]
      /\ sent["phone"] \in Nat /\ sent["other"] \in Nat
      /\ counts["received"] + counts["foreign"] + Cardinality(flight) \leq
           sent["phone"] + sent["other"] + copies
  BY <1>1, <1>6, BoundsAssumption
     DEF UdpInv, TypeOK, Accounted, Senders, Counters
<1>8. Follow(seq) \in Trackers
  <2>1. (seq + 1) % Word \in 0 .. Word - 1
    BY <1>5, WordIsNumber
  <2> QED
    BY <1>5, <2>1 DEF Follow, Trackers, Numbers
<1>9. pushes' \in {0, 1}
  <2>1. CASE d.id = newest
    <3>1. newest # NoPacket /\ d.src = peer /\ ~Elsewhere(d)
      BY <1>2, <2>1 DEF UdpInv, Pinned, Elsewhere
    <3>2. event = "duplicate"
      BY <2>1, <3>1, RepeatIsDuplicate DEF UdpInv
    <3> QED
      BY <1>1, <2>1, <3>2 DEF UdpInv, TypeOK, NoImmediateEcho
  <2>2. CASE d.id # newest
    BY <1>1, <2>2
  <2> QED
    BY <2>1, <2>2
<1>10. ASSUME tidy'
       PROVE  counts'["lost"] + counts'["received"] = d.id.n + 1
  <2>1. /\ tidy /\ ~Elsewhere(d) /\ t = tracker
        /\ NextNumber \leq d.id.n /\ d.id.n < NextNumber + (Word \div 2)
    BY <1>1, <1>10
  <2>2. NextNumber \in Nat
    BY TrackerExpects DEF UdpInv
  <2>3. skipped = d.id.n - NextNumber
    BY <1>2, <2>1, GapIsExact DEF UdpInv
  <2>4. counts["lost"] + counts["received"] = NextNumber
    BY <2>1 DEF UdpInv, LossIsExact
  <2> HIDE DEF skipped
  <2> QED
    BY <1>2, <1>7, <2>2, <2>3, <2>4
<1> HIDE DEF t, seq, event, plays, skipped
<1>11. Accounted' /\ TypeOK'
  <2>1. counts'["received"] + counts'["foreign"] + Cardinality(flight') \leq
           sent["phone"] + sent["other"] + copies'
    BY <1>3, <1>7, BoundsAssumption
  <2>2. counts'["received"] + counts'["foreign"] \leq
           sent["phone"] + sent["other"] + copies'
    BY <1>3, <1>7, <2>1, BoundsAssumption
  <2>3. quiet' \in 0 .. StaleAfter /\ silence' \in 0 .. StaleAfter
    BY <1>1, TimeAssumption
  <2>4. tidy' \in BOOLEAN
    BY <1>1
  <2> QED
    BY <1>1, <1>2, <1>3, <1>4, <1>7, <1>8, <1>9, <2>1, <2>2, <2>3, <2>4
       DEF UdpInv, TypeOK, Accounted
<1>12. Numbered' /\ Pinned'
  BY <1>1, <1>2, <1>3 DEF UdpInv, Numbered, Pinned
<1>13. Tracked' /\ Heeded'
  BY <1>1, <1>2 DEF Tracked, Heeded, seq
<1>14. NoImmediateEcho' /\ LossIsExact'
  BY <1>1, <1>2, <1>9, <1>10 DEF NoImmediateEcho, LossIsExact, NextNumber
<1> QED
  BY <1>11, <1>12, <1>13, <1>14 DEF UdpInv

-----------------------------------------------------------------------------
(* UdpInv is an invariant of the receive path. *)
LEMMA UdpInvariant == Spec => []UdpInv
<1>1. UdpInv /\ [Next]_vars => UdpInv'
  <2> SUFFICES ASSUME UdpInv, [Next]_vars PROVE UdpInv'
    OBVIOUS
  <2>1. ASSUME NEW s \in Senders, NEW kind \in Kinds, Send(s, kind)
        PROVE  UdpInv'
    BY <2>1, SendKeeps
  <2>2. ASSUME NEW d \in flight, Lose(d) PROVE UdpInv'
    BY <2>2, LoseKeeps
  <2>3. CASE Roam \/ Wake \/ Tick
    BY <2>3, TimeKeeps
  <2>4. CASE Receive
    BY <2>4, GarbageKeeps, ForeignKeeps, PacketKeeps DEF Receive
  <2>5. CASE UNCHANGED vars
    BY <2>5 DEF vars, wireVars, latchVars, pingVars, ingestVars, UdpInv, TypeOK,
                Numbered, Tracked, Pinned, Accounted, Heeded, NoImmediateEcho,
                LossIsExact, NextNumber
  <2> QED
    BY <2>1, <2>2, <2>3, <2>4, <2>5 DEF Next
<1> QED
  BY <1>1, UdpInit, PTL DEF Spec

(* The latch, the tracker and the counters stay in their bounds, and nothing
   is counted that did not arrive. *)
THEOREM TypeCorrect == Spec => []TypeOK
<1>1. UdpInv => TypeOK
  BY DEF UdpInv
<1> QED
  BY <1>1, UdpInvariant, PTL

(* While the network only loses packets, fewer than half a word in a row, the
   lost counter is exact, across any number of wraps of the number. *)
THEOREM LossCount == Spec => []LossIsExact
<1>1. UdpInv => LossIsExact
  BY DEF UdpInv
<1> QED
  BY <1>1, UdpInvariant, PTL

(* A packet delivered twice in a row is pushed once. *)
THEOREM NoEcho == Spec => []NoImmediateEcho
<1>1. UdpInv => NoImmediateEcho
  BY DEF UdpInv
<1> QED
  BY <1>1, UdpInvariant, PTL

(* The latch moves only away from a peer that has been silent for the whole
   deadline, rejects only while the peer talks, and answers the peer only. *)
THEOREM OnePhone == Spec => OnePhoneAtATime
<1>1. UdpInv /\ [Next]_vars
        => [OnlyQuietPeerIsReplaced /\ RejectedOnlyWhilePeerTalks
              /\ OnlyPeerIsAnswered]_vars
  <2> SUFFICES ASSUME UdpInv, Next
               PROVE  OnlyQuietPeerIsReplaced /\ RejectedOnlyWhilePeerTalks
                        /\ OnlyPeerIsAnswered
    OBVIOUS
  <2> USE DEF OnlyQuietPeerIsReplaced, RejectedOnlyWhilePeerTalks,
              OnlyPeerIsAnswered
  <2>1. ASSUME NEW d \in flight, ReceivePacket(d)
        PROVE  OnlyQuietPeerIsReplaced /\ RejectedOnlyWhilePeerTalks
                 /\ OnlyPeerIsAnswered
    <3>1. counts'["foreign"] = counts["foreign"]
      BY <2>1 DEF ReceivePacket, IngestPacket, UdpInv, TypeOK, Counters
    <3>2. /\ Elsewhere(d) => quiet \geq StaleAfter
          /\ peer' = d.src
      BY <2>1 DEF ReceivePacket, PeerIsQuiet
    <3>3. told' # told => told' = d.src
      BY <2>1 DEF ReceivePacket, EndTurn
    <3> QED
      BY <3>1, <3>2, <3>3, TimeAssumption DEF Elsewhere, UdpInv, TypeOK, Heeded
  <2>2. ASSUME NEW d \in flight, ReceiveForeign(d)
        PROVE  OnlyQuietPeerIsReplaced /\ RejectedOnlyWhilePeerTalks
                 /\ OnlyPeerIsAnswered
    BY <2>2, TimeAssumption
       DEF ReceiveForeign, PeerIsQuiet, EndTurn, ToldAfterForeign, UdpInv,
           TypeOK, Heeded
  <2>3. ASSUME UNCHANGED <<peer, counts>>,
               told' # told => told' = peer
        PROVE  OnlyQuietPeerIsReplaced /\ RejectedOnlyWhilePeerTalks
                 /\ OnlyPeerIsAnswered
    BY <2>3
  <2> QED
    BY <2>1, <2>2, <2>3
       DEF Next, Send, Lose, Roam, Receive, ReceiveGarbage, Wake, Tick, EndTurn,
           wireVars, latchVars, pingVars, ingestVars
<1> QED
  BY <1>1, UdpInvariant, PTL DEF Spec, OnePhoneAtATime
=============================================================================
