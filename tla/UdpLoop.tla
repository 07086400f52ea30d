------------------------------- MODULE UdpLoop -------------------------------
(***************************************************************************)
(* The UDP receive path: udp_loop (the peer latch, pings and replies) in   *)
(* openay-server/src/lib.rs over Ingest (ingest.rs), behind a network that *)
(* loses, reorders and duplicates datagrams.                               *)
(*                                                                         *)
(* The senders stand for what the code expects: one phone, which may roam  *)
(* to a new address and keeps counting, and another host that sends too.   *)
(* Time is counted in ticks; StaleAfter of them make PEER_STALE_AFTER.     *)
(***************************************************************************)
EXTENDS SeqTracker, FiniteSets

CONSTANTS
  StaleAfter,   \* PEER_STALE_AFTER, in ticks
  PingAfter,    \* PEER_PING_INTERVAL, in ticks
  MaxSent,      \* bound: datagrams the phone sends
  MaxForeign,   \* bound: datagrams the other host sends
  MaxFlight,    \* bound: datagrams in flight
  MaxCopies     \* bound: deliveries that leave a copy in flight

ASSUME TimeAssumption == StaleAfter \in Nat \ {0} /\ PingAfter \in Nat \ {0}
ASSUME BoundsAssumption ==
  /\ MaxSent \in Nat /\ MaxForeign \in Nat
  /\ MaxFlight \in Nat /\ MaxCopies \in Nat

VARIABLES
  flight,    \* datagrams in flight
  addr,      \* the phone's address: "home", then "away"
  sent,      \* datagrams each sender sent
  copies,    \* deliveries that left a copy so far
  peer,      \* the pinned source, "none" for None
  quiet,     \* ticks since peer_last_rx
  pingAge,   \* ticks since last_ping
  told,      \* to whom the last ping or reply went
  tracker,   \* Ingest.seq
  counts,    \* Ingest's counters, and the datagrams the latch rejected
  silence,   \* history: ticks since the peer's last decodable datagram
  newest,    \* history: the last accepted packet
  pushes,    \* history: how often the samples of newest were pushed
  tidy       \* history: all accepted ones so far came from one source, in
             \* order, and with fewer than Word \div 2 missing in a row

wireVars == <<flight, addr, sent, copies>>
latchVars == <<peer, quiet, silence>>
pingVars == <<pingAge, told>>
ingestVars == <<tracker, counts, newest, pushes, tidy>>
vars == <<wireVars, latchVars, pingVars, ingestVars>>

Senders == {"phone", "other"}
Sources == {"home", "away", "other"}
Bound == [s \in Senders |-> IF s = "phone" THEN MaxSent ELSE MaxForeign]

(* "ping": a control packet that is answered (ping, hello); "mute": a packet
   with neither answer nor samples (any other control, a payload that does
   not decode); "garbage": a datagram that is no packet. *)
Kinds == {"audio", "ping", "mute", "garbage"}

(* A packet is known by its sender and its number there; the wire carries
   the number modulo Word. *)
Packets == [by : Senders, n : 0 .. MaxSent + MaxForeign]
NoPacket == [by |-> "none", n |-> 0]
Datagrams == [id : Packets, src : Sources, kind : Kinds]

(* The counters the properties relate; duplicate, out_of_order and malformed
   are left out: nothing reads them but the status. *)
Counters == {"received", "lost", "foreign"}

Init ==
  /\ flight = {} /\ addr = "home" /\ copies = 0
  /\ sent = [s \in Senders |-> 0]
  /\ peer = "none" /\ quiet = 0 /\ silence = 0
  /\ pingAge = 0 /\ told = "none"
  /\ tracker = NewTracker
  /\ counts = [c \in Counters |-> 0]
  /\ newest = NoPacket /\ pushes = 0 /\ tidy = TRUE

-----------------------------------------------------------------------------
(* The senders and the network. *)
Send(s, kind) ==
  /\ sent[s] < Bound[s]
  /\ Cardinality(flight) < MaxFlight
  /\ flight' = flight \cup
       {[id |-> [by |-> s, n |-> sent[s]],
         src |-> IF s = "phone" THEN addr ELSE "other", kind |-> kind]}
  /\ sent' = [sent EXCEPT ![s] = @ + 1]
  /\ UNCHANGED <<addr, copies, latchVars, pingVars, ingestVars>>

Lose(d) ==
  /\ flight' = flight \ {d}
  /\ UNCHANGED <<addr, sent, copies, latchVars, pingVars, ingestVars>>

Roam ==
  /\ addr = "home"
  /\ addr' = "away"
  /\ UNCHANGED <<flight, sent, copies, latchVars, pingVars, ingestVars>>

(* The network delivers d, and may keep a copy to deliver again. *)
Arrives(d) ==
  /\ \/ flight' = flight \ {d} /\ UNCHANGED copies
     \/ copies < MaxCopies /\ copies' = copies + 1 /\ UNCHANGED flight
  /\ UNCHANGED <<addr, sent>>

-----------------------------------------------------------------------------
(* The end of every turn of the loop: a ping if the peer p is due one, age
   ticks after the last; to is whom this turn has answered already. *)
EndTurn(p, age, to) ==
  LET due == p # "none" /\ age \geq PingAfter
  IN  /\ told' = IF due THEN p ELSE to
      /\ pingAge' = IF due THEN 0 ELSE age

(* The 200 ms timer, and a receive that fails. *)
Wake ==
  /\ EndTurn(peer, pingAge, told)
  /\ UNCHANGED <<wireVars, latchVars, ingestVars>>

(* A datagram that is no packet: it touches neither the latch nor the
   tracker. *)
ReceiveGarbage(d) ==
  /\ d.kind = "garbage"
  /\ Arrives(d)
  /\ EndTurn(peer, pingAge, told)
  /\ UNCHANGED <<latchVars, ingestVars>>

(* Mutation: the pin is given up one tick early. *)
PeerIsAlmostQuiet == quiet + 1 \geq StaleAfter

(* The pinned peer has been silent for PEER_STALE_AFTER. *)
PeerIsQuiet == quiet \geq StaleAfter

Elsewhere(d) == peer \notin {"none", d.src}

(* Mutations: a rejected datagram is a sign of life too; its ping is
   answered. *)
ForeignIsLife == 0
AnswerForeign(d) == IF d.kind = "ping" THEN d.src ELSE told

(* What a rejected datagram does to peer_last_rx, and whom it has answered. *)
QuietAfterForeign == quiet
ToldAfterForeign(d) == told

(* Another source while the pinned one is alive: dropped and counted. *)
ReceiveForeign(d) ==
  /\ d.kind # "garbage"
  /\ Elsewhere(d)
  /\ ~PeerIsQuiet
  /\ Arrives(d)
  /\ quiet' = QuietAfterForeign
  /\ counts' = [counts EXCEPT !["foreign"] = @ + 1]
  /\ EndTurn(peer, pingAge, ToldAfterForeign(d))
  /\ UNCHANGED <<peer, silence, tracker, newest, pushes, tidy>>

(* ingest_packet with the tracker t: count, classify, and push the samples
   of an audio packet unless it is a duplicate. *)
IngestPacket(t, d) ==
  LET seq == d.id.n % Word
      event == Classify(t, seq)
      plays == d.kind = "audio" /\ event # "duplicate"
  IN  /\ counts' = [counts EXCEPT
           !["received"] = @ + 1,
           !["lost"] = @ + IF event = "gap" THEN Missing(t, seq) ELSE 0]
      /\ tracker' = Follow(seq)
      /\ newest' = d.id
      /\ pushes' = (IF d.id = newest THEN pushes ELSE 0)
                     + (IF plays THEN 1 ELSE 0)

(* The number an in-order packet after newest has. *)
NextNumber == IF newest = NoPacket THEN 0 ELSE newest.n + 1

(* A packet from the first source, the pinned one, or another that takes
   over: it is pinned, its sequence starts afresh, it is answered and
   ingested. *)
ReceivePacket(d) ==
  LET latches == peer = "none" \/ Elsewhere(d)
      t == IF Elsewhere(d) THEN NewTracker ELSE tracker
  IN  /\ d.kind # "garbage"
      /\ Elsewhere(d) => PeerIsQuiet
      /\ Arrives(d)
      /\ peer' = d.src /\ quiet' = 0 /\ silence' = 0
      /\ IngestPacket(t, d)
      /\ tidy' = (tidy /\ ~Elsewhere(d) /\ d.id.n \geq NextNumber
                       /\ d.id.n < NextNumber + Word \div 2)
      /\ EndTurn(d.src, IF latches THEN 0 ELSE pingAge,
                 IF d.kind = "ping" THEN d.src ELSE told)

Smaller(a, b) == IF a < b THEN a ELSE b

(* Time passes; the ages are told apart up to their thresholds only. *)
Tick ==
  /\ quiet' = Smaller(quiet + 1, StaleAfter)
  /\ silence' = Smaller(silence + 1, StaleAfter)
  /\ pingAge' = Smaller(pingAge + 1, PingAfter)
  /\ UNCHANGED <<wireVars, peer, told, ingestVars>>

Receive ==
  \E d \in flight : ReceiveGarbage(d) \/ ReceiveForeign(d) \/ ReceivePacket(d)

Next ==
  \/ \E s \in Senders, kind \in Kinds : Send(s, kind)
  \/ \E d \in flight : Lose(d)
  \/ Roam \/ Receive \/ Wake \/ Tick

Spec == Init /\ [][Next]_vars

-----------------------------------------------------------------------------
(* Types; no counter runs ahead of what can have arrived. *)
TypeOK ==
  /\ flight \subseteq Datagrams
  /\ addr \in {"home", "away"}
  /\ sent \in [Senders -> 0 .. MaxSent + MaxForeign]
  /\ copies \in 0 .. MaxCopies
  /\ peer \in Sources \cup {"none"} /\ told \in Sources \cup {"none"}
  /\ quiet \in 0 .. StaleAfter /\ silence \in 0 .. StaleAfter
  /\ pingAge \in 0 .. PingAfter
  /\ tracker \in Trackers
  /\ counts \in [Counters -> Nat]
  /\ counts["received"] + counts["foreign"] \leq
       sent["phone"] + sent["other"] + copies
  /\ newest \in Packets \cup {NoPacket} /\ pushes \in Nat
  /\ tidy \in BOOLEAN

(* One phone at a time: the latch moves only when nothing decodable has come
   from the pinned source for StaleAfter ticks, so two senders are never blended
   while both are alive; a datagram is rejected only while its rival is alive,
   so a roaming phone gets back in, its own rejected datagrams not keeping the
   rival's pin; and pings and replies go to the pinned source only. *)
OnlyQuietPeerIsReplaced == peer # "none" /\ peer' # peer => silence = StaleAfter
RejectedOnlyWhilePeerTalks ==
  counts'["foreign"] # counts["foreign"] => silence < StaleAfter
OnlyPeerIsAnswered == told' # told => told' = peer'

OnePhoneAtATime ==
  [][OnlyQuietPeerIsReplaced /\ RejectedOnlyWhilePeerTalks /\ OnlyPeerIsAnswered]_vars

(* lost is exact as long as the network only loses: what was sent before the
   last accepted packet and not received, across the wrap of u16. *)
LossIsExact == tidy => counts["lost"] + counts["received"] = NextNumber

(* A packet delivered twice in a row is pushed once. *)
NoImmediateEcho == pushes \leq 1

(* "classify against a fresh expectation instead of logging a phantom
   gap/reorder": a takeover counts nothing as lost.  Not kept, and in no run:
   the fresh tracker expects 0, and a phone that roamed keeps counting. *)
TakeoverLosesNothing ==
  [][peer # "none" /\ peer' # peer => counts'["lost"] = counts["lost"]]_vars
=============================================================================
