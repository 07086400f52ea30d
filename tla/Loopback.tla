------------------------------ MODULE Loopback ------------------------------
(***************************************************************************)
(* The interop tool (openay-loopback): a sender of numbered test packets   *)
(* and a receiver that says whether all of them came through, over TCP     *)
(* (Framing) or over UDP, there with the lossy proxy (Proxy) in between;   *)
(* and its bench, which is both in one process.                            *)
(*                                                                         *)
(* The clean profile stands for a UDP path without a proxy too.            *)
(***************************************************************************)
EXTENDS Framing, Proxy

CONSTANTS
  Counts,    \* values of <count>
  Sizes,     \* values of [payload_size], in cells
  BufSize,   \* MAX_DATAGRAM, in cells
  MaxStray   \* bound: datagrams of another program

INSTANCE SeqTracker WITH Word <- SeqWord

ASSUME LoopbackAssumption ==
  /\ Counts \subseteq Nat \ {0} /\ Sizes \subseteq Nat
  /\ BufSize \in Nat /\ MaxStray \in Nat

VARIABLES
  mode,      \* the command: "recv" (and "send" at the other end) or "bench"
  transport, \* "udp" or "tcp"
  count,     \* its arguments
  size,
  next,      \* the sender's loop variable
  hop,       \* datagrams of Proxy's out that the network has dealt with
  strays,    \* stray datagrams so far
  verifier,  \* RecvVerifier.stats, with the malformed count of UdpReceiver
  tracker,   \* RecvVerifier.tracker
  delays,    \* BenchResult.deltas_ns: those below and those above 5 ms
  arrived,   \* history: the packets given to the verifier
  result     \* "receiving", "done"

argVars == <<mode, transport, count, size>>
senderVars == <<next>>
verdictVars == <<verifier, tracker, delays, arrived>>
receiverVars == <<hop, strays, verdictVars, result>>
vars == <<argVars, senderVars, receiverVars, framingVars, proxyVars>>

Counters == {"received", "lost", "duplicate", "out_of_order", "malformed",
             "content_errors"}

(* The commands with legal arguments: the bench needs room for its stamp, and
   a socket refuses a datagram beyond the maximum.  A delay is shorter than a
   round of the sequence numbers takes. *)
Legal ==
  /\ mode = "bench" => size > 0
  /\ transport = "udp" => size + HEADER_LEN \leq BufSize
  /\ transport = "tcp" \/ mode = "bench" => profile = "clean"
  /\ profile = "jitter30" => count \leq SeqWord

Init ==
  /\ mode \in {"recv", "bench"} /\ transport \in {"udp", "tcp"}
  /\ count \in Counts /\ size \in Sizes
  /\ FramingInit /\ ProxyInit /\ Legal
  /\ next = 0 /\ hop = 0 /\ strays = 0
  /\ verifier = [c \in Counters |-> 0] /\ tracker = NewTracker
  /\ delays = [fast |-> 0, slow |-> 0]
  /\ arrived = << >> /\ result = "receiving"

-----------------------------------------------------------------------------
(* Alternating kinds, starting with pcm. *)
KindOfNumber(seq) == IF seq % 2 = 0 THEN "pcm" ELSE "opus"

(* gen_packet: the loop variable is cast to u16. *)
TestPacket(n) ==
  LET seq == n % SeqWord
  IN  [kind |-> KindOfNumber(seq), seq |-> seq, payload |-> Filler(seq, size)]

(* UdpSender::send_packet: one datagram, and no word of what becomes of it. *)
SendDatagram(n, p) ==
  /\ socket' = Append(socket, [n |-> n, cells |-> Encode(p)])
  /\ sent' = Append(sent, p)

SendUdp ==
  /\ transport = "udp" /\ next < count
  /\ SendDatagram(next, TestPacket(next))
  /\ next' = next + 1
  /\ UNCHANGED <<argVars, receiverVars, stream, closed, noise, framerVars,
                 profile, channel, forwarderVars, quit, now>>

SendTcp ==
  /\ transport = "tcp" /\ next < count
  /\ WritePacket(TestPacket(next))
  /\ next' = next + 1
  /\ UNCHANGED <<argVars, receiverVars, proxyVars>>

(* A sender of the receiver's own kind never does this; an older one may. *)
WriteGarbage ==
  /\ transport = "tcp" /\ mode = "recv"
  /\ \E n \in Noises : WriteNoise(n)
  /\ UNCHANGED <<argVars, senderVars, receiverVars, proxyVars>>

SenderShutdown ==
  /\ transport = "tcp" /\ next = count
  /\ Shutdown
  /\ UNCHANGED <<argVars, senderVars, receiverVars, proxyVars>>

-----------------------------------------------------------------------------
ContentErrors(p) ==
  Cardinality({e \in {"kind", "payload"} :
    CASE e = "kind"    -> p.kind # KindOfNumber(p.seq)
      [] e = "payload" -> p.payload # Filler(p.seq, size)})

(* RecvVerifier::check *)
Checked(p) ==
  LET event == Classify(tracker, p.seq)
      if(e, n) == IF event = e THEN n ELSE 0
  IN  [verifier EXCEPT
         !["received"] = @ + 1,
         !["lost"] = @ + if("gap", Missing(tracker, p.seq)),
         !["duplicate"] = @ + if("duplicate", 1),
         !["out_of_order"] = @ + if("reorder", 1),
         !["content_errors"] = @ + ContentErrors(p)]

Check(p) ==
  /\ mode = "recv"
  /\ verifier' = Checked(p)
  /\ tracker' = Follow(p.seq)
  /\ UNCHANGED delays

(* bench_check_packet: a packet of another size counts as one that took no
   time. *)
BenchCheck(p) ==
  /\ mode = "bench"
  /\ \E d \in {"fast", "slow"} :
       /\ Len(p.payload) # size => d = "fast"
       /\ delays' = [delays EXCEPT ![d] = @ + 1]
  /\ UNCHANGED <<verifier, tracker>>

Handle(p) ==
  /\ Check(p) \/ BenchCheck(p)
  /\ arrived' = Append(arrived, p)
  /\ result' = IF Len(arrived') = count THEN "done" ELSE "receiving"

Receiving == result = "receiving"

(* UdpReceiver::recv_packet: the next datagram off the wire; *)
RecvUdp ==
  /\ Receiving /\ hop < Len(out)
  /\ Decodes(out[hop + 1].item.cells)
  /\ Handle(Decode(out[hop + 1].item.cells))
  /\ hop' = hop + 1
  /\ UNCHANGED <<argVars, senderVars, strays, framingVars, proxyVars>>

(* the kernel may have had no room for it; *)
Overflow ==
  /\ hop < Len(out)
  /\ hop' = hop + 1
  /\ UNCHANGED <<argVars, senderVars, strays, verdictVars, result, framingVars,
                 proxyVars>>

(* and one that does not decode is counted, and waited on for. *)
RecvStray ==
  /\ Receiving /\ transport = "udp" /\ strays < MaxStray
  /\ strays' = strays + 1
  /\ verifier' = [verifier EXCEPT !["malformed"] = @ + 1]
  /\ UNCHANGED <<argVars, senderVars, hop, tracker, delays, arrived, result,
                 framingVars, proxyVars>>

(* recv_tcp: the framer runs while next_packet is awaited ... *)
RecvTcpStep ==
  /\ Receiving /\ transport = "tcp" /\ Len(got) = Len(arrived)
  /\ FramerStep \/ FramerReads
  /\ UNCHANGED <<argVars, senderVars, receiverVars, proxyVars>>

(* ... and returns a packet or an error. *)
RecvTcp ==
  /\ Receiving
  /\ Len(got) > Len(arrived)
  /\ Handle(got[Len(got)])
  /\ UNCHANGED <<argVars, senderVars, hop, strays, framingVars, proxyVars>>

(* The end of the stream, an error of it, or 15 s without traffic: a sender
   may take as long between two packets. *)
GiveUp ==
  /\ Receiving
  /\ result' = "done"
  /\ UNCHANGED <<argVars, senderVars, hop, strays, verdictVars, framingVars,
                 proxyVars>>

-----------------------------------------------------------------------------
(* Time is told apart only while something is delayed. *)
Network ==
  /\ transport = "udp"
  /\ ProxyStep \/ (queue # {} /\ TimePasses)
       \/ (profile # "clean" /\ Signal)
  /\ UNCHANGED <<argVars, senderVars, receiverVars, framingVars>>

Next ==
  \/ SendUdp \/ SendTcp \/ WriteGarbage \/ SenderShutdown
  \/ RecvUdp \/ Overflow \/ RecvStray \/ RecvTcpStep \/ RecvTcp \/ GiveUp
  \/ Network

Spec == Init /\ [][Next]_vars

-----------------------------------------------------------------------------
(* Mutation: a duplicate makes up for a loss at the end. *)
FinishedOkDuplicates ==
  /\ verifier["received"] = count
  /\ \A c \in Counters \ {"received", "duplicate"} : verifier[c] = 0

(* finished_ok *)
FinishedOk ==
  /\ verifier["received"] = count
  /\ \A c \in Counters \ {"received"} : verifier[c] = 0

(* Mutation: the percentile's index without the rounding up. *)
RankBelow(n) == IF n < 2 THEN 1 ELSE (99 * n) \div 100

(* pct(99.0): the place, from 1, of the 99th percentile of n sorted delays. *)
Rank(n) == (99 * n + 99) \div 100

BenchOk ==
  LET n == delays.fast + delays.slow
  IN  n > 0 /\ delays.fast \geq Rank(n)

Verdict == IF mode = "recv" THEN FinishedOk ELSE BenchOk

(* The type invariant of the tool and of the framing under it. *)
TypeOK ==
  /\ FramingTypeOK
  /\ next \in 0 .. count /\ hop \in 0 .. Len(out) /\ strays \in 0 .. MaxStray
  /\ verifier \in [Counters -> Nat] /\ tracker \in Trackers
  /\ delays.fast \in Nat /\ delays.slow \in Nat
  /\ result \in {"receiving", "done"}

(* "recv with zero errors" (USAGE): the exit code of recv-* is 0 exactly when
   the packets that were sent, and nothing else, came through in order -
   whatever the proxy dropped, delayed and duplicated, whatever was lost
   behind it, whatever the stream was cut into, and across the wrap of the
   sequence numbers.  And the bench passes only when 99% of what it received
   was in time. *)
VerdictIsSound ==
  result = "done" =>
    /\ mode = "recv" =>
         (Verdict <=> arrived = sent /\ next = count /\ verifier["malformed"] = 0)
    /\ mode = "bench" /\ Verdict => 100 * delays.slow \leq Len(arrived)
=============================================================================
