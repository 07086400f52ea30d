------------------------------ MODULE Session ------------------------------
(***************************************************************************)
(* A session over a byte stream (TCP, or RFCOMM through the Kotlin pump),  *)
(* both ends of it: the phone's CapturePipeline (capture_pipeline.cpp) and *)
(* the receiver's serve_packet_stream (openay-server/src/lib.rs), which    *)
(* feeds one Ingest whose sequence tracker outlives the connection.        *)
(*                                                                         *)
(* Phone to receiver a packet is whole (the framing is module Framing).    *)
(* Receiver to phone it is cells, because the phone polls with a timeout   *)
(* of 0 and may find any part of one: MagicCell, RestCell (the rest of the *)
(* header), and the payload, the message.                                  *)
(***************************************************************************)
EXTENDS CaptureRing, SeqTracker

CONSTANTS
  MaxConns,   \* bound: connections of any behaviour
  Budgets,    \* bounds: what one behaviour may have: how many blocks of which
              \* sizes, pings and connections, and which faults
  Window,     \* packets the stream holds towards the receiver
  ReplyCap,   \* of the reply channel (8)
  DrainMax    \* packets one DrainReceiver takes (8)

ASSUME SessionAssumption ==
  /\ MaxConns \in Nat
  /\ Budgets \subseteq [blocks : Nat, sizes : SUBSET (1 .. Capacity), pings : Nat,
                         conns : 0 .. MaxConns,
                         faults : SUBSET {"start", "break", "quit", "timeout"}]
  /\ Window \in Nat \ {0} /\ ReplyCap \in Nat \ {0}
  /\ DrainMax \in Nat \ {0}

VARIABLES
  \* the phone
  conn,      \* the connection its sink is, 0 for none
  used,      \* connections made so far
  source,    \* the audio source runs
  net,       \* NetworkLoop: "off", "hello", "head", "listen", "frame", "drain",
             \* "bye", "done"
  stop,      \* CapturePipeline.stop_
  number,    \* seq of NetworkLoop
  polled,    \* packets this DrainReceiver has taken
  owed,      \* what it has to send next: "pong", "audio", "" for nothing
  pend,      \* TcpConn.pend_
  late,      \* history: the drain ran into its deadline
  budget,    \* the bounds of this behaviour
  heard,     \* history: the messages it received, per connection
  stalled,   \* history: the connections on which a send ran into its timeout
  \* the streams, per connection
  up,        \* packets on their way to the receiver
  down,      \* cells on their way to the phone
  broken,    \* the link failed
  \* the receiver, per connection
  reader,    \* the read task: "none", "head", "read", "ended"
  writer,    \* the writer task: "none", "on", "done"
  replies,   \* the reply channel
  written,   \* history: the messages it wrote
  pings,     \* history: how many of them are pings
  \* the receiver
  quit,      \* the run's quit flag
  tracker, lost,
  from       \* history: the connection of the last packet ingested

phoneVars == <<conn, used, source, net, stop, number, polled, owed, pend, late,
              budget>>
streamVars == <<up, down, broken>>
serveVars == <<reader, writer, replies, written, pings>>
ingestVars == <<tracker, lost, from>>
vars == <<ringVars, phoneVars, heard, stalled, streamVars, serveVars, quit, ingestVars>>

Conns == 1 .. MaxConns

MagicCell == "magic"
RestCell == "header"
Cells(msg) == <<MagicCell, RestCell, msg>>

Init ==
  /\ budget \in Budgets
  /\ EmptyRing
  /\ conn = 0 /\ used = 0 /\ source = FALSE /\ net = "off" /\ stop = FALSE
  /\ number = 0 /\ polled = 0 /\ owed = "" /\ pend = << >> /\ late = FALSE
  /\ heard = [c \in Conns |-> << >>] /\ stalled = {}
  /\ up = [c \in Conns |-> << >>] /\ down = [c \in Conns |-> << >>]
  /\ broken = [c \in Conns |-> FALSE]
  /\ reader = [c \in Conns |-> "none"] /\ writer = [c \in Conns |-> "none"]
  /\ replies = [c \in Conns |-> << >>] /\ written = [c \in Conns |-> << >>]
  /\ pings = [c \in Conns |-> 0]
  /\ quit = FALSE
  /\ tracker = NewTracker /\ lost = 0 /\ from = 0

(* The phone closed its end of c; the receiver closed its own. *)
PhoneClosed(c) == c <= used /\ conn # c
Served(c) == reader[c] = "ended" /\ writer[c] = "done"

-----------------------------------------------------------------------------
(* Configure, with the connection made, and Start: a new ring, new numbers.
   The receiver accepts the connection and starts both its tasks. *)
StartSession ==
  /\ conn = 0 /\ net = "off"
  /\ used < budget.conns
  /\ ~quit
  /\ used' = used + 1 /\ conn' = used'
  /\ NewRing
  /\ source' = TRUE /\ net' = "hello" /\ stop' = FALSE
  /\ number' = 0 /\ polled' = 0 /\ owed' = "" /\ pend' = << >> /\ late' = FALSE
  /\ reader' = [reader EXCEPT ![used'] = "head"]
  /\ writer' = [writer EXCEPT ![used'] = "on"]
  /\ UNCHANGED <<budget, heard, stalled, streamVars, replies, written, pings, quit, ingestVars>>

(* Start, when the audio source does not: the sink is released by the Stop
   that follows. *)
StartFails ==
  /\ "start" \in budget.faults
  /\ conn = 0 /\ net = "off"
  /\ used < budget.conns
  /\ ~quit
  /\ used' = used + 1
  /\ reader' = [reader EXCEPT ![used'] = "head"]
  /\ writer' = [writer EXCEPT ![used'] = "on"]
  /\ UNCHANGED <<ringVars, budget, conn, source, net, stop, number, polled, owed, pend,
                 late, heard, stalled, streamVars, replies, written, pings, quit, ingestVars>>

(* Stop: first the source - no callback runs once its Stop returned - *)
StopSource ==
  /\ source /\ conn # 0
  /\ pushed = "idle"
  /\ source' = FALSE
  /\ UNCHANGED <<ringVars, budget, conn, used, net, stop, number, polled, owed, pend,
                 late, heard, stalled, streamVars, serveVars, quit, ingestVars>>

(* Mutation: the network thread is asked to drain while callbacks still run. *)
AnyTime == TRUE

SourceStopped == ~source

(* ... then the network thread is told, *)
StopAsk ==
  /\ conn # 0 /\ ~stop
  /\ SourceStopped
  /\ stop' = TRUE
  /\ UNCHANGED <<ringVars, budget, conn, used, source, net, number, polled, owed, pend,
                 late, heard, stalled, streamVars, serveVars, quit, ingestVars>>

(* ... joined, and the sink closed. *)
StopJoin ==
  /\ stop /\ net = "done"
  /\ conn' = 0 /\ net' = "off"
  /\ UNCHANGED <<ringVars, budget, used, source, stop, number, polled, owed, pend,
                 late, heard, stalled, streamVars, serveVars, quit, ingestVars>>

(* The source's callback, on its own thread. *)
Callback ==
  /\ \/ source /\ callbacks < budget.blocks /\ \E n \in budget.sizes : OnAudio(n)
     \/ PushCopy
     \/ PushPublish
  /\ UNCHANGED <<phoneVars, heard, stalled, streamVars, serveVars, quit, ingestVars>>

-----------------------------------------------------------------------------
(* Mutation: a stream the receiver closed is taken for a full one. *)
OnlyBroken(c) == broken[c]

Gone(c) == broken[c] \/ Served(c)

(* A packet whose Send was given up half way; what the receiver has of it when
   it comes first is out of the stream. *)
Torn(s) == s # << >> /\ Head(s).kind = "torn"

InStream(c) == Len(up[c]) - (IF Torn(up[c]) THEN 1 ELSE 0)

(* FdBytePipe::Push into a stream that stays full runs into SO_SNDTIMEO, with
   nothing or a part of the packet written; the link holds. *)
SendTimesOut ==
  /\ "timeout" \in budget.faults
  /\ ~Gone(conn)
  /\ InStream(conn) >= Window
  /\ stalled' = stalled \cup {conn}
  /\ \/ UNCHANGED up
     \/ /\ InStream(conn) = Window
        /\ up' = [up EXCEPT ![conn] = Append(@, [kind |-> "torn", seq |-> number])]

(* Send: blocks while the stream is full (TcpConn for as long as it takes,
   FdBytePipe for 2 s), and fails when the link did or the receiver closed it.
   The number is taken either way, and no caller ends the loop. *)
Send(kind) ==
  /\ number' = (number + 1) % Word
  /\ \/ /\ ~Gone(conn)
        /\ InStream(conn) < Window
        /\ up' = [up EXCEPT ![conn] = Append(@, [kind |-> kind, seq |-> number])]
        /\ UNCHANGED stalled
     \/ /\ Gone(conn)
        /\ UNCHANGED <<up, stalled>>
     \/ SendTimesOut

(* The network thread does this, and nothing but its own state and the stream
   changes. *)
NetSends(kind) ==
  /\ Send(kind)
  /\ UNCHANGED <<budget, conn, used, source, stop, pend, heard, down, broken,
                 serveVars, quit, ingestVars>>

SayHello ==
  /\ net = "hello" /\ NetSends("hello")
  /\ net' = "head"
  /\ UNCHANGED <<ringVars, polled, owed, late>>

LoopHead ==
  /\ net = "head"
  /\ net' = IF stop THEN "drain" ELSE "listen"
  /\ polled' = 0
  /\ UNCHANGED <<ringVars, budget, conn, used, source, stop, number, owed, pend, late,
                 heard, stalled, streamVars, serveVars, quit, ingestVars>>

(* ReadExact keeps what it read of the piece it could not complete. *)
Kept(s) == s

(* Recv with timeout 0 on the cells s that are there: the message, if a whole
   packet is, and what is left of s.  Only ReadExact's own piece is kept: a
   header that was read is gone with the payload that is not there yet. *)
Received(s) ==
  LET magics == {i \in 2 .. Len(s) : s[i] = MagicCell}
      first == CHOOSE i \in magics : \A j \in magics : i <= j
      at == IF s[1] = MagicCell THEN 1 ELSE first    \* resync
      nothing(left) == [msg |-> "", left |-> left]
  IN  IF Len(s) < 2 THEN nothing(Kept(s))
      ELSE IF s[1] # MagicCell /\ magics = {} THEN nothing(<< >>)
      ELSE IF at + 2 > Len(s) THEN nothing(<< >>)
      ELSE [msg |-> s[at + 2], left |-> SubSeq(s, at + 3, Len(s))]

(* DrainReceiver: one packet, of which the first n cells that are on their way
   have arrived.  (Cells left over by a success are still the socket's.) *)
Listen ==
  /\ net = "listen" /\ owed = ""
  /\ \E n \in 0 .. Len(down[conn]) :
    LET got == Received(pend \o SubSeq(down[conn], 1, n))
        rest == SubSeq(down[conn], n + 1, Len(down[conn]))
    IN  /\ ~broken[conn]
        /\ IF got.msg = ""
             THEN /\ pend' = got.left
                  /\ down' = [down EXCEPT ![conn] = rest]
                  /\ net' = "frame"
                  /\ UNCHANGED <<polled, owed, heard>>
             ELSE /\ pend' = << >>
                  /\ down' = [down EXCEPT ![conn] = got.left \o rest]
                  /\ heard' = [heard EXCEPT ![conn] = Append(@, got.msg)]
                  /\ owed' = IF got.msg = "ping" THEN "pong" ELSE ""
                  /\ polled' = polled + 1
                  /\ net' = IF polled' = DrainMax /\ owed' = "" THEN "frame" ELSE "listen"
        /\ UNCHANGED <<ringVars, budget, conn, used, source, stop, number, late,
                       stalled, up, broken, serveVars, quit, ingestVars>>

(* Nothing can be read of a link that failed. *)
ListenFails ==
  /\ net = "listen" /\ owed = ""
  /\ broken[conn]
  /\ net' = "frame"
  /\ UNCHANGED <<ringVars, budget, conn, used, source, stop, number, polled, owed, pend,
                 late, heard, stalled, streamVars, serveVars, quit, ingestVars>>

SayPong ==
  /\ owed = "pong"
  /\ NetSends("pong")
  /\ owed' = ""
  /\ net' = IF polled = DrainMax THEN "frame" ELSE "listen"
  /\ UNCHANGED <<ringVars, polled, late>>

-----------------------------------------------------------------------------
(* ProcessFrame pops first.  In the loop the thread sleeps when there is no
   whole frame; in the drain it goes on to the bye. *)
FrameEnter ==
  /\ net \in {"frame", "drain"} /\ popping = 0 /\ owed = ""
  /\ IF Available >= Frame
       THEN PopEnter /\ UNCHANGED net
       ELSE net' = (IF net = "frame" THEN "head" ELSE "bye") /\ UNCHANGED ringVars
  /\ UNCHANGED <<budget, conn, used, source, stop, number, polled, owed, pend, late, heard,
                 stalled, streamVars, serveVars, quit, ingestVars>>

FrameCopy ==
  /\ PopCopy
  /\ UNCHANGED <<phoneVars, heard, stalled, streamVars, serveVars, quit, ingestVars>>

FramePopped ==
  /\ PopPublish
  /\ owed' = "audio"
  /\ UNCHANGED <<budget, conn, used, source, net, stop, number, polled, pend, late, heard,
                 stalled, streamVars, serveVars, quit, ingestVars>>

AfterFrame ==
  /\ owed' = ""
  /\ net' = IF net = "frame" THEN "head" ELSE net

FrameSend ==
  /\ owed = "audio"
  /\ NetSends("audio")
  /\ AfterFrame
  /\ UNCHANGED <<ringVars, polled, late>>

(* Mutation: the number was taken before the encoder failed. *)
NumberSpent == (number + 1) % Word

NumberKept == number

(* The encoder failed: the frame is gone, and took no number. *)
EncodeFails ==
  /\ owed = "audio"
  /\ AfterFrame
  /\ number' = NumberKept
  /\ UNCHANGED <<ringVars, budget, conn, used, source, stop, polled, pend, late, heard,
                 stalled, streamVars, serveVars, quit, ingestVars>>

(* The 50 ms of the drain are over. *)
DrainExpires ==
  /\ net = "drain" /\ popping = 0 /\ owed = ""
  /\ Available >= Frame
  /\ net' = "bye" /\ late' = TRUE
  /\ UNCHANGED <<ringVars, budget, conn, used, source, stop, number, polled, owed, pend,
                 heard, stalled, streamVars, serveVars, quit, ingestVars>>

SayBye ==
  /\ net = "bye" /\ NetSends("bye")
  /\ net' = "done"
  /\ UNCHANGED <<ringVars, polled, owed, late>>

NetworkLoop ==
  \/ SayHello \/ LoopHead \/ Listen \/ ListenFails \/ SayPong
  \/ FrameEnter \/ FrameCopy \/ FramePopped \/ FrameSend \/ EncodeFails \/ DrainExpires \/ SayBye

Stop == StopSource \/ StopAsk \/ StopJoin

-----------------------------------------------------------------------------
(* The link of c fails: what is under way may be lost. *)
Break(c) ==
  /\ "break" \in budget.faults
  /\ c <= used /\ ~broken[c] /\ ~(PhoneClosed(c) /\ Served(c))
  /\ broken' = [broken EXCEPT ![c] = TRUE]
  /\ \E n \in 0 .. Len(up[c]) : up' = [up EXCEPT ![c] = SubSeq(@, 1, n)]
  /\ down' = [down EXCEPT ![c] = << >>]
  /\ UNCHANGED <<ringVars, phoneVars, heard, stalled, serveVars, quit, ingestVars>>

(* serve_packet_stream, the read task: quit is looked at between packets, *)
ReaderHead(c) ==
  /\ reader[c] = "head"
  /\ reader' = [reader EXCEPT ![c] = IF quit THEN "ended" ELSE "read"]
  /\ UNCHANGED <<ringVars, phoneVars, heard, stalled, streamVars, writer, replies, written,
                 pings, quit, ingestVars>>

(* control_reply *)
Reply(kind) == IF kind = "hello" THEN <<"hello-ack">> ELSE << >>

Ingest(c, seq) ==
  /\ lost' = lost + (IF Classify(tracker, seq) = "gap" THEN Missing(tracker, seq) ELSE 0)
  /\ tracker' = Follow(seq)
  /\ from' = c

(* ... a packet is answered, if it is one to answer and the channel has room,
   and ingested, whatever it is, *)
ReadPacket(c) ==
  /\ reader[c] = "read"
  /\ up[c] # << >> /\ ~Torn(up[c])
  /\ LET p == Head(up[c])
     IN  /\ replies' = IF Len(replies[c]) + Len(Reply(p.kind)) <= ReplyCap
                         THEN [replies EXCEPT ![c] = @ \o Reply(p.kind)]
                         ELSE replies
         /\ Ingest(c, p.seq)
  /\ up' = [up EXCEPT ![c] = Tail(@)]
  /\ reader' = [reader EXCEPT ![c] = "head"]
  /\ UNCHANGED <<ringVars, phoneVars, heard, stalled, down, broken, writer, written,
                 pings, quit>>

(* ... a torn packet takes the packets that follow for the rest of itself, and
   next_packet finds a header again after them.  Its number is its own, or any
   where the header was torn too. *)
ReadTorn(c) ==
  /\ reader[c] = "read"
  /\ Torn(up[c])
  /\ \E n \in 2 .. Len(up[c]) : up' = [up EXCEPT ![c] = SubSeq(@, n + 1, Len(@))]
  /\ \E seq \in Numbers : Ingest(c, seq)
  /\ reader' = [reader EXCEPT ![c] = "head"]
  /\ UNCHANGED <<ringVars, phoneVars, heard, stalled, down, broken, writer, replies,
                 written, pings, quit>>

(* ... and the end of the stream ends the task, as does a header that is none
   after a torn packet. *)
ReadEnd(c) ==
  /\ reader[c] = "read"
  /\ \/ /\ up[c] = << >> \/ Torn(up[c])
        /\ PhoneClosed(c) \/ broken[c]
     \/ Torn(up[c]) /\ Len(up[c]) > 1
  /\ reader' = [reader EXCEPT ![c] = "ended"]
  /\ UNCHANGED <<ringVars, phoneVars, heard, stalled, streamVars, writer, replies, written,
                 pings, quit, ingestVars>>

(* The accept loop ends with the run: the serve task is aborted where it
   waits.  The writer is a task of its own and is not. *)
AbortServe(c) ==
  /\ quit
  /\ reader[c] = "read"
  /\ reader' = [reader EXCEPT ![c] = "ended"]
  /\ UNCHANGED <<ringVars, phoneVars, heard, stalled, streamVars, writer, replies, written,
                 pings, quit, ingestVars>>

(* write_all: fails when the link did or the phone closed, which may not be
   noticed at once. *)
Write(c, msg) ==
  \/ /\ ~broken[c] /\ ~PhoneClosed(c)
     /\ down' = [down EXCEPT ![c] = @ \o Cells(msg)]
     /\ written' = [written EXCEPT ![c] = Append(@, msg)]
     /\ UNCHANGED writer
  \/ /\ broken[c] \/ PhoneClosed(c)
     /\ writer' = [writer EXCEPT ![c] = "done"]
     /\ UNCHANGED <<down, written>>

(* The writer task: a ping per interval, if the run goes on, *)
WriterTick(c) ==
  /\ writer[c] = "on"
  /\ IF quit
       THEN /\ writer' = [writer EXCEPT ![c] = "done"]
            /\ UNCHANGED <<down, written, pings>>
       ELSE /\ pings[c] < budget.pings
            /\ pings' = [pings EXCEPT ![c] = @ + 1]
            /\ Write(c, "ping")
  /\ UNCHANGED <<ringVars, phoneVars, heard, stalled, up, broken, reader, replies,
                 quit, ingestVars>>

(* ... the replies, *)
WriterReply(c) ==
  /\ writer[c] = "on"
  /\ replies[c] # << >>
  /\ replies' = [replies EXCEPT ![c] = Tail(@)]
  /\ Write(c, Head(replies[c]))
  /\ UNCHANGED <<ringVars, phoneVars, heard, stalled, up, broken, reader, pings,
                 quit, ingestVars>>

(* Mutation: the channel is only closed once the writer has ended. *)
HeldUntilServed(c) == Served(c)

(* drop(reply_tx), or the abort of the task that holds it *)
ChannelClosed(c) == reader[c] = "ended"

(* ... until the channel is closed and empty. *)
WriterEnds(c) ==
  /\ writer[c] = "on"
  /\ replies[c] = << >> /\ ChannelClosed(c)
  /\ writer' = [writer EXCEPT ![c] = "done"]
  /\ UNCHANGED <<ringVars, phoneVars, heard, stalled, streamVars, reader, replies, written,
                 pings, quit, ingestVars>>

(* The engine stops the run. *)
EngineStops ==
  /\ "quit" \in budget.faults
  /\ ~quit
  /\ quit' = TRUE
  /\ UNCHANGED <<ringVars, phoneVars, heard, stalled, streamVars, serveVars, ingestVars>>

Reader(c) == ReaderHead(c) \/ ReadPacket(c) \/ ReadTorn(c) \/ ReadEnd(c) \/ AbortServe(c)
Writer(c) == WriterReply(c) \/ WriterEnds(c)

Next ==
  \/ StartSession \/ StartFails \/ Stop \/ Callback \/ NetworkLoop
  \/ EngineStops
  \/ \E c \in Conns : Break(c) \/ Reader(c) \/ Writer(c) \/ WriterTick(c)

(* Threads and tasks run; so does a Stop once begun.  Nothing obliges the user
   to stop, the source to deliver, the link to break or the clock to tick. *)
Fairness ==
  /\ WF_vars(NetworkLoop)
  /\ WF_vars(PushCopy /\ Callback) /\ WF_vars(PushPublish /\ Callback)
  /\ WF_vars(StopAsk) /\ WF_vars(StopJoin)
  /\ \A c \in Conns : WF_vars(Reader(c)) /\ WF_vars(Writer(c))

Spec == Init /\ [][Next]_vars /\ Fairness

-----------------------------------------------------------------------------
Messages == {"ping", "hello-ack"}

TypeOK ==
  /\ RingTypeOK
  /\ conn \in Conns \cup {0} /\ used \in Conns \cup {0}
  /\ source \in BOOLEAN /\ stop \in BOOLEAN /\ late \in BOOLEAN
  /\ owed \in {"", "pong", "audio"}
  /\ net \in {"off", "hello", "head", "listen", "frame", "drain", "bye", "done"}
  /\ (conn = 0) = (net = "off")
  /\ number \in Numbers /\ polled \in 0 .. DrainMax
  /\ stalled \subseteq Conns
  /\ tracker \in Trackers /\ lost \in Nat /\ from \in Conns \cup {0}
  /\ \A c \in Conns :
       /\ up[c] \in Seq([kind : {"hello", "pong", "audio", "bye", "torn"}, seq : Numbers])
       /\ Len(up[c]) <= Window + 2 /\ Len(replies[c]) <= ReplyCap
       /\ \A s \in {written[c], heard[c]} : s \in Seq(Messages)
       /\ reader[c] \in {"none", "head", "read", "ended"}
       /\ writer[c] \in {"none", "on", "done"}

(* A stop loses nothing that was recorded: with a link that holds and a drain
   that meets its deadline, the bye comes after the last whole frame
   (CapturePipeline::Stop and the end of NetworkLoop). *)
DrainedBeforeBye ==
  net = "done" /\ ~late => Available < Frame /\ pushed = "idle"

(* Control packets and audio share one count, a packet that is not sent takes
   its number and a frame that is not encoded takes none: the receiver counts
   no loss within one connection, unless a send on it ran into its timeout -
   otherwise only where the next connection, which starts over, meets the
   tracker of the last. *)
LossOnlyAtReconnect ==
  [][lost' # lost => from' # from \/ from' \in stalled]_vars

(* A stop on the phone ends, even when the receiver has stopped reading. *)
StopEnds == stop /\ conn # 0 ~> conn = 0

(* Both tasks of a connection end once the phone closed it or the run is over:
   the writer that is left behind by an aborted serve task too. *)
ServeEnds ==
  \A c \in Conns : (c <= used /\ (PhoneClosed(c) \/ quit)) ~> Served(c)

(* Documented (transport.h, FdBytePipe::Recv): a poll timeout may land inside
   a packet, and the next call resumes there - no message is missed. *)
PollResumes == \A c \in Conns : IsPrefix(heard[c], written[c])
=============================================================================
