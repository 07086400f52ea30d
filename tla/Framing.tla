------------------------------ MODULE Framing ------------------------------
(***************************************************************************)
(* TcpPacketStream (openay-transport/src/tcp.rs): packets back to back on  *)
(* a byte stream.  The writer is whatever peer connected: it writes whole  *)
(* packets and, between them, may write noise.  The reader is next_packet, *)
(* called again and again: it is handed the stream in arbitrary pieces.    *)
(***************************************************************************)
EXTENDS Wire, SequencesExt

CONSTANTS
  Chunk,     \* cells one read of the socket may return
  MaxScan,   \* MAX_RESYNC_SCAN, in cells
  Noises     \* what a peer may write between two packets

ASSUME FramingAssumption ==
  /\ Chunk \in Nat \ {0} /\ MaxScan \in Nat
  /\ \A n \in Noises : n \in Seq(0 .. Byte - 1)

VARIABLES
  stream,    \* cells written and not yet read
  closed,    \* the peer shut its end down
  pending,   \* TcpPacketStream.pending
  header,    \* the header being served, << >> for none
  scanned,   \* what resync has discarded in the scan under way
  framer,    \* next_packet: "header", "payload", "resync"; how it ended:
             \* "eof" or "corrupt"
  sent,      \* history: the packets written
  got,       \* history: the packets next_packet returned
  noise      \* history: the noise written, << >> for none

writerVars == <<stream, closed, sent, noise>>
framerVars == <<pending, header, scanned, framer, got>>
framingVars == <<writerVars, framerVars>>

FramingInit ==
  /\ stream = << >> /\ closed = FALSE /\ sent = << >> /\ noise = << >>
  /\ pending = << >> /\ header = << >> /\ scanned = 0
  /\ framer = "header" /\ got = << >>

-----------------------------------------------------------------------------
(* send_packet: the packet is encoded and written in one piece. *)
WritePacket(p) ==
  /\ ~closed
  /\ stream' = stream \o Encode(p)
  /\ sent' = Append(sent, p)
  /\ UNCHANGED <<closed, noise, framerVars>>

(* Bound: one piece of noise. *)
WriteNoise(n) ==
  /\ ~closed
  /\ noise = << >>
  /\ stream' = stream \o n
  /\ noise' = n
  /\ UNCHANGED <<closed, sent, framerVars>>

Shutdown ==
  /\ ~closed
  /\ closed' = TRUE
  /\ UNCHANGED <<stream, sent, noise, framerVars>>

-----------------------------------------------------------------------------
(* How many cells must be pending for the next step. *)
Wanted == CASE framer = "header"  -> HEADER_LEN
            [] framer = "payload" -> header[4]
            [] framer = "resync"  -> 1
            [] OTHER              -> 0

(* pull_up_to, and the read of resync: any piece of what is there, *)
Read(n) ==
  /\ Len(pending) < Wanted
  /\ n <= Len(stream)
  /\ pending' = pending \o SubSeq(stream, 1, n)
  /\ stream' = SubSeq(stream, n + 1, Len(stream))
  /\ UNCHANGED <<closed, sent, noise, header, scanned, framer, got>>

(* ... or the end of the stream.  In a scan it means that no magic byte was
   found. *)
ReadEnd ==
  /\ Len(pending) < Wanted
  /\ stream = << >> /\ closed
  /\ framer' = IF framer = "resync" THEN "corrupt" ELSE "eof"
  /\ UNCHANGED <<writerVars, pending, header, scanned, got>>

(* Mutation: the whole buffer is given up with a header that is none. *)
AfterBadHeader == << >>

(* What is left of the buffer once a header is taken, good or bad. *)
AfterHeader == SubSeq(pending, HEADER_LEN + 1, Len(pending))

TakeHeader ==
  LET taken == SubSeq(pending, 1, HEADER_LEN)
      is(verdict) == HeaderOf(taken) = verdict
  IN  /\ framer = "header"
      /\ Len(pending) >= HEADER_LEN
      /\ framer' = CASE is("BadMagic") -> "resync"
                     [] is("ReservedType") -> "corrupt"
                     [] OTHER -> "payload"
      /\ pending' = IF is("ReservedType") THEN pending ELSE AfterHeader
      /\ header' = IF is("ok") THEN taken ELSE << >>
      /\ scanned' = 0
      /\ UNCHANGED <<writerVars, got>>

(* Mutation: bytes read past the packet are dropped with it. *)
AfterPayloadNothing == << >>

AfterPayload == SubSeq(pending, header[4] + 1, Len(pending))

TakePayload ==
  /\ framer = "payload"
  /\ Len(pending) >= header[4]
  /\ got' = Append(got, PacketOf(header, SubSeq(pending, 1, header[4])))
  /\ pending' = AfterPayload
  /\ header' = << >>
  /\ framer' = "header"
  /\ UNCHANGED <<writerVars, scanned>>

Magics == {i \in 1 .. Len(pending) : pending[i] = MAGIC}

FromMagic(i) == SubSeq(pending, i, Len(pending))

(* resync: the first magic byte in the window, ... *)
FindMagic ==
  /\ framer = "resync"
  /\ Magics # {}
  /\ LET i == CHOOSE j \in Magics : \A k \in Magics : j <= k
     IN  /\ scanned' = scanned + i - 1
         /\ IF scanned' > MaxScan
              THEN framer' = "corrupt" /\ UNCHANGED pending
              ELSE framer' = "header" /\ pending' = FromMagic(i)
  /\ UNCHANGED <<writerVars, header, got>>

(* ... or nothing that the scan could start from: all of it is discarded. *)
DiscardAll ==
  /\ framer = "resync"
  /\ Magics = {} /\ pending # << >>
  /\ scanned' = scanned + Len(pending)
  /\ pending' = << >>
  /\ framer' = IF scanned' >= MaxScan THEN "corrupt" ELSE "resync"
  /\ UNCHANGED <<writerVars, header, got>>

FramerStep == TakeHeader \/ TakePayload \/ FindMagic \/ DiscardAll

FramerReads == ReadEnd \/ \E n \in 1 .. Chunk : Read(n)

-----------------------------------------------------------------------------
FramingTypeOK ==
  /\ closed \in BOOLEAN
  /\ framer \in {"header", "payload", "resync", "eof", "corrupt"}
  /\ stream \in Seq(0 .. Byte - 1) /\ pending \in Seq(0 .. Byte - 1)
  /\ Len(header) = IF framer = "payload" THEN HEADER_LEN ELSE 0
  /\ scanned \in Nat

(* Noise that the scan skips to the byte: at least a header long (a bad
   header is dropped as a whole, with the magic byte that may be in it),
   short enough for the window, and without a magic byte. *)
Skippable(n) ==
  /\ Len(n) >= HEADER_LEN
  /\ Len(n) - HEADER_LEN < MaxScan
  /\ MAGIC \notin Range(n)

(* Framing is exact: a payload byte that looks like a magic byte, noise that
   ends in the middle of a read, packets split anywhere - next_packet returns
   what was sent, in order, and gives up only where the stream ends.  (The
   length field holds no payload of 2^16 bytes.) *)
FramesAreExact ==
  /\ noise = << >> \/ Skippable(noise)
  /\ \A i \in 1 .. Len(sent) : Len(sent[i].payload) < LenWord
  => /\ IsPrefix(got, sent)
     /\ framer = "eof" => got = sent
     /\ framer = "corrupt" => closed /\ stream = << >> /\ got = sent
=============================================================================
