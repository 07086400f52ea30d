-------------------------------- MODULE Wire --------------------------------
(***************************************************************************)
(* The wire format (openay-protocol/src/lib.rs) and the test filler of the *)
(* interop tools.  The wire is a sequence of cells: a byte each, but for   *)
(* the two-byte fields of the header, the sequence number and the payload  *)
(* length, which are one cell each.                                        *)
(***************************************************************************)
EXTENDS Naturals, Sequences

CONSTANTS
  SeqWord,   \* 2^16, for the sequence number
  LenWord,   \* 2^16, for the payload length
  Byte       \* 2^8

ASSUME WireAssumption ==
  /\ SeqWord \in Nat /\ SeqWord > 1
  /\ LenWord \in Nat /\ LenWord > 1
  /\ Byte \in Nat /\ Byte > 7

MAGIC == 7          \* 0xA7: any value a payload byte may also have
HEADER_LEN == 4     \* in cells; 6 bytes

Kinds == {"pcm", "opus", "control"}
Tag == [k \in Kinds |-> CASE k = "pcm" -> 0 [] k = "opus" -> 1 [] OTHER -> 2]
Reserved(tag) == tag \notin {0, 1, 2}
KindOf(tag) == CHOOSE k \in Kinds : Tag[k] = tag

(* Mutation: the length of the whole packet goes into the header. *)
EncodeWhole(p) ==
  <<MAGIC, Tag[p.kind], p.seq, (Len(p.payload) + HEADER_LEN) % LenWord>> \o p.payload

(* The length is cast to u16. *)
Encode(p) ==
  <<MAGIC, Tag[p.kind], p.seq, Len(p.payload) % LenWord>> \o p.payload

(* What the framing makes of a header: "BadMagic", "ReservedType" or "ok". *)
HeaderOf(cells) ==
  IF cells[1] # MAGIC THEN "BadMagic"
  ELSE IF Reserved(cells[2]) THEN "ReservedType" ELSE "ok"

(* The packet a header announces, once its payload is there. *)
PacketOf(header, payload) ==
  [kind |-> KindOf(header[2]), seq |-> header[3], payload |-> payload]

ExactLength(cells) == Len(cells) = HEADER_LEN + cells[4]

(* decode: one datagram is one packet, to the byte. *)
Decodes(cells) ==
  /\ Len(cells) >= HEADER_LEN
  /\ HeaderOf(cells) = "ok"
  /\ ExactLength(cells)

Decode(cells) ==
  PacketOf(SubSeq(cells, 1, HEADER_LEN), SubSeq(cells, HEADER_LEN + 1, Len(cells)))

(* fill_xorshift: bytes that are a function of the seed and the position; the
   seed 0 gives zeros, and a magic byte is among them. *)
Filler(seed, size) == [i \in 1 .. size |-> (seed * (i + MAGIC - 1)) % Byte]
=============================================================================
