----------------------------- MODULE SeqTracker -----------------------------
(***************************************************************************)
(* The sequence tracker of openay-transport/src/seq.rs.  Sequence numbers  *)
(* are u16: all arithmetic is modulo Word.                                 *)
(***************************************************************************)
EXTENDS Naturals

CONSTANT Word   \* 2^16

ASSUME WordAssumption == Word \in Nat /\ Word > 1 /\ Word % 2 = 0

Numbers == 0 .. Word - 1
NoNumber == Word   \* None, for a number

Trackers == [expected : Numbers, last : Numbers \cup {NoNumber}]
NewTracker == [expected |-> 0, last |-> NoNumber]

(* seq.wrapping_sub(from) *)
Distance(seq, from) == (seq + Word - from) % Word

(* Mutation: the repeated number is looked for last, where it is already
   classified as a number from behind. *)
ClassifyLate(t, seq) ==
  IF seq = t.expected THEN "in-order"
  ELSE IF Distance(seq, t.expected) < Word \div 2 THEN "gap"
  ELSE "reorder"

Classify(t, seq) ==
  IF seq = t.expected THEN "in-order"
  ELSE IF seq = t.last THEN "duplicate"
  ELSE IF Distance(seq, t.expected) < Word \div 2 THEN "gap"
  ELSE "reorder"

(* Mutation: the distance to the last number seen. *)
MissingSinceLast(t, seq) == Distance(seq, t.expected) + 1

(* The packets a gap presumes lost. *)
Missing(t, seq) == Distance(seq, t.expected)

(* The tracker follows the number whatever it was classified as. *)
Follow(seq) == [expected |-> (seq + 1) % Word, last |-> seq]
=============================================================================
