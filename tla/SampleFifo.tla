----------------------------- MODULE SampleFifo -----------------------------
(***************************************************************************)
(* What openay-jitter's ring promises its two callers: a bounded queue of  *)
(* samples that keeps what fits of each block, in order and once, and      *)
(* counts one overrun for each block it could not keep whole.  A sample is *)
(* the position it had in the stream offered to push.                      *)
(***************************************************************************)
EXTENDS Naturals, Sequences

CONSTANTS Capacity,   \* samples the queue holds
          MaxBlock    \* samples in the longest block offered or taken

VARIABLES queue,      \* samples accepted and not yet taken
          delivered,  \* samples taken so far, oldest first
          last,       \* position of the last sample offered
          overruns    \* blocks that were not kept whole

vars == <<queue, delivered, last, overruns>>

(* The k positions after p, as a block. *)
Block(p, k) == [i \in 1 .. k |-> p + i]

Init ==
  /\ queue = <<>>
  /\ delivered = <<>>
  /\ last = 0
  /\ overruns = 0

(* A block of len samples is offered and its first k are kept. *)
Put(len, k) ==
  /\ k \leq Capacity - Len(queue)
  /\ queue' = queue \o Block(last, k)
  /\ last' = last + len
  /\ overruns' = IF k < len THEN overruns + 1 ELSE overruns
  /\ UNCHANGED delivered

(* The k oldest samples are taken. *)
Take(k) ==
  /\ k \leq Len(queue)
  /\ delivered' = delivered \o SubSeq(queue, 1, k)
  /\ queue' = SubSeq(queue, k + 1, Len(queue))
  /\ UNCHANGED <<last, overruns>>

Next ==
  \/ \E len \in 1 .. MaxBlock : \E k \in 0 .. len : Put(len, k)
  \/ \E k \in 1 .. MaxBlock : Take(k)

Spec == Init /\ [][Next]_vars
=============================================================================
