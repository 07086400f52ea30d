----------------------------- MODULE MCLoopback -----------------------------
(* The noise of Loopback's instance: a garbage header, garbage that the scan
   goes through to its window's end, garbage too short for a header, and
   garbage with a magic byte in it. *)
EXTENDS Loopback

MCNoises == {<<1, 2, 0, 0>>, <<0, 3, 1, 1, 6, 5>>, <<5>>, <<7, 4>>}
=============================================================================
