----------------------------- MODULE MCReceiver -----------------------------
(* Receiver with two Starts.  The two outputs, the LISTEN monitor, a Start
   that is refused and one whose transport fails at once all meet, in either
   order. *)
EXTENDS Receiver

MCAsked ==
  {Refused,
   [transport |-> "ip", output |-> "pipewire", monitor |-> TRUE],
   [transport |-> "ip", output |-> "cpal", monitor |-> FALSE],
   [transport |-> "nobt", output |-> "cpal", monitor |-> TRUE]}
=============================================================================
