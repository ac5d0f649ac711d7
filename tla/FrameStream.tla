---------------------------- MODULE FrameStream ----------------------------
(***************************************************************************)
(* What the capture thread promises the two sources it calls: a stream of  *)
(* captures, each of which the video callback gets first, as a frame, and  *)
(* the audio callback next, as a packet with the same number and marks.    *)
(* Numbers grow; one that is left out is announced by the mark of the next *)
(* frame, though a mark may also come without a gap.  A new stream starts  *)
(* only after the packet of the last frame.                                *)
(***************************************************************************)
EXTENDS Integers

VARIABLES
  frame,   \* the capture the video callback got last; its number is -1 before
  packet   \* the capture the audio callback got last

vars == <<frame, packet>>

Nothing == [number |-> -1, dropped |-> FALSE, signal |-> FALSE]

Captures == [number : Nat, dropped : BOOLEAN, signal : BOOLEAN]

Init == frame = Nothing /\ packet = Nothing

Frame ==
  /\ packet = frame
  /\ frame' \in Captures
  /\ frame'.number > frame.number
  /\ frame'.number > frame.number + 1 => frame'.dropped
  /\ UNCHANGED packet

Packet ==
  /\ packet # frame
  /\ packet' = frame
  /\ UNCHANGED frame

Restart ==
  /\ packet = frame
  /\ frame' = Nothing
  /\ packet' = Nothing

Next == Frame \/ Packet \/ Restart

Spec == Init /\ [][Next]_vars
=============================================================================
