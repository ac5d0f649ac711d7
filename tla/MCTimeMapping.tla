---------------------------- MODULE MCTimeMapping ----------------------------
(***************************************************************************)
(* Instances of TimeMapping for TLC: a window of two samples that is full  *)
(* soon, and offsets far enough apart for a mapping to be approached       *)
(* (distance 3) and to be adopted at once (4).                             *)
(***************************************************************************)
EXTENDS TimeMapping
=============================================================================
