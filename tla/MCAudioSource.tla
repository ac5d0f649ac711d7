---------------------------- MODULE MCAudioSource ----------------------------
(***************************************************************************)
(* Instances of AudioSource for TLC.  A sample takes two and a half ticks, *)
(* a frame five, so that times between samples occur and are rounded.      *)
(***************************************************************************)
EXTENDS AudioSource
=============================================================================
