-------------------------- MODULE MCCaptureThread --------------------------
(***************************************************************************)
(* Instances of CaptureThread for TLC; the configurations give the         *)
(* constants their values.                                                 *)
(***************************************************************************)
EXTENDS CaptureThread
=============================================================================
