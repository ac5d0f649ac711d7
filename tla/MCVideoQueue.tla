---------------------------- MODULE MCVideoQueue ----------------------------
(***************************************************************************)
(* Instances of VideoQueue for TLC; the configurations give the constants  *)
(* their values.                                                           *)
(***************************************************************************)
EXTENDS VideoQueue
=============================================================================
