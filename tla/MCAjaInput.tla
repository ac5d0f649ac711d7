------------------------------ MODULE MCAjaInput ------------------------------
(***************************************************************************)
(* Instances of AjaInput for TLC: with and without an audio source, a few  *)
(* state changes of the application, two capture threads.                  *)
(***************************************************************************)
EXTENDS AjaInput
=============================================================================
