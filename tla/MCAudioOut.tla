----------------------------- MODULE MCAudioOut -----------------------------
(***************************************************************************)
(* AudioOut.tla with frames a little shorter than the device's buffer, so   *)
(* that a callback needs one or two of them, and that 10 percent of one is  *)
(* a sample.                                                                *)
(***************************************************************************)
EXTENDS AudioOut
=============================================================================
