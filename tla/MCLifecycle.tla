---------------------------- MODULE MCLifecycle ----------------------------
(***************************************************************************)
(* Lifecycle.tla with a small file: two video streams and one audio, or    *)
(* two audio streams alone.                                                *)
(***************************************************************************)
EXTENDS Lifecycle, TLC

MCFile == 0 :> "video" @@ 1 :> "video" @@ 2 :> "audio"
MCTwoAudio == 0 :> "audio" @@ 1 :> "audio"
=============================================================================
