----------------------------- MODULE MCPlayback -----------------------------
(***************************************************************************)
(* Playback.tla with one or two streams and a file of a few packets.       *)
(***************************************************************************)
EXTENDS Playback

CONSTANTS audio, video

MCOne == {video}
MCTwo == {audio, video}
=============================================================================
