------------------------------ MODULE MCAvSync ------------------------------
(***************************************************************************)
(* AvSync.tla with thresholds in ticks of the refresh loop, pictures of a   *)
(* length that is doubled and of one that is extended, and a start on       *)
(* either side of the sound by more than a threshold.                       *)
(***************************************************************************)
EXTENDS AvSync

MCLeads == {-4, 4}
MCGaps  == {2, 4}
=============================================================================
