----------------------------- MODULE MCControl -----------------------------
(***************************************************************************)
(* Control.tla with a user of few keys.                                    *)
(***************************************************************************)
EXTENDS Control
=============================================================================
