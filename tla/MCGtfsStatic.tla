---------------------------- MODULE MCGtfsStatic ----------------------------
(* GtfsStatic for TLC: two handlers, two parts, two attempts a round.        *)
EXTENDS GtfsStatic
=============================================================================
