---------------------------- MODULE MCCommutePage ----------------------------
(* CommutePage for TLC: two lists of alerts, two trips.                      *)
EXTENDS CommutePage
=============================================================================
