------------------------------ MODULE MCBroker ------------------------------
(* Broker for TLC: two connections, two subjects, one-place channels.        *)
EXTENDS Broker
=============================================================================
