------------------------------ MODULE MCPoller ------------------------------
(* Poller for TLC, one feed at a time: feeds share nothing but the cycle,   *)
(* and time may pass anywhere in a cycle, as other feeds would make it.     *)
EXTENDS Poller

CONSTANTS alerts, exceptions

AlertsOnly == <<alerts>>
ExceptionsOnly == <<exceptions>>
=============================================================================
