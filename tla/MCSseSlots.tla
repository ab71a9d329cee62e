----------------------------- MODULE MCSseSlots -----------------------------
(* SseSlots for TLC: one address with two requests for one slot.             *)
EXTENDS SseSlots
=============================================================================
