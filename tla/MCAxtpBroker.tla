---------------------------- MODULE MCAxtpBroker -----------------------------
(* AxtpBroker for TLC. *)
EXTENDS AxtpBroker
=============================================================================
