--------------------------- MODULE MCAxtpEndpoint ----------------------------
(* AxtpEndpoint for TLC. *)
EXTENDS AxtpEndpoint
=============================================================================
