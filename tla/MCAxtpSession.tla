---------------------------- MODULE MCAxtpSession ----------------------------
(* AxtpSession for TLC, and the frames that its transports carry. *)
EXTENDS AxtpSession, MCFrames
=============================================================================
