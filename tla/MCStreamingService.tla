------------------------- MODULE MCStreamingService -------------------------
(* The streaming service for TLC. *)
EXTENDS StreamingService
=============================================================================
