--------------------------- MODULE MCDesktopEngine ---------------------------
(* DesktopEngine for TLC: two Initialize calls and a jitter buffer of two. *)
EXTENDS DesktopEngine
=============================================================================
