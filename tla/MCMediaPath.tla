----------------------------- MODULE MCMediaPath -----------------------------
(* Model-checking instance of MediaPath. *)
EXTENDS MediaPath
=============================================================================
