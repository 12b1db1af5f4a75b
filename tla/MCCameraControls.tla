-------------------------- MODULE MCCameraControls --------------------------
(* Bitrates in units of 100 kbps. *)
EXTENDS CameraControls

MCTierRate == [NORMAL |-> 25, HOT |-> 10]

=============================================================================
