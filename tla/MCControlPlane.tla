--------------------------- MODULE MCControlPlane ---------------------------
(* The control plane on small instances: see the .cfg files for the values *)
(* of the constants.                                                       *)
EXTENDS ControlPlane
=============================================================================
