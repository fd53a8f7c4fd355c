--------------------------- MODULE MCControlPlane ---------------------------
(* ControlPlane for TLC; every instance is given by its .cfg alone.        *)
EXTENDS ControlPlane
=============================================================================
