--------------------------- MODULE MCControlPlane ---------------------------
(***************************************************************************)
(* Small instances of ControlPlane.                                        *)
(***************************************************************************)
EXTENDS ControlPlane, TLC

CONSTANTS p1, p2

MCNoJumps == {}
MCJumps == {-2, 2}
=============================================================================
