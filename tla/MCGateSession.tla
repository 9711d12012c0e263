--------------------------- MODULE MCGateSession ---------------------------
(***************************************************************************)
(* A small instance of GateSession.                                        *)
(***************************************************************************)
EXTENDS GateSession

CONSTANTS c1, c2, c3
=============================================================================
