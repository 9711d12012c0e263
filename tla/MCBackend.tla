----------------------------- MODULE MCBackend -----------------------------
(***************************************************************************)
(* Small instances of BackendProtection.                                   *)
(***************************************************************************)
EXTENDS BackendProtection, TLC

Symmetry == Permutations(Dialers)
=============================================================================
