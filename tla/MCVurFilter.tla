---------------------------- MODULE MCVurFilter ----------------------------
(* Values around a rounding boundary of resolution 10.                     *)
EXTENDS VurFilter

CONSTANTS available, unavailable
============================================================================
