--------------------------- MODULE MCFakeHardware ---------------------------
(* An on-change property (the gear) and a continuous one (the speed) that   *)
(* may be sampled at two rates.                                             *)
EXTENDS FakeHardware

CONSTANTS gear, speed
=============================================================================
