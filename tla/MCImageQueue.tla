---------------------------- MODULE MCImageQueue ----------------------------
(* Small instances of ImageQueue for TLC. *)
EXTENDS ImageQueueLifecycle

CONSTANTS i1, i2, loop, manual
=============================================================================
