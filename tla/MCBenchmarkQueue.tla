-------------------------- MODULE MCBenchmarkQueue --------------------------
(* Small instances of BenchmarkQueue for TLC. *)
EXTENDS BenchmarkQueue

CONSTANTS m1, m2, m3
=============================================================================
