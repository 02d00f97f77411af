--------------------------- MODULE MCReceiptFiles ---------------------------
(* Small instances of ReceiptFiles for TLC. *)
EXTENDS ReceiptFiles, TLC

CONSTANTS v1, v2, d1, b, u, c

Symmetry == Permutations({v1, v2})
=============================================================================
