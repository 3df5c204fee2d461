--------------------------- MODULE MCBleCollector ---------------------------
(* Small instances of BleCollector for TLC. *)
EXTENDS BleCollector, TLC

\* Scan threads are alike; for safety only.
Symmetry == Permutations(Threads)
=============================================================================
