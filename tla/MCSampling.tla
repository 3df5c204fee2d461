----------------------------- MODULE MCSampling -----------------------------
(* Small instances of Sampling for TLC. *)
EXTENDS Sampling
=============================================================================
