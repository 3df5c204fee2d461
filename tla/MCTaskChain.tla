----------------------------- MODULE MCTaskChain -----------------------------
(* Small instances of TaskChain for TLC. *)
EXTENDS TaskChain
=============================================================================
