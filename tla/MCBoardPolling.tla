--------------------------- MODULE MCBoardPolling ---------------------------
(* A small instance of BoardPolling for TLC. *)
EXTENDS BoardPolling
=============================================================================
