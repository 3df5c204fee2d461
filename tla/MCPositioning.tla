--------------------------- MODULE MCPositioning ---------------------------
(* A small instance of Positioning for TLC. *)
EXTENDS Positioning

CONSTANTS d1, d2

Heard(d, rssi) == [device |-> d, rssi |-> rssi]

\* Two points that are alike and, between them, one so near to d1 that what
\* is heard elsewhere is ignored there: its similarity is not a number.  The
\* last is the first once more, so that two points are equally similar.
Sampled == << d1 :> -50 @@ d2 :> -80, d1 :> -25, d1 :> -40 @@ d2 :> -70,
              d1 :> -50 @@ d2 :> -80 >>

\* Nothing; just the first point; near the third; far from all of them.
Scans == { << >>,
           <<Heard(d1, -50), Heard(d2, -80)>>,
           <<Heard(d1, -40), Heard(d2, -72)>>,
           <<Heard(d1, -100)>> }
=============================================================================
