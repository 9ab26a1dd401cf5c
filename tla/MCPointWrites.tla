----------------------------- MODULE MCPointWrites -----------------------------
(* Instances of PointWrites for TLC. *)
EXTENDS PointWrites, TLC

CONSTANTS p,      \* a point
          w1, w2  \* requests

\* Two requests for one point.
TwoOfOne == (w1 :> p) @@ (w2 :> p)
===============================================================================
