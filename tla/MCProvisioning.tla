---------------------------- MODULE MCProvisioning ----------------------------
(* An instance of Provisioning for TLC: two requests for the same address in     *)
(* different spellings, one of them for a UART.                                  *)
EXTENDS Provisioning, TLC

CONSTANTS net, d1, d2, y, e1, k1, k2

OneHome == [d \in Devices |-> net]
Edited  == [e \in Edits |-> d1]
Spelled == (d1 :> "A") @@ (d2 :> "a")
ToUpper == ("A" :> "A") @@ ("a" :> "A")
Frames  == {<<y>>, <<y, y>>}

\* The second device is there for its address: it has no points.
PointsOfOne == /\ creating[d2] # "points" /\ rxDevice # d2 /\ userDevice # d2
               /\ \A k \in Rows : owner[k] # d2
===============================================================================
