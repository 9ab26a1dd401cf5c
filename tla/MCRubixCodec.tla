------------------------------ MODULE MCRubixCodec ------------------------------
(* Instances of RubixCodec for TLC. *)
EXTENDS RubixCodec

\* Both ends of each range, and what is beyond it; alternating and constant bits.
SampleData(key) ==
    IF key \in FixedKeys
    THEN LET m == FixedPoint[key] IN {m.low - 1, m.high - 1, m.high}
    ELSE {[k \in 1..BitCount(key) |-> IF k % 3 = 0 THEN 1 ELSE 0],
          [k \in 1..BitCount(key) |-> 1]}

SamplesOf(names, keys) ==
    UNION {[name : names, key : {key}, data : SampleData(key)] : key \in keys}

\* Every key, with a point of the second block of UVP points.
EveryKey == SamplesOf({<<"UVP", 64>>}, Keys)

\* Keys of one, ten and fourteen bits under several names.
SomeKeys == SamplesOf({<<"UO", 1>>, <<"DVP", 32>>}, {"digital", "voltage", "rh"})

\* A point whose type is not in serialMap.
Unlisted == [name |-> <<"UO", 2>>, key |-> "unlisted", data |-> 0]

AllSamples == EveryKey \union SomeKeys \union {Unlisted}
=================================================================================
