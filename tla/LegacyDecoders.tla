----------------------------- MODULE LegacyDecoders -----------------------------
(***************************************************************************)
(* codecs/legacyDecoders: what becomes of a payload of n bytes when it is  *)
(* decoded as a packet of a ZipHydroTap, or as a frame of a MicroEdge or a *)
(* Droplet.  A decoder reads fixed fields one after the other.  Those of   *)
(* the ZipHydroTap slice the payload after a test of its length, and would *)
(* panic past its end; the others test each field.  The values are left    *)
(* out: a decoder is the bytes it asks for and the bytes it reads.         *)
(***************************************************************************)
EXTENDS Integers

Types    == {"static", "write", "poll"}
Versions == 1..2            \* 2 stands for every version from 2 on
Legacy   == {"MicroEdge", "Droplet"}

\* Callbacks made: for "points" or meta "tags", for "some" of the points only,
\* for "none", or none because the decoder panics.
Outcomes == {"points", "tags", "some", "none", "panic"}

\* ZHTPlLenStaticV1 to ZHTPlLenPollV2, with the byte of the type.
ZHTPlLen == [static |-> <<97, 102>>, write |-> <<51, 66>>, poll |-> <<40, 47>>]

CheckPayloadLengthZHT(type, version, n) ==
    type \in Types /\ version \in Versions /\ n = ZHTPlLen[type][version]

\* What the three decoders ask for before they read, and read: the version, and
\* the fields of version 1 in the order of the code.
MinLengthByComment ==  \* Defect: static frames as ziphydrotap.go:313 counts them.
    [static |-> 89, write |-> 22 + 7 * 4, poll |-> 39]
MinLength == [static |-> 96, write |-> 22 + 7 * 4, poll |-> 39]
Fields    == [static |-> 1 + 4 + 15 + 3 * 20 + 3 * 3 + 2 + 3 + 2,
              write  |-> 1 + 4 + 3 + 2 + 2 + 1 + 3 + 3 + 1 + 2 + 7 * (2 + 2),
              poll   |-> 1 + 1 + 4 * 2 + 4 + 4 + 6 * 2 + 1 + 4 * 2]

\* The same for the fields that version 2 has added.
V2Length == [static |-> 5, write |-> 15, poll |-> 7]
V2Fields == [static |-> 3 + 2, write |-> 2 + 1 + 2 + 1 + 1 + 2 + 2 + 2 + 2,
             poll |-> 2 + 2 + 2 + 1]

\* The timers are published before the length of version 2 is tested.
PublishedEarlyAlways(type) == "some"  \* Defect: so is version 1 of a poll.
PublishedEarly(type) == IF type = "write" THEN "some" ELSE "none"

\* The version and the fields, without the byte of the type.
DecodeInner(type, version, n) ==
    IF n < MinLength[type] THEN "none"
    ELSE IF n < Fields[type] THEN "panic"
    ELSE IF version = 2 /\ n < Fields[type] + V2Length[type] THEN PublishedEarly(type)
    ELSE IF version = 2 /\ n < Fields[type] + V2Fields[type] THEN "panic"
    ELSE IF type = "static" THEN "tags" ELSE "points"

\* A payload without a type and a version, and another type, are nothing.
DecodeZHT(type, version, n) ==
    IF n < 2 \/ type \notin Types THEN "none" ELSE DecodeInner(type, version, n - 1)

\* Address, pulses, voltage and three inputs; or address, temperature, pressure,
\* humidity with motion, light and voltage.
LegacyFields == [MicroEdge |-> 4 + 4 + 1 + 3 * 2, Droplet |-> 4 + 2 + 2 + 1 + 2 + 1]

\* A field that is not there makes its point faulty, and ends the decoder.
DecodeLegacy(model, n) == IF n < LegacyFields[model] THEN "some" ELSE "points"

\* 32, 36 or 44 hexadecimal digits, for both.
LengthLegacy(n) == n \in {16, 18, 22}
=================================================================================
