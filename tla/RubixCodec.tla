------------------------------- MODULE RubixCodec -------------------------------
(***************************************************************************)
(* codecs/rubixDataEncoding: points packed into a frame without gaps, each *)
(* as a header (an optional position byte, then a six-bit key) and a value *)
(* whose width the key determines; and DecodeRubix, which unpacks them.    *)
(*                                                                         *)
(* A buffer is a sequence of bits, most significant bit of each byte       *)
(* first.  A fixed point value is an integer, in units of its last         *)
(* decimal; any other value is the sequence of its bits.  One message is   *)
(* built point by point and then decoded, one header and value at a time.  *)
(***************************************************************************)
EXTENDS Integers, SequencesExt

CONSTANTS
    Samples,     \* points to write: an IoNumber <<type, number>>, a key, a value
    MaxPoints    \* bound: points in one message

VARIABLES
    positional,   \* bit 0 of the first byte: every header has a position
    buffer,       \* the bits of the message, a whole number of bytes
    writeBitPos,  \* WriteBitPos: 8 at first, then the next bit modulo 8
    readBitPos,   \* ReadBitPos
    phase,        \* "encode", "decode" or "done"
    sent,         \* the points EncodeData has put in the message
    received      \* the points DecodeRubix has passed to its callback

vars == <<positional, buffer, writeBitPos, readBitPos, phase, sent, received>>

-------------------------------------------------------------------------------
(* serialMap.                                                                *)

Fixed(low, high, decimals) ==
    [low |-> low * 10 ^ decimals, high |-> high * 10 ^ decimals]

FixedPoint ==
    [temp |-> Fixed(-45, 120, 2), rh |-> Fixed(0, 100, 2), lux |-> Fixed(0, 65534, 0),
     movement |-> Fixed(0, 1, 0), count |-> Fixed(0, 1048576, 0),
     digital |-> Fixed(0, 1, 0), voltage |-> Fixed(0, 10, 2),
     milliamps |-> Fixed(4, 20, 2), ohm |-> Fixed(0, 1048576, 0),
     co2 |-> Fixed(0, 400, 0), battery |-> Fixed(0, 6, 1), push |-> Fixed(0, 2000, 0),
     ai_raw |-> Fixed(0, 1, 3), fw |-> Fixed(0, 255, 0), hw |-> Fixed(0, 255, 0),
     bool |-> Fixed(0, 1, 0)]

ByteCount ==
    [uint_8 |-> 1, int_8 |-> 1, uint_16 |-> 2, int_16 |-> 2, uint_32 |-> 4,
     int_32 |-> 4, uint_64 |-> 8, int_64 |-> 8, char |-> 1, float |-> 4,
     double |-> 8, error |-> 1]

FixedKeys == DOMAIN FixedPoint
DataKeys  == DOMAIN ByteCount
Keys      == FixedKeys \union DataKeys

KeyCode ==
    [temp |-> 1, rh |-> 2, lux |-> 3, movement |-> 4, count |-> 5, digital |-> 6,
     voltage |-> 7, milliamps |-> 8, ohm |-> 10, co2 |-> 11, battery |-> 12,
     push |-> 13, ai_raw |-> 16, uint_8 |-> 30, int_8 |-> 31, uint_16 |-> 32,
     int_16 |-> 33, uint_32 |-> 34, int_32 |-> 35, uint_64 |-> 36, int_64 |-> 37,
     bool |-> 38, char |-> 39, float |-> 40, double |-> 41, error |-> 43,
     fw |-> 61, hw |-> 62]

\* MetaDataKey.String: every key that is not listed is "unknown".
KeyName(code) == IF \E k \in Keys : KeyCode[k] = code
                 THEN CHOOSE k \in Keys : KeyCode[k] = code ELSE "unknown"

-------------------------------------------------------------------------------
(* Bits.                                                                     *)

Bits(v, n) == [k \in 1..n |-> (v \div 2 ^ (n - k)) % 2]
Zeros(n)   == [k \in 1..n |-> 0]
Number(bs) == FoldLeft(LAMBDA v, b : 2 * v + b, 0, bs)

BitCountBelow(range) ==  \* Defect: a bit short for most ranges.
    CHOOSE b \in 1..30 : (range = 1 \/ 2 ^ b <= range) /\ 2 ^ (b + 1) > range

\* getBitCount: the least b >= 1 with 2 ^ b >= high - low.
BitCountFor(range) == CHOOSE b \in 1..30 :
                         2 ^ b >= range /\ \A c \in 1..(b - 1) : 2 ^ c < range

BitCount(key) == IF key \in FixedKeys
                 THEN BitCountFor(FixedPoint[key].high - FixedPoint[key].low)
                 ELSE 8 * ByteCount[key]

-------------------------------------------------------------------------------
(* EncodeData.                                                               *)

Clamp(v, low, high) == IF v < low THEN low ELSE IF v > high THEN high ELSE v

\* fixedPointToBits and bitsToVector, whose shift drops what does not fit.
FixedPointToBits(key, v) ==
    LET m == FixedPoint[key] IN Bits(Clamp(v, m.low, m.high) - m.low, BitCount(key))

DataBits(key, v) == IF key \in FixedKeys THEN FixedPointToBits(key, v) ELSE v

PadTo8(n) == (8 - (n % 8)) % 8

\* reshapeVector: bitCount bits at offset pos of their first byte.
ReshapeVector(pos, bits) ==
    Zeros(pos) \o bits \o Zeros(PadTo8(pos + Len(bits)))

\* The first byte is or'ed to the last one of the buffer.
MergeByte(old, new) == [k \in 1..8 |-> IF old[k] = 1 \/ new[k] = 1 THEN 1 ELSE 0]

NextPos(pos, n) == (pos + (n % 8)) % 8

\* addVectorToBuffer, on a buffer and its WriteBitPos.
AddVectorToBuffer(b, bits) ==
    LET v == ReshapeVector(b.pos, bits)
        n == Len(b.bits)
    IN  [bits |-> IF b.pos = 0 THEN b.bits \o v
                  ELSE SubSeq(b.bits, 1, n - 8)
                       \o MergeByte(SubSeq(b.bits, n - 7, n), SubSeq(v, 1, 8))
                       \o SubSeq(v, 9, Len(v)),
         pos  |-> NextPos(b.pos, Len(bits))]

TypeCode ==
    [UO |-> 1, DO |-> 2, UI |-> 3, DI |-> 4, UVP |-> 5, UVP2 |-> 6, DVP |-> 7]

\* getPosition: UVP points above 32 have a type of their own.
GetPosition(name) ==
    LET second == name[1] = "UVP" /\ name[2] > 32
    IN  32 * TypeCode[IF second THEN "UVP2" ELSE name[1]]
        + name[2] - 1 - (IF second THEN 32 ELSE 0)

Header(pt) == (IF positional THEN Bits(GetPosition(pt.name), 8) ELSE <<>>)
              \o Bits(KeyCode[pt.key], 6)

Init ==
    /\ positional \in BOOLEAN
    /\ buffer = Bits(IF positional THEN 1 ELSE 0, 8)
    /\ writeBitPos = 8
    /\ readBitPos = 8
    /\ phase = "encode"
    /\ sent = <<>>
    /\ received = <<>>

\* A point has an IoNumber getPosition accepts, and a value of the type of its key.
Names == ((DOMAIN TypeCode \ {"UVP2"}) \X (1..32)) \union ({"UVP"} \X (33..64))

ASSUME SamplesAssumption ==
    \A pt \in Samples :
        /\ pt.name \in Names
        /\ pt.key \in FixedKeys => pt.data \in Int
        /\ pt.key \in DataKeys => pt.data \in [1..BitCount(pt.key) -> {0, 1}]

\* One round of the loop of EncodeRequestMessage, or the same in a device.  The
\* loop ignores the result of an EncodeData that fails before it writes, as for a
\* key that is not in serialMap: the point is left out of the message, which may
\* be empty.
EncodeData(pt) ==
    /\ phase = "encode"
    /\ Len(sent) < MaxPoints
    /\ IF pt.key \in Keys
       THEN LET header == AddVectorToBuffer([bits |-> buffer, pos |-> writeBitPos],
                                            Header(pt))
                whole  == AddVectorToBuffer(header, DataBits(pt.key, pt.data))
            IN  buffer' = whole.bits /\ writeBitPos' = whole.pos /\ sent' = Append(sent, pt)
       ELSE UNCHANGED <<buffer, writeBitPos, sent>>
    /\ UNCHANGED <<positional, readBitPos, phase, received>>

Transmit ==
    /\ phase = "encode"
    /\ phase' = "decode"
    /\ UNCHANGED <<positional, buffer, writeBitPos, readBitPos, sent, received>>

-------------------------------------------------------------------------------
(* DecodeRubix.                                                              *)

\* canDecode: the rest is longer than a key, though not than a whole header.
CanDecode == readBitPos < Len(buffer) - 6

\* getVector and vectorToBits: what lies past the end reads as zero.
BitsAt(pos, n) == IF pos + n > Len(buffer) THEN Zeros(n)
                  ELSE SubSeq(buffer, pos + 1, pos + n)

TypeOf(code) == CHOOSE t \in DOMAIN TypeCode : TypeCode[t] = code

\* generateFieldName after parsePosition.
PositionName(byte) ==
    LET t == byte \div 32
        n == (byte % 32) + 1
    IN  IF TypeOf(t) = "UVP2" THEN <<"UVP", n + 32>> ELSE <<TypeOf(t), n>>

FieldName(code, byte) ==
    IF byte \div 32 = 0 THEN <<KeyName(code), (byte % 32) + 1>> ELSE PositionName(byte)

\* MDK_DOUBLE is encoded, but no case of decodePointRubix takes it.
Decodable == Keys \ {"double"}

\* decodePointRubix: a key without a case, or none, has value 0 and no bits.  An
\* error code other than none goes to a callback of its own, with its point.
Value(key, pos) ==
    IF key \in FixedKeys
    THEN Number(BitsAt(pos, BitCount(key))) + FixedPoint[key].low
    ELSE BitsAt(pos, BitCount(key))

\* One round of the loop: parseMetaData, decodePointRubix, the callback.
DecodePoint ==
    /\ phase = "decode"
    /\ CanDecode
    /\ LET keyPos == readBitPos + (IF positional THEN 8 ELSE 0)
           byte   == IF positional THEN Number(BitsAt(readBitPos, 8)) ELSE Len(received)
           code   == Number(BitsAt(keyPos, 6))
           key    == KeyName(code)
           known  == key \in Decodable
       IN  /\ received' = Append(received,
                  [name  |-> IF positional THEN FieldName(code, byte) ELSE <<key, byte + 1>>,
                   value |-> IF known THEN Value(key, keyPos + 6) ELSE 0])
           /\ readBitPos' = keyPos + 6 + (IF known THEN BitCount(key) ELSE 0)
    /\ UNCHANGED <<positional, buffer, writeBitPos, phase, sent>>

DecodeEnds ==
    /\ phase = "decode"
    /\ ~CanDecode
    /\ phase' = "done"
    /\ UNCHANGED <<positional, buffer, writeBitPos, readBitPos, sent, received>>

Next == \/ \E pt \in Samples : EncodeData(pt)
        \/ Transmit \/ DecodePoint \/ DecodeEnds

Spec == Init /\ [][Next]_vars

-------------------------------------------------------------------------------
(* Properties.                                                               *)

\* The bits of the message, padding not counted.
Used == FoldLeft(LAMBDA n, pt : n + Len(Header(pt)) + BitCount(pt.key), 8, sent)

\* What should arrive as the k-th point: its name, and its value clamped to the
\* range of the key.
Expected(pt, k) ==
    [name  |-> IF positional THEN pt.name ELSE <<pt.key, k>>,
     value |-> IF pt.key \in DataKeys THEN pt.data
               ELSE Clamp(pt.data, FixedPoint[pt.key].low, FixedPoint[pt.key].high)]

Readable == \A k \in 1..Len(sent) : sent[k].key # "double"

\* The highest value of a range that is a power of two.
Overflows(pt) ==
    /\ pt.key \in FixedKeys
    /\ pt.data >= FixedPoint[pt.key].high
    /\ \E b \in 1..30 : FixedPoint[pt.key].high - FixedPoint[pt.key].low = 2 ^ b

\* A message is decoded into the points it was encoded from, in order, with their
\* names, and their values clamped to the range of the key, whatever stands before
\* them in the message (EncodeData, DecodeRubix).  A double puts the decoder out of
\* step, which Readable excludes; of a value that Overflows only the name is
\* promised, and behind seven bits of padding one more point may come: ArrivesAsSent
\* makes neither exception.
RoundTrip ==
    phase = "done" /\ Readable =>
        /\ Len(received) >= Len(sent)
        /\ Len(received) <= Len(sent) + (IF Used % 8 = 1 THEN 1 ELSE 0)
        /\ \A k \in 1..Len(sent) :
              /\ received[k].name = Expected(sent[k], k).name
              /\ Overflows(sent[k]) \/ received[k].value = Expected(sent[k], k).value

\* What is received is what was sent.  The code violates it twice: getBitCount, the
\* "number of bits required to fit number" (decoder.go:64), is one bit short for a
\* range that is a power of two, so that its highest value arrives as the lowest;
\* and canDecode takes seven bits of padding for the header of a point that "Should
\* not decode" (decoder_test.go:176).
ArrivesAsSent ==
    phase = "done" /\ Readable =>
        received = [k \in 1..Len(sent) |-> Expected(sent[k], k)]
===============================================================================
