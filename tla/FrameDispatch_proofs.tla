-------------------------- MODULE FrameDispatch_proofs --------------------------
(***************************************************************************)
(* Theorems of FrameDispatch, for every database, every set of frames the  *)
(* devices send, of any length, and every number of bytes lost.            *)
(***************************************************************************)
EXTENDS FrameDispatch, TLAPS

\* The device found is the one that has sent the frame, and the frame was
\* decrypted with the default key only if it was encrypted with it.
DeviceInv ==
    /\ device # NoDevice => device = rx.sent.from
    /\ device # NoDevice => (legacy <=> Hidden(rx))
    /\ phase = "lookup" => device = NoDevice /\ ~legacy
    /\ legacy => raw = "clear"

\* Before the device is handled no callback is made, and the frame is one that
\* handleSerialPayload lets through.
FreshInv ==
    phase \in {"lookup", "legacy", "describe", "handle"} =>
        out = "none" /\ path = "none" /\ ~acked /\ ~reported /\ ValidPayload(rx)

\* How the frame was read, and what is known of it then.
PathInv ==
    /\ path # "none" \/ acked \/ reported => device # NoDevice
    /\ path = "cmac" =>
          /\ rx.sent.form = "cmac" /\ Intact(rx)
          /\ out = "written" => rx.sent.opts = "response"
          /\ acked => /\ rx.sent.opts = "confirmed"
                      /\ out \in {"points", "tags"} \/ rx.sent.n = 0
    /\ path = "plain" => ~IsEncryptionShaped(rx) /\ Model \in AllowUnencrypted
    /\ path \in {"legacy", "legacy_cbc"} =>
          (legacy \/ Model \notin IsLoRaRAW) /\ Model # "other"
    /\ path = "none" => out = "none"
    /\ path # "cmac" => ~acked /\ out # "written"

\* What the decoders may end with.
OutcomeInv == NoPanic /\ AllOrNothing

\* A frame is handled only if its model has a description; when it is reported
\* it is clear, or it is not the ciphertext of a device.
ReportInv ==
    /\ phase = "handle" => Model # "other"
    /\ phase = "report" \/ reported =>
          /\ device # NoDevice /\ Model # "other"
          /\ \/ legacy
             \/ raw = "clear"
             \/ Model \notin IsLoRaRAW
             \/ ~IsEncryptionShaped(rx)

Inv == TypeOK /\ DeviceInv /\ FreshInv /\ PathInv /\ OutcomeInv /\ ReportInv

-------------------------------------------------------------------------------
(* Lengths.                                                                  *)

\* Padding makes whole blocks and no less than was padded (Encrypt).
LEMMA PaddedBounds ==
    ASSUME NEW k \in Nat
    PROVE  Padded(k) \in Nat /\ Padded(k) >= k /\ Padded(k) % 16 = 0
    BY SMT DEF Padded

\* A frame is one a device sends, with what the radio did to it.
LEMMA ReceivedType ==
    ASSUME NEW f \in Received
    PROVE  /\ f.sent \in Sent
           /\ f.sent.from \in Devices /\ f.sent.form \in Forms
           /\ f.sent.opts \in Opts /\ f.sent.n \in Nat
           /\ f.noise \in {"none", "address", "body"}
           /\ f.lost \in Nat
           /\ f.type \in Types \union {"error"} /\ f.version \in Versions
    BY SentAssumption, LostAssumption DEF Received

\* The shape guard lets no ciphertext pass that is whole (isEncryptionShaped).
LEMMA CiphertextIsShaped ==
    ASSUME NEW f \in Received, f.sent.form = "cmac", f.lost = 0
    PROVE  IsEncryptionShaped(f)
<1>1. f.sent.n \in Nat
    BY ReceivedType
<1>2. /\ Padded(f.sent.n + 3) \in Nat /\ Padded(f.sent.n + 3) >= f.sent.n + 3
      /\ Padded(f.sent.n + 3) % 16 = 0
    BY <1>1, PaddedBounds
<1>3. Bytes(f) = 4 + Padded(f.sent.n + 3) + 4 + 2
    BY <1>2, SMT DEF Bytes, Size
<1>4. Bytes(f) - 2 - 4 - 4 = Padded(f.sent.n + 3) /\ Padded(f.sent.n + 3) > 0
    BY <1>1, <1>2, <1>3, SMT
<1> QED
    BY <1>2, <1>4 DEF IsEncryptionShaped

\* A ciphertext that is whole has room for its payload (Encrypt pads it).
LEMMA CiphertextIsRebuilt ==
    ASSUME NEW f \in Received, f.sent.form = "cmac", f.lost = 0
    PROVE  BuildUnencryptedRawFrame(f)
<1>1. f.sent.n \in Nat
    BY ReceivedType
<1>2. Padded(f.sent.n + 3) \in Nat /\ Padded(f.sent.n + 3) >= f.sent.n + 3
    BY <1>1, PaddedBounds
<1>3. Bytes(f) = 4 + Padded(f.sent.n + 3) + 4 + 2
    BY <1>2, SMT DEF Bytes, Size
<1> QED
    BY <1>1, <1>2, <1>3, SMT DEF BuildUnencryptedRawFrame

\* The length of a frame is a number.
LEMMA BytesType ==
    ASSUME NEW f \in Received
    PROVE  Bytes(f) \in Int
<1>1. f.sent.n \in Nat /\ f.lost \in Nat
    BY ReceivedType
<1>2. Padded(f.sent.n + 3) \in Int
    BY <1>1, PaddedBounds
<1> QED
    BY <1>1, <1>2, SMT DEF Bytes, Size

-------------------------------------------------------------------------------
(* Decoders.                                                                 *)

\* The decoder of the ZipHydroTap reads nothing past the end of what it is given,
\* and publishes a part of a packet only for a write of version 2 (DecodeZHT).
LEMMA NothingIsOverrun ==
    ASSUME NEW t \in Types \union {"error"}, NEW v \in Versions, NEW n \in Int
    PROVE  /\ DecodeZHT(t, v, n) \in {"points", "tags", "some", "none"}
           /\ DecodeZHT(t, v, n) = "some" => t = "write" /\ v = 2
<1>1. CASE t = "static"
    BY <1>1, SMT DEF DecodeZHT, DecodeInner, MinLength, Fields, V2Length, V2Fields,
       PublishedEarly, Types, Versions
<1>2. CASE t = "write"
    BY <1>2, SMT DEF DecodeZHT, DecodeInner, MinLength, Fields, V2Length, V2Fields,
       PublishedEarly, Types, Versions
<1>3. CASE t = "poll"
    BY <1>3, SMT DEF DecodeZHT, DecodeInner, MinLength, Fields, V2Length, V2Fields,
       PublishedEarly, Types, Versions
<1>4. CASE t = "error"
    BY <1>4 DEF DecodeZHT, Types
<1> QED
    BY <1>1, <1>2, <1>3, <1>4 DEF Types

\* A packet of the length its type and version have is decoded to its last field.
LEMMA PacketIsDecoded ==
    ASSUME NEW t, NEW v, NEW n, CheckPayloadLengthZHT(t, v, n)
    PROVE  DecodeZHT(t, v, n) = IF t = "static" THEN "tags" ELSE "points"
<1>1. t \in {"static", "write", "poll"} /\ v \in 1..2 /\ n = ZHTPlLen[t][v]
    BY DEF CheckPayloadLengthZHT, Types, Versions
<1>2. CASE v = 1
  <2>1. n = IF t = "static" THEN 97 ELSE IF t = "write" THEN 51 ELSE 40
    BY <1>1, <1>2, SMT DEF ZHTPlLen
  <2> QED
    BY <1>1, <1>2, <2>1, SMT DEF DecodeZHT, DecodeInner, MinLength, Fields, Types
<1>3. CASE v = 2
  <2>1. n = IF t = "static" THEN 102 ELSE IF t = "write" THEN 66 ELSE 47
    BY <1>1, <1>3, SMT DEF ZHTPlLen
  <2> QED
    BY <1>1, <1>3, <2>1, SMT DEF DecodeZHT, DecodeInner, MinLength, Fields, V2Length,
       V2Fields, PublishedEarly, Types
<1> QED
    BY <1>1, <1>2, <1>3, SMT

\* No decoder brings a verdict, none panics but that of a Rubix for no payload at
\* all, and only that of the ZipHydroTap, and that of an older device for a frame
\* that is too short, publishes a part.
LEMMA UplinkOutcome ==
    ASSUME NEW f \in Received, NEW n \in Int
    PROVE  /\ DecodeUplink(f, n) \in {"points", "tags", "some", "none", "panic"}
           /\ DecodeUplink(f, n) = "panic" => n = 0 /\ Model \notin Legacy \union {"ZHT"}
           /\ DecodeUplink(f, n) = "some" =>
                 \/ Model = "ZHT" /\ f.type = "write" /\ f.version = 2
                 \/ Model \in Legacy /\ n < LegacyFields[Model]
<1>1. f.type \in Types \union {"error"} /\ f.version \in Versions
    BY ReceivedType
<1>2. CASE Model = "ZHT"
    BY <1>1, <1>2, NothingIsOverrun DEF DecodeUplink
<1>3. CASE Model # "ZHT" /\ Model \in Legacy
    BY <1>3 DEF DecodeUplink, DecodeLegacy
<1>4. CASE Model # "ZHT" /\ Model \notin Legacy
    BY <1>4 DEF DecodeUplink, DecodeRubix
<1> QED
    BY <1>2, <1>3, <1>4

\* What a LoRaRAW device has sent, and is read as it was sent, is decoded, unless it
\* is nothing.
LEMMA WholeUplink ==
    ASSUME NEW f \in Received, Intact(f), Model \in IsLoRaRAW,
           Model = ModelOf[f.sent.from]
    PROVE  DecodeUplink(f, f.sent.n) =
              IF f.sent.n = 0 /\ Model \in RubixCoded THEN "panic"
              ELSE IF f.type = "static" THEN "tags" ELSE "points"
<1>1. CASE Model = "ZHT"
  <2>1. CheckPayloadLengthZHT(f.type, f.version, f.sent.n)
    BY <1>1 DEF Received, Readable, Intact
  <2> QED
    BY <1>1, <2>1, PacketIsDecoded DEF DecodeUplink, RubixCoded
<1>2. CASE Model # "ZHT"
  <2>1. f.type = "error"
    BY <1>2 DEF Received
  <2> QED
    BY <1>2, <2>1 DEF DecodeUplink, DecodeRubix, Legacy, IsLoRaRAW, RubixCoded
<1> QED
    BY <1>1, <1>2

\* A frame of a length that an older device sends has all of its fields.
LEMMA LegacyIsWhole ==
    ASSUME NEW m \in Legacy, NEW n, LengthLegacy(n)
    PROVE  ~(n < LegacyFields[m])
<1>1. n \in {16, 18, 22}
    BY DEF LengthLegacy
<1>2. m = "MicroEdge" \/ m = "Droplet"
    BY DEF Legacy
<1>3. LegacyFields["MicroEdge"] = 15 /\ LegacyFields["Droplet"] = 12
    BY SMT DEF LegacyFields
<1> QED
    BY <1>1, <1>2, <1>3, SMT

-------------------------------------------------------------------------------
(* The invariant.                                                            *)

LEMMA InitInv == Init => Inv
    BY DEF Init, Inv, TypeOK, DeviceInv, FreshInv, PathInv, OutcomeInv, NoPanic,
           AllOrNothing, ReportInv, Entry, ValidPayload, Forms, Outcomes

\* One step per action of dispatchFrame and handleSerialPayload.
LEMMA NextInv == Inv /\ [Next]_vars => Inv'
<1> SUFFICES ASSUME Inv, [Next]_vars
             PROVE  Inv'
    OBVIOUS
<1> USE DEF Inv, TypeOK, DeviceInv, FreshInv, PathInv, ReportInv, Forms, OutcomeInv,
        NoPanic, AllOrNothing, Outcomes
<1>1. rx \in Received
    OBVIOUS
<1>0. Bytes(rx) \in Int
    BY <1>1, BytesType
<1>2. CASE Lookup
  <2>1. device' \in {NoDevice, rx.sent.from} /\ (device' # NoDevice => ~Hidden(rx))
    BY <1>2 DEF Lookup, GetDevice, Found, AddressOf
  <2>2. device' \in Known \union {NoDevice}
    BY <1>2 DEF Lookup, GetDevice, Found
  <2> QED
    BY <1>2, <2>1, <2>2 DEF Lookup, GetDevice
<1>3. CASE TryLegacyDecrypt
  <2>1. device' \in {NoDevice, rx.sent.from} /\ (device' # NoDevice => Hidden(rx))
    BY <1>3 DEF TryLegacyDecrypt, GetDevice, Found, AddressIn
  <2>2. device' \in Known \union {NoDevice}
    BY <1>3 DEF TryLegacyDecrypt, GetDevice, Found
  <2> QED
    BY <1>3, <2>1, <2>2 DEF TryLegacyDecrypt, GetDevice, AfterSecondLookup
<1>4. CASE NotLegacy
    BY <1>4 DEF NotLegacy, Drop
<1>5. CASE Describe
    BY <1>5 DEF Describe, Drop, Model
<1>6. CASE HandleLegacyDevice
  <2>1. device # NoDevice /\ Model # "other" /\ Model' = Model
    BY <1>6 DEF HandleLegacyDevice, Model
  <2>2. legacy \/ Model \notin IsLoRaRAW
    BY <1>6 DEF HandleLegacyDevice
  <2>3. /\ out' \in {"points", "tags", "none"}
        /\ path' \in {"legacy", "legacy_cbc", "none"}
        /\ path' = "none" => out' = "none"
    <3>1. CASE CheckLength(rx)
      <4>1. out' = DecodeUplink(rx, Bytes(rx))
        BY <1>6, <3>1 DEF HandleLegacyDevice
      <4>2. Model \in Legacy => LengthLegacy(Bytes(rx))
        BY <3>1 DEF CheckLength, Legacy, RubixCoded
      <4>3. Model # "ZHT"
        BY <3>1 DEF CheckLength, Legacy, RubixCoded
      <4>4. out' # "some"
        BY <1>0, <1>1, <4>1, <4>2, <4>3, UplinkOutcome, LegacyIsWhole
      <4>5. Bytes(rx) # 0
        BY <1>0, <1>6 DEF HandleLegacyDevice, ValidPayload
      <4>6. out' \in {"points", "tags", "some", "none"}
        BY <1>0, <1>1, <4>1, <4>5, UplinkOutcome
      <4> QED
        BY <1>6, <3>1, <4>4, <4>6 DEF HandleLegacyDevice
    <3>2. CASE ~CheckLength(rx)
      BY <1>6, <3>2 DEF HandleLegacyDevice
    <3> QED
      BY <3>1, <3>2
  <2>4. UNCHANGED <<rx, device, legacy, raw, acked, reported, failed>> /\ ~acked
        /\ phase' = "report"
    BY <1>6, <2>3 DEF HandleLegacyDevice, Finish
  <2> QED
    BY <2>1, <2>2, <2>3, <2>4
<1>7. CASE Encrypted
  <2>1. rx.sent.form = "cmac" /\ Intact(rx) /\ rx.sent.opts \in Opts /\ rx.sent.n \in Int
    BY <1>1, <1>7, ReceivedType DEF Encrypted, Branch, TryDecryptLoRaRAWPkt
  <2>2. raw' = "clear"
    BY <1>1, <1>7, <2>1, CiphertextIsRebuilt DEF Encrypted, Intact
  <2>3. phase = "handle" /\ ~legacy /\ Model \in IsLoRaRAW /\ device = rx.sent.from
        /\ device # NoDevice
    BY <1>7 DEF Encrypted, Branch, TryDecryptLoRaRAWPkt
  <2>4. \/ DecodeUplink(rx, rx.sent.n) \in {"points", "tags"}
        \/ /\ DecodeUplink(rx, rx.sent.n) = "panic"
           /\ rx.sent.n = 0 /\ Model \in RubixCoded
    BY <1>1, <2>1, <2>3, WholeUplink DEF Model
  <2>5. rx.sent.opts = "response" => Model \in RubixCoded
    BY <1>1, <2>3, ReceivedType, FirmwareAssumption DEF Model, IsLoRaRAW, RubixCoded
  <2>6. /\ out' \in {"points", "tags", "written", "none", "panic"}
        /\ path' \in {"cmac", "none"}
        /\ path' = "none" => out' = "none" /\ ~acked'
        /\ out' = "written" => rx.sent.opts = "response"
        /\ out' = "panic" => path' = "cmac" /\ rx.sent.n = 0 /\ Model \in RubixCoded
        /\ acked' \in BOOLEAN
        /\ acked' => /\ rx.sent.opts = "confirmed"
                     /\ out' \in {"points", "tags"} \/ rx.sent.n = 0
    <3>1. CASE CheckLoRaRAWPayloadLength(rx)
      <4>1. out' = Callback(rx, rx.sent.n) /\ path' = "cmac"
            /\ acked' \in {FALSE, rx.sent.opts = "confirmed"}
        BY <1>7, <3>1 DEF Encrypted, HandleLoRaRAWDevice
      <4>2. Callback(rx, rx.sent.n) =
              IF rx.sent.opts \in {"unconfirmed", "confirmed"}
              THEN DecodeUplink(rx, rx.sent.n)
              ELSE IF rx.sent.opts = "response"
                   THEN IF rx.sent.n = 0 THEN "panic" ELSE "written"
                   ELSE "none"
        BY DEF Callback, DecodeRubix
      <4> QED
        BY <2>4, <2>5, <4>1, <4>2
    <3>2. CASE ~CheckLoRaRAWPayloadLength(rx)
      BY <1>7, <2>3, <3>2 DEF Encrypted, HandleLoRaRAWDevice
    <3> QED
      BY <3>1, <3>2
  <2>7. UNCHANGED <<rx, device, legacy, reported, failed>>
        /\ phase' = IF out' = "panic" THEN "crashed" ELSE "report"
    BY <1>7 DEF Encrypted, Finish
  <2>8. Model' = Model /\ Model # "other"
    BY <2>3, <2>7 DEF Model, IsLoRaRAW
  <2>9. NoPanic'
    BY <2>6, <2>7, <2>8 DEF NoPayload
  <2> QED
    BY <2>1, <2>2, <2>3, <2>6, <2>7, <2>8, <2>9
<1>8. CASE Unencrypted
  <2>1. /\ phase = "handle" /\ ~legacy /\ Model \in AllowUnencrypted
        /\ ~IsEncryptionShaped(rx) /\ device # NoDevice
    BY <1>8 DEF Unencrypted, Branch, PlaintextOk
  <2>2. out' = DecodeUplink(rx, Bytes(rx) - 9) /\ path' = "plain"
        /\ UNCHANGED <<rx, device, legacy, raw, acked, reported, failed>>
    BY <1>8 DEF Unencrypted, PlaintextCallback
  <2>3. Bytes(rx) - 9 \in Int
    BY <1>0, SMT
  <2>4. /\ out' \in {"points", "tags", "some", "none", "panic"}
        /\ out' = "panic" => Bytes(rx) - 9 = 0 /\ Model \notin Legacy \union {"ZHT"}
    BY <1>1, <2>2, <2>3, UplinkOutcome
  <2>5. out' = "some" => rx.type = "write" /\ rx.version = 2 /\ ~Intact(rx)
    <3> SUFFICES ASSUME out' = "some"
                 PROVE  rx.type = "write" /\ rx.version = 2 /\ ~Intact(rx)
      OBVIOUS
    <3>1. Model \notin Legacy
      BY <2>1 DEF AllowUnencrypted, Legacy
    <3>2. Model = "ZHT" /\ rx.type = "write" /\ rx.version = 2
      BY <1>1, <2>2, <2>3, <3>1, UplinkOutcome
    <3>3. ASSUME Intact(rx)
          PROVE  FALSE
      <4>1. /\ rx.sent.form \in Forms /\ rx.sent \in Sent /\ rx.sent.from \in Devices
            /\ rx.sent.n \in Nat /\ rx.lost = 0
        BY <1>1, <3>3, ReceivedType DEF Intact
      <4>2. rx.sent.form # "cmac"
        BY <1>1, <2>1, <4>1, CiphertextIsShaped
      <4>3. rx.sent.form \notin {"legacy", "legacy_cbc"}
        BY <2>1, <3>1, <4>1, FirmwareAssumption DEF Model
      <4>4. rx.sent.form = "plain"
        BY <4>1, <4>2, <4>3
      <4>5. Bytes(rx) - 9 = rx.sent.n
        BY <4>1, <4>4, SMT DEF Bytes, Size
      <4>6. DecodeUplink(rx, rx.sent.n) \in {"points", "tags", "panic"}
        BY <1>1, <2>1, <3>2, <3>3, WholeUplink DEF Model, IsLoRaRAW
      <4> QED
        BY <2>2, <4>5, <4>6
    <3> QED
      BY <3>2, <3>3
  <2>6. phase' = IF out' = "panic" THEN "crashed" ELSE "report"
    BY <1>8 DEF Unencrypted, Finish
  <2>7. Model' = Model /\ Model # "other"
    BY <2>1, <2>2 DEF Model, AllowUnencrypted
  <2>8. NoPanic'
    <3>1. out' = "panic" => Bytes(rx) = 9 /\ Model \in RubixCoded
      BY <1>0, <2>1, <2>4 DEF AllowUnencrypted, RubixCoded
    <3> QED
      BY <2>2, <2>6, <2>7, <3>1 DEF NoPayload
  <2> QED
    BY <2>1, <2>2, <2>4, <2>5, <2>6, <2>7, <2>8
<1>9. CASE Undecryptable
    BY <1>9 DEF Undecryptable, Branch, Drop
<1>10. CASE Report
    BY <1>10 DEF Report, Model
<1>11. CASE UNCHANGED vars
    BY <1>11 DEF vars, Model, NoPayload
<1> QED
    BY <1>2, <1>3, <1>4, <1>5, <1>6, <1>7, <1>8, <1>9, <1>10, <1>11 DEF Next

\* The invariant holds in every state.
THEOREM Invariant == Spec => []Inv
    BY InitInv, NextInv, PTL DEF Spec

-------------------------------------------------------------------------------
(* Results.                                                                  *)

\* Every variable keeps its type, and no field of a nil device is read.
THEOREM TypeCorrectness == Spec => []TypeOK
<1>1. Inv => TypeOK
    BY DEF Inv
<1> QED
    BY <1>1, Invariant, PTL

\* A device of a legacy model sends no ciphertext with a CMAC, and a model that
\* only encrypts is never read as a legacy device.
LEMMA LegacyForms ==
    ASSUME Inv, path \in {"legacy", "legacy_cbc"}
    PROVE  Model \in Legacy /\ rx.sent.form \in {"legacy", "legacy_cbc"}
<1>1. rx.sent \in Sent /\ rx.sent.from \in Devices
    BY ReceivedType DEF Inv, TypeOK
<1>2. device = rx.sent.from
    BY DEF Inv, DeviceInv, PathInv
<1>3. Model \in Models
    BY <1>1, <1>2, ModelAssumption DEF Model
<1>4. Hidden(rx) => Model \in Legacy
    BY <1>1, <1>2, FirmwareAssumption DEF Hidden, Model
<1>5. Model \in Legacy
    BY <1>2, <1>3, <1>4, ModelAssumption, <1>1
    DEF Inv, DeviceInv, PathInv, Models, IsLoRaRAW
<1> QED
    BY <1>1, <1>2, <1>5, FirmwareAssumption DEF Model

\* Nothing but what a device has sent encrypted is decoded from its ciphertext,
\* and nothing else at all from a device that only encrypts (dispatchFrame).
THEOREM NoGarbageHolds == Spec => []NoGarbage
<1>1. Inv => NoGarbage
  <2> SUFFICES ASSUME Inv, out # "none"
               PROVE  \/ AsSent
                      \/ rx.sent.form # "cmac" /\ Model \notin EncryptionOnly
                      \/ rx.lost > 0 /\ Model \in AllowUnencrypted
    BY DEF NoGarbage
  <2>1. path \in Forms /\ rx \in Received /\ device = rx.sent.from
    BY DEF Inv, TypeOK, DeviceInv, PathInv
  <2>2. rx.lost \in Nat
    BY <2>1, ReceivedType
  <2>3. CASE path = "cmac"
    BY <2>1, <2>3 DEF Inv, PathInv, AsSent
  <2>4. CASE path = "plain"
    <3>1. Model \in AllowUnencrypted /\ ~IsEncryptionShaped(rx)
      BY <2>4 DEF Inv, PathInv
    <3>2. rx.sent.form = "cmac" => rx.lost # 0
      BY <2>1, <3>1, CiphertextIsShaped
    <3> QED
      BY <2>2, <3>1, <3>2, SMT DEF EncryptionOnly
  <2>5. CASE path \in {"legacy", "legacy_cbc"}
    BY <2>5, LegacyForms DEF EncryptionOnly, IsLoRaRAW, Legacy
  <2> QED
    BY <2>1, <2>3, <2>4, <2>5 DEF Forms
<1> QED
    BY <1>1, Invariant, PTL

\* A verdict on a write, and an acknowledgement, need a CMAC that was verified.
THEOREM VerdictIsAuthenticHolds == Spec => []VerdictIsAuthentic
<1>1. Inv => VerdictIsAuthentic
  <2> SUFFICES ASSUME Inv
               PROVE  VerdictIsAuthentic
    OBVIOUS
  <2>1. out = "written" \/ acked => path = "cmac"
    BY DEF Inv, TypeOK, PathInv, Forms
  <2>2. path = "cmac" /\ (out = "written" \/ acked) => Verified
    BY DEF Inv, PathInv, DeviceInv, AsSent, Verified
  <2>3. path = "cmac" /\ out = "written" => rx.sent.opts = "response"
    BY DEF Inv, PathInv
  <2>4. path = "cmac" /\ acked =>
            /\ rx.sent.opts = "confirmed"
            /\ out \in {"points", "tags"} \/ rx.sent.n = 0
    BY DEF Inv, PathInv
  <2> QED
    BY <2>1, <2>2, <2>3, <2>4 DEF VerdictIsAuthentic
<1> QED
    BY <1>1, Invariant, PTL

\* A whole frame that is published is clear of encryption (PublishRaw).
THEOREM RawIsClearHolds == Spec => []RawIsClear
<1>1. Inv => RawIsClear
  <2> SUFFICES ASSUME Inv, reported, rx.sent.form \in {"cmac", "legacy_cbc"}
               PROVE  raw = "clear" \/ rx.lost > 0
    BY DEF RawIsClear
  <2>1. rx \in Received /\ rx.sent \in Sent /\ rx.sent.from \in Devices
        /\ device = rx.sent.from
    BY ReceivedType DEF Inv, TypeOK, DeviceInv, ReportInv
  <2>2. CASE rx.sent.form = "legacy_cbc"
    BY <2>2 DEF Inv, DeviceInv, ReportInv, Hidden
  <2>3. CASE rx.sent.form = "cmac"
    <3>1. rx.lost > 0 \/ IsEncryptionShaped(rx)
      <4>1. rx.lost \in Nat /\ (rx.lost = 0 => IsEncryptionShaped(rx))
        BY <2>1, <2>3, ReceivedType, CiphertextIsShaped
      <4> QED
        BY <4>1, SMT
    <3>2. Model \in Models /\ Model # "other"
      BY <2>1, ModelAssumption DEF Model, Inv, ReportInv
    <3>3. Model \notin Legacy
      BY <2>1, <2>3, FirmwareAssumption DEF Model
    <3>4. Model \in IsLoRaRAW
      BY <3>2, <3>3 DEF Models, IsLoRaRAW
    <3> QED
      BY <3>1, <3>4 DEF Inv, DeviceInv, ReportInv
  <2> QED
    BY <2>2, <2>3
<1> QED
    BY <1>1, Invariant, PTL

\* No payload makes a decoder read past its end and the goroutine of the receiver
\* panic, but a payload of no bytes that is decoded as that of a Rubix (DecodeZHT,
\* decodeFixedField, hasPositionalData).
THEOREM NoPanicHolds == Spec => []NoPanic
<1>1. Inv => NoPanic
    BY DEF Inv, OutcomeInv
<1> QED
    BY <1>1, Invariant, PTL

\* No part of a frame is published, but of a garbled write (decodeFixedField).
THEOREM AllOrNothingHolds == Spec => []AllOrNothing
<1>1. Inv => AllOrNothing
    BY DEF Inv, OutcomeInv
<1> QED
    BY <1>1, Invariant, PTL
-------------------------------------------------------------------------------
(* What arrives as it was sent.                                              *)

\* A frame nothing has happened to, of a known device, in a form its model takes,
\* with something to decode.
Good == /\ Intact(rx) /\ rx.sent.from \in Known /\ ~failed /\ Accepted(rx)
        /\ rx.sent.n > 0
        /\ ~(rx.sent.form = "plain" /\ IsEncryptionShaped(rx))

\* It is dropped nowhere, and taken for nothing else.
DecodedInv ==
    Good => /\ phase = "legacy" => Hidden(rx)
            /\ phase \in {"describe", "handle"} => device # NoDevice
            /\ phase \in {"report", "done"} => Decoded(rx)
            /\ phase = "done" => reported
            /\ phase # "crashed"

\* The lengths of a frame that has lost nothing, form by form.
LEMMA GoodFrame ==
    ASSUME NEW f \in Received, Intact(f)
    PROVE  /\ f.sent.form = "plain" => Bytes(f) = f.sent.n + 9 /\ f.fits
           /\ f.sent.form = "cmac" => Bytes(f) >= f.sent.n + 13
           /\ f.sent.form \in {"legacy", "legacy_cbc"} =>
                 /\ Bytes(f) = f.sent.n + 2
                 /\ LengthLegacy(Bytes(f)) /\ ModelOf[f.sent.from] \in Legacy
           /\ f.sent.form = "legacy_cbc" => f.sent.n >= 16
           /\ ValidPayload(f)
<1>1. /\ f.sent \in Sent /\ f.sent.from \in Devices /\ f.sent.form \in Forms
      /\ f.sent.n \in Nat /\ f.lost = 0 /\ f.noise = "none"
  BY ReceivedType DEF Intact
<1>2. CASE f.sent.form = "plain"
  <2>1. Bytes(f) = f.sent.n + 9
    BY <1>1, <1>2 DEF Bytes, Size
  <2>2. f.fits
    BY <1>1, <1>2 DEF Received
  <2>. QED
    BY <1>1, <1>2, <2>1, <2>2 DEF ValidPayload
<1>3. CASE f.sent.form = "cmac"
  <2>1. Padded(f.sent.n + 3) \in Nat /\ Padded(f.sent.n + 3) >= f.sent.n + 3
    BY <1>1, PaddedBounds
  <2>2. Bytes(f) = 4 + Padded(f.sent.n + 3) + 4 + 2
    BY <1>1, <1>3, <2>1 DEF Bytes, Size
  <2>. QED
    BY <1>1, <1>3, <2>1, <2>2 DEF ValidPayload
<1>4. CASE f.sent.form \in {"legacy", "legacy_cbc"}
  <2>1. Bytes(f) = f.sent.n + 2
    BY <1>1, <1>4 DEF Bytes, Size
  <2>2. ModelOf[f.sent.from] \in Legacy
    BY <1>1, <1>4, FirmwareAssumption
  <2>3. LengthLegacy(f.sent.n + 2)
    BY <1>1, <2>2, FirmwareAssumption
  <2>4. f.sent.form = "legacy_cbc" => f.sent.n >= 16
    BY <1>1, FirmwareAssumption
  <2>. QED
    BY <1>1, <1>4, <2>1, <2>2, <2>3, <2>4 DEF ValidPayload, LengthLegacy
<1>. QED
  BY <1>1, <1>2, <1>3, <1>4 DEF Forms

LEMMA DecodedInit == Init => DecodedInv
<1>. SUFFICES ASSUME Init, Good PROVE phase = "lookup"
  BY DEF Init, DecodedInv, Entry
<1>. QED
  BY GoodFrame DEF Init, Good, Entry

LEMMA DecodedStep == Inv /\ DecodedInv /\ [Next]_vars => DecodedInv'
<1>. SUFFICES ASSUME Inv, DecodedInv, [Next]_vars, Good'
              PROVE  /\ phase' = "legacy" => Hidden(rx)
                     /\ phase' \in {"describe", "handle"} => device' # NoDevice
                     /\ phase' \in {"report", "done"} => Decoded(rx)'
                     /\ phase' = "done" => reported'
                     /\ phase' # "crashed"
  BY DEF DecodedInv, Next, Lookup, TryLegacyDecrypt, NotLegacy, Describe,
         HandleLegacyDevice, Encrypted, Unencrypted, Undecryptable, Report, vars, Hidden
<1>0. rx' = rx /\ (failed => failed')
  BY DEF Inv, TypeOK, Next, Lookup, GetDevice, TryLegacyDecrypt, NotLegacy, Describe,
         HandleLegacyDevice, Encrypted, Unencrypted, Undecryptable, Report, vars
<1>1. Good
  BY <1>0 DEF Good, Intact, Accepted, IsEncryptionShaped, Bytes, Size
<1>. DEFINE m == ModelOf[rx.sent.from]
<1>2. /\ rx \in Received /\ Intact(rx)
      /\ rx.sent \in Sent /\ rx.sent.from \in Devices /\ rx.sent.form \in Forms
      /\ rx.sent.opts \in Opts /\ rx.sent.n \in Nat /\ rx.noise = "none"
      /\ rx.sent.from \in Known /\ rx.sent.from # NoDevice /\ NoDevice \notin Known
      /\ ~failed' /\ rx.sent.n # 0
  BY <1>1, ReceivedType, ModelAssumption, KnownAssumption DEF Inv, TypeOK, Good, Intact
<1>3. /\ rx.sent.form = "plain" => Bytes(rx) = rx.sent.n + 9 /\ rx.fits
      /\ rx.sent.form = "cmac" => Bytes(rx) >= rx.sent.n + 13
      /\ rx.sent.form \in {"legacy", "legacy_cbc"} =>
            /\ Bytes(rx) = rx.sent.n + 2
            /\ LengthLegacy(Bytes(rx)) /\ m \in Legacy
      /\ rx.sent.form = "legacy_cbc" => rx.sent.n >= 16
  BY <1>2, GoodFrame
<1>4. \/ rx.sent.form = "cmac" /\ m \in IsLoRaRAW
      \/ rx.sent.form = "plain" /\ m \in AllowUnencrypted /\ ~IsEncryptionShaped(rx)
      \/ rx.sent.form \in {"legacy", "legacy_cbc"} /\ m \in Legacy
  BY <1>1 DEF Good, Accepted
<1>5. /\ m # "other" /\ m \notin Legacy \intersect IsLoRaRAW
      /\ AllowUnencrypted \subseteq IsLoRaRAW
  BY <1>4 DEF Legacy, IsLoRaRAW, AllowUnencrypted
<1>6. device # NoDevice => Model = m /\ (legacy <=> Hidden(rx))
  BY DEF Inv, DeviceInv, Model
<1>. HIDE DEF m
<1>7. CASE Lookup
  <2>1. device' = Found(AddressOf(rx))
    BY <1>2, <1>7 DEF Lookup, GetDevice
  <2>. QED
    BY <1>2, <1>7, <2>1 DEF Lookup, Found, AddressOf
<1>8. CASE TryLegacyDecrypt
  <2>1. device' = rx.sent.from
    BY <1>1, <1>2, <1>8 DEF TryLegacyDecrypt, GetDevice, Found, AddressIn, DecodedInv
  <2>. QED
    BY <1>2, <1>8, <2>1 DEF TryLegacyDecrypt, AfterSecondLookup
<1>9. CASE NotLegacy
  BY <1>1, <1>2, <1>3, <1>9 DEF NotLegacy, DecryptsLegacy, DecodedInv, Hidden
<1>10. CASE Describe
  BY <1>1, <1>2, <1>5, <1>6, <1>10 DEF Describe, DecodedInv, Drop
<1>11. CASE HandleLegacyDevice
  <2>1. device # NoDevice /\ Model = m /\ m \in Legacy
        /\ rx.sent.form \in {"legacy", "legacy_cbc"}
    BY <1>1, <1>4, <1>5, <1>6, <1>11 DEF HandleLegacyDevice, DecodedInv, Hidden
  <2>2. out' = DecodeUplink(rx, Bytes(rx))
    BY <1>3, <1>11, <2>1 DEF HandleLegacyDevice, CheckLength
  <2>3. Model # "ZHT" /\ rx.type = "error"
    BY <1>2, <2>1 DEF Legacy, Received, m
  <2>4. out' = "points"
    BY <1>3, <2>1, <2>2, <2>3, LegacyIsWhole DEF DecodeUplink, DecodeLegacy
  <2>. QED
    BY <1>0, <1>11, <2>1, <2>3, <2>4 DEF HandleLegacyDevice, Finish, Decoded
<1>12. CASE Encrypted
  <2>1. /\ rx.sent.form = "cmac" /\ device = rx.sent.from /\ Model \in IsLoRaRAW
        /\ phase = "handle" /\ device # NoDevice
    BY <1>2, <1>12 DEF Encrypted, Branch, TryDecryptLoRaRAWPkt
  <2>2. CheckLoRaRAWPayloadLength(rx)
    <3>1. Bytes(rx) \in Int
      BY <1>2, BytesType
    <3>. QED
      BY <1>2, <1>3, <2>1, <3>1 DEF CheckLoRaRAWPayloadLength
  <2>3. out' = Callback(rx, rx.sent.n)
    BY <1>12, <2>2 DEF Encrypted, HandleLoRaRAWDevice
  <2>4. DecodeUplink(rx, rx.sent.n) = IF rx.type = "static" THEN "tags" ELSE "points"
    BY <1>2, <2>1, WholeUplink DEF Model
  <2>5. out' = IF rx.sent.opts = "response" THEN "written"
               ELSE IF rx.sent.opts = "other" THEN "none"
               ELSE IF rx.type = "static" THEN "tags" ELSE "points"
    BY <1>2, <2>3, <2>4 DEF Callback, DecodeRubix, Opts
  <2>6. phase' = "report"
    BY <1>12, <2>5 DEF Encrypted, Finish
  <2>. QED
    BY <1>0, <2>1, <2>5, <2>6 DEF Decoded
<1>13. CASE Unencrypted
  <2>1. /\ Model \in AllowUnencrypted /\ device # NoDevice /\ device = rx.sent.from
        /\ ~IsEncryptionShaped(rx)
    BY <1>1, <1>13 DEF Unencrypted, Branch, PlaintextOk, DecodedInv, Inv, DeviceInv
  <2>2. rx.sent.form = "plain"
    <3>1. rx.sent.form # "cmac"
      BY <1>2, <2>1, CiphertextIsShaped DEF Intact
    <3>. QED
      BY <1>4, <1>5, <1>6, <2>1, <3>1
  <2>3. out' = DecodeUplink(rx, rx.sent.n)
    <3>1. Bytes(rx) - 9 = rx.sent.n
      BY <1>2, <1>3, <2>2
    <3>. QED
      BY <1>13, <3>1 DEF Unencrypted, PlaintextCallback
  <2>4. out' = IF rx.type = "static" THEN "tags" ELSE "points"
    BY <1>2, <1>5, <2>1, <2>3, WholeUplink DEF Model
  <2>5. phase' = "report"
    BY <1>13, <2>4 DEF Unencrypted, Finish
  <2>. QED
    BY <1>0, <2>2, <2>4, <2>5 DEF Decoded
<1>14. CASE Undecryptable
  <2>1. /\ Model \in IsLoRaRAW /\ device # NoDevice /\ device = rx.sent.from /\ Model = m
        /\ ~TryDecryptLoRaRAWPkt(rx) /\ ~PlaintextOk(rx)
    BY <1>1, <1>6, <1>14 DEF Undecryptable, Branch, DecodedInv, Inv, DeviceInv
  <2>2. rx.sent.form # "cmac"
    BY <1>2, <2>1, CiphertextIsShaped DEF TryDecryptLoRaRAWPkt, Intact
  <2>3. rx.sent.form = "plain" /\ m \in AllowUnencrypted /\ ~IsEncryptionShaped(rx)
    BY <1>4, <1>5, <2>1, <2>2
  <2>4. IsUnencryptedLoRaRAW(rx)
    BY <1>2, <1>3, <2>3 DEF IsUnencryptedLoRaRAW
  <2>. QED
    BY <2>1, <2>3, <2>4 DEF PlaintextOk
<1>15. CASE Report
  BY <1>0, <1>1, <1>15 DEF Report, DecodedInv, Decoded
<1>16. CASE UNCHANGED vars
  BY <1>1, <1>16 DEF vars, DecodedInv, Decoded
<1>. QED
  BY <1>7, <1>8, <1>9, <1>10, <1>11, <1>12, <1>13, <1>14, <1>15, <1>16 DEF Next

\* A frame that arrives as it was sent, of a known device, in a form its model takes,
\* passes every guard on its way and is decoded to its last field: none of them,
\* and no branch that comes first, takes it from its decoder.
THEOREM IntactIsDecodedHolds == Spec => []IntactIsDecoded
<1>1. DecodedInv => IntactIsDecoded
  BY DEF DecodedInv, Good, IntactIsDecoded, Handled
<1>. QED
  BY <1>1, Invariant, DecodedInit, InitInv, NextInv, DecodedStep, PTL DEF Spec

===============================================================================
