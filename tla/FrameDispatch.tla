----------------------------- MODULE FrameDispatch -----------------------------
(***************************************************************************)
(* dispatchFrame and handleSerialPayload (pkg/app.go): a frame from the    *)
(* radio is matched to a device, decrypted or taken for plaintext, decoded *)
(* into callbacks and reported.  Nothing is kept from one frame to the     *)
(* next, so that a behaviour is the handling of one frame.  The decoders of *)
(* the older devices are composed in from LegacyDecoders.                  *)
(*                                                                         *)
(* A frame is its length and what it was when its device sent it; the      *)
(* radio may garble it or cut it short.  AES, CMAC and decoders are their  *)
(* outcomes: a CMAC verifies for the bytes its device sent and no others,  *)
(* and the bytes of an address that is garbled, encrypted or decrypted     *)
(* with a wrong key are not the address of any device.                     *)
(***************************************************************************)
EXTENDS Integers, LegacyDecoders

CONSTANTS
    Known,      \* devices in the database
    ModelOf,    \* the model of every device, in the database or not
    Sent,       \* frames that devices send
    Lost,       \* bytes a frame can lose at its end
    NoDevice    \* the nil device

Devices == DOMAIN ModelOf
Forms   == {"plain", "cmac", "legacy", "legacy_cbc"}
Opts    == {"unconfirmed", "confirmed", "response", "other"}

\* Droplets have three models; "other" is a model without a description.
Models == Legacy \union {"ZHT", "Rubix", "UART", "RubixEncrypted", "other"}
IsLoRaRAW      == {"ZHT", "Rubix", "UART", "RubixEncrypted"}
AllowUnencrypted == {"ZHT", "Rubix"}
EncryptionOnly == IsLoRaRAW \ AllowUnencrypted
RubixCoded     == {"Rubix", "UART", "RubixEncrypted"}

ASSUME ModelAssumption == ModelOf \in [Devices -> Models] /\ NoDevice \notin Devices
ASSUME KnownAssumption == Known \subseteq Devices
ASSUME LostAssumption  == Lost \subseteq Nat
ASSUME SentAssumption  ==
    Sent \subseteq [from : Devices, form : Forms, opts : Opts, n : Nat]

\* Only MicroEdges and Droplets send frames without a header or a CMAC, and they
\* send no others.
\* A ZipHydroTap sends packets of the lengths ziphydrotap.go names; nothing is
\* ever requested of it, so that it has no response to send.
ASSUME FirmwareAssumption ==
    \A s \in Sent :
        /\ s.form \in {"legacy", "legacy_cbc"} <=> ModelOf[s.from] \in Legacy
        /\ ModelOf[s.from] \in Legacy => LengthLegacy(s.n + 2)
        /\ s.form = "legacy_cbc" => s.n >= 16
        /\ ModelOf[s.from] = "ZHT" =>
              /\ s.opts # "response"
              /\ \E t \in Types, v \in Versions : CheckPayloadLengthZHT(t, v, s.n)

-------------------------------------------------------------------------------
(* Frames.                                                                   *)

Padded(k) == 16 * ((k + 15) \div 16)

\* Length in bytes: a header of 4, or of 7 with opts, nonce and length, the
\* payload of n bytes, and rssi and snr, which the radio of the gateway appends.
Size(f) == IF f.sent.form = "plain" THEN 7 + f.sent.n + 2
           ELSE IF f.sent.form = "cmac" THEN 4 + Padded(f.sent.n + 3) + 4 + 2
           ELSE f.sent.n + 2

\* What a ZipHydroTap has sent as type and version of its packet can be read.
Readable(f) == f.noise # "body" /\ (f.sent.form = "plain" \/ f.lost = 0)

\* What the radio makes of a frame, whether the byte where a plaintext frame has
\* its length happens to fit the length of the frame, and the type and version
\* that are read, which are "error" and 1 if nobody looks at them.
Received ==
    {f \in [sent : Sent, noise : {"none", "address", "body"}, lost : Lost,
            fits : BOOLEAN, type : Types \union {"error"}, version : Versions] :
        /\ f.lost <= Size(f)
        /\ f.sent.form = "plain" /\ f.noise # "body" => (f.fits <=> f.lost = 0)
        /\ IF ModelOf[f.sent.from] = "ZHT"
           THEN Readable(f) => CheckPayloadLengthZHT(f.type, f.version, f.sent.n)
           ELSE f.type = "error" /\ f.version = 1}

Bytes(f)  == Size(f) - f.lost
Intact(f) == f.noise = "none" /\ f.lost = 0

-------------------------------------------------------------------------------
VARIABLES
    phase,    \* where dispatchFrame is
    rx,       \* the frame
    device,   \* the device found
    legacy,   \* legacyDevice: the frame was decrypted with the default key
    raw,      \* publishRawHex: the frame on the "wire", or "clear" of encryption
    out,      \* callbacks made: an outcome of a decoder, or "written"
    path,     \* history: how the frame was read to make them
    acked,    \* an acknowledgement was queued for the radio
    reported, \* rssi and snr are stored, the fault is cleared, MQTT publishes
    failed    \* history: the database or the key failed while it was handled

vars == <<phase, rx, device, legacy, raw, out, path, acked, reported, failed>>

\* ValidPayload: more than 8 hexadecimal digits.
ValidPayload(f) == Bytes(f) > 4

Entry(f) == IF ValidPayload(f) THEN "lookup" ELSE "done"

Init ==
    /\ rx \in Received
    /\ phase = Entry(rx)
    /\ device = NoDevice
    /\ legacy = FALSE
    /\ raw = "wire"
    /\ out = "none"
    /\ path = "none"
    /\ acked = FALSE
    /\ reported = FALSE
    /\ failed = FALSE

Drop == phase' = "done"

\* The device whose address the bytes have, before and after DecryptLegacy.
Hidden(f)    == f.sent.form = "legacy_cbc"
AddressOf(f) == IF ~Hidden(f) /\ f.noise # "address" THEN f.sent.from ELSE NoDevice
AddressIn(f) == IF Hidden(f) /\ f.noise # "address" THEN f.sent.from ELSE NoDevice
Found(d)     == IF d \in Known THEN d ELSE NoDevice

\* getDevice answers, or a failing call is taken for an unknown address.
GetDevice(d) == \/ device' = Found(d) /\ UNCHANGED failed
                \/ device' = NoDevice /\ failed' = TRUE

Lookup ==
    /\ phase = "lookup"
    /\ GetDevice(AddressOf(rx))
    /\ phase' = IF device' = NoDevice THEN "legacy" ELSE "describe"
    /\ UNCHANGED <<rx, legacy, raw, out, path, acked, reported>>

\* DecryptLegacy needs a whole block besides rssi and snr.
DecryptsLegacy(f) == Bytes(f) - 2 >= 16

\* An unknown sensor is left to others.
AfterSecondLookupUnchecked(d) == "describe"  \* Defect: the nil device goes on.
AfterSecondLookup(d) == IF d = NoDevice THEN "done" ELSE "describe"

\* The frame is rewritten, and the address it has now is looked up.
TryLegacyDecrypt ==
    /\ phase = "legacy"
    /\ DecryptsLegacy(rx)
    /\ legacy' = TRUE
    /\ raw' = "clear"
    /\ GetDevice(AddressIn(rx))
    /\ phase' = AfterSecondLookup(device')
    /\ UNCHANGED <<rx, out, path, acked, reported>>

NotLegacy ==
    /\ phase = "legacy"
    /\ ~DecryptsLegacy(rx)
    /\ Drop
    /\ UNCHANGED <<rx, device, legacy, raw, out, path, acked, reported, failed>>

Model == ModelOf[device]

\* GetDeviceDescription, and getEncryptionKey for the LoRaRAW branch.
Describe ==
    /\ phase = "describe"
    /\ \/ Model # "other" /\ phase' = "handle" /\ UNCHANGED failed
       \/ Model = "other" /\ Drop /\ UNCHANGED failed
       \/ Model \in IsLoRaRAW /\ ~legacy /\ Drop /\ failed' = TRUE
    /\ UNCHANGED <<rx, device, legacy, raw, out, path, acked, reported>>

-------------------------------------------------------------------------------
(* Legacy devices.                                                           *)

\* DecodeRubix asks for the first byte before it tests whether there is one, and
\* for no other that is not there.  What it makes of the bits is in RubixCodec.
DecodeRubix(n, decoded) == IF n = 0 THEN "panic" ELSE decoded

\* DecodeUplink of the model, for n bytes of payload.
DecodeUplink(f, n) ==
    IF Model = "ZHT" THEN DecodeZHT(f.type, f.version, n)
    ELSE IF Model \in Legacy THEN DecodeLegacy(Model, n)
    ELSE DecodeRubix(n, "points")

\* An error of a decoder is logged, and nothing recovers a panic.
Finish == phase' = IF out' = "panic" THEN "crashed" ELSE "report"

\* CheckLength of the model, on the whole frame.
CheckLength(f) ==
    \/ Model \in Legacy /\ LengthLegacy(Bytes(f))
    \/ Model \in RubixCoded

HandleLegacyDevice ==
    /\ phase = "handle"
    /\ legacy \/ Model \notin IsLoRaRAW
    /\ IF CheckLength(rx)
       THEN /\ out' = DecodeUplink(rx, Bytes(rx))
            /\ path' = IF legacy THEN "legacy_cbc" ELSE "legacy"
       ELSE UNCHANGED <<out, path>>
    /\ Finish
    /\ UNCHANGED <<rx, device, legacy, raw, acked, reported, failed>>

-------------------------------------------------------------------------------
(* LoRaRAW devices.                                                          *)

ShapedWithTrailer(f) ==  \* Defect: rssi and snr are counted in.
    Bytes(f) - 4 - 4 > 0 /\ (Bytes(f) - 4 - 4) % 16 = 0

\* A whole number of AES blocks between address and CMAC.
IsEncryptionShaped(f) ==
    LET inner == Bytes(f) - 2 - 4 - 4 IN inner > 0 /\ inner % 16 = 0

IsUnencryptedLoRaRAW(f) == Bytes(f) >= 7 + 2 /\ f.fits

\* tryDecryptLoRaRAWPkt, with the key of the device found.
TryDecryptLoRaRAWPkt(f) ==
    /\ IsEncryptionShaped(f)
    /\ f.sent.form = "cmac" /\ Intact(f) /\ f.sent.from = device

PlaintextByLength(f) ==  \* Defect: the test of earlier versions.
    Model \in AllowUnencrypted /\ IsUnencryptedLoRaRAW(f)
PlaintextOk(f) ==
    Model \in AllowUnencrypted /\ ~IsEncryptionShaped(f) /\ IsUnencryptedLoRaRAW(f)

Branch(b) == phase = "handle" /\ ~legacy /\ Model \in IsLoRaRAW /\ b

\* Both are of the decrypted frame, which still has its CMAC.
CheckLoRaRAWPayloadLength(f) == f.sent.n <= Bytes(f) - 2 - 9
BuildUnencryptedRawFrame(f) == Bytes(f) - 2 >= 7 + f.sent.n

\* DecodeUplink or DecodeResponse; other options are only logged.
Callback(f, n) == IF f.sent.opts \in {"unconfirmed", "confirmed"}
                  THEN DecodeUplink(f, n)
                  ELSE IF f.sent.opts = "response" THEN DecodeRubix(n, "written")
                  ELSE "none"

\* The acknowledgement of a confirmed uplink may fail; the uplink is decoded.
HandleLoRaRAWDevice(f) ==
    IF CheckLoRaRAWPayloadLength(f)
    THEN /\ out' = Callback(f, f.sent.n)
         /\ path' = "cmac"
         /\ acked' \in {FALSE, f.sent.opts = "confirmed"}
    ELSE UNCHANGED <<out, path, acked>>

Encrypted ==
    /\ Branch(TryDecryptLoRaRAWPkt(rx))
    /\ raw' = IF BuildUnencryptedRawFrame(rx) THEN "clear" ELSE raw
    /\ HandleLoRaRAWDevice(rx)
    /\ Finish
    /\ UNCHANGED <<rx, device, legacy, reported, failed>>

\* A plaintext frame is an uplink, whatever its options say.
PlaintextCallbackByOpts(f, n) == Callback(f, n)  \* Defect: unverified verdicts.
PlaintextCallback(f, n) == DecodeUplink(f, n)

Unencrypted ==
    /\ Branch(~TryDecryptLoRaRAWPkt(rx) /\ PlaintextOk(rx))
    /\ out' = PlaintextCallback(rx, Bytes(rx) - 9)
    /\ path' = "plain"
    /\ Finish
    /\ UNCHANGED <<rx, device, legacy, raw, acked, reported, failed>>

Undecryptable ==
    /\ Branch(~TryDecryptLoRaRAWPkt(rx) /\ ~PlaintextOk(rx))
    /\ Drop
    /\ UNCHANGED <<rx, device, legacy, raw, out, path, acked, reported, failed>>

-------------------------------------------------------------------------------
\* The rest of handleSerialPayload, for a result that is OK.
Report ==
    /\ phase = "report"
    /\ reported' = TRUE
    /\ phase' = "done"
    /\ UNCHANGED <<rx, device, legacy, raw, out, path, acked, failed>>

Next == \/ Lookup \/ TryLegacyDecrypt \/ NotLegacy \/ Describe
        \/ HandleLegacyDevice \/ Encrypted \/ Unencrypted \/ Undecryptable
        \/ Report

Spec == Init /\ [][Next]_vars

-------------------------------------------------------------------------------
(* Properties.                                                               *)

\* Every variable has its type, and the frame goes on only with a device that is
\* in the database: nothing reads the fields of a nil device.
TypeOK ==
    /\ phase \in {"done", "lookup", "legacy", "describe", "handle", "report",
                  "crashed"}
    /\ rx \in Received
    /\ device \in Known \union {NoDevice}
    /\ phase \in {"describe", "handle", "report"} => device # NoDevice
    /\ legacy \in BOOLEAN
    /\ raw \in {"wire", "clear"}
    /\ out \in Outcomes \union {"written"}
    /\ path \in Forms \union {"none"}
    /\ acked \in BOOLEAN
    /\ reported \in BOOLEAN
    /\ failed \in BOOLEAN

\* What was decoded is what the device found has sent.
AsSent   == Intact(rx) /\ device = rx.sent.from /\ path = rx.sent.form
Verified == AsSent /\ path = "cmac"

\* Nothing but what an encrypting device has sent is decoded from its frames: a
\* frame it sent whole is never taken for plaintext, whatever byte is where a
\* plaintext frame has its length.  A model that only encrypts takes nothing else
\* at all; one that allows plaintext can be deceived by a frame that is cut short.
NoGarbage ==
    out # "none" =>
        \/ AsSent
        \/ rx.sent.form # "cmac" /\ Model \notin EncryptionOnly
        \/ rx.lost > 0 /\ Model \in AllowUnencrypted

\* Only a frame whose CMAC has been verified acknowledges a write, or is
\* acknowledged: a device that has lost its value, or a value nobody has
\* received, would be the price.  A frame without any payload is acknowledged
\* before its decoder panics.
VerdictIsAuthentic ==
    /\ out = "written" => Verified /\ rx.sent.opts = "response"
    /\ acked => /\ Verified /\ rx.sent.opts = "confirmed"
                /\ out \in {"points", "tags"} \/ rx.sent.n = 0

\* The forms in which a device of each model may send (README.md:13-19).
Accepted(f) ==
    LET m == ModelOf[f.sent.from]
    IN  \/ f.sent.form = "cmac" /\ m \in IsLoRaRAW
        \/ f.sent.form = "plain" /\ m \in AllowUnencrypted
        \/ f.sent.form \in {"legacy", "legacy_cbc"} /\ m \in Legacy

\* All of its points, or meta tags, or the verdict it brings.
Decoded(f) ==
    out = IF f.sent.form = "cmac" /\ f.sent.opts = "response" THEN "written"
          ELSE IF f.sent.form = "cmac" /\ f.sent.opts = "other" THEN "none"
          ELSE IF f.type = "static" THEN "tags" ELSE "points"

Handled ==
    phase \in {"done", "crashed"} /\ Intact(rx) /\ rx.sent.from \in Known /\ ~failed

\* A frame that arrives as its device sent it is decoded, to its last field, and
\* reported, if the model takes such frames, unless it is plaintext of the size of
\* a ciphertext or has no payload at all.
IntactIsDecoded ==
    /\ Handled /\ Accepted(rx) /\ rx.sent.n > 0
    /\ ~(rx.sent.form = "plain" /\ IsEncryptionShaped(rx))
    => Decoded(rx) /\ reported

\* The payload that was decoded has no byte.
NoPayload == \/ path = "plain" /\ Bytes(rx) = 9
             \/ path = "cmac" /\ rx.sent.n = 0

\* No decoder reads past the end of what it is given, whatever the length and the
\* bytes, but for DecodeRubix and the payload that has no byte at all: a panic in
\* the goroutine of the receiver ends the process (DecodeZHT, DecodeRubix).
NoPanic == phase = "crashed" => Model \in RubixCoded /\ NoPayload

\* decoder.go:89: "Handle the case where requested data is beyond buffer size":
\* whatever DecodeRubix is given, it comes back.  The code violates it for NoPayload.
BeyondBufferIsHandled == phase = "crashed" => Model \notin RubixCoded

\* A decoder tests what it is given before it publishes: some of the points of a
\* frame, next to older values of the others, come only from the write packet of
\* a ZipHydroTap, whose timers go first, and only from one that was garbled.
AllOrNothing ==
    out = "some" =>
        rx.type = "write" /\ rx.version = 2 /\ path = "plain" /\ ~Intact(rx)

\* README.md:18: plaintext from a ZipHydroTap "decodes".  The code violates it for
\* static packets, which have the size of a ciphertext.
ZipHydroTapDecodes ==
    Handled /\ rx.sent.form = "plain" /\ ModelOf[rx.sent.from] = "ZHT"
        => Decoded(rx)

\* Subscribers of MQTT do not need the key: a frame that is published is clear
\* of encryption, except where NoGarbage makes its exception.
RawIsClear ==
    reported /\ rx.sent.form \in {"cmac", "legacy_cbc"}
        => raw = "clear" \/ rx.lost > 0
===============================================================================
