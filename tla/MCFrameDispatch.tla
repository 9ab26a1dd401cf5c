---------------------------- MODULE MCFrameDispatch ----------------------------
(* Instances of FrameDispatch for TLC: a device of each model, a device whose   *)
(* address is not in the database, and what each of them sends.                 *)
EXTENDS FrameDispatch

CONSTANTS edge, drop, tap, door, meter, uart, odd, stranger

Database == {edge, drop, tap, door, meter, uart, odd}

Fleet == [d \in Database \union {stranger} |->
    CASE d = edge -> "MicroEdge"       [] d = drop -> "Droplet"
      [] d = tap -> "ZHT"
      [] d = door -> "Rubix"           [] d = meter -> "RubixEncrypted"
      [] d = uart -> "UART"            [] d = odd -> "other"
      [] OTHER -> "Rubix"]

Payload(from, forms, opts, ns) ==
    [from : from, form : forms, opts : opts, n : ns]

\* Length of static, write and poll frames of both versions of a ZipHydroTap.
TapLengths == {97, 102, 51, 66, 40, 47}

\* 13 and 14 bytes make one and two blocks with opts, nonce and length; 17 bytes
\* of plaintext have the size of a ciphertext; 0 is a frame that is a header only.
Traffic ==
    Payload({tap}, {"plain", "cmac"}, {"unconfirmed", "confirmed"}, TapLengths)
    \union Payload({door, stranger}, {"plain", "cmac"}, Opts, {0, 9, 13, 14, 17})
    \union Payload({meter, uart}, {"plain", "cmac"}, Opts, {0, 13, 14})
    \union Payload({edge}, {"legacy"}, {"other"}, {14, 16, 20})
    \union Payload({edge}, {"legacy_cbc"}, {"other"}, {16, 20})
    \union Payload({drop}, {"legacy"}, {"other"}, {14, 16})
    \union Payload({drop}, {"legacy_cbc"}, {"other"}, {16})
    \union Payload({odd}, {"plain", "cmac"}, {"unconfirmed"}, {13})
=================================================================================
