---------------------- MODULE MCPointWriteQueueManager ----------------------
(* Instances of PointWriteQueueManager for TLC. *)
EXTENDS PointWriteQueueManager, TLC

CONSTANTS a, b,               \* devices
          w1, w2, w3,         \* writes
          m1, m2              \* message ids

\* One write for each of two devices.
OneOfTwo == (w1 :> a) @@ (w3 :> b)

\* Two writes for one device.
TwoOfOne == (w1 :> a) @@ (w2 :> a)

\* And one for another device, which cannot be encoded: it stops the process, so
\* that it is only written when there is nothing else.
TwoAndOne  == (w1 :> a) @@ (w2 :> a) @@ (w3 :> b)
AloneOrNot == call[w3] = "idle" \/ (call[w1] = "idle" /\ call[w2] = "idle")

NoLeftovers == {}

\* Device a still answers a request made before the process was restarted.
OldAnswer == {<<a, m1>>}
=============================================================================
