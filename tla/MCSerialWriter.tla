---------------------------- MODULE MCSerialWriter ----------------------------
(* Instances of SerialWriter for TLC. *)
EXTENDS SerialWriter, TLC

CONSTANTS r1,      \* a request
          a1, a2   \* acks

\* Acks are alike, so that any of them may be the first one.
AcksInTurn == a2 \in Acks /\ call[a2] # "new" => call[a1] # "new"
===============================================================================
