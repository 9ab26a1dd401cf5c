----------------------------- MODULE SerialWriter -----------------------------
(***************************************************************************)
(* The way of a frame to the serial port: WriteToLoRaRaw (pkg/serial.go),  *)
(* the queue it fills and the drainer goroutine that empties it            *)
(* (pkg/app.go: initWriteQueue, stopWriteQueue, processWriteQueue), and    *)
(* what Enable and Disable (pkg/enable.go) do to them.                     *)
(*                                                                         *)
(* Goroutines: the scheduler of each PointWriteQueueManager, which has one *)
(* request in hand; the receiver, which acks confirmed uplinks; the        *)
(* drainers; the host that calls Enable and Disable.  A step is one        *)
(* critical section of writeQueueMutex, one channel operation, or one      *)
(* access to Port.                                                         *)
(*                                                                         *)
(* The environment opens and loses the port (module RunLoop says when).    *)
(* Port keeps the handle of a lost or closed connection, so it is "up" or  *)
(* "down" after the first open and never "nil" again.                      *)
(***************************************************************************)
EXTENDS Naturals, Sequences, Functions, FiniteSets

CONSTANTS
    Requests,    \* frames with a point write, transmitted by a scheduler
    Acks,        \* frames that acknowledge a confirmed uplink
    MaxEnables,  \* bound: calls of Enable
    MaxDrainers, \* bound: drainer goroutines ever started
    Capacity,    \* slots of the queue, 100 in the code
    NoQueue,     \* writeQueue == nil
    NoFrame      \* nothing in hand

Frames   == Requests \cup Acks
Managers == 1..MaxEnables
Drainers == 1..MaxDrainers

ASSUME FramesAssumption == Requests \cap Acks = {} /\ NoFrame \notin Frames
ASSUME BoundsAssumption == MaxEnables \in Nat /\ MaxDrainers \in Nat
ASSUME CapacityAssumption == Capacity \in Nat \ {0}
ASSUME NoQueueAssumption == NoQueue \notin Nat

VARIABLES
    Port,        \* "nil", or whether the handle in it still works
    writeQueue,  \* the drainer whose queue is current, or NoQueue
    queue,       \* frames in the channel of each drainer
    done,        \* drainers whose done channel is closed
    drainer,     \* where each drainer goroutine is
    holding,     \* the frame a drainer has taken from its queue
    call,        \* where the WriteToLoRaRaw call for each frame is
    target,      \* the queue getWriteQueue returned to that call
    host,        \* where the host is between Enable and Disable
    manager,     \* managers made so far; the last one is current
    stopped,     \* managers whose stop channel is closed
    inHand,      \* the request each manager's scheduler works on
    accepted,    \* history: frames in the order their queues took them
    air          \* history: frames that went out over the serial port

drains  == <<writeQueue, queue, done, drainer, holding>>
calls   == <<call, target>>
life    == <<host, manager, stopped, inHand>>
history == <<accepted, air>>
vars    == <<Port, drains, calls, life, history>>

Calling == {"init", "port", "get", "send"}

Init ==
    /\ Port = "nil"
    /\ writeQueue = NoQueue
    /\ queue = [d \in Drainers |-> <<>>]
    /\ done = {}
    /\ drainer = [d \in Drainers |-> "unborn"]
    /\ holding = [d \in Drainers |-> NoFrame]
    /\ call = [f \in Frames |-> "new"]
    /\ target = [f \in Frames |-> NoQueue]
    /\ host = "off"
    /\ manager = 0
    /\ stopped = {}
    /\ inHand = [m \in Managers |-> NoFrame]
    /\ accepted = <<>>
    /\ air = <<>>

-------------------------------------------------------------------------------
(* The queue and its drainer.                                                *)

\* The next drainer to be started.
IsFresh(d) == /\ drainer[d] = "unborn"
              /\ \A e \in 1..(d - 1) : drainer[e] # "unborn"

HasQueue == writeQueue # NoQueue

\* initWriteQueue: a queue and its drainer, unless there is one.
initWriteQueue ==
    \/ HasQueue /\ UNCHANGED <<writeQueue, drainer>>
    \/ /\ ~HasQueue
       /\ \E d \in Drainers :
             /\ IsFresh(d)
             /\ writeQueue' = d
             /\ drainer' = [drainer EXCEPT ![d] = "select"]

DroppedNot == writeQueue  \* Defect: the reference to the stopped queue is kept.

Dropped == NoQueue

\* stopWriteQueue: the drainer is told to end, the reference dropped.
stopWriteQueue ==
    /\ done' = IF HasQueue THEN done \cup {writeQueue} ELSE done
    /\ writeQueue' = Dropped

DrainerTakes(d) ==
    /\ drainer[d] = "select"
    /\ queue[d] # <<>>
    /\ holding' = [holding EXCEPT ![d] = Head(queue[d])]
    /\ queue' = [queue EXCEPT ![d] = Tail(@)]
    /\ drainer' = [drainer EXCEPT ![d] = "write"]
    /\ UNCHANGED <<Port, writeQueue, done, calls, life, history>>

\* The select takes <-done, though frames may be waiting.
DrainerEnds(d) ==
    /\ drainer[d] = "select"
    /\ d \in done
    /\ drainer' = [drainer EXCEPT ![d] = "gone"]
    /\ UNCHANGED <<Port, writeQueue, queue, done, holding, calls, life, history>>

AfterWriteEnds(d) == IF Port = "down" THEN "gone" ELSE "pause"  \* Defect: an error ends it.

AfterWrite(d) == "pause"

\* Port.Write: its error is logged, and the frame is lost.
DrainerWrites(d) ==
    /\ drainer[d] = "write"
    /\ air' = IF Port = "up" THEN Append(air, holding[d]) ELSE air
    /\ holding' = [holding EXCEPT ![d] = NoFrame]
    /\ drainer' = [drainer EXCEPT ![d] = IF Port = "nil" THEN "select"
                                                        ELSE AfterWrite(d)]
    /\ UNCHANGED <<Port, writeQueue, queue, done, calls, life, accepted>>

\* 50 ms for the LoRa module, then the next frame.
DrainerRests(d) ==
    /\ drainer[d] = "pause"
    /\ drainer' = [drainer EXCEPT ![d] = "select"]
    /\ UNCHANGED <<Port, writeQueue, queue, done, holding, calls, life, history>>

Drain(d) == \/ DrainerTakes(d) \/ DrainerEnds(d)
            \/ DrainerWrites(d) \/ DrainerRests(d)

-------------------------------------------------------------------------------
(* WriteToLoRaRaw.                                                           *)

\* A scheduler past its check of stop has an encoded request for the port.
Request(m, f) ==
    /\ m <= manager
    /\ m \notin stopped
    /\ inHand[m] = NoFrame
    /\ call[f] = "new"
    /\ inHand' = [inHand EXCEPT ![m] = f]
    /\ call' = [call EXCEPT ![f] = "init"]
    /\ UNCHANGED <<Port, drains, target, host, manager, stopped, history>>

\* handleConfirmedOpt: the receiver answers one frame at a time.
Acknowledge(f) ==
    /\ Port # "nil"
    /\ call[f] = "new"
    /\ \A g \in Acks : call[g] \notin Calling
    /\ call' = [call EXCEPT ![f] = "init"]
    /\ UNCHANGED <<Port, drains, target, life, history>>

WriteInit(f) ==
    /\ call[f] = "init"
    /\ initWriteQueue
    /\ call' = [call EXCEPT ![f] = "port"]
    /\ UNCHANGED <<Port, queue, done, holding, target, life, history>>

\* Port == nil: "serial port not connected".
PortConnected(f) == Port # "nil"

WriteChecksPort(f) ==
    /\ call[f] = "port"
    /\ call' = [call EXCEPT ![f] = IF PortConnected(f) THEN "get" ELSE "refused"]
    /\ UNCHANGED <<Port, drains, target, life, history>>

AfterGetUnchecked == "send"  \* Defect: sends to whatever getWriteQueue returns.

\* nil means "write queue stopped".
AfterGet == IF HasQueue THEN "send" ELSE "refused"

WriteGetsQueue(f) ==
    /\ call[f] = "get"
    /\ target' = [target EXCEPT ![f] = writeQueue]
    /\ call' = [call EXCEPT ![f] = AfterGet]
    /\ UNCHANGED <<Port, drains, life, history>>

QueuedFirst(q, f) == <<f>> \o q  \* Defect: overtakes the waiting frames.

Queued(q, f) == Append(q, f)

WriteSends(f) ==
    /\ call[f] = "send"
    /\ Len(queue[target[f]]) < Capacity
    /\ queue' = [queue EXCEPT ![target[f]] = Queued(@, f)]
    /\ accepted' = Append(accepted, f)
    /\ call' = [call EXCEPT ![f] = "sent"]
    /\ UNCHANGED <<Port, writeQueue, done, drainer, holding, target, life, air>>

TimesOutNever(f) == FALSE  \* Defect: no time.After in the select.

TimesOut(f) == Len(queue[target[f]]) = Capacity

WriteTimesOut(f) ==
    /\ call[f] = "send"
    /\ TimesOut(f)
    /\ call' = [call EXCEPT ![f] = "refused"]
    /\ UNCHANGED <<Port, drains, target, life, history>>

WriteToLoRaRaw(f) == \/ WriteInit(f) \/ WriteChecksPort(f) \/ WriteGetsQueue(f)
                     \/ WriteSends(f) \/ WriteTimesOut(f)

\* transmit ends: the frame was refused, or the RESPONSE, the response
\* timeout or Stop ended the wait for it.
Finish(m) ==
    /\ inHand[m] # NoFrame
    /\ call[inHand[m]] \in {"sent", "refused"}
    /\ inHand' = [inHand EXCEPT ![m] = NoFrame]
    /\ UNCHANGED <<Port, drains, calls, host, manager, stopped, history>>

-------------------------------------------------------------------------------
(* Enable and Disable, and the port.                                         *)

Enable ==
    /\ host = "off"
    /\ manager < MaxEnables
    /\ initWriteQueue
    /\ stopped' = 1..manager
    /\ manager' = manager + 1
    /\ host' = "on"
    /\ UNCHANGED <<Port, queue, done, holding, calls, inHand, history>>

DisableStopsManager ==
    /\ host = "on"
    /\ stopped' = 1..manager
    /\ host' = "disabling"
    /\ UNCHANGED <<Port, drains, calls, manager, inHand, history>>

DisableStopsQueue ==
    /\ host = "disabling"
    /\ stopWriteQueue
    /\ host' = "off"
    /\ UNCHANGED <<Port, queue, drainer, holding, calls, manager, stopped, inHand,
                   history>>

PortOpens ==
    /\ host = "on"
    /\ Port # "up"
    /\ Port' = "up"
    /\ UNCHANGED <<drains, calls, life, history>>

PortLost ==
    /\ Port = "up"
    /\ Port' = "down"
    /\ UNCHANGED <<drains, calls, life, history>>

Next ==
    \/ \E d \in Drainers : Drain(d)
    \/ \E m \in Managers, f \in Requests : Request(m, f)
    \/ \E f \in Acks : Acknowledge(f)
    \/ \E f \in Frames : WriteToLoRaRaw(f)
    \/ \E m \in Managers : Finish(m)
    \/ Enable
    \/ DisableStopsManager
    \/ DisableStopsQueue
    \/ PortOpens
    \/ PortLost

\* Go runs every goroutine that can run, and timers fire.
Fairness ==
    /\ \A d \in Drainers : WF_vars(Drain(d))
    /\ \A f \in Frames : WF_vars(WriteToLoRaRaw(f))
    /\ WF_vars(DisableStopsQueue)

Spec == Init /\ [][Next]_vars /\ Fairness

-------------------------------------------------------------------------------
(* Properties.                                                               *)

TypeOK ==
    /\ Port \in {"nil", "up", "down"}
    /\ writeQueue \in Drainers \cup {NoQueue}
    /\ queue \in [Drainers -> Seq(Frames)]
    /\ done \subseteq Drainers
    /\ drainer \in [Drainers -> {"unborn", "select", "write", "pause", "gone"}]
    /\ holding \in [Drainers -> Frames \cup {NoFrame}]
    /\ call \in [Frames -> Calling \cup {"new", "sent", "refused"}]
    /\ target \in [Frames -> Drainers \cup {NoQueue}]
    /\ \A f \in Frames : call[f] \in {"send", "sent"} => target[f] # NoQueue
    /\ host \in {"off", "on", "disabling"}
    /\ manager \in 0..MaxEnables
    /\ stopped \subseteq Managers
    /\ inHand \in [Managers -> Requests \cup {NoFrame}]
    /\ accepted \in Seq(Frames)
    /\ air \in Seq(Frames)

Alive(d) == drainer[d] \notin {"unborn", "gone"}

\* However calls of WriteToLoRaRaw, Enable and Disable meet, one drainer at
\* most is meant to go on, it is alive, and it is the one that a call finds: a
\* call that asks for the queue after a Disable and an Enable never gets a queue
\* whose drainer has been told to end (initWriteQueue, stopWriteQueue).
OneDrainer == {d \in Drainers : Alive(d) /\ d \notin done} =
                  IF HasQueue THEN {writeQueue} ELSE {}

Before(s, f, g) == \E i, j \in DOMAIN s : i < j /\ s[i] = f /\ s[j] = g

\* Frames of one queue go out in the order they were accepted, each once
\* (WriteToLoRaRaw, processWriteQueue).
InOrderOnce == \A i, j \in DOMAIN air :
                   i < j /\ target[air[i]] = target[air[j]] => Before(accepted, air[i], air[j])

\* A drainer that nothing has told to end empties its queue: a lost port does not
\* stop it (processWriteQueue).  Nothing is said of a drainer that Disable stops:
\* the frames in its queue, and the frame of a caller that got the queue before
\* Disable dropped it, may stay there for ever.
Waiting(f) == call[f] = "sent" /\ f \in Range(queue[target[f]])
FrameLeavesQueue == \A f \in Frames : Waiting(f) ~> target[f] \in done \/ ~Waiting(f)

\* WriteToLoRaRaw returns, even if the queue it has is full and its drainer
\* has ended meanwhile.
CallReturns == \A f \in Frames :
    call[f] \in Calling ~> call[f] \in {"sent", "refused"}

\* What the changelog says of v1.3.5-rc.2: a frame for a port that is lost is
\* reported, not accepted (WriteToLoRaRaw only tests Port == nil).
DisconnectedIsReported == [][\A f \in Frames :
    call[f] = "port" /\ call'[f] = "get" => Port = "up"]_vars
===============================================================================
