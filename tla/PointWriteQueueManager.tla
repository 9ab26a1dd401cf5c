------------------------ MODULE PointWriteQueueManager ------------------------
(***************************************************************************)
(* pkg/writeQueue.go and pkg/writeQueueManager.go: one queue of pending    *)
(* point writes for each device and one scheduler goroutine that transmits *)
(* them, one at a time, over a half-duplex radio.                          *)
(*                                                                         *)
(* Goroutines: the scheduler (schedule), the callers of EnqueuePoint, the  *)
(* receiver that hands RESPONSE frames to DequeueUsingMessageId, and the   *)
(* caller of Stop.  A step is one critical section of a mutex, or one      *)
(* channel operation.  m.mutex is held from the first to the last Peek of  *)
(* nextPending; a queue's own mutex never spans two steps.                 *)
(*                                                                         *)
(* The environment: getDevice, getEncryptionKey and the encoder may fail,  *)
(* the serial writer may refuse a frame, and a transmitted frame may be    *)
(* lost, or heard with its RESPONSE lost, late or in time.  Time is        *)
(* abstract: a response timeout may fire whenever the scheduler waits.     *)
(***************************************************************************)
EXTENDS Naturals, Sequences, Functions

CONSTANTS
    Devices,     \* device UUIDs
    Items,       \* the writes, one for each call of EnqueuePoint
    DeviceOf,    \* the device each write is addressed to
    Encoders,    \* devices whose model has an EncodeRequestMessage function
    MsgIds,      \* values GenerateRandomId can return
    MaxRetry,    \* attempts for each write
    Leftovers,   \* RESPONSE frames to requests of an earlier run of the process
    NoMsg,       \* Message == nil
    NoItem,      \* the scheduler has not picked an item yet
    NoFrame      \* the receiver holds no RESPONSE

Frames == Devices \X MsgIds  \* a RESPONSE: who sent it, which request it names

ASSUME DeviceOfAssumption  == DeviceOf \in [Items -> Devices]
ASSUME EncodersAssumption  == Encoders \subseteq Devices
ASSUME MaxRetryAssumption  == MaxRetry \in Nat \ {0}
ASSUME LeftoversAssumption == Leftovers \subseteq Frames
ASSUME NullsAssumption     == /\ NoMsg \notin MsgIds
                              /\ NoItem \notin Items
                              /\ NoFrame \notin Frames

VARIABLES
    queues,      \* pending items of each device, head first
    order,       \* the devices that have a queue, oldest first
    rrIndex,     \* position in order at which the next scan starts
    messageId,   \* id in the encoded frame of an item, NoMsg before encoding
    retryCount,  \* RetryCount of each item
    done,        \* "open", or how markDone closed the item's channel
    notify,      \* the one-slot wake-up channel holds a token
    stop,        \* the stop channel is closed
    pc,          \* where the scheduler goroutine is
    scan,        \* queues nextPending has found empty in this scan
    cur,         \* the item the scheduler picked last
    call,        \* where the EnqueuePoint call of each item is
    rx,          \* where the receiver goroutine is
    rxFrame,     \* the RESPONSE the receiver is handling
    air,         \* RESPONSE frames sent and not yet received
    attempts,    \* history: writeToLoRaRaw calls for each item
    heard,       \* history: items whose frame reached the device
    verdicts,    \* history: what the point's owner was told of each item
    passed       \* history: devices served while this one was waiting

shared    == <<queues, order, rrIndex, messageId, retryCount, done>>
signals   == <<notify, stop>>
scheduler == <<pc, scan, cur>>
receiver  == <<rx, rxFrame, air>>
history   == <<attempts, heard, verdicts, passed>>
vars      == <<shared, signals, scheduler, call, receiver, history>>

SchedulerStates == {"next", "idle", "check", "prepare", "write", "await",
                    "expire", "remove", "report", "stopped", "crashed"}

\* m.mutex is held by the scheduler in the middle of nextPending.
ManagerLocked == pc = "next" /\ scan > 0

IsHead(i) == /\ queues[DeviceOf[i]] # <<>>
             /\ Head(queues[DeviceOf[i]]) = i

\* Defect: the done channel is closed, and the item stays in its queue.
LeaveClosedOnly(d, how) ==
    done' = [done EXCEPT ![Head(queues[d])] = how] /\ UNCHANGED <<queues, passed>>

\* The head of device d leaves its queue and its done channel is closed.
Leave(d, how) ==
    /\ queues' = [queues EXCEPT ![d] = Tail(@)]
    /\ done' = [done EXCEPT ![Head(queues[d])] = how]
    /\ passed' = [passed EXCEPT ![d] = IF Len(queues[d]) = 1 THEN {} ELSE @]

Tell(i, verdict) == verdicts' = [verdicts EXCEPT ![i] = Append(@, verdict)]

Init ==
    /\ queues = [d \in Devices |-> <<>>]
    /\ order = <<>>
    /\ rrIndex = 0
    /\ messageId = [i \in Items |-> NoMsg]
    /\ retryCount = [i \in Items |-> 0]
    /\ done = [i \in Items |-> "open"]
    /\ notify = FALSE
    /\ stop = FALSE
    /\ pc = "next"
    /\ scan = 0
    /\ cur = NoItem
    /\ call = [i \in Items |-> "idle"]
    /\ rx = "listen"
    /\ rxFrame = NoFrame
    /\ air = [f \in Frames |-> IF f \in Leftovers THEN 1 ELSE 0]
    /\ attempts = [i \in Items |-> 0]
    /\ heard = {}
    /\ verdicts = [i \in Items |-> <<>>]
    /\ passed = [d \in Devices |-> {}]

-------------------------------------------------------------------------------
(* EnqueuePoint: getOrCreateQueue, EnqueueWriteQueue, wake.                  *)

GetOrCreateQueue(i) ==
    /\ call[i] = "idle"
    /\ ~ManagerLocked
    /\ call' = [call EXCEPT ![i] = "append"]
    /\ order' = IF DeviceOf[i] \in Range(order) THEN order
                                                ELSE Append(order, DeviceOf[i])
    /\ UNCHANGED <<queues, rrIndex, messageId, retryCount, done,
                   signals, scheduler, receiver, history>>

EnqueuedFirst(q, i) == <<i>> \o q  \* Defect: before the waiting writes.
Enqueued(q, i) == Append(q, i)

EnqueueWriteQueue(i) ==
    /\ call[i] = "append"
    /\ call' = [call EXCEPT ![i] = "wake"]
    /\ queues' = [queues EXCEPT ![DeviceOf[i]] = Enqueued(@, i)]
    /\ UNCHANGED <<order, rrIndex, messageId, retryCount, done,
                   signals, scheduler, receiver, history>>

\* The token stays in the channel's one slot until the scheduler takes it.
TokenUnbuffered == pc = "idle"  \* Defect: kept only if it is waiting right now.
TokenKept == TRUE

Wake(i) ==
    /\ call[i] = "wake"
    /\ call' = [call EXCEPT ![i] = "returned"]
    /\ notify' = TokenKept
    /\ UNCHANGED <<shared, stop, scheduler, receiver, history>>

Stop ==
    /\ ~stop
    /\ stop' = TRUE
    /\ UNCHANGED <<shared, notify, scheduler, call, receiver, history>>

-------------------------------------------------------------------------------
(* nextPending: Peek at the queues one by one, from rrIndex, under m.mutex.  *)

StartSticky(idx)  == idx      \* Defect: at the device that was just served.
StartSkipping(idx) == idx + 2 \* Defect: one device is skipped.
NextStart(idx) == idx + 1

ScanHit ==
    /\ pc = "next"
    /\ scan < Len(order)
    /\ LET idx == (rrIndex + scan) % Len(order)
           d   == order[idx + 1]
       IN  /\ queues[d] # <<>>
           /\ cur' = Head(queues[d])
           /\ rrIndex' = NextStart(idx)
           /\ passed' = [e \in Devices |->
                 IF e = d \/ queues[e] = <<>> THEN {} ELSE passed[e] \union {d}]
    /\ pc' = "check"
    /\ scan' = 0
    /\ UNCHANGED <<queues, order, messageId, retryCount, done, signals, call,
                   receiver, attempts, heard, verdicts>>

ScanMiss ==
    /\ pc = "next"
    /\ scan < Len(order)
    /\ queues[order[((rrIndex + scan) % Len(order)) + 1]] = <<>>
    /\ scan' = scan + 1
    /\ UNCHANGED <<shared, signals, pc, cur, call, receiver, history>>

ScanDoneEarly == scan + 1 >= Len(order)  \* Defect: one queue short of a round.
ScanDone == scan = Len(order)

ScanEmpty ==
    /\ pc = "next"
    /\ ScanDone
    /\ pc' = "idle"
    /\ scan' = 0
    /\ UNCHANGED <<shared, signals, cur, call, receiver, history>>

-------------------------------------------------------------------------------
(* schedule: wait for work, look at the stop channel, transmit the item.     *)

BackToLoop == pc' = "next" /\ cur' = NoItem

WakeUp ==
    /\ pc = "idle"
    /\ notify
    /\ notify' = FALSE
    /\ pc' = "next"
    /\ UNCHANGED <<shared, stop, scan, cur, call, receiver, history>>

StopAfterToken == stop /\ notify  \* Defect: looks at stop only once woken.
StopWhileIdle == stop

StopIdle ==
    /\ pc = "idle"
    /\ StopWhileIdle
    /\ pc' = "stopped"
    /\ UNCHANGED <<shared, signals, scan, cur, call, receiver, history>>

StopSeen == stop

CheckStop ==
    /\ pc = "check"
    /\ pc' = IF StopSeen THEN "stopped"
             ELSE IF messageId[cur] = NoMsg THEN "prepare" ELSE "write"
    /\ UNCHANGED <<shared, signals, scan, cur, call, receiver, history>>

-------------------------------------------------------------------------------
(* transmit, prepareMessage and finishAttempt.                               *)

\* Defect: RemoveItem without its test that the item is still the head.
RemoveItemUnguarded(i) ==
    IF queues[DeviceOf[i]] # <<>> THEN Leave(DeviceOf[i], "closed")
                                  ELSE UNCHANGED <<queues, done, passed>>

\* queue.RemoveItem; it returns IsHead(i).
RemoveItem(i) ==
    IF IsHead(i) THEN Leave(DeviceOf[i], "closed")
                 ELSE UNCHANGED <<queues, done, passed>>

PrepareMessage(id) ==
    /\ pc = "prepare"
    /\ DeviceOf[cur] \in Encoders
    /\ messageId' = [messageId EXCEPT ![cur] = id]
    /\ pc' = "write"
    /\ UNCHANGED <<queues, order, rrIndex, retryCount, done, signals, scan, cur,
                   call, receiver, history>>

\* getDevice, getEncryptionKey, the encoder or Encrypt returns an error.
PrepareFails ==
    /\ pc = "prepare"
    /\ RemoveItem(cur)
    /\ BackToLoop
    /\ UNCHANGED <<order, rrIndex, messageId, retryCount, signals, scan, call,
                   receiver, attempts, heard, verdicts>>

\* The model of the device has a nil EncodeRequestMessage: the call panics in
\* the scheduler goroutine, which nothing recovers, and the process dies.
PreparePanics ==
    /\ pc = "prepare"
    /\ DeviceOf[cur] \notin Encoders
    /\ pc' = "crashed"
    /\ UNCHANGED <<shared, signals, scan, cur, call, receiver, history>>

\* The frame is lost, or heard and its RESPONSE lost, or heard and answered.
Transmit ==
    /\ pc = "write"
    /\ pc' = "await"
    /\ attempts' = [attempts EXCEPT ![cur] = @ + 1]
    /\ \/ UNCHANGED <<heard, air>>
       \/ heard' = heard \union {cur} /\ UNCHANGED air
       \/ /\ heard' = heard \union {cur}
          /\ air' = [air EXCEPT ![<<DeviceOf[cur], messageId[cur]>>] = @ + 1]
    /\ UNCHANGED <<shared, signals, scan, cur, call, rx, rxFrame,
                   verdicts, passed>>

TransmitRefused ==
    /\ pc = "write"
    /\ pc' = "expire"
    /\ attempts' = [attempts EXCEPT ![cur] = @ + 1]
    /\ UNCHANGED <<shared, signals, scan, cur, call, receiver,
                   heard, verdicts, passed>>

AwaitDone ==
    /\ pc = "await"
    /\ done[cur] # "open"
    /\ BackToLoop
    /\ UNCHANGED <<shared, signals, scan, call, receiver, history>>

AwaitTimeout ==
    /\ pc = "await"
    /\ pc' = "expire"
    /\ UNCHANGED <<shared, signals, scan, cur, call, receiver, history>>

AwaitStop ==
    /\ pc = "await"
    /\ stop
    /\ BackToLoop
    /\ UNCHANGED <<shared, signals, scan, call, receiver, history>>

RetriesLeftLate(n) == n <= MaxRetry  \* Defect: one attempt too many.
RetriesLeft(n) == n < MaxRetry

\* finishAttempt up to its first return.
IncRetry ==
    /\ pc = "expire"
    /\ retryCount' = [retryCount EXCEPT ![cur] = @ + 1]
    /\ IF RetriesLeft(retryCount'[cur])
       THEN BackToLoop
       ELSE pc' = "remove" /\ UNCHANGED cur
    /\ UNCHANGED <<queues, order, rrIndex, messageId, done, signals, scan, call,
                   receiver, history>>

\* Whether the item is reported: only if RemoveItem has removed it.
ReportsBlindly(i) == TRUE   \* Defect: reported although it was acked meanwhile.
ReportsNothing(i) == FALSE  \* Defect: removed, and nobody is told.
Reports(i) == IsHead(i)

\* finishAttempt's RemoveItem; an item acked meanwhile is not reported.
GiveUp ==
    /\ pc = "remove"
    /\ RemoveItem(cur)
    /\ IF Reports(cur) THEN pc' = "report" /\ UNCHANGED cur
                       ELSE BackToLoop
    /\ UNCHANGED <<order, rrIndex, messageId, retryCount, signals, scan, call,
                   receiver, attempts, heard, verdicts>>

OnWriteExhausted ==
    /\ pc = "report"
    /\ Tell(cur, "exhausted")
    /\ BackToLoop
    /\ UNCHANGED <<shared, signals, scan, call, receiver,
                   attempts, heard, passed>>

-------------------------------------------------------------------------------
(* The receiver: DequeueUsingMessageId, once for each value a RESPONSE holds. *)

RxReceive(f) ==
    /\ rx = "listen"
    /\ air[f] > 0
    /\ air' = [air EXCEPT ![f] = @ - 1]
    /\ rx' = "lookup"
    /\ rxFrame' = f
    /\ UNCHANGED <<shared, signals, scheduler, call, history>>

\* The receiver goes on with the next value of the frame, or with a new frame.
NextValue == rx' = "lookup" /\ UNCHANGED rxFrame
NextFrame == rx' = "listen" /\ rxFrame' = NoFrame

RxLookup ==
    /\ rx = "lookup"
    /\ ~ManagerLocked
    /\ IF rxFrame[1] \in Range(order) THEN rx' = "dequeue" /\ UNCHANGED rxFrame
                                      ELSE NextValue \/ NextFrame
    /\ UNCHANGED <<shared, signals, scheduler, call, air, history>>

\* The head carries a message (Message # nil) with the id of the RESPONSE.
MatchesUnencoded(i, id) == messageId[i] \in {id, NoMsg}  \* Defect: no nil test.
Matches(i, id) == messageId[i] = id

RxDequeue ==
    /\ rx = "dequeue"
    /\ LET q == queues[rxFrame[1]]
       IN  IF q # <<>> /\ Matches(Head(q), rxFrame[2])
           THEN /\ Leave(rxFrame[1], "acked")
                /\ Tell(Head(q), "answered")
           ELSE UNCHANGED <<queues, done, passed, verdicts>>
    /\ NextValue \/ NextFrame
    /\ UNCHANGED <<order, rrIndex, messageId, retryCount, signals, scheduler,
                   call, air, attempts, heard>>

-------------------------------------------------------------------------------
Scan == ScanHit \/ ScanMiss \/ ScanEmpty

Prepare == PrepareFails \/ PreparePanics \/ \E id \in MsgIds : PrepareMessage(id)

Await == AwaitDone \/ AwaitTimeout \/ AwaitStop

FinishAttempt == IncRetry \/ GiveUp \/ OnWriteExhausted

Schedule == \/ Scan \/ WakeUp \/ StopIdle \/ CheckStop \/ Prepare
            \/ Transmit \/ TransmitRefused \/ Await \/ FinishAttempt

EnqueuePoint(i) == GetOrCreateQueue(i) \/ EnqueueWriteQueue(i) \/ Wake(i)

Receive == RxLookup \/ RxDequeue \/ \E f \in Frames : RxReceive(f)

Next == /\ pc # "crashed"
        /\ \/ Schedule
           \/ \E i \in Items : EnqueuePoint(i)
           \/ Receive
           \/ Stop

Spec == Init /\ [][Next]_vars

\* The Go scheduler runs every goroutine that can run, and a response timer
\* fires: the scheduler goroutine never stays where it can go on.  A caller that
\* holds its queue finishes EnqueuePoint, whose last two steps never block on
\* m.mutex.  Nothing is assumed of the radio, of RESPONSE frames or of Stop.
Fairness ==
    /\ WF_vars(pc # "crashed" /\ Schedule)
    /\ \A i \in Items :
          WF_vars(pc # "crashed" /\ (EnqueueWriteQueue(i) \/ Wake(i)))

FairSpec == Spec /\ Fairness

-------------------------------------------------------------------------------
(* Properties.                                                               *)

\* Every variable has its type; rrIndex never goes past the end of order, the
\* value nextPending leaves there on purpose.
TypeOK ==
    /\ queues \in [Devices -> Seq(Items)]
    /\ order \in Seq(Devices)
    /\ rrIndex \in 0..Len(order)
    /\ messageId \in [Items -> MsgIds \union {NoMsg}]
    /\ retryCount \in [Items -> 0..MaxRetry]
    /\ done \in [Items -> {"open", "acked", "closed"}]
    /\ notify \in BOOLEAN /\ stop \in BOOLEAN
    /\ pc \in SchedulerStates
    /\ scan \in 0..Len(order)
    /\ cur \in Items \union {NoItem}
    /\ call \in [Items -> {"idle", "append", "wake", "returned"}]
    /\ rx \in {"listen", "lookup", "dequeue"}
    /\ rxFrame \in Frames \union {NoFrame}
    /\ air \in [Frames -> Nat]
    /\ attempts \in [Items -> Nat]
    /\ heard \subseteq Items
    /\ verdicts \in [Items -> Seq({"answered", "exhausted"})]
    /\ passed \in [Devices -> SUBSET Devices]

\* A late RESPONSE and the response timer race for the same item: the owner of
\* the point is told once, either that the write was answered or that it was
\* exhausted, never both and never twice (RemoveItem's head test, dequeue).
OneVerdict == \A i \in Items : Len(verdicts[i]) <= 1

\* A write that was put on air and has left its queue had its owner told, or the
\* scheduler is about to tell: only a write that could not be prepared vanishes
\* without a verdict (transmit's dropping branch).
EncodedWriteIsTold ==
    \A i \in Items :
        done[i] # "open" /\ verdicts[i] = <<>>
            => attempts[i] = 0 \/ (pc = "report" /\ cur = i)

\* The scheduler gives up only on the item it is working on, after its last
\* attempt or when it cannot be prepared: a RESPONSE that takes this item away
\* just before RemoveItem does not make it remove the next write instead.
RemovesOnlyItsOwn ==
    [][\A i \in Items :
          done[i] = "open" /\ done'[i] = "closed" =>
              /\ cur = i
              /\ pc = "prepare" \/ attempts[i] = MaxRetry]_vars

\* maxRetry bounds the attempts of one write over all the turns the round robin
\* gives it, and a write is only given up after all of them (finishAttempt).
AttemptsBounded ==
    \A i \in Items :
        /\ attempts[i] <= MaxRetry
        /\ verdicts[i] = <<"exhausted">> => attempts[i] = MaxRetry

\* Only the head of a queue carries an encoded frame, so the one message id a
\* device can answer with names the write the scheduler transmitted.
OnlyHeadEncoded ==
    \A i \in Items : messageId[i] # NoMsg /\ done[i] = "open" => IsHead(i)

\* A RESPONSE never takes a write that was not encoded yet, although the
\* MessageId of such a write is 0 and a RESPONSE may carry 0 (dequeue, SetMessage).
AckedWasEncoded == \A i \in Items : done[i] = "acked" => messageId[i] # NoMsg

\* A write is acked because the device has heard it, or because a RESPONSE to
\* another frame of the device, late or repeated, has the same random id: one
\* chance in 256, and no other way to a false ack (prepareMessage, dequeue).
Answers(f) == f \in Leftovers \/ \E i \in heard : f = <<DeviceOf[i], messageId[i]>>
AckedWasHeard ==
    \A i \in Items :
        done[i] = "acked" => i \in heard \/ Answers(<<DeviceOf[i], messageId[i]>>)

\* The scheduler may transmit an item once more that the receiver has taken off
\* its queue, and no more than once: it holds the item of one attempt only, and
\* an item that is settled is never peeked at again (nextPending, transmit).
SettledStaysSilent ==
    [][\A i \in Items : done[i] # "open" /\ cur # i =>
          attempts'[i] = attempts[i] /\ cur' # i]_vars

\* While a device has work, no other device gets a second turn before it, even
\* when queues are created, filled and emptied during a scan (rrIndex).
RoundRobin ==
    [][pc = "next" /\ pc' = "check" =>
          \A d \in Devices :
              queues[d] # <<>> /\ d # DeviceOf[cur'] =>
                  DeviceOf[cur'] \notin passed[d]]_vars

\* The scheduler never sleeps on pending work: there is a token in the channel
\* or a caller about to put one there (nextPending and wake are not atomic).
NoLostWakeup ==
    pc = "idle" /\ (\E d \in Devices : queues[d] # <<>>) =>
        notify \/ \E i \in Items : call[i] = "wake"

\* What became of a write, in the terms of PendingWrites.
Outcome ==
    [i \in Items |->
        IF call[i] \in {"idle", "append"} THEN "new"
        ELSE IF done[i] = "open"  THEN "pending"
        ELSE IF done[i] = "acked" THEN "answered"
        ELSE IF retryCount[i] = MaxRetry THEN "exhausted" ELSE "dropped"]

Abstract == INSTANCE PendingWrites
                WITH pending <- queues,
                     outcome <- Outcome,
                     closed  <- stop \/ pc = "crashed"

\* Every step is a step of PendingWrites or leaves it unchanged: writes of one
\* device leave in the order they were accepted, each with one outcome.
RefinesSafety == Abstract!Safety

\* ... and until the manager is closed every queue keeps being served.
RefinesPromise == Abstract!Promise

\* A write whose EnqueuePoint has returned is answered, exhausted or dropped,
\* unless the manager is stopped or the scheduler panics.
WritesSettle ==
    \A i \in Items :
        call[i] = "returned" ~> done[i] # "open" \/ stop \/ pc = "crashed"

\* Once stopped, the scheduler completes at most the attempt it is making: from
\* its loop it can only end (the stop check before transmit).
QuietAfterStop ==
    [][stop /\ pc \in {"next", "idle", "check", "stopped"} =>
          pc' \in {"next", "idle", "check", "stopped"}]_vars

\* Stop always ends the scheduler, whatever it was waiting for.
StopEndsScheduler == stop ~> pc \in {"stopped", "crashed"}

(* What a comment says, and the code does not keep.                          *)

\* "unencodable point: nothing to retry" (writeQueueManager.go:168): a write
\* that cannot be encoded is dropped and the scheduler goes on.
UnencodableIsDropped == pc # "crashed"
===============================================================================
