------------------------------ MODULE PointWrites ------------------------------
(***************************************************************************)
(* A point write from the API request to the verdict in the database:      *)
(* PointWrite (pkg/router.go), the row of the point (pkg/dbWriter.go and   *)
(* writePoint in pkg/app.go), the write queue of one device, and Enable,   *)
(* which queues pending rows again in a new manager (pkg/enable.go).       *)
(*                                                                         *)
(* PointWriteQueueManager.tla has the manager in detail; here all attempts *)
(* of an item are one turn, and message ids tell the items of all managers *)
(* apart.  The queues are lost in a crash; rows and the device survive it. *)
(* Requests, the scheduler of each manager, the receiver and Enable are    *)
(* concurrent: a gRPC call to the database is one step, and so is each use *)
(* of Module.pointWriteQueueManager.                                       *)
(***************************************************************************)
EXTENDS Naturals, Sequences

CONSTANTS
    Points,       \* the points of one device
    Writes,       \* PointWrite requests; each has a value of its own
    PointOf,      \* the point each request writes
    MaxManagers,  \* bound: managers ever made (calls of Enable)
    NoWrite       \* a row or a device without a value

Managers == 1..MaxManagers
Items    == Writes \X {"api", "enable"}  \* a pending write, and who queued it
Answers  == {"ok", "error"}
NoItem   == <<NoWrite, "api">>
NoAnswer == <<NoItem, "ok">>

ASSUME PointOfAssumption == PointOf \in [Writes -> Points]
ASSUME BoundAssumption   == MaxManagers \in Nat
ASSUME NoWriteAssumption == NoWrite \notin Writes

VARIABLES
    row,        \* database row of each point: its write value and point state
    held,       \* the value each point has in the device
    call,       \* where the PointWrite request of each write is
    target,     \* the manager that request has found, 0 before
    made,       \* managers made so far, over all runs of the process
    current,    \* Module.pointWriteQueueManager, 0 for nil
    stopped,    \* managers whose Stop was called, or lost in a crash
    queue,      \* the device's queue in each manager
    phase,      \* where the scheduler of each manager is
    hand,       \* the item it is working on
    answer,     \* the device's answers to the head of each queue
    rx,         \* the item the receiver has dequeued, and the answer to it
    enable,     \* where Enable is
    snapshot,   \* items it has still to queue
    abandoned,  \* history: writes given up with no more than a log line
    muddled     \* history: points written in one of the orders listed below

module  == <<made, current, stopped>>
sched   == <<queue, phase, hand, answer>>
request == <<call, target>>
life    == <<enable, snapshot>>
vars    == <<row, held, request, module, sched, rx, life, abandoned, muddled>>

PointIn(i) == PointOf[i[1]]

Init ==
    /\ row = [p \in Points |-> [write |-> NoWrite, state |-> "none"]]
    /\ held = [p \in Points |-> NoWrite]
    /\ call = [w \in Writes |-> "idle"]
    /\ target = [w \in Writes |-> 0]
    /\ made = 0
    /\ current = 0
    /\ stopped = {}
    /\ queue = [m \in Managers |-> <<>>]
    /\ phase = [m \in Managers |-> "loop"]
    /\ hand = [m \in Managers |-> NoItem]
    /\ answer = [m \in Managers |-> {}]
    /\ rx = NoAnswer
    /\ enable = "idle"
    /\ snapshot = {}
    /\ abandoned = {}
    /\ muddled = {}

InCall(p)  == \E w \in Writes : PointOf[w] = p /\ call[w] \in {"stored", "aimed"}
InQueue(p) == current # 0 /\ \E k \in 1..Len(queue[current]) :
                                PointIn(queue[current][k]) = p
InHand(p)  == \E m \in Managers : hand[m] # NoItem /\ PointIn(hand[m]) = p
Answered(p) == rx # NoAnswer /\ PointIn(rx[1]) = p
Serving    == current # 0 /\ current \notin stopped

-------------------------------------------------------------------------------
(* PointWrite: writePoint, then EnqueuePoint on the manager found.           *)

\* Two requests for one point overlap, or a request meets Enable: nothing keeps
\* the order in which values are stored and the one in which they are queued.
StorePoint(w) ==
    /\ call[w] = "idle"
    /\ call' = [call EXCEPT ![w] = "stored"]
    /\ row' = [row EXCEPT ![PointOf[w]] = [write |-> w, state |-> "pending"]]
    /\ muddled' = IF InCall(PointOf[w]) \/ enable # "idle"
                  THEN muddled \union {PointOf[w]} ELSE muddled
    /\ UNCHANGED <<held, target, module, sched, rx, life, abandoned>>

FindManager(w) ==
    /\ call[w] = "stored"
    /\ current # 0
    /\ call' = [call EXCEPT ![w] = "aimed"]
    /\ target' = [target EXCEPT ![w] = current]
    /\ UNCHANGED <<row, held, module, sched, rx, life, abandoned, muddled>>

Queued(q, i) == Append(q, i)

EnqueuePoint(w) ==
    /\ call[w] = "aimed"
    /\ call' = [call EXCEPT ![w] = "returned"]
    /\ queue' = [queue EXCEPT ![target[w]] = Queued(@, <<w, "api">>)]
    /\ target' = [target EXCEPT ![w] = 0]
    /\ UNCHANGED <<row, held, module, phase, hand, answer, rx, life,
                   abandoned, muddled>>

PointWrite(w) == StorePoint(w) \/ FindManager(w) \/ EnqueuePoint(w)

-------------------------------------------------------------------------------
(* The scheduler of manager m: schedule, transmit, finishAttempt.            *)

IsHead(m, i) == queue[m] # <<>> /\ Head(queue[m]) = i

\* The head of a queue leaves it; answers to it match nothing any more.
Leave(m) == /\ queue' = [queue EXCEPT ![m] = Tail(@)]
            /\ answer' = [answer EXCEPT ![m] = {}]

RemoveItem(m, i) == IF IsHead(m, i) THEN Leave(m) ELSE UNCHANGED <<queue, answer>>

BackToLoop(m) == /\ phase' = [phase EXCEPT ![m] = "loop"]
                 /\ hand' = [hand EXCEPT ![m] = NoItem]

SchedulerPicks(m) ==
    /\ phase[m] = "loop"
    /\ m \notin stopped
    /\ queue[m] # <<>>
    /\ hand' = [hand EXCEPT ![m] = Head(queue[m])]
    /\ phase' = [phase EXCEPT ![m] = "prepare"]
    /\ UNCHANGED <<row, held, request, module, queue, answer, rx, life,
                   abandoned, muddled>>

\* transmit drops an item it cannot prepare; its row is left as it is.
PrepareFails(m) ==
    /\ phase[m] = "prepare"
    /\ RemoveItem(m, hand[m])
    /\ BackToLoop(m)
    /\ abandoned' = abandoned \union {hand[m][1]}
    /\ UNCHANGED <<row, held, request, module, rx, life, muddled>>

\* The device hears one of the attempts or none, and takes or refuses the value.
Transmit(m) ==
    /\ phase[m] = "prepare"
    /\ phase' = [phase EXCEPT ![m] = "await"]
    /\ \/ UNCHANGED <<held, answer>>
       \/ \E a \in Answers :
             /\ answer' = [answer EXCEPT ![m] = @ \union {a}]
             /\ held' = IF a = "ok"
                        THEN [held EXCEPT ![PointIn(hand[m])] = hand[m][1]]
                        ELSE held
    /\ UNCHANGED <<row, request, module, queue, hand, rx, life,
                   abandoned, muddled>>

\* The item was acked meanwhile, or the manager was stopped.
AwaitOverOnStop(m) == m \in stopped  \* Defect: the ack does not end the wait.
AwaitOver(m) == ~IsHead(m, hand[m]) \/ m \in stopped

AwaitEnds(m) ==
    /\ phase[m] = "await"
    /\ AwaitOver(m)
    /\ BackToLoop(m)
    /\ UNCHANGED <<row, held, request, module, queue, answer, rx, life,
                   abandoned, muddled>>

\* The last attempt has ended without an answer: RemoveItem.
GiveUp(m) ==
    /\ phase[m] = "await"
    /\ IsHead(m, hand[m])
    /\ Leave(m)
    /\ phase' = [phase EXCEPT ![m] = "report"]
    /\ UNCHANGED <<row, held, request, module, hand, rx, life, abandoned, muddled>>

\* updateWrittenPointError or -Success; the caller ignores its error.
StoreVerdict(i, state) ==
    \/ /\ row' = [row EXCEPT ![PointIn(i)].state = state]
       /\ UNCHANGED abandoned
    \/ /\ abandoned' = abandoned \union {i[1]}
       /\ UNCHANGED row

\* The verdict may overtake the one the receiver is about to store.
OnWriteExhausted(m) ==
    /\ phase[m] = "report"
    /\ StoreVerdict(hand[m], "failed")
    /\ BackToLoop(m)
    /\ muddled' = IF Answered(PointIn(hand[m]))
                  THEN muddled \union {PointIn(hand[m])} ELSE muddled
    /\ UNCHANGED <<held, request, module, queue, answer, rx, life>>

Schedule(m) == \/ SchedulerPicks(m) \/ PrepareFails(m) \/ Transmit(m)
               \/ AwaitEnds(m) \/ GiveUp(m) \/ OnWriteExhausted(m)

-------------------------------------------------------------------------------
(* The receiver: updateDeviceWrittenPoint.                                   *)

\* DequeueUsingMessageId finds only the head of the current manager's queue.
DequeueAnswered ==
    /\ rx = NoAnswer
    /\ current # 0
    /\ \E a \in answer[current] : rx' = <<Head(queue[current]), a>>
    /\ Leave(current)
    /\ UNCHANGED <<row, held, request, module, phase, hand, life,
                   abandoned, muddled>>

VerdictOptimistic(a) == "ok"  \* Defect: an error code is not looked at.
Verdict(a) == IF a = "ok" THEN "ok" ELSE "failed"

StoreAnswer ==
    /\ rx # NoAnswer
    /\ StoreVerdict(rx[1], Verdict(rx[2]))
    /\ rx' = NoAnswer
    /\ UNCHANGED <<held, request, module, sched, life, muddled>>

-------------------------------------------------------------------------------
(* Enable, Disable, and a crash of the process.                              *)

\* The bound: the host disables, or the process dies, only if Enable can follow.
CanEnable == made < MaxManagers

\* Orders in which a value can be lost although its row says "ok": the ack of an
\* older write is in the row, or about to be, when the queue of the newer one is
\* thrown away, or an old scheduler still holds a value it may transmit.
LosesOrder(p) == \/ InCall(p)
                 \/ InHand(p)
                 \/ Answered(p)
                 \/ row[p].state = "ok" /\ InQueue(p)

\* Stop the old manager, make a new one.
EnableSwitches ==
    /\ enable = "idle"
    /\ CanEnable
    /\ made' = made + 1
    /\ current' = made + 1
    /\ stopped' = stopped \union ({current} \ {0})
    /\ enable' = "read"
    /\ muddled' = muddled \union {p \in Points : LosesOrder(p)}
    /\ UNCHANGED <<row, held, request, sched, rx, snapshot, abandoned>>

RequeuedAlways(state) == TRUE                \* Defect: every row of the network.
RequeuedIfFailed(state) == state = "failed"  \* Defect: pending is forgotten.
Requeued(state) == state \in {"pending", "failed"}

\* GetNetwork with its points: one snapshot of all rows, or an error.
EnableReads ==
    /\ enable = "read"
    /\ LET rows == {p \in Points : Requeued(row[p].state)}
       IN  \/ /\ snapshot' = {<<row[p].write, "enable">> : p \in rows}
              /\ enable' = "queue"
              /\ UNCHANGED abandoned
           \/ /\ abandoned' = abandoned \union {row[p].write : p \in rows}
              /\ enable' = "idle"
              /\ UNCHANGED snapshot
    /\ UNCHANGED <<row, held, request, module, sched, rx, muddled>>

EnableQueues(i) ==
    /\ enable = "queue"
    /\ i \in snapshot
    /\ snapshot' = snapshot \ {i}
    /\ queue' = [queue EXCEPT ![current] = Queued(@, i)]
    /\ UNCHANGED <<row, held, request, module, phase, hand, answer, rx, enable,
                   abandoned, muddled>>

EnableReturns ==
    /\ enable = "queue"
    /\ snapshot = {}
    /\ enable' = "idle"
    /\ UNCHANGED <<row, held, request, module, sched, rx, snapshot, abandoned,
                   muddled>>

Enable == \/ EnableSwitches \/ EnableReads \/ EnableReturns
          \/ \E i \in Items : EnableQueues(i)

Disable ==
    /\ enable = "idle"
    /\ Serving
    /\ CanEnable
    /\ stopped' = stopped \union {current}
    /\ UNCHANGED <<row, held, request, made, current, sched, rx, life,
                   abandoned, muddled>>

\* What is left of the process: nothing.
Dies ==
    /\ current' = 0
    /\ stopped' = stopped \union 1..made
    /\ queue' = [m \in Managers |-> <<>>]
    /\ phase' = [m \in Managers |-> "loop"]
    /\ hand' = [m \in Managers |-> NoItem]
    /\ answer' = [m \in Managers |-> {}]
    /\ rx' = NoAnswer
    /\ target' = [w \in Writes |-> 0]
    /\ call' = [w \in Writes |-> IF call[w] = "idle" THEN "idle" ELSE "returned"]
    /\ enable' = "idle"
    /\ snapshot' = {}
    /\ muddled' = muddled \union {p \in Points : LosesOrder(p)}
    /\ UNCHANGED <<row, held, made, abandoned>>

Crash == current # 0 /\ CanEnable /\ Dies

\* EnqueuePoint through the nil manager of a module that was never enabled.
PointWritePanics(w) == call[w] = "stored" /\ current = 0 /\ Dies

Next == \/ \E w \in Writes : PointWrite(w) \/ PointWritePanics(w)
        \/ \E m \in Managers : Schedule(m)
        \/ DequeueAnswered \/ StoreAnswer
        \/ Enable \/ Disable \/ Crash

Spec == Init /\ [][Next]_vars

\* Go runs every goroutine that can run: requests, schedulers and Enable go on
\* once started, and the receiver stores what it has dequeued.
Fairness == /\ \A w \in Writes : WF_vars(FindManager(w) \/ EnqueuePoint(w))
            /\ \A m \in Managers : WF_vars(Schedule(m))
            /\ WF_vars(StoreAnswer)
            /\ WF_vars(enable # "idle" /\ Enable)

FairSpec == Spec /\ Fairness

-------------------------------------------------------------------------------
(* Properties.                                                               *)

\* Every variable has its type; an item in hand or in a queue is a real item.
TypeOK ==
    /\ row \in [Points -> [write : Writes \union {NoWrite},
                           state : {"none", "pending", "ok", "failed"}]]
    /\ held \in [Points -> Writes \union {NoWrite}]
    /\ call \in [Writes -> {"idle", "stored", "aimed", "returned"}]
    /\ target \in [Writes -> 0..MaxManagers]
    /\ made \in 0..MaxManagers
    /\ current \in 0..made
    /\ stopped \subseteq 1..made
    /\ queue \in [Managers -> Seq(Items)]
    /\ phase \in [Managers -> {"loop", "prepare", "await", "report"}]
    /\ hand \in [Managers -> Items \union {NoItem}]
    /\ answer \in [Managers -> SUBSET Answers]
    /\ rx \in (Items \X Answers) \union {NoAnswer}
    /\ enable \in {"idle", "read", "queue"}
    /\ snapshot \subseteq Items
    /\ abandoned \subseteq Writes
    /\ muddled \subseteq Points

\* Somebody still has the value of a row to deal with.
UnderWay(w) ==
    \/ call[w] \in {"stored", "aimed"}
    \/ \E k \in 1..Len(queue[current]) : queue[current][k][1] = w
    \/ phase[current] = "report" /\ hand[current][1] = w
    \/ rx[1][1] = w

\* While the module is enabled, the value of a row that says "pending" has a
\* request, a queue entry or a verdict under way, or was given up with a log
\* line: neither a crash nor a request that found the manager Enable was just
\* replacing loses it, since Enable reads the rows after making the new manager.
NoWriteForgotten ==
    Serving /\ enable = "idle" =>
        \A p \in Points : row[p].state = "pending" =>
            UnderWay(row[p].write) \/ row[p].write \in abandoned

Quiet(p) == ~InCall(p) /\ ~InQueue(p) /\ ~InHand(p) /\ rx = NoAnswer /\ enable = "idle"

\* Once nothing is under way for a point whose row says "ok", the device holds
\* the value of the row, and not an older one (the order of the queue and of the
\* verdicts), unless its requests came in one of the orders muddled records.
OkIsHeld ==
    \A p \in Points :
        Quiet(p) /\ row[p].state = "ok" =>
            \/ held[p] = row[p].write
            \/ row[p].write \in abandoned
            \/ p \in muddled

\* A pending row does not stay so while the module is enabled: it gets a
\* verdict or a newer value, or is given up with a log line.
PendingIsSettled ==
    \A w \in Writes :
        Serving /\ row[PointOf[w]] = [write |-> w, state |-> "pending"] ~>
            \/ row[PointOf[w]] # [write |-> w, state |-> "pending"]
            \/ w \in abandoned
            \/ ~Serving
===============================================================================
