-------------------------- MODULE PointOrder_proofs --------------------------
(***************************************************************************)
(* OkIsHeld of PointWrites, for every instance: a row that says "ok" holds *)
(* the value the device holds, for a point whose requests came in none of  *)
(* the orders that muddled records.                                        *)
(*                                                                         *)
(* The value of such a point goes one way, and what is behind it is newer: *)
(* device, verdict under way, hand of the scheduler, queue, request.  The  *)
(* value of the row is the last of them.  So whatever stage it leaves, the *)
(* row and the device agree, the value is on record as given up, or a      *)
(* verdict about it is still to be stored.                                 *)
(***************************************************************************)
EXTENDS PointWrites_proofs

\* Only the current manager can do anything; a later one has not been made.
StoppedInv ==
    /\ \A m \in 1..made : m \in stopped \/ m = current
    /\ \A m \in Managers : m > made =>
          queue[m] = <<>> /\ phase[m] = "loop" /\ hand[m] = NoItem /\ answer[m] = {}
    /\ enable # "queue" => snapshot = {}

\* A request under way has the newest value, and is aimed at the manager in use.
CallOrder(p) ==
    \A w \in Writes : PointOf[w] = p /\ call[w] \in {"stored", "aimed"} =>
        /\ row[p].write = w
        /\ call[w] = "aimed" => target[w] = current

SnapshotOrder(p) == \A i \in snapshot : PointIn(i) = p => i[1] = row[p].write

\* With no request under way, the last item of the queue has the newest value.
LastOf(q, p, k) == /\ k \in 1..Len(q)
                   /\ PointIn(q[k]) = p
                   /\ \A l \in 1..Len(q) : l > k => PointIn(q[l]) # p

QueueOrder(p) ==
    current # 0 /\ ~InCall(p) =>
        \A k \in 1..Len(queue[current]) :
            LastOf(queue[current], p, k) => queue[current][k][1] = row[p].write

HandOrder(p) ==
    \A m \in Managers : hand[m] # NoItem /\ PointIn(hand[m]) = p => m = current

\* The device holds a value it has accepted until the next one is transmitted.
AnswerOrder(p) ==
    current # 0 /\ "ok" \in answer[current] /\ PointIn(Head(queue[current])) = p =>
        held[p] = Head(queue[current])[1]

Left(p)      == ~InCall(p) /\ ~InQueue(p) /\ row[p].write \notin abandoned
Reporting(p) == \E m \in Managers : phase[m] = "report" /\ hand[m][1] = row[p].write

\* A verdict under way is about the newest value, unless that one is exhausted.
RxOrder(p) ==
    Left(p) /\ Answered(p) =>
        \/ rx[1][1] = row[p].write /\ (rx[2] = "ok" => held[p] = row[p].write)
        \/ Reporting(p)

OkOrder(p) ==
    Left(p) /\ row[p].state = "ok" =>
        held[p] = row[p].write \/ Reporting(p) \/ Answered(p)

Ordered(p) == /\ CallOrder(p) /\ SnapshotOrder(p) /\ QueueOrder(p) /\ HandOrder(p)
              /\ AnswerOrder(p) /\ RxOrder(p) /\ OkOrder(p)

OrderInv == StoppedInv /\ \A p \in Points : p \in muddled \/ Ordered(p)
-----------------------------------------------------------------------------
(* What a queue that gains or loses an item does to the order.              *)

\* The current manager is one of the managers.
LEMMA CurrentManager == TypeOK /\ current # 0 => current \in Managers
BY BoundAssumption DEF TypeOK, Managers

\* When the last item of a point leaves the queue, it has the newest value.
LEMMA LeaveOrder ==
    ASSUME TypeOK, NEW m \in Managers, queue[m] # <<>>, Leave(m),
           current' = current, call' = call,
           NEW p \in Points, QueueOrder(p), row'[p].write = row[p].write
    PROVE  /\ QueueOrder(p)'
           /\ InQueue(p)' => InQueue(p)
           /\ InQueue(p) /\ ~InQueue(p)' /\ ~InCall(p) =>
                 m = current /\ PointIn(Head(queue[m])) = p /\ Head(queue[m])[1] = row[p].write
<1>. SUFFICES ASSUME m = current
              PROVE  /\ QueueOrder(p)'
                     /\ InQueue(p)' => InQueue(p)
                     /\ InQueue(p) /\ ~InQueue(p)' /\ ~InCall(p) =>
                           /\ PointIn(Head(queue[m])) = p
                           /\ Head(queue[m])[1] = row[p].write
  <2>1. m # current /\ current # 0 => queue'[current] = queue[current]
    BY CurrentManager DEF Leave, TypeOK
  <2>. QED
    BY <2>1 DEF QueueOrder, LastOf, InCall, InQueue, PointIn
<1>. DEFINE q == queue[m]
<1>1. q \in Seq(Items) /\ current \in Managers /\ current # 0
  BY DEF TypeOK, Managers
<1>2. /\ Len(q) \in Nat \ {0}
      /\ Head(q) = q[1]
      /\ Len(Tail(q)) = Len(q) - 1
      /\ \A k \in 1..Len(Tail(q)) : Tail(q)[k] = q[k + 1]
  BY <1>1, PopFacts
<1>3. queue'[m] = Tail(q)
  BY DEF Leave, TypeOK
<1>4. ASSUME NEW k \in 1..Len(Tail(q)), LastOf(Tail(q), p, k)
      PROVE  LastOf(q, p, k + 1)
  <2>1. k + 1 \in 1..Len(q) /\ PointIn(q[k + 1]) = p
    BY <1>2, <1>4 DEF LastOf
  <2>2. ASSUME NEW l \in 1..Len(q), l > k + 1
        PROVE  PointIn(q[l]) # p
    <3>1. l - 1 \in 1..Len(Tail(q)) /\ l - 1 > k /\ (l - 1) + 1 = l
      BY <1>2, <2>2
    <3>2. PointIn(Tail(q)[l - 1]) # p
      BY <1>4, <3>1 DEF LastOf
    <3>. QED
      BY <1>2, <3>1, <3>2
  <2>. QED
    BY <2>1, <2>2 DEF LastOf
<1>5. QueueOrder(p)'
  <2>. SUFFICES ASSUME ~InCall(p), NEW k \in 1..Len(Tail(q)), LastOf(Tail(q), p, k)
                PROVE  Tail(q)[k][1] = row[p].write
    BY <1>1, <1>3 DEF QueueOrder, InCall, LastOf, PointIn
  <2>1. k + 1 \in 1..Len(q) /\ Tail(q)[k] = q[k + 1]
    BY <1>2
  <2>. QED
    BY <1>1, <1>4, <2>1 DEF QueueOrder
<1>6. InQueue(p)' => InQueue(p)
  <2>. SUFFICES ASSUME NEW k \in 1..Len(Tail(q)), PointIn(Tail(q)[k]) = p
                PROVE  InQueue(p)
    BY <1>1, <1>3 DEF InQueue, PointIn
  <2>1. k + 1 \in 1..Len(q) /\ PointIn(q[k + 1]) = p
    BY <1>2
  <2>. QED
    BY <1>1, <2>1 DEF InQueue
<1>7. ASSUME InQueue(p), ~InQueue(p)', ~InCall(p)
      PROVE  PointIn(Head(q)) = p /\ Head(q)[1] = row[p].write
  <2>1. \A k \in 1..Len(Tail(q)) : PointIn(Tail(q)[k]) # p
    BY <1>1, <1>3, <1>7 DEF InQueue, PointIn
  <2>2. ASSUME NEW l \in 1..Len(q), l # 1
        PROVE  PointIn(q[l]) # p
    <3>1. l - 1 \in 1..Len(Tail(q)) /\ (l - 1) + 1 = l
      BY <1>2, <2>2
    <3>. QED
      BY <1>2, <2>1, <3>1
  <2>3. 1 \in 1..Len(q) /\ PointIn(q[1]) = p
    BY <1>1, <1>2, <1>7, <2>2 DEF InQueue
  <2>4. LastOf(q, p, 1)
    BY <2>2, <2>3 DEF LastOf
  <2>. QED
    BY <1>1, <1>2, <1>7, <2>3, <2>4 DEF QueueOrder
<1>. QED
  BY <1>5, <1>6, <1>7

\* What queueing item i with manager m does to the queue of point p.
QueuedFor(m, i, p) ==
    /\ InQueue(p) => InQueue(p)'
    /\ m = current /\ PointIn(i) = p => InQueue(p)'
    /\ PointIn(i) # p => (InQueue(p)' => InQueue(p))
    /\ PointIn(i) # p /\ current # 0 =>
          \A k \in 1..Len(queue'[current]) : LastOf(queue'[current], p, k) =>
              /\ LastOf(queue[current], p, k)
              /\ queue'[current][k] = queue[current][k]

\* A queued item is the last of its point, and of no other.
LEMMA QueuedOrder ==
    ASSUME TypeOK, NEW m \in Managers, NEW i \in Items,
           queue' = [queue EXCEPT ![m] = Queued(@, i)], current' = current,
           NEW p \in Points
    PROVE  QueuedFor(m, i, p)
<1>. DEFINE q == queue[m]
<1>1. q \in Seq(Items) /\ \A n \in Managers : n # 0
  BY DEF TypeOK, Managers
<1>2. /\ Len(q) \in Nat
      /\ Len(Append(q, i)) = Len(q) + 1
      /\ \A k \in 1..Len(q) : Append(q, i)[k] = q[k]
      /\ Append(q, i)[Len(q) + 1] = i
  BY <1>1, PushFacts
<1>3. /\ queue'[m] = Append(q, i)
      /\ \A n \in Managers : n # m => queue'[n] = queue[n]
  BY DEF Queued, TypeOK
<1>4. \A k \in 1..Len(Append(q, i)) : k \in 1..Len(q) \/ k = Len(q) + 1
  BY <1>2
<1>5. \A k \in 1..Len(q) : k \in 1..Len(Append(q, i))
  BY <1>2
<1>6. Len(q) + 1 \in 1..Len(Append(q, i)) /\ \A k \in 1..Len(q) : Len(q) + 1 > k
  BY <1>2
<1>7. current # 0 => current \in Managers
  BY CurrentManager
<1>. HIDE DEF q
<1>8. InQueue(p) => InQueue(p)'
  BY <1>2, <1>3, <1>5, <1>7 DEF InQueue, PointIn, q
<1>9. m = current /\ PointIn(i) = p => InQueue(p)'
  BY <1>1, <1>2, <1>3, <1>6 DEF InQueue, PointIn
<1>10. PointIn(i) # p => (InQueue(p)' => InQueue(p))
  BY <1>2, <1>3, <1>4, <1>7 DEF InQueue, PointIn, q
<1>11. ASSUME PointIn(i) # p, current # 0, NEW k \in 1..Len(queue'[current]),
              LastOf(queue'[current], p, k)
       PROVE  LastOf(queue[current], p, k) /\ queue'[current][k] = queue[current][k]
  <2>1. CASE current # m
    BY <1>3, <1>7, <1>11, <2>1
  <2>2. CASE current = m
    <3>1. k \in 1..Len(q) /\ Append(q, i)[k] = q[k]
      BY <1>2, <1>3, <1>4, <1>11, <2>2 DEF LastOf
    <3>2. \A l \in 1..Len(q) : l > k => PointIn(q[l]) # p
      BY <1>2, <1>3, <1>5, <1>11, <2>2 DEF LastOf
    <3>3. PointIn(q[k]) = p
      BY <1>3, <1>11, <2>2, <3>1 DEF LastOf
    <3>. QED
      BY <1>3, <2>2, <3>1, <3>2, <3>3 DEF LastOf, q
  <2>. QED
    BY <2>1, <2>2
<1>. QED
  BY <1>8, <1>9, <1>10, <1>11 DEF QueuedFor

\* A queued item is the last of its point.
LEMMA QueuedLast ==
    ASSUME TypeOK, NEW m \in Managers, NEW i \in Items,
           queue' = [queue EXCEPT ![m] = Queued(@, i)],
           NEW k \in 1..Len(queue'[m]), LastOf(queue'[m], PointIn(i), k)
    PROVE  queue'[m][k] = i
<1>. DEFINE q == queue[m]
<1>1. q \in Seq(Items)
  BY DEF TypeOK
<1>2. /\ Len(q) \in Nat
      /\ Len(Append(q, i)) = Len(q) + 1
      /\ Append(q, i)[Len(q) + 1] = i
  BY <1>1, PushFacts
<1>3. queue'[m] = Append(q, i)
  BY DEF Queued, TypeOK
<1>4. k = Len(q) + 1 \/ Len(q) + 1 > k
  BY <1>2, <1>3
<1>. QED
  BY <1>2, <1>3, <1>4 DEF LastOf

-----------------------------------------------------------------------------
(* Every step preserves OrderInv.                                           *)

LEMMA InitOrder == Init => OrderInv
<1>. SUFFICES ASSUME Init PROVE OrderInv
  OBVIOUS
<1>1. StoppedInv
  BY DEF Init, StoppedInv
<1>2. ASSUME NEW p \in Points PROVE Ordered(p)
  BY DEF Init, Ordered, CallOrder, SnapshotOrder, QueueOrder, HandOrder, AnswerOrder,
         RxOrder, Answered, OkOrder
<1>. QED
  BY <1>1, <1>2 DEF OrderInv

LEMMA StorePointOrder ==
    ASSUME IInv, OrderInv, NEW w \in Writes, StorePoint(w)
    PROVE  OrderInv'
<1>. USE DEF StorePoint, module, sched, life
<1>. TypeOK /\ RowInv /\ PointOf[w] \in Points
  BY PointOfAssumption DEF IInv
<1>1. StoppedInv'
  BY DEF OrderInv, StoppedInv
<1>2. ASSUME NEW p \in Points, p \notin muddled'
      PROVE  Ordered(p)'
  <2>1. p \notin muddled /\ Ordered(p)
    BY <1>2 DEF OrderInv
  <2>. USE <2>1 DEF Ordered
  <2>2. CASE p = PointOf[w]
    <3>1. InCall(p)' /\ ~InCall(p) /\ enable = "idle"
      BY <1>2, <2>2 DEF InCall, TypeOK
    <3>2. snapshot = {}
      BY <3>1 DEF OrderInv, StoppedInv
    <3>3. CallOrder(p)'
      BY <2>2, <3>1 DEF CallOrder, InCall, TypeOK
    <3>. QED
      BY <3>1, <3>2, <3>3 DEF SnapshotOrder, QueueOrder, HandOrder, AnswerOrder,
                              RxOrder, OkOrder, Left, PointIn
  <2>3. CASE p # PointOf[w]
    <3>1. row'[p] = row[p] /\ (InCall(p)' <=> InCall(p))
      BY <2>3 DEF InCall, TypeOK
    <3>2. \A v \in Writes : PointOf[v] = p => call'[v] = call[v]
      BY <2>3 DEF TypeOK
    <3>. QED
      BY <3>1, <3>2 DEF CallOrder, SnapshotOrder, QueueOrder, LastOf, HandOrder,
                        AnswerOrder, RxOrder, OkOrder, Left, Reporting, InQueue,
                        Answered, PointIn
  <2>. QED
    BY <2>2, <2>3
<1>. QED
  BY <1>1, <1>2 DEF OrderInv

LEMMA FindManagerOrder ==
    ASSUME IInv, OrderInv, NEW w \in Writes, FindManager(w)
    PROVE  OrderInv'
<1>. USE DEF FindManager, module, sched, life
<1>. TypeOK
  BY DEF IInv
<1>1. StoppedInv'
  BY DEF OrderInv, StoppedInv
<1>2. ASSUME NEW p \in Points, p \notin muddled'
      PROVE  Ordered(p)'
  <2>1. Ordered(p)
    BY <1>2 DEF OrderInv
  <2>. USE <2>1 DEF Ordered
  <2>2. InCall(p)' <=> InCall(p)
    BY DEF InCall, TypeOK
  <2>3. CallOrder(p)'
    BY DEF CallOrder, TypeOK
  <2>. QED
    BY <2>2, <2>3 DEF SnapshotOrder, QueueOrder, LastOf, HandOrder, AnswerOrder,
                      RxOrder, OkOrder, Left, Reporting, InQueue, Answered, PointIn
<1>. QED
  BY <1>1, <1>2 DEF OrderInv

LEMMA EnqueuePointOrder ==
    ASSUME IInv, OrderInv, NEW w \in Writes, EnqueuePoint(w)
    PROVE  OrderInv'
<1>. USE DEF EnqueuePoint, module, life
<1>. TypeOK /\ AnswerInv /\ target[w] \in 1..made
  BY DEF IInv, ManagerInv
<1>. PICK i \in Items : i = <<w, "api">>
  BY DEF Items
<1>1. i[1] = w /\ PointIn(i) = PointOf[w]
  BY DEF PointIn
<1>. PICK m \in Managers : m = target[w]
  BY BoundAssumption DEF TypeOK, Managers
<1>2. queue' = [queue EXCEPT ![m] = Queued(@, i)]
  OBVIOUS
<1>3. \A n \in Managers : queue[n] # <<>> => queue'[n] # <<>> /\ Head(queue'[n]) = Head(queue[n])
  BY <1>1, <1>2, QueueFacts
<1>4. StoppedInv'
  <2>1. \A n \in Managers : n > made => queue'[n] = queue[n]
    BY DEF TypeOK
  <2>. QED
    BY <2>1 DEF OrderInv, StoppedInv
<1>5. ASSUME NEW p \in Points, p \notin muddled'
      PROVE  Ordered(p)'
  <2>1. QueuedFor(m, i, p)
    BY <1>2, QueuedOrder
  <2>2. Ordered(p)
    BY <1>5 DEF OrderInv
  <2>. USE <2>2 DEF Ordered
  <2>3. CallOrder(p)'
    BY DEF CallOrder, TypeOK
  <2>4. AnswerOrder(p)'
    BY <1>3, CurrentManager DEF AnswerOrder, AnswerInv, PointIn
  <2>5. SnapshotOrder(p)' /\ HandOrder(p)'
    BY DEF SnapshotOrder, HandOrder, PointIn
  <2>6. CASE PointOf[w] = p
    <3>1. row[p].write = w /\ m = current /\ current # 0
      BY <2>6 DEF CallOrder, Managers
    <3>2. InQueue(p)'
      BY <1>1, <2>1, <2>6, <3>1 DEF QueuedFor
    <3>3. QueueOrder(p)'
      <4>. SUFFICES ASSUME NEW k \in 1..Len(queue'[m]), LastOf(queue'[m], p, k)
                    PROVE  queue'[m][k][1] = row[p].write
        BY <3>1 DEF QueueOrder, LastOf, PointIn
      <4>1. queue'[m][k] = i
        <5>1. LastOf(queue'[m], PointIn(i), k)
          BY <1>1, <2>6
        <5>. QED
          BY <1>2, <5>1, QueuedLast, Zenon
      <4>. QED
        BY <1>1, <3>1, <4>1
    <3>. QED
      BY <2>3, <2>4, <2>5, <3>2, <3>3 DEF RxOrder, OkOrder, Left
  <2>7. CASE PointOf[w] # p
    <3>1. (InCall(p)' <=> InCall(p)) /\ (InQueue(p)' <=> InQueue(p))
      BY <1>1, <2>1, <2>7 DEF QueuedFor, InCall, TypeOK
    <3>2. QueueOrder(p)'
      <4>1. current' = current /\ row' = row
        OBVIOUS
      <4>. HIDE DEF EnqueuePoint, module, life
      <4>. SUFFICES ASSUME current # 0, ~InCall(p), NEW k \in 1..Len(queue'[current]),
                           LastOf(queue'[current], p, k)
                    PROVE  queue'[current][k][1] = row[p].write
        BY <3>1, <4>1 DEF QueueOrder, LastOf, PointIn
      <4>. QED
        BY <1>1, <2>1, <2>7 DEF QueuedFor, QueueOrder, LastOf
    <3>. QED
      BY <2>3, <2>4, <2>5, <3>1, <3>2 DEF RxOrder, OkOrder, Left, Reporting, Answered,
                                          PointIn
  <2>. QED
    BY <2>6, <2>7
<1>. QED
  BY <1>4, <1>5 DEF OrderInv

\* A verdict a scheduler is about to store for a row is about the row's point.
LEMMA ReportingPoint ==
    ASSUME IInv, NEW p \in Points, NEW m \in Managers, phase[m] = "report",
           hand[m][1] = row[p].write
    PROVE  hand[m] # NoItem /\ PointIn(hand[m]) = p
<1>1. hand[m] \in Items /\ hand[m][1] \in Writes
  BY Subjects DEF IInv, AnswerInv
<1>. QED
  BY <1>1, Subjects DEF IInv, RowInv, PointIn

LEMMA SchedulerPicksOrder ==
    ASSUME IInv, OrderInv, NEW m \in Managers, SchedulerPicks(m)
    PROVE  OrderInv'
<1>. USE DEF SchedulerPicks, request, module, life
<1>. TypeOK
  BY DEF IInv
<1>1. m \in 1..made /\ m = current
  BY BoundAssumption DEF OrderInv, StoppedInv, TypeOK, Managers
<1>2. StoppedInv'
  BY <1>1 DEF OrderInv, StoppedInv, TypeOK
<1>3. ASSUME NEW p \in Points, p \notin muddled'
      PROVE  Ordered(p)'
  <2>1. Ordered(p)
    BY <1>3 DEF OrderInv
  <2>. USE <2>1 DEF Ordered
  <2>2. HandOrder(p)'
    BY <1>1 DEF HandOrder, TypeOK
  <2>3. Reporting(p)' <=> Reporting(p)
    BY DEF Reporting, TypeOK
  <2>. QED
    BY <2>2, <2>3 DEF CallOrder, SnapshotOrder, QueueOrder, LastOf, AnswerOrder,
                      RxOrder, OkOrder, Left, InCall, InQueue, Answered, PointIn
<1>. QED
  BY <1>2, <1>3 DEF OrderInv

LEMMA PrepareFailsOrder ==
    ASSUME IInv, OrderInv, NEW m \in Managers, PrepareFails(m)
    PROVE  OrderInv'
<1>. USE DEF PrepareFails, BackToLoop, request, module, life
<1>. TypeOK
  BY DEF IInv
<1>1. hand[m] \in Items /\ queue[m] # <<>> /\ Head(queue[m]) = hand[m] /\ Leave(m)
  BY DEF IInv, AnswerInv, IsHead, RemoveItem
<1>2. /\ answer'[m] = {}
      /\ \A n \in Managers : n # m => queue'[n] = queue[n] /\ answer'[n] = answer[n]
  BY <1>1, LeaveFacts
<1>3. StoppedInv'
  BY <1>1, <1>2 DEF OrderInv, StoppedInv, TypeOK
<1>4. ASSUME NEW p \in Points, p \notin muddled'
      PROVE  Ordered(p)'
  <2>1. Ordered(p)
    BY <1>4 DEF OrderInv
  <2>2. /\ QueueOrder(p)'
        /\ InQueue(p)' => InQueue(p)
        /\ InQueue(p) /\ ~InQueue(p)' /\ ~InCall(p) =>
              m = current /\ PointIn(Head(queue[m])) = p /\ Head(queue[m])[1] = row[p].write
    BY <1>1, <2>1, LeaveOrder DEF Ordered
  <2>. USE <2>1 DEF Ordered
  <2>3. HandOrder(p)'
    BY DEF HandOrder, TypeOK
  <2>4. AnswerOrder(p)'
    BY <1>2, CurrentManager DEF AnswerOrder, PointIn
  <2>5. Reporting(p)' <=> Reporting(p)
    BY DEF Reporting, TypeOK
  <2>6. Left(p)' => Left(p)
    BY <1>1, <2>2 DEF Left, InCall
  <2>7. RxOrder(p)' /\ OkOrder(p)'
    BY <2>5, <2>6 DEF RxOrder, OkOrder, Answered, PointIn
  <2>. QED
    BY <2>2, <2>3, <2>4, <2>7 DEF CallOrder, SnapshotOrder, PointIn
<1>. QED
  BY <1>3, <1>4 DEF OrderInv

LEMMA TransmitOrder ==
    ASSUME IInv, OrderInv, NEW m \in Managers, Transmit(m)
    PROVE  OrderInv'
<1>. USE DEF Transmit, request, module, life
<1>. TypeOK
  BY DEF IInv
<1>1. /\ hand[m] \in Items /\ hand[m] # NoItem
      /\ queue[m] # <<>> /\ Head(queue[m]) = hand[m] /\ answer[m] = {}
  BY Subjects DEF IInv, AnswerInv, IsHead
<1>2. /\ \A n \in Managers : n # m => answer'[n] = answer[n]
      /\ "ok" \in answer'[m] => held'[PointIn(hand[m])] = hand[m][1]
      /\ \A p \in Points : p # PointIn(hand[m]) => held'[p] = held[p]
  BY <1>1, Subjects DEF TypeOK
<1>3. StoppedInv'
  BY <1>1, <1>2 DEF OrderInv, StoppedInv, TypeOK
<1>4. ASSUME NEW p \in Points, p \notin muddled'
      PROVE  Ordered(p)'
  <2>1. Ordered(p)
    BY <1>4 DEF OrderInv
  <2>. USE <2>1 DEF Ordered
  <2>2. Reporting(p)' <=> Reporting(p)
    BY DEF Reporting, TypeOK
  <2>3. /\ CallOrder(p)' /\ SnapshotOrder(p)' /\ QueueOrder(p)' /\ HandOrder(p)'
        /\ (InQueue(p)' <=> InQueue(p)) /\ (InCall(p)' <=> InCall(p))
    BY DEF CallOrder, SnapshotOrder, QueueOrder, LastOf, HandOrder, InCall, InQueue, PointIn
  <2>4. CASE PointIn(hand[m]) = p
    <3>1. m = current /\ current # 0
      BY <1>1, <2>4 DEF HandOrder, Managers
    <3>2. InQueue(p)
      <4>1. Len(queue[m]) \in Nat \ {0} /\ Head(queue[m]) = queue[m][1]
        BY <1>1, PopFacts DEF TypeOK
      <4>. QED
        BY <1>1, <2>4, <3>1, <4>1 DEF InQueue
    <3>3. AnswerOrder(p)'
      BY <1>1, <1>2, <2>4, <3>1 DEF AnswerOrder, PointIn
    <3>. QED
      BY <2>3, <3>2, <3>3 DEF RxOrder, OkOrder, Left
  <2>5. CASE PointIn(hand[m]) # p
    <3>1. AnswerOrder(p)'
      BY <1>1, <1>2, <2>5, CurrentManager DEF AnswerOrder, PointIn
    <3>. QED
      BY <1>2, <2>2, <2>3, <2>5, <3>1 DEF RxOrder, OkOrder, Left, Answered, PointIn
  <2>. QED
    BY <2>4, <2>5
<1>. QED
  BY <1>3, <1>4 DEF OrderInv

LEMMA AwaitEndsOrder ==
    ASSUME IInv, OrderInv, NEW m \in Managers, AwaitEnds(m)
    PROVE  OrderInv'
<1>. USE DEF AwaitEnds, BackToLoop, request, module, life
<1>. TypeOK
  BY DEF IInv
<1>1. StoppedInv'
  BY DEF OrderInv, StoppedInv, TypeOK
<1>2. ASSUME NEW p \in Points, p \notin muddled'
      PROVE  Ordered(p)'
  <2>1. Ordered(p)
    BY <1>2 DEF OrderInv
  <2>. USE <2>1 DEF Ordered
  <2>2. HandOrder(p)'
    BY DEF HandOrder, TypeOK
  <2>3. Reporting(p)' <=> Reporting(p)
    BY DEF Reporting, TypeOK
  <2>. QED
    BY <2>2, <2>3 DEF CallOrder, SnapshotOrder, QueueOrder, LastOf, AnswerOrder,
                      RxOrder, OkOrder, Left, InCall, InQueue, Answered, PointIn
<1>. QED
  BY <1>1, <1>2 DEF OrderInv

LEMMA GiveUpOrder ==
    ASSUME IInv, OrderInv, NEW m \in Managers, GiveUp(m)
    PROVE  OrderInv'
<1>. USE DEF GiveUp, request, module, life
<1>. TypeOK
  BY DEF IInv
<1>1. hand[m] \in Items /\ queue[m] # <<>> /\ Head(queue[m]) = hand[m]
  BY DEF IInv, AnswerInv, IsHead
<1>2. /\ answer'[m] = {}
      /\ \A n \in Managers : n # m => queue'[n] = queue[n] /\ answer'[n] = answer[n]
  BY <1>1, LeaveFacts
<1>3. StoppedInv'
  BY <1>1, <1>2 DEF OrderInv, StoppedInv, TypeOK
<1>4. ASSUME NEW p \in Points, p \notin muddled'
      PROVE  Ordered(p)'
  <2>1. Ordered(p)
    BY <1>4 DEF OrderInv
  <2>2. /\ QueueOrder(p)'
        /\ InQueue(p)' => InQueue(p)
        /\ InQueue(p) /\ ~InQueue(p)' /\ ~InCall(p) =>
              m = current /\ PointIn(Head(queue[m])) = p /\ Head(queue[m])[1] = row[p].write
    BY <1>1, <2>1, LeaveOrder DEF Ordered
  <2>. USE <2>1 DEF Ordered
  <2>3. HandOrder(p)'
    BY DEF HandOrder, TypeOK
  <2>4. AnswerOrder(p)'
    BY <1>2, CurrentManager DEF AnswerOrder, PointIn
  <2>5. Reporting(p) => Reporting(p)'
    BY DEF Reporting, TypeOK
  <2>6. Left(p)' => Left(p) \/ Reporting(p)'
    <3>. SUFFICES ASSUME InQueue(p), Left(p)' PROVE Reporting(p)'
      BY DEF Left, InCall
    <3>1. phase'[m] = "report" /\ hand'[m][1] = row'[p].write
      BY <1>1, <2>2 DEF Left, InCall, TypeOK
    <3>. QED
      BY <3>1 DEF Reporting
  <2>7. RxOrder(p)' /\ OkOrder(p)'
    BY <2>5, <2>6 DEF RxOrder, OkOrder, Answered, PointIn
  <2>. QED
    BY <2>2, <2>3, <2>4, <2>7 DEF CallOrder, SnapshotOrder, PointIn
<1>. QED
  BY <1>3, <1>4 DEF OrderInv

\* A verdict changes the state of one row, or its write is on record as given up.
LEMMA VerdictRows ==
    ASSUME TypeOK, NEW i \in Items, NEW s, StoreVerdict(i, s)
    PROVE  /\ \A p \in Points : row'[p].write = row[p].write
           /\ \A p \in Points : p # PointIn(i) => row'[p] = row[p]
           /\ \/ row'[PointIn(i)].state = s
              \/ row' = row /\ i[1] \in abandoned'
           /\ abandoned \subseteq abandoned'
<1>1. PointIn(i) \in Points
  BY Subjects
<1>2. CASE row' = [row EXCEPT ![PointIn(i)].state = s] /\ abandoned' = abandoned
  BY <1>1, <1>2 DEF TypeOK
<1>3. CASE row' = row /\ abandoned' = abandoned \union {i[1]}
  BY <1>3
<1>. QED
  BY <1>2, <1>3 DEF StoreVerdict

LEMMA OnWriteExhaustedOrder ==
    ASSUME IInv, OrderInv, NEW m \in Managers, OnWriteExhausted(m)
    PROVE  OrderInv'
<1>. USE DEF OnWriteExhausted, BackToLoop, request, module, life
<1>. TypeOK
  BY DEF IInv
<1>1. /\ hand[m] \in Items /\ hand[m] # NoItem
      /\ Written(PointIn(hand[m]))
  BY Subjects DEF IInv, AnswerInv, OriginInv
<1>2. /\ \A p \in Points : row'[p].write = row[p].write
      /\ \A p \in Points : p # PointIn(hand[m]) => row'[p] = row[p]
      /\ \/ row'[PointIn(hand[m])].state = "failed"
         \/ row' = row /\ hand[m][1] \in abandoned'
      /\ abandoned \subseteq abandoned'
  BY <1>1, VerdictRows
<1>3. StoppedInv'
  BY DEF OrderInv, StoppedInv, TypeOK
<1>4. ASSUME NEW p \in Points, p \notin muddled'
      PROVE  Ordered(p)'
  <2>1. p \notin muddled /\ Ordered(p)
    BY <1>4 DEF OrderInv
  <2>. USE <2>1 DEF Ordered
  <2>2. HandOrder(p)'
    BY DEF HandOrder, TypeOK
  <2>3. CallOrder(p)' /\ SnapshotOrder(p)' /\ QueueOrder(p)' /\ AnswerOrder(p)'
    BY <1>2 DEF CallOrder, SnapshotOrder, QueueOrder, LastOf, AnswerOrder, InCall, PointIn
  <2>4. (Left(p)' => Left(p)) /\ (Answered(p)' <=> Answered(p))
    BY <1>2 DEF Left, InCall, InQueue, Answered, PointIn
  <2>5. CASE PointIn(hand[m]) = p
    <3>1. ~Answered(p)
      BY <1>4, <2>5 DEF Answered
    <3>2. m = current
      BY <1>1, <2>5 DEF HandOrder
    <3>3. ASSUME Left(p)', row'[p].state = "ok" PROVE held[p] = row[p].write
      <4>1. row' = row /\ row[p].write # hand[m][1]
        BY <1>2, <2>5, <3>3 DEF Left
      <4>2. ~Reporting(p)
        BY <3>2, <4>1, ReportingPoint DEF Reporting, HandOrder
      <4>. QED
        BY <2>4, <3>1, <3>3, <4>1, <4>2 DEF OkOrder
    <3>. QED
      BY <1>2, <2>2, <2>3, <2>4, <3>1, <3>3 DEF RxOrder, OkOrder
  <2>6. CASE PointIn(hand[m]) # p
    <3>1. row'[p] = row[p]
      BY <1>2, <2>6
    <3>2. Reporting(p) => Reporting(p)'
      <4>. SUFFICES ASSUME NEW n \in Managers, phase[n] = "report",
                           hand[n][1] = row[p].write
                    PROVE  Reporting(p)'
        BY DEF Reporting
      <4>1. n # m
        BY <2>6, ReportingPoint
      <4>2. phase'[n] = "report" /\ hand'[n][1] = row'[p].write
        BY <3>1, <4>1 DEF TypeOK
      <4>. QED
        BY <4>2 DEF Reporting
    <3>. QED
      BY <2>2, <2>3, <2>4, <3>1, <3>2 DEF RxOrder, OkOrder
  <2>. QED
    BY <2>5, <2>6
<1>. QED
  BY <1>3, <1>4 DEF OrderInv

LEMMA DequeueAnsweredOrder ==
    ASSUME IInv, OrderInv, DequeueAnswered
    PROVE  OrderInv'
<1>. USE DEF DequeueAnswered, request, module, life
<1>. TypeOK
  BY DEF IInv
<1>. PICK m \in Managers : m = current
  BY CurrentManager
<1>. PICK a \in answer[m] : rx' = <<Head(queue[m]), a>>
  OBVIOUS
<1>1. queue[m] # <<>> /\ Leave(m)
  BY DEF IInv, AnswerInv
<1>2. /\ answer'[m] = {}
      /\ \A n \in Managers : n # m => queue'[n] = queue[n] /\ answer'[n] = answer[n]
      /\ Head(queue[m]) \in Items
      /\ \E k \in 1..Len(queue[m]) : queue[m][k] = Head(queue[m])
  BY <1>1, LeaveFacts
<1>3. current # 0 /\ m \in 1..made /\ a \in Answers
  BY DEF TypeOK, Managers
<1>4. StoppedInv'
  BY <1>2, <1>3 DEF OrderInv, StoppedInv, TypeOK
<1>5. \A p : ~Answered(p) /\ (Answered(p)' <=> PointIn(Head(queue[m])) = p)
  <2>1. rx' \in Items \X Answers
    BY <1>2, <1>3
  <2>. QED
    BY <2>1, Subjects DEF Answered, PointIn
<1>6. ASSUME NEW p \in Points, p \notin muddled'
      PROVE  Ordered(p)'
  <2>1. Ordered(p)
    BY <1>6 DEF OrderInv
  <2>2. /\ QueueOrder(p)'
        /\ InQueue(p)' => InQueue(p)
        /\ InQueue(p) /\ ~InQueue(p)' /\ ~InCall(p) =>
              m = current /\ PointIn(Head(queue[m])) = p /\ Head(queue[m])[1] = row[p].write
    BY <1>1, <2>1, LeaveOrder DEF Ordered
  <2>. USE <2>1 DEF Ordered
  <2>3. HandOrder(p)'
    BY DEF HandOrder, TypeOK, PointIn
  <2>4. AnswerOrder(p)'
    BY <1>2 DEF AnswerOrder
  <2>5. Reporting(p)' <=> Reporting(p)
    BY DEF Reporting
  <2>6. RxOrder(p)'
    <3>. SUFFICES ASSUME Left(p)', PointIn(Head(queue[m])) = p
                  PROVE  /\ rx'[1][1] = row[p].write
                         /\ rx'[2] = "ok" => held[p] = row[p].write
      BY <1>5 DEF RxOrder
    <3>1. InQueue(p)
      BY <1>2, <1>3 DEF InQueue
    <3>2. Head(queue[m])[1] = row[p].write
      BY <2>2, <3>1 DEF Left, InCall
    <3>. QED
      BY <1>3, <3>2 DEF AnswerOrder
  <2>7. OkOrder(p)'
    BY <1>5, <2>2, <2>5 DEF OkOrder, Left, InCall
  <2>. QED
    BY <2>2, <2>3, <2>4, <2>6, <2>7 DEF CallOrder, SnapshotOrder, PointIn
<1>. QED
  BY <1>4, <1>6 DEF OrderInv

LEMMA StoreAnswerOrder ==
    ASSUME IInv, OrderInv, StoreAnswer
    PROVE  OrderInv'
<1>. USE DEF StoreAnswer, request, module, sched, life
<1>. TypeOK
  BY DEF IInv
<1>1. rx[1] \in Items /\ (Verdict(rx[2]) = "ok" => rx[2] = "ok")
  BY Subjects DEF TypeOK, Verdict
<1>2. /\ \A p \in Points : row'[p].write = row[p].write
      /\ \A p \in Points : p # PointIn(rx[1]) => row'[p] = row[p]
      /\ \/ row'[PointIn(rx[1])].state = Verdict(rx[2])
         \/ row' = row /\ rx[1][1] \in abandoned'
      /\ abandoned \subseteq abandoned'
  BY <1>1, VerdictRows
<1>3. StoppedInv'
  BY DEF OrderInv, StoppedInv
<1>4. ASSUME NEW p \in Points, p \notin muddled'
      PROVE  Ordered(p)'
  <2>1. Ordered(p)
    BY <1>4 DEF OrderInv
  <2>. USE <2>1 DEF Ordered
  <2>2. /\ CallOrder(p)' /\ SnapshotOrder(p)' /\ QueueOrder(p)' /\ AnswerOrder(p)'
        /\ HandOrder(p)'
    BY <1>2 DEF CallOrder, SnapshotOrder, QueueOrder, LastOf, AnswerOrder, HandOrder,
                InCall, PointIn
  <2>3. (Left(p)' => Left(p)) /\ (Reporting(p)' <=> Reporting(p))
    BY <1>2 DEF Left, InCall, InQueue, Reporting, PointIn
  <2>4. RxOrder(p)'
    BY DEF RxOrder, Answered
  <2>5. OkOrder(p)'
    <3>. SUFFICES ASSUME Left(p)', row'[p].state = "ok"
                  PROVE  held[p] = row[p].write \/ Reporting(p)
      BY <1>2, <2>3 DEF OkOrder
    <3>1. CASE PointIn(rx[1]) = p
      <4>1. Answered(p) /\ Left(p)
        BY <2>3, <3>1 DEF Answered
      <4>2. CASE row'[p].state = Verdict(rx[2])
        BY <1>1, <4>1, <4>2 DEF RxOrder
      <4>3. CASE row' = row /\ rx[1][1] \in abandoned'
        <5>1. rx[1][1] # row[p].write
          BY <4>3 DEF Left
        <5>. QED
          BY <4>1, <5>1 DEF RxOrder
      <4>. QED
        BY <1>2, <3>1, <4>2, <4>3
    <3>2. CASE PointIn(rx[1]) # p
      <4>1. row'[p] = row[p] /\ ~Answered(p)
        BY <1>2, <3>2 DEF Answered
      <4>. QED
        BY <2>3, <4>1 DEF OkOrder
    <3>. QED
      BY <3>1, <3>2
  <2>. QED
    BY <2>2, <2>4, <2>5
<1>. QED
  BY <1>3, <1>4 DEF OrderInv

\* What Enable and a crash find of a point that they do not muddle.
LEMMA Undisturbed ==
    ASSUME IInv, OrderInv, NEW p \in Points, p \notin muddled, ~LosesOrder(p)
    PROVE  /\ ~InCall(p) /\ ~InHand(p) /\ ~Answered(p)
           /\ row[p].state = "ok" /\ row[p].write \notin abandoned => held[p] = row[p].write
<1>1. ~InCall(p) /\ ~InHand(p) /\ ~Answered(p)
  BY DEF LosesOrder
<1>2. ~Reporting(p)
  BY <1>1, ReportingPoint DEF Reporting, InHand
<1>3. row[p].state = "ok" => ~InQueue(p)
  BY DEF LosesOrder
<1>. QED
  BY <1>1, <1>2, <1>3 DEF OrderInv, Ordered, OkOrder, Left

LEMMA EnableSwitchesOrder ==
    ASSUME IInv, OrderInv, EnableSwitches
    PROVE  OrderInv'
<1>. USE DEF EnableSwitches, request, sched
<1>. TypeOK
  BY DEF IInv
<1>1. /\ made' = made + 1 /\ current' = made' /\ current' \in Managers /\ current' > made
      /\ made \in Nat
  BY BoundAssumption DEF CanEnable, TypeOK, Managers
<1>2. queue[current'] = <<>> /\ answer[current'] = {} /\ snapshot = {}
  BY <1>1 DEF OrderInv, StoppedInv
<1>3. StoppedInv'
  <2>1. ASSUME NEW m \in 1..made' PROVE m \in stopped' \/ m = current'
    <3>1. m \in 1..made \/ m = made'
      BY <1>1
    <3>. QED
      BY <1>1, <3>1 DEF OrderInv, StoppedInv
  <2>2. \A m \in Managers : m > made' => m > made
    BY <1>1 DEF Managers
  <2>. QED
    BY <1>2, <2>1, <2>2 DEF OrderInv, StoppedInv
<1>4. ASSUME NEW p \in Points, p \notin muddled'
      PROVE  Ordered(p)'
  <2>1. /\ ~InCall(p) /\ ~InHand(p) /\ ~Answered(p)
        /\ row[p].state = "ok" /\ row[p].write \notin abandoned => held[p] = row[p].write
    BY <1>4, Undisturbed
  <2>2. CallOrder(p)' /\ HandOrder(p)' /\ RxOrder(p)'
    BY <2>1 DEF CallOrder, HandOrder, RxOrder, InCall, InHand, Answered, PointIn
  <2>3. SnapshotOrder(p)' /\ QueueOrder(p)' /\ AnswerOrder(p)'
    BY <1>2 DEF SnapshotOrder, QueueOrder, LastOf, AnswerOrder
  <2>4. OkOrder(p)'
    BY <2>1 DEF OkOrder, Left
  <2>. QED
    BY <2>2, <2>3, <2>4 DEF Ordered
<1>. QED
  BY <1>3, <1>4 DEF OrderInv

LEMMA EnableReadsOrder ==
    ASSUME IInv, OrderInv, EnableReads
    PROVE  OrderInv'
<1>. USE DEF EnableReads, request, module, sched
<1>1. snapshot = {}
  BY DEF OrderInv, StoppedInv
<1>2. StoppedInv'
  BY <1>1 DEF OrderInv, StoppedInv
<1>3. abandoned \subseteq abandoned'
  OBVIOUS
<1>4. ASSUME NEW i \in snapshot' PROVE i[1] = row[PointIn(i)].write
  <2>1. PICK r \in Points : Requeued(row[r].state) /\ i = <<row[r].write, "enable">>
    BY <1>1, <1>4
  <2>2. PointOf[row[r].write] = r
    BY <2>1 DEF Requeued, IInv, RowInv, Written
  <2>. QED
    BY <2>1, <2>2 DEF PointIn
<1>5. ASSUME NEW p \in Points, p \notin muddled'
      PROVE  Ordered(p)'
  <2>1. Ordered(p)
    BY <1>5 DEF OrderInv
  <2>. USE <2>1 DEF Ordered
  <2>2. SnapshotOrder(p)'
    BY <1>4 DEF SnapshotOrder, PointIn
  <2>3. (Left(p)' => Left(p)) /\ (Reporting(p)' <=> Reporting(p)) /\ (Answered(p)' <=> Answered(p))
    BY <1>3 DEF Left, InCall, InQueue, Reporting, Answered, PointIn
  <2>. QED
    BY <2>2, <2>3 DEF CallOrder, QueueOrder, LastOf, HandOrder, AnswerOrder, RxOrder,
                      OkOrder, InCall, PointIn
<1>. QED
  BY <1>2, <1>5 DEF OrderInv

LEMMA EnableQueuesOrder ==
    ASSUME IInv, OrderInv, NEW i \in Items, EnableQueues(i)
    PROVE  OrderInv'
<1>. USE DEF EnableQueues, request, module
<1>. TypeOK /\ AnswerInv /\ current # 0
  BY DEF IInv, ManagerInv
<1>. PICK m \in Managers : m = current
  BY CurrentManager
<1>1. queue' = [queue EXCEPT ![m] = Queued(@, i)] /\ m \in 1..made
  BY DEF TypeOK
<1>2. \A n \in Managers : queue[n] # <<>> => queue'[n] # <<>> /\ Head(queue'[n]) = Head(queue[n])
  BY <1>1, QueueFacts
<1>3. StoppedInv'
  BY <1>1 DEF OrderInv, StoppedInv, TypeOK
<1>4. ASSUME NEW p \in Points, p \notin muddled'
      PROVE  Ordered(p)'
  <2>1. QueuedFor(m, i, p)
    BY <1>1, QueuedOrder
  <2>2. Ordered(p)
    BY <1>4 DEF OrderInv
  <2>. USE <2>2 DEF Ordered
  <2>3. AnswerOrder(p)'
    BY <1>2 DEF AnswerOrder, AnswerInv, PointIn
  <2>4. CallOrder(p)' /\ SnapshotOrder(p)' /\ HandOrder(p)'
    BY DEF CallOrder, SnapshotOrder, HandOrder, PointIn
  <2>5. CASE PointIn(i) = p
    <3>1. i[1] = row[p].write
      BY <2>5 DEF SnapshotOrder
    <3>2. QueueOrder(p)'
      <4>. SUFFICES ASSUME NEW k \in 1..Len(queue'[m]), LastOf(queue'[m], p, k)
                    PROVE  queue'[m][k][1] = row[p].write
        BY DEF QueueOrder, LastOf, PointIn
      <4>1. LastOf(queue'[m], PointIn(i), k)
        BY <2>5
      <4>2. queue'[m][k] = i
        BY <1>1, <4>1, QueuedLast, Zenon
      <4>. QED
        BY <3>1, <4>2
    <3>. QED
      BY <2>1, <2>3, <2>4, <2>5, <3>2 DEF QueuedFor, RxOrder, OkOrder, Left
  <2>6. CASE PointIn(i) # p
    <3>1. (InCall(p)' <=> InCall(p)) /\ (InQueue(p)' <=> InQueue(p))
      BY <2>1, <2>6 DEF QueuedFor, InCall
    <3>2. QueueOrder(p)'
      <4>. SUFFICES ASSUME ~InCall(p), NEW k \in 1..Len(queue'[current]),
                           LastOf(queue'[current], p, k)
                    PROVE  queue'[current][k][1] = row[p].write
        BY <3>1 DEF QueueOrder, LastOf, PointIn
      <4>. QED
        BY <2>1, <2>6 DEF QueuedFor, QueueOrder, LastOf
    <3>. QED
      BY <2>3, <2>4, <3>1, <3>2 DEF RxOrder, OkOrder, Left, Reporting, Answered, PointIn
  <2>. QED
    BY <2>5, <2>6
<1>. QED
  BY <1>3, <1>4 DEF OrderInv

\* Steps that touch none of the stages a value goes through.
LEMMA AsideOrder ==
    ASSUME OrderInv, stopped \subseteq stopped', snapshot' = snapshot,
           enable' = "queue" \/ snapshot = {},
           UNCHANGED <<row, held, call, target, made, current, sched, rx, abandoned, muddled>>
    PROVE  OrderInv'
<1>. USE DEF sched
<1>1. StoppedInv'
  BY DEF OrderInv, StoppedInv
<1>2. ASSUME NEW p \in Points, p \notin muddled'
      PROVE  Ordered(p)'
  BY <1>2 DEF OrderInv, Ordered, CallOrder, SnapshotOrder, QueueOrder, LastOf, HandOrder,
              AnswerOrder, RxOrder, OkOrder, Left, Reporting, InCall, InQueue, Answered,
              PointIn
<1>. QED
  BY <1>1, <1>2 DEF OrderInv

LEMMA DiesOrder ==
    ASSUME IInv, OrderInv, Dies
    PROVE  OrderInv'
<1>. USE DEF Dies
<1>1. StoppedInv'
  BY DEF OrderInv, StoppedInv
<1>2. ASSUME NEW p \in Points, p \notin muddled'
      PROVE  Ordered(p)'
  <2>1. row[p].state = "ok" /\ row[p].write \notin abandoned => held[p] = row[p].write
    BY <1>2, Undisturbed
  <2>2. CallOrder(p)'
    BY DEF CallOrder
  <2>3. OkOrder(p)'
    BY <2>1 DEF OkOrder, Left
  <2>. QED
    BY <2>2, <2>3 DEF Ordered, SnapshotOrder, QueueOrder, HandOrder, AnswerOrder,
                      RxOrder, Answered
<1>. QED
  BY <1>1, <1>2 DEF OrderInv

LEMMA StepOrder == IInv /\ OrderInv /\ [Next]_vars => OrderInv'
<1>. SUFFICES ASSUME IInv, OrderInv, [Next]_vars PROVE OrderInv'
  OBVIOUS
<1>1. ASSUME NEW w \in Writes, PointWrite(w) PROVE OrderInv'
  BY <1>1, StorePointOrder, FindManagerOrder, EnqueuePointOrder DEF PointWrite
<1>2. ASSUME NEW w \in Writes, PointWritePanics(w) PROVE OrderInv'
  BY <1>2, DiesOrder DEF PointWritePanics
<1>3. ASSUME NEW m \in Managers, Schedule(m) PROVE OrderInv'
  BY <1>3, SchedulerPicksOrder, PrepareFailsOrder, TransmitOrder, AwaitEndsOrder,
     GiveUpOrder, OnWriteExhaustedOrder DEF Schedule
<1>4. CASE DequeueAnswered
  BY <1>4, DequeueAnsweredOrder
<1>5. CASE StoreAnswer
  BY <1>5, StoreAnswerOrder
<1>6. CASE Enable
  <2>1. CASE EnableReturns
    BY <2>1, AsideOrder DEF EnableReturns, request, module
  <2>. QED
    BY <1>6, <2>1, EnableSwitchesOrder, EnableReadsOrder, EnableQueuesOrder DEF Enable
<1>7. CASE Disable
  BY <1>7, AsideOrder DEF Disable, request, life, OrderInv, StoppedInv
<1>8. CASE Crash
  BY <1>8, DiesOrder DEF Crash
<1>9. CASE UNCHANGED vars
  BY <1>9, AsideOrder DEF vars, request, module, life, OrderInv, StoppedInv
<1>. QED
  BY <1>1, <1>2, <1>3, <1>4, <1>5, <1>6, <1>7, <1>8, <1>9 DEF Next

-----------------------------------------------------------------------------
(* What the run points checks, for every instance.                          *)

\* A row that says "ok" has the value the device holds, as soon as nothing is
\* under way for its point: StoreVerdict changes only the state of a row, so a
\* verdict about an older value would say it of a newer one, but the order of the
\* queue and of the verdicts keeps an older one from being the last.
THEOREM OkIsHeldHolds == Spec => []OkIsHeld
<1>1. IInv /\ OrderInv => OkIsHeld
  <2>. SUFFICES ASSUME IInv, OrderInv, NEW p \in Points, Quiet(p), row[p].state = "ok",
                       row[p].write \notin abandoned, p \notin muddled
                PROVE  held[p] = row[p].write
    BY DEF OkIsHeld
  <2>1. ~Reporting(p)
    BY ReportingPoint DEF Quiet, Reporting, InHand
  <2>. QED
    BY <2>1 DEF Quiet, OrderInv, Ordered, OkOrder, Left, Answered
<1>. QED
  BY <1>1, InitInv, StepInv, InitOrder, StepOrder, PTL DEF Spec

==============================================================================
