------------------------- MODULE PointWrites_proofs -------------------------
(***************************************************************************)
(* Theorems about PointWrites, for every set of points and of requests and *)
(* every number of managers.                                               *)
(*                                                                         *)
(* Neither property is inductive.  IInv adds what they depend on: a row    *)
(* holds a value written to its own point, everything that is queued or    *)
(* under way belongs to a row that was written, the answers a queue has    *)
(* waiting are answers to its head, and a pending value is covered by      *)
(* something that outlives the next step, whatever Enable has done so far. *)
(***************************************************************************)
EXTENDS PointWrites, SequenceTheorems, TLAPS

Written(p) == row[p].state # "none"

\* A row that was written holds a value meant for its point.
RowInv ==
    \A p \in Points :
        /\ Written(p) => row[p].write \in Writes
        /\ row[p].write \in Writes => PointOf[row[p].write] = p

\* The requests, queues, hands, verdicts and snapshot are about written rows.
OriginInv ==
    /\ \A w \in Writes : call[w] # "idle" => Written(PointOf[w])
    /\ \A m \in Managers : \A k \in 1..Len(queue[m]) : Written(PointIn(queue[m][k]))
    /\ \A m \in Managers : hand[m] # NoItem => Written(PointIn(hand[m]))
    /\ rx # NoAnswer => Written(PointIn(rx[1]))
    /\ \A i \in snapshot : Written(PointIn(i))

\* Answers wait for the head of a queue, put there by the scheduler whose item
\* it is; a scheduler that goes on to another item finds none left over.
AnswerInv ==
    \A m \in Managers :
        /\ answer[m] # {} => queue[m] # <<>>
        /\ phase[m] = "loop" => m \in stopped \/ answer[m] = {}
        /\ phase[m] # "loop" => hand[m] \in Items
        /\ phase[m] = "prepare" => IsHead(m, hand[m]) /\ answer[m] = {}
        /\ phase[m] = "await" => IsHead(m, hand[m]) \/ answer[m] = {}
        /\ phase[m] = "report" => answer[m] = {}

\* Who is to queue something has a manager to queue it in.
ManagerInv ==
    /\ \A w \in Writes : call[w] = "aimed" => target[w] \in 1..made
    /\ enable # "idle" => current # 0

\* As UnderWay, but a request that found an older manager does not count, and
\* Enable counts until it has queued what it read.
Waits(m, w) == \E k \in 1..Len(queue[m]) : queue[m][k][1] = w

Covered(w) ==
    \/ call[w] = "stored"
    \/ call[w] = "aimed" /\ target[w] = current
    \/ Waits(current, w)
    \/ phase[current] = "report" /\ hand[current][1] = w
    \/ rx[1][1] = w
    \/ w \in abandoned
    \/ enable = "read"
    \/ enable = "queue" /\ \E i \in snapshot : i[1] = w

CoveredInv ==
    current # 0 => \A p \in Points : row[p].state = "pending" => Covered(row[p].write)

IInv == TypeOK /\ RowInv /\ OriginInv /\ AnswerInv /\ ManagerInv /\ CoveredInv
-----------------------------------------------------------------------------
(* Facts about sequences, stated once in the form the steps need.           *)

\* The head leaves: what is left is the old queue shifted by one.
LEMMA PopFacts ==
    ASSUME NEW S, NEW q \in Seq(S), q # <<>>
    PROVE  /\ Len(q) \in Nat \ {0}
           /\ Head(q) = q[1] /\ Head(q) \in S
           /\ Tail(q) \in Seq(S)
           /\ Len(Tail(q)) = Len(q) - 1
           /\ \A k \in 1..Len(Tail(q)) : Tail(q)[k] = q[k + 1]
BY HeadTailProperties, EmptySeq, LenProperties, ElementOfSeq

\* An item is queued: the others keep their places, and so does a head.
LEMMA PushFacts ==
    ASSUME NEW S, NEW q \in Seq(S), NEW e \in S
    PROVE  /\ Len(q) \in Nat
           /\ Append(q, e) \in Seq(S)
           /\ Len(Append(q, e)) = Len(q) + 1
           /\ \A k \in 1..Len(q) : Append(q, e)[k] = q[k]
           /\ Append(q, e)[Len(q) + 1] = e
           /\ Append(q, e) # <<>>
           /\ q # <<>> => Head(Append(q, e)) = Head(q)
<1>1. /\ Len(q) \in Nat
      /\ Append(q, e) \in Seq(S)
      /\ Len(Append(q, e)) = Len(q) + 1
      /\ \A k \in 1..Len(q) : Append(q, e)[k] = q[k]
      /\ Append(q, e)[Len(q) + 1] = e
      /\ Append(q, e) # <<>>
  BY AppendProperties, LenProperties
<1>2. ASSUME q # <<>> PROVE Head(Append(q, e)) = Head(q)
  <2>1. Head(q) = q[1] /\ 1 \in 1..Len(q)
    BY <1>2, PopFacts
  <2>2. Head(Append(q, e)) = Append(q, e)[1]
    BY <1>1, PopFacts
  <2>. QED
    BY <1>1, <2>1, <2>2
<1>. QED
  BY <1>1, <1>2

\* An item of a queue is an item, and so is the head.
LEMMA QueueItems ==
    ASSUME TypeOK, NEW m \in Managers
    PROVE  /\ queue[m] \in Seq(Items)
           /\ \A k \in 1..Len(queue[m]) : queue[m][k] \in Items
BY ElementOfSeq DEF TypeOK

LEMMA Subjects ==
    /\ \A i \in Items : i[1] \in Writes /\ PointIn(i) \in Points
    /\ NoItem \notin Items
    /\ NoItem[1] \notin Writes
    /\ NoAnswer \notin Items \X Answers
    /\ NoAnswer[1][1] \notin Writes
    /\ \A a \in Items \X Answers : a[1] \in Items /\ a[2] \in Answers
BY PointOfAssumption, NoWriteAssumption DEF Items, PointIn, NoItem, NoAnswer, Answers

\* When the head of a queue leaves, the other items and queues stay.
LEMMA LeaveFacts ==
    ASSUME TypeOK, NEW m \in Managers, queue[m] # <<>>, Leave(m)
    PROVE  /\ queue' \in [Managers -> Seq(Items)]
           /\ answer' \in [Managers -> SUBSET Answers]
           /\ answer'[m] = {}
           /\ \A n \in Managers : n # m => queue'[n] = queue[n] /\ answer'[n] = answer[n]
           /\ \A n \in Managers : \A k \in 1..Len(queue'[n]) :
                 \E l \in 1..Len(queue[n]) : queue'[n][k] = queue[n][l]
           /\ \A n \in Managers, w \in Writes :
                 Waits(n, w) => Waits(n, w)' \/ (n = m /\ w = Head(queue[m])[1])
           /\ Head(queue[m]) \in Items
           /\ \E k \in 1..Len(queue[m]) : queue[m][k] = Head(queue[m])
<1>. DEFINE q == queue[m]
<1>1. q \in Seq(Items)
  BY DEF TypeOK
<1>2. /\ Len(q) \in Nat \ {0}
      /\ Head(q) = q[1] /\ Head(q) \in Items
      /\ Tail(q) \in Seq(Items)
      /\ Len(Tail(q)) = Len(q) - 1
      /\ \A k \in 1..Len(Tail(q)) : Tail(q)[k] = q[k + 1]
  BY <1>1, PopFacts
<1>3. /\ queue'[m] = Tail(q) /\ answer'[m] = {}
      /\ \A n \in Managers : n # m => queue'[n] = queue[n] /\ answer'[n] = answer[n]
  BY DEF Leave, TypeOK
<1>4. queue' \in [Managers -> Seq(Items)] /\ answer' \in [Managers -> SUBSET Answers]
  BY <1>2 DEF Leave, TypeOK
<1>5. ASSUME NEW n \in Managers, NEW k \in 1..Len(queue'[n])
      PROVE  \E l \in 1..Len(queue[n]) : queue'[n][k] = queue[n][l]
  <2>1. CASE n = m
    <3>. HIDE DEF q
    <3>1. k \in 1..Len(Tail(q))
      BY <1>3, <1>5, <2>1
    <3>2. k + 1 \in 1..Len(q)
      BY <1>2, <3>1
    <3>. USE DEF q
    <3>3. queue'[n][k] = queue[n][k + 1]
      BY <1>2, <1>3, <2>1, <3>1
    <3>. QED
      BY <2>1, <3>2, <3>3
  <2>2. CASE n # m
    BY <1>3, <2>2
  <2>. QED
    BY <2>1, <2>2
<1>6. ASSUME NEW k \in 1..Len(q), q[k] # Head(q)
      PROVE  \E l \in 1..Len(queue'[m]) : queue'[m][l] = q[k]
  <2>1. k - 1 \in 1..Len(Tail(q)) /\ Tail(q)[k - 1] = q[k]
    <3>1. k # 1
      BY <1>2, <1>6
    <3>2. k - 1 \in 1..Len(Tail(q)) /\ (k - 1) + 1 = k
      BY <1>2, <3>1
    <3>. QED
      BY <1>2, <3>2
  <2>. QED
    BY <1>3, <2>1
<1>7. ASSUME NEW n \in Managers, NEW w \in Writes, Waits(n, w)
      PROVE  Waits(n, w)' \/ (n = m /\ w = Head(q)[1])
  <2>. SUFFICES ASSUME n = m, w # Head(q)[1] PROVE Waits(n, w)'
    BY <1>3, <1>7 DEF Waits
  <2>1. PICK k \in 1..Len(q) : q[k][1] = w
    BY <1>7 DEF Waits
  <2>2. PICK l \in 1..Len(queue'[m]) : queue'[m][l] = q[k]
    BY <1>6, <2>1
  <2>. QED
    BY <2>1, <2>2 DEF Waits
<1>8. 1 \in 1..Len(q)
  BY <1>2
<1>. QED
  BY <1>2, <1>3, <1>4, <1>5, <1>7, <1>8

\* When an item is queued, the others and the heads stay.
LEMMA QueueFacts ==
    ASSUME TypeOK, NEW m \in Managers, NEW i \in Items,
           queue' = [queue EXCEPT ![m] = Queued(@, i)]
    PROVE  /\ queue' \in [Managers -> Seq(Items)]
           /\ \A n \in Managers : \A k \in 1..Len(queue'[n]) :
                 \/ queue'[n][k] = i
                 \/ \E l \in 1..Len(queue[n]) : queue'[n][k] = queue[n][l]
           /\ \A n \in Managers, w \in Writes : Waits(n, w) => Waits(n, w)'
           /\ Waits(m, i[1])'
           /\ \A n \in Managers : queue[n] # <<>> =>
                 queue'[n] # <<>> /\ Head(queue'[n]) = Head(queue[n])
<1>. DEFINE q == queue[m]
<1>1. q \in Seq(Items)
  BY DEF TypeOK
<1>2. /\ Len(q) \in Nat
      /\ Append(q, i) \in Seq(Items)
      /\ Len(Append(q, i)) = Len(q) + 1
      /\ \A k \in 1..Len(q) : Append(q, i)[k] = q[k]
      /\ Append(q, i)[Len(q) + 1] = i
      /\ Append(q, i) # <<>>
      /\ q # <<>> => Head(Append(q, i)) = Head(q)
  BY <1>1, PushFacts
<1>3. /\ queue'[m] = Append(q, i)
      /\ \A n \in Managers : n # m => queue'[n] = queue[n]
  BY DEF Queued, TypeOK
<1>4. queue' \in [Managers -> Seq(Items)]
  BY <1>2 DEF Queued, TypeOK
<1>5. ASSUME NEW k \in 1..Len(Append(q, i))
      PROVE  Append(q, i)[k] = i \/ k \in 1..Len(q)
  BY <1>2
<1>6. \A k \in 1..Len(q) : k \in 1..Len(Append(q, i))
  BY <1>2
<1>7. \A n \in Managers : \A k \in 1..Len(queue'[n]) :
         \/ queue'[n][k] = i
         \/ \E l \in 1..Len(queue[n]) : queue'[n][k] = queue[n][l]
  BY <1>2, <1>3, <1>5
<1>8. \A n \in Managers, w \in Writes : Waits(n, w) => Waits(n, w)'
  BY <1>2, <1>3, <1>6 DEF Waits
<1>9. Waits(m, i[1])'
  <2>1. Len(q) + 1 \in 1..Len(Append(q, i))
    BY <1>2
  <2>. QED
    BY <1>2, <1>3, <2>1 DEF Waits
<1>. QED
  BY <1>2, <1>3, <1>4, <1>7, <1>8, <1>9

-----------------------------------------------------------------------------
(* Every step preserves IInv.                                               *)

LEMMA InitInv == Init => IInv
<1>. SUFFICES ASSUME Init PROVE IInv
  OBVIOUS
<1>1. TypeOK
  BY BoundAssumption, Subjects DEF Init, TypeOK, Managers
<1>2. RowInv
  BY NoWriteAssumption, PointOfAssumption DEF Init, RowInv, Written
<1>3. OriginInv
  BY PointOfAssumption DEF Init, OriginInv, Written
<1>4. AnswerInv /\ ManagerInv /\ CoveredInv
  BY DEF Init, AnswerInv, ManagerInv, CoveredInv
<1>. QED
  BY <1>1, <1>2, <1>3, <1>4 DEF IInv

LEMMA StorePointStep ==
    ASSUME IInv, NEW w \in Writes, StorePoint(w)
    PROVE  IInv'
<1>. USE DEF StorePoint, IInv, module, sched, life
<1>. PointOf[w] \in Points
  BY PointOfAssumption
<1>1. TypeOK'
  BY DEF TypeOK
<1>2. RowInv'
  BY NoWriteAssumption DEF TypeOK, RowInv, Written
<1>3. \A p \in Points : Written(p)' <=> p = PointOf[w] \/ Written(p)
  BY DEF TypeOK, Written
<1>4. OriginInv'
  BY <1>3, PointOfAssumption, QueueItems, Subjects DEF TypeOK, OriginInv, PointIn
<1>5. AnswerInv'
  BY DEF AnswerInv, IsHead
<1>6. ManagerInv'
  BY DEF TypeOK, ManagerInv
<1>7. CoveredInv'
  BY DEF TypeOK, CoveredInv, Covered, Waits
<1>. QED
  BY <1>1, <1>2, <1>4, <1>5, <1>6, <1>7

LEMMA FindManagerStep ==
    ASSUME IInv, NEW w \in Writes, FindManager(w)
    PROVE  IInv'
<1>. USE DEF FindManager, IInv, module, sched, life
<1>1. TypeOK'
  BY BoundAssumption DEF TypeOK
<1>2. RowInv'
  BY DEF RowInv, Written
<1>3. OriginInv'
  BY DEF TypeOK, OriginInv, Written, PointIn
<1>4. AnswerInv'
  BY DEF AnswerInv, IsHead
<1>5. ManagerInv'
  BY DEF TypeOK, ManagerInv
<1>6. CoveredInv'
  BY DEF TypeOK, RowInv, Written, CoveredInv, Covered, Waits
<1>. QED
  BY <1>1, <1>2, <1>3, <1>4, <1>5, <1>6

LEMMA EnqueuePointStep ==
    ASSUME IInv, NEW w \in Writes, EnqueuePoint(w)
    PROVE  IInv'
<1>. USE DEF EnqueuePoint, IInv, module, life
<1>. DEFINE i == <<w, "api">>
<1>1. i \in Items /\ i[1] = w /\ PointIn(i) = PointOf[w]
  BY DEF Items, PointIn
<1>. PICK m \in Managers : m = target[w]
  BY BoundAssumption DEF TypeOK, ManagerInv, Managers
<1>2. queue' = [queue EXCEPT ![m] = Queued(@, i)]
  OBVIOUS
<1>. HIDE DEF i
<1>3. /\ queue' \in [Managers -> Seq(Items)]
      /\ \A n \in Managers : \A k \in 1..Len(queue'[n]) :
            \/ queue'[n][k] = i
            \/ \E l \in 1..Len(queue[n]) : queue'[n][k] = queue[n][l]
      /\ \A n \in Managers, v \in Writes : Waits(n, v) => Waits(n, v)'
      /\ Waits(m, i[1])'
      /\ \A n \in Managers : queue[n] # <<>> =>
            queue'[n] # <<>> /\ Head(queue'[n]) = Head(queue[n])
  BY <1>1, <1>2, QueueFacts
<1>4. TypeOK'
  BY <1>3, BoundAssumption DEF TypeOK
<1>5. RowInv'
  BY DEF RowInv, Written
<1>6. OriginInv'
  <2>1. \A p : Written(p)' <=> Written(p)
    BY DEF Written
  <2>2. Written(PointIn(i))
    BY <1>1 DEF OriginInv
  <2>3. ASSUME NEW n \in Managers, NEW k \in 1..Len(queue'[n])
        PROVE  Written(PointIn(queue'[n][k]))
    <3>1. CASE queue'[n][k] = i
      BY <2>2, <3>1
    <3>2. CASE \E l \in 1..Len(queue[n]) : queue'[n][k] = queue[n][l]
      BY <3>2 DEF OriginInv
    <3>. QED
      BY <1>3, <2>3, <3>1, <3>2
  <2>4. \A v \in Writes : call'[v] # "idle" => call[v] # "idle"
    BY DEF TypeOK
  <2>. QED
    BY <2>1, <2>3, <2>4 DEF OriginInv, Written, PointIn
<1>7. AnswerInv'
  BY <1>3 DEF TypeOK, AnswerInv, IsHead
<1>8. ManagerInv'
  BY DEF TypeOK, ManagerInv
<1>9. CoveredInv'
  <2>. SUFFICES ASSUME current # 0, NEW p \in Points, row[p].state = "pending"
                PROVE  Covered(row[p].write)'
    BY DEF CoveredInv
  <2>1. current \in Managers
    BY BoundAssumption DEF TypeOK, Managers
  <2>2. Covered(row[p].write) /\ row[p].write \in Writes
    BY DEF CoveredInv, RowInv, Written
  <2>3. CASE row[p].write = w /\ target[w] = current
    BY <1>1, <1>3, <2>3 DEF Covered
  <2>4. CASE row[p].write # w \/ target[w] # current
    BY <1>3, <2>1, <2>2, <2>4 DEF Covered, TypeOK
  <2>. QED
    BY <2>3, <2>4
<1>. QED
  BY <1>4, <1>5, <1>6, <1>7, <1>8, <1>9

LEMMA SchedulerPicksStep ==
    ASSUME IInv, NEW m \in Managers, SchedulerPicks(m)
    PROVE  IInv'
<1>. USE DEF SchedulerPicks, IInv, request, module, life
<1>1. Head(queue[m]) \in Items /\ \E k \in 1..Len(queue[m]) : queue[m][k] = Head(queue[m])
  <2>1. /\ Len(queue[m]) \in Nat \ {0}
        /\ Head(queue[m]) = queue[m][1] /\ Head(queue[m]) \in Items
    BY PopFacts DEF TypeOK
  <2>. QED
    BY <2>1
<1>2. TypeOK'
  BY <1>1 DEF TypeOK
<1>3. RowInv'
  BY DEF RowInv, Written
<1>4. OriginInv'
  BY <1>1 DEF TypeOK, OriginInv, Written, PointIn
<1>5. AnswerInv'
  BY <1>1 DEF TypeOK, AnswerInv, IsHead
<1>6. ManagerInv'
  BY DEF ManagerInv
<1>7. CoveredInv'
  <2>1. current # 0 => current \in Managers
    BY BoundAssumption DEF TypeOK, Managers
  <2>2. \A w : Waits(current, w)' <=> Waits(current, w)
    BY DEF Waits
  <2>. QED
    BY <2>1, <2>2 DEF TypeOK, CoveredInv, Covered
<1>. QED
  BY <1>2, <1>3, <1>4, <1>5, <1>6, <1>7

LEMMA PrepareFailsStep ==
    ASSUME IInv, NEW m \in Managers, PrepareFails(m)
    PROVE  IInv'
<1>. USE DEF PrepareFails, IInv, request, module, life, BackToLoop
<1>1. hand[m] \in Items /\ queue[m] # <<>> /\ Head(queue[m]) = hand[m] /\ Leave(m)
  BY DEF AnswerInv, IsHead, RemoveItem
<1>2. /\ queue' \in [Managers -> Seq(Items)]
      /\ answer' \in [Managers -> SUBSET Answers]
      /\ answer'[m] = {}
      /\ \A n \in Managers : n # m => queue'[n] = queue[n] /\ answer'[n] = answer[n]
      /\ \A n \in Managers : \A k \in 1..Len(queue'[n]) :
            \E l \in 1..Len(queue[n]) : queue'[n][k] = queue[n][l]
      /\ \A n \in Managers, w \in Writes :
            Waits(n, w) => Waits(n, w)' \/ (n = m /\ w = hand[m][1])
  BY <1>1, LeaveFacts
<1>3. TypeOK'
  BY <1>1, <1>2, Subjects DEF TypeOK
<1>4. RowInv'
  BY DEF RowInv, Written
<1>5. OriginInv'
  <2>1. \A p : Written(p)' <=> Written(p)
    BY DEF Written
  <2>2. \A n \in Managers : hand'[n] # NoItem => hand'[n] = hand[n]
    BY DEF TypeOK
  <2>3. ASSUME NEW n \in Managers, NEW k \in 1..Len(queue'[n])
        PROVE  Written(PointIn(queue'[n][k]))
    BY <1>2, <2>3 DEF OriginInv
  <2>. QED
    BY <2>1, <2>2, <2>3 DEF OriginInv, Written, PointIn
<1>6. AnswerInv'
  BY <1>2 DEF TypeOK, AnswerInv, IsHead
<1>7. ManagerInv'
  BY DEF ManagerInv
<1>8. CoveredInv'
  <2>. SUFFICES ASSUME current # 0, NEW p \in Points, row[p].state = "pending"
                PROVE  Covered(row[p].write)'
    BY DEF CoveredInv
  <2>1. current \in Managers
    BY BoundAssumption DEF TypeOK, Managers
  <2>2. Covered(row[p].write) /\ row[p].write \in Writes
    BY DEF CoveredInv, RowInv, Written
  <2>. QED
    BY <1>2, <2>1, <2>2 DEF Covered, TypeOK
<1>. QED
  BY <1>3, <1>4, <1>5, <1>6, <1>7, <1>8

LEMMA TransmitStep ==
    ASSUME IInv, NEW m \in Managers, Transmit(m)
    PROVE  IInv'
<1>. USE DEF Transmit, IInv, request, module, life
<1>1. hand[m] \in Items /\ IsHead(m, hand[m]) /\ answer[m] = {}
  BY DEF AnswerInv
<1>2. TypeOK'
  <2>1. held' \in [Points -> Writes \union {NoWrite}]
    BY <1>1, Subjects DEF TypeOK
  <2>2. answer' \in [Managers -> SUBSET Answers]
    <3>1. answer \in [Managers -> SUBSET Answers]
      BY DEF TypeOK
    <3>2. answer' = answer \/ \E a \in Answers : answer' = [answer EXCEPT ![m] = @ \union {a}]
      OBVIOUS
    <3>. HIDE DEF Transmit, IInv, request, module, life
    <3>3. \A a \in Answers : [answer EXCEPT ![m] = @ \union {a}] \in [Managers -> SUBSET Answers]
      BY <3>1
    <3>. QED
      BY <3>1, <3>2, <3>3
  <2>. QED
    BY <2>1, <2>2 DEF TypeOK
<1>3. RowInv'
  BY DEF RowInv, Written
<1>4. OriginInv'
  BY DEF OriginInv, Written, PointIn
<1>5. AnswerInv'
  BY <1>1 DEF TypeOK, AnswerInv, IsHead
<1>6. ManagerInv'
  BY DEF ManagerInv
<1>7. CoveredInv'
  <2>1. current # 0 => current \in Managers
    BY BoundAssumption DEF TypeOK, Managers
  <2>2. \A w : Waits(current, w)' <=> Waits(current, w)
    BY DEF Waits
  <2>. QED
    BY <2>1, <2>2 DEF TypeOK, CoveredInv, Covered
<1>. QED
  BY <1>2, <1>3, <1>4, <1>5, <1>6, <1>7

LEMMA AwaitEndsStep ==
    ASSUME IInv, NEW m \in Managers, AwaitEnds(m)
    PROVE  IInv'
<1>. USE DEF AwaitEnds, IInv, request, module, life, BackToLoop
<1>1. TypeOK'
  BY DEF TypeOK
<1>2. RowInv'
  BY DEF RowInv, Written
<1>3. OriginInv'
  BY DEF TypeOK, OriginInv, Written, PointIn
<1>4. AnswerInv'
  BY DEF TypeOK, AnswerInv, IsHead, AwaitOver
<1>5. ManagerInv'
  BY DEF ManagerInv
<1>6. CoveredInv'
  BY DEF TypeOK, CoveredInv, Covered, Waits
<1>. QED
  BY <1>1, <1>2, <1>3, <1>4, <1>5, <1>6

LEMMA GiveUpStep ==
    ASSUME IInv, NEW m \in Managers, GiveUp(m)
    PROVE  IInv'
<1>. USE DEF GiveUp, IInv, request, module, life
<1>1. hand[m] \in Items /\ queue[m] # <<>> /\ Head(queue[m]) = hand[m]
  BY DEF AnswerInv, IsHead
<1>2. /\ queue' \in [Managers -> Seq(Items)]
      /\ answer' \in [Managers -> SUBSET Answers]
      /\ answer'[m] = {}
      /\ \A n \in Managers : n # m => queue'[n] = queue[n] /\ answer'[n] = answer[n]
      /\ \A n \in Managers : \A k \in 1..Len(queue'[n]) :
            \E l \in 1..Len(queue[n]) : queue'[n][k] = queue[n][l]
      /\ \A n \in Managers, w \in Writes :
            Waits(n, w) => Waits(n, w)' \/ (n = m /\ w = hand[m][1])
  BY <1>1, LeaveFacts
<1>3. TypeOK'
  BY <1>2 DEF TypeOK
<1>4. RowInv'
  BY DEF RowInv, Written
<1>5. OriginInv'
  <2>1. ASSUME NEW n \in Managers, NEW k \in 1..Len(queue'[n])
        PROVE  Written(PointIn(queue'[n][k]))
    BY <1>2, <2>1 DEF OriginInv
  <2>. QED
    BY <2>1 DEF OriginInv, Written, PointIn
<1>6. AnswerInv'
  BY <1>1, <1>2 DEF TypeOK, AnswerInv, IsHead
<1>7. ManagerInv'
  BY DEF ManagerInv
<1>8. CoveredInv'
  <2>. SUFFICES ASSUME current # 0, NEW p \in Points, row[p].state = "pending"
                PROVE  Covered(row[p].write)'
    BY DEF CoveredInv
  <2>1. current \in Managers
    BY BoundAssumption DEF TypeOK, Managers
  <2>2. Covered(row[p].write) /\ row[p].write \in Writes
    BY DEF CoveredInv, RowInv, Written
  <2>. QED
    BY <1>2, <2>1, <2>2 DEF Covered, TypeOK
<1>. QED
  BY <1>3, <1>4, <1>5, <1>6, <1>7, <1>8

\* A stored verdict leaves the other rows alone; one that could not be stored is
\* on record as given up.
LEMMA VerdictFacts ==
    ASSUME IInv, NEW i \in Items, Written(PointIn(i)),
           NEW s \in {"ok", "failed"}, StoreVerdict(i, s)
    PROVE  /\ row' \in [Points -> [write : Writes \union {NoWrite},
                                   state : {"none", "pending", "ok", "failed"}]]
           /\ abandoned' \subseteq Writes
           /\ abandoned \subseteq abandoned'
           /\ \A p \in Points : row'[p].write = row[p].write
           /\ \A p \in Points : Written(p)' <=> Written(p)
           /\ \A p \in Points : row'[p].state = "pending" =>
                 /\ row[p].state = "pending"
                 /\ row[p].write = i[1] => i[1] \in abandoned'
<1>1. i[1] \in Writes /\ PointIn(i) \in Points
  BY Subjects
<1>2. CASE row' = [row EXCEPT ![PointIn(i)].state = s] /\ abandoned' = abandoned
  <2>1. PointIn(i) = PointOf[i[1]]
    BY DEF PointIn
  <2>. DEFINE Rows == [write : Writes \union {NoWrite},
                       state : {"none", "pending", "ok", "failed"}]
  <2>0. row \in [Points -> Rows]
    BY DEF IInv, TypeOK
  <2>2. row'[PointIn(i)].state = s
    <3>1. row[PointIn(i)] \in Rows /\ row'[PointIn(i)] = [row[PointIn(i)] EXCEPT !.state = s]
      BY <1>1, <1>2, <2>0
    <3>. QED
      BY <3>1
  <2>3. ASSUME NEW p \in Points
        PROVE  row'[p].write = row[p].write /\ (p # PointIn(i) => row'[p] = row[p])
    <3>1. row[p] \in Rows
      BY <2>0
    <3>. QED
      BY <1>1, <1>2, <2>0, <3>1
  <2>4. row' \in [Points -> [write : Writes \union {NoWrite},
                            state : {"none", "pending", "ok", "failed"}]]
    <3>1. [row[PointIn(i)] EXCEPT !.state = s] \in Rows
      BY <1>1, <2>0
    <3>. QED
      BY <1>1, <1>2, <2>0, <3>1
  <2>5. \A p \in Points : row[p].state = "pending" /\ row[p].write = i[1] => p = PointIn(i)
    BY <1>1, <2>1 DEF IInv, RowInv
  <2>6. abandoned \subseteq Writes
    BY DEF IInv, TypeOK
  <2>7. ASSUME NEW p \in Points PROVE Written(p)' <=> Written(p)
    <3>1. Written(PointIn(i)) /\ row'[PointIn(i)].state # "none"
      BY <2>2
    <3>2. CASE p = PointIn(i)
      BY <3>1, <3>2 DEF Written
    <3>3. CASE p # PointIn(i)
      BY <2>3, <3>3 DEF Written
    <3>. QED
      BY <3>2, <3>3
  <2>8. \A p \in Points : row'[p].state = "pending" =>
            /\ row[p].state = "pending"
            /\ row[p].write = i[1] => i[1] \in abandoned'
    BY <1>2, <2>2, <2>3, <2>5
  <2>. QED
    BY <1>2, <2>3, <2>4, <2>6, <2>7, <2>8
<1>3. CASE row' = row /\ abandoned' = abandoned \union {i[1]}
  BY <1>1, <1>3 DEF IInv, TypeOK, Written
<1>. QED
  BY <1>2, <1>3 DEF StoreVerdict

LEMMA OnWriteExhaustedStep ==
    ASSUME IInv, NEW m \in Managers, OnWriteExhausted(m)
    PROVE  IInv'
<1>. USE DEF OnWriteExhausted, IInv, request, module, life, BackToLoop
<1>1. hand[m] \in Items /\ Written(PointIn(hand[m])) /\ PointIn(hand[m]) \in Points
  BY Subjects DEF AnswerInv, OriginInv
<1>2. /\ row' \in [Points -> [write : Writes \union {NoWrite},
                             state : {"none", "pending", "ok", "failed"}]]
      /\ abandoned' \subseteq Writes
      /\ abandoned \subseteq abandoned'
      /\ \A p \in Points : row'[p].write = row[p].write
      /\ \A p \in Points : Written(p)' <=> Written(p)
      /\ \A p \in Points : row'[p].state = "pending" =>
            /\ row[p].state = "pending"
            /\ row[p].write = hand[m][1] => hand[m][1] \in abandoned'
  BY <1>1, VerdictFacts
<1>3. TypeOK'
  BY <1>1, <1>2 DEF TypeOK
<1>4. RowInv'
  BY <1>2 DEF RowInv
<1>5. OriginInv'
  BY <1>2, PointOfAssumption, QueueItems, Subjects DEF TypeOK, OriginInv, PointIn
<1>6. AnswerInv'
  BY DEF TypeOK, AnswerInv, IsHead
<1>7. ManagerInv'
  BY DEF ManagerInv
<1>8. CoveredInv'
  <2>. SUFFICES ASSUME current # 0, NEW p \in Points, row'[p].state = "pending"
                PROVE  Covered(row[p].write)'
    BY DEF CoveredInv
  <2>1. Covered(row[p].write)
    BY <1>2 DEF CoveredInv
  <2>2. Waits(current, row[p].write) => Waits(current, row[p].write)'
    BY <1>2 DEF Waits
  <2>3. current \in Managers
    BY BoundAssumption DEF TypeOK, Managers
  <2>. QED
    BY <1>2, <2>1, <2>2, <2>3 DEF TypeOK, Covered
<1>. QED
  BY <1>3, <1>4, <1>5, <1>6, <1>7, <1>8

LEMMA DequeueAnsweredStep ==
    ASSUME IInv, DequeueAnswered
    PROVE  IInv'
<1>. USE DEF DequeueAnswered, IInv, request, module, life
<1>. PICK m \in Managers : m = current
  BY BoundAssumption DEF TypeOK, Managers
<1>1. queue[m] # <<>> /\ Leave(m)
  BY DEF AnswerInv
<1>. PICK a \in Answers : rx' = <<Head(queue[m]), a>>
  BY DEF TypeOK
<1>2. /\ queue' \in [Managers -> Seq(Items)]
      /\ answer' \in [Managers -> SUBSET Answers]
      /\ answer'[m] = {}
      /\ \A n \in Managers : n # m => queue'[n] = queue[n] /\ answer'[n] = answer[n]
      /\ \A n \in Managers : \A k \in 1..Len(queue'[n]) :
            \E l \in 1..Len(queue[n]) : queue'[n][k] = queue[n][l]
      /\ \A n \in Managers, w \in Writes :
            Waits(n, w) => Waits(n, w)' \/ (n = m /\ w = Head(queue[m])[1])
      /\ Head(queue[m]) \in Items
      /\ \E k \in 1..Len(queue[m]) : queue[m][k] = Head(queue[m])
  BY <1>1, LeaveFacts
<1>3. TypeOK'
  BY <1>2 DEF TypeOK
<1>4. RowInv'
  BY DEF RowInv, Written
<1>5. OriginInv'
  <2>1. Written(PointIn(rx'[1]))
    <3>1. rx'[1] = Head(queue[m])
      OBVIOUS
    <3>2. PICK k \in 1..Len(queue[m]) : queue[m][k] = rx'[1]
      BY <1>2, <3>1
    <3>3. Written(PointIn(queue[m][k]))
      BY DEF OriginInv
    <3>. QED
      BY <3>2, <3>3 DEF Written, PointIn
  <2>2. ASSUME NEW n \in Managers, NEW k \in 1..Len(queue'[n])
        PROVE  Written(PointIn(queue'[n][k]))
    <3>1. PICK l \in 1..Len(queue[n]) : queue'[n][k] = queue[n][l]
      BY <1>2, <2>2
    <3>. QED
      BY <3>1 DEF OriginInv
  <2>. QED
    BY <2>1, <2>2 DEF OriginInv, Written, PointIn
<1>6. AnswerInv'
  BY <1>2 DEF TypeOK, AnswerInv, IsHead
<1>7. ManagerInv'
  BY DEF ManagerInv
<1>8. CoveredInv'
  <2>. SUFFICES ASSUME NEW p \in Points, row[p].state = "pending"
                PROVE  Covered(row[p].write)'
    BY DEF CoveredInv
  <2>1. Covered(row[p].write) /\ row[p].write \in Writes
    BY DEF CoveredInv, RowInv, Written
  <2>2. rx[1][1] \notin Writes
    BY Subjects
  <2>. QED
    BY <1>2, <2>1, <2>2 DEF Covered
<1>. QED
  BY <1>3, <1>4, <1>5, <1>6, <1>7, <1>8

LEMMA StoreAnswerStep ==
    ASSUME IInv, StoreAnswer
    PROVE  IInv'
<1>. USE DEF StoreAnswer, IInv, request, module, sched, life
<1>1. rx[1] \in Items /\ Written(PointIn(rx[1])) /\ Verdict(rx[2]) \in {"ok", "failed"}
  BY Subjects DEF TypeOK, OriginInv, Verdict
<1>2. /\ row' \in [Points -> [write : Writes \union {NoWrite},
                             state : {"none", "pending", "ok", "failed"}]]
      /\ abandoned' \subseteq Writes
      /\ abandoned \subseteq abandoned'
      /\ \A p \in Points : row'[p].write = row[p].write
      /\ \A p \in Points : Written(p)' <=> Written(p)
      /\ \A p \in Points : row'[p].state = "pending" =>
            /\ row[p].state = "pending"
            /\ row[p].write = rx[1][1] => rx[1][1] \in abandoned'
  BY <1>1, VerdictFacts
<1>3. TypeOK'
  BY <1>2 DEF TypeOK
<1>4. RowInv'
  BY <1>2 DEF RowInv
<1>5. OriginInv'
  BY <1>2, PointOfAssumption, QueueItems, Subjects DEF TypeOK, OriginInv, PointIn
<1>6. AnswerInv'
  BY DEF AnswerInv, IsHead
<1>7. ManagerInv'
  BY DEF ManagerInv
<1>8. CoveredInv'
  BY <1>2 DEF CoveredInv, Covered, Waits
<1>. QED
  BY <1>3, <1>4, <1>5, <1>6, <1>7, <1>8

LEMMA EnableSwitchesStep ==
    ASSUME IInv, EnableSwitches
    PROVE  IInv'
<1>. USE DEF EnableSwitches, IInv, request, sched
<1>1. made' \in 1..MaxManagers /\ current' = made' /\ made' = made + 1
  BY BoundAssumption DEF CanEnable, TypeOK
<1>2. stopped \subseteq stopped' /\ stopped' \subseteq 1..made'
  BY <1>1, BoundAssumption DEF TypeOK
<1>3. TypeOK'
  BY <1>1, <1>2 DEF TypeOK
<1>4. RowInv'
  BY DEF RowInv, Written
<1>5. OriginInv'
  BY DEF OriginInv, Written, PointIn
<1>6. AnswerInv'
  BY <1>2 DEF AnswerInv, IsHead
<1>7. ManagerInv'
  BY <1>1, BoundAssumption DEF TypeOK, ManagerInv
<1>8. CoveredInv'
  BY DEF CoveredInv, Covered
<1>. QED
  BY <1>3, <1>4, <1>5, <1>6, <1>7, <1>8

LEMMA EnableReadsStep ==
    ASSUME IInv, EnableReads
    PROVE  IInv'
<1>. USE DEF EnableReads, IInv, request, module, sched
<1>. DEFINE rows == {p \in Points : Requeued(row[p].state)}
<1>1. ASSUME NEW p \in rows
      PROVE  /\ Written(p) /\ row[p].write \in Writes
             /\ <<row[p].write, "enable">> \in Items
             /\ PointIn(<<row[p].write, "enable">>) = p
  BY DEF Requeued, RowInv, Written, Items, PointIn
<1>. DEFINE Kept == /\ snapshot' \subseteq Items
                    /\ abandoned' \subseteq Writes
                    /\ enable' \in {"idle", "queue"}
                    /\ \A i \in snapshot' : Written(PointIn(i))
                    /\ abandoned \subseteq abandoned'
            Noted == \A p \in rows : \/ row[p].write \in abandoned'
                                      \/ /\ enable' = "queue"
                                         /\ \E i \in snapshot' : i[1] = row[p].write
<1>2. ASSUME snapshot' = {<<row[p].write, "enable">> : p \in rows},
             enable' = "queue", abandoned' = abandoned
      PROVE  Kept /\ Noted
  <2>1. Kept
    <3>1. ASSUME NEW i \in snapshot' PROVE i \in Items /\ Written(PointIn(i))
      <4>1. PICK p \in rows : i = <<row[p].write, "enable">>
        BY <1>2, <3>1
      <4>2. PointIn(i) = p /\ i \in Items /\ Written(p)
        BY <1>1, <4>1
      <4>. QED
        BY <4>2
    <3>. QED
      BY <1>2, <3>1 DEF TypeOK
  <2>2. Noted
    <3>1. ASSUME NEW p \in rows PROVE \E i \in snapshot' : i[1] = row[p].write
      <4>1. <<row[p].write, "enable">> \in snapshot'
        BY <1>2, <3>1
      <4>. QED
        BY <4>1
    <3>. QED
      BY <1>2, <3>1
  <2>. QED
    BY <2>1, <2>2
<1>3. ASSUME abandoned' = abandoned \union {row[p].write : p \in rows},
             enable' = "idle", snapshot' = snapshot
      PROVE  Kept /\ Noted
  BY <1>1, <1>3 DEF TypeOK, OriginInv
<1>4. Kept /\ Noted
  BY <1>2, <1>3
<1>5. TypeOK'
  BY <1>4 DEF TypeOK
<1>6. RowInv'
  BY DEF RowInv, Written
<1>7. OriginInv'
  BY <1>4 DEF OriginInv, Written, PointIn
<1>8. AnswerInv'
  BY DEF AnswerInv, IsHead
<1>9. ManagerInv'
  BY DEF ManagerInv
<1>10. CoveredInv'
  BY <1>4 DEF Requeued, CoveredInv, Covered
<1>. QED
  BY <1>5, <1>6, <1>7, <1>8, <1>9, <1>10

LEMMA EnableQueuesStep ==
    ASSUME IInv, NEW i \in Items, EnableQueues(i)
    PROVE  IInv'
<1>. USE DEF EnableQueues, IInv, request, module
<1>. PICK m \in Managers : m = current
  BY BoundAssumption DEF TypeOK, ManagerInv, Managers
<1>1. queue' = [queue EXCEPT ![m] = Queued(@, i)]
  OBVIOUS
<1>2. /\ queue' \in [Managers -> Seq(Items)]
      /\ \A n \in Managers : \A k \in 1..Len(queue'[n]) :
            \/ queue'[n][k] = i
            \/ \E l \in 1..Len(queue[n]) : queue'[n][k] = queue[n][l]
      /\ \A n \in Managers, v \in Writes : Waits(n, v) => Waits(n, v)'
      /\ Waits(m, i[1])'
      /\ \A n \in Managers : queue[n] # <<>> =>
            queue'[n] # <<>> /\ Head(queue'[n]) = Head(queue[n])
  BY <1>1, QueueFacts
<1>3. TypeOK'
  BY <1>2 DEF TypeOK
<1>4. RowInv'
  BY DEF RowInv, Written
<1>5. OriginInv'
  BY <1>2 DEF OriginInv, Written, PointIn
<1>6. AnswerInv'
  BY <1>2 DEF TypeOK, AnswerInv, IsHead
<1>7. ManagerInv'
  BY DEF ManagerInv
<1>8. CoveredInv'
  <2>. SUFFICES ASSUME NEW p \in Points, row[p].state = "pending"
                PROVE  Covered(row[p].write)'
    BY DEF CoveredInv
  <2>1. Covered(row[p].write) /\ row[p].write \in Writes
    BY DEF CoveredInv, ManagerInv, RowInv, Written
  <2>. QED
    BY <1>2, <2>1 DEF Covered
<1>. QED
  BY <1>3, <1>4, <1>5, <1>6, <1>7, <1>8

LEMMA EnableReturnsStep ==
    ASSUME IInv, EnableReturns
    PROVE  IInv'
BY DEF EnableReturns, IInv, request, module, sched, TypeOK, RowInv, Written, OriginInv,
       PointIn, AnswerInv, IsHead, ManagerInv, CoveredInv, Covered, Waits

LEMMA DisableStep ==
    ASSUME IInv, Disable
    PROVE  IInv'
<1>. USE DEF Disable, Serving, IInv, request, sched, life
<1>1. TypeOK'
  BY DEF TypeOK
<1>. QED
  BY <1>1 DEF RowInv, Written, OriginInv, PointIn, AnswerInv, IsHead, ManagerInv,
              CoveredInv, Covered, Waits

LEMMA DiesStep ==
    ASSUME IInv, Dies
    PROVE  IInv'
<1>. USE DEF Dies, IInv
<1>1. TypeOK'
  BY BoundAssumption DEF TypeOK
<1>2. RowInv'
  BY DEF RowInv, Written
<1>3. OriginInv'
  BY DEF OriginInv, Written, PointIn
<1>4. AnswerInv' /\ ManagerInv' /\ CoveredInv'
  BY DEF AnswerInv, ManagerInv, CoveredInv
<1>. QED
  BY <1>1, <1>2, <1>3, <1>4

\* Whatever happens, IInv holds again.
LEMMA StepInv == IInv /\ [Next]_vars => IInv'
<1>. SUFFICES ASSUME IInv, [Next]_vars PROVE IInv'
  OBVIOUS
<1>1. ASSUME NEW w \in Writes, PointWrite(w) PROVE IInv'
  BY <1>1, StorePointStep, FindManagerStep, EnqueuePointStep DEF PointWrite
<1>2. ASSUME NEW w \in Writes, PointWritePanics(w) PROVE IInv'
  BY <1>2, DiesStep DEF PointWritePanics
<1>3. ASSUME NEW m \in Managers, Schedule(m) PROVE IInv'
  BY <1>3, SchedulerPicksStep, PrepareFailsStep, TransmitStep, AwaitEndsStep,
     GiveUpStep, OnWriteExhaustedStep DEF Schedule
<1>4. CASE DequeueAnswered
  BY <1>4, DequeueAnsweredStep
<1>5. CASE StoreAnswer
  BY <1>5, StoreAnswerStep
<1>6. CASE Enable
  BY <1>6, EnableSwitchesStep, EnableReadsStep, EnableQueuesStep, EnableReturnsStep
  DEF Enable
<1>7. CASE Disable
  BY <1>7, DisableStep
<1>8. CASE Crash
  BY <1>8, DiesStep DEF Crash
<1>9. CASE UNCHANGED vars
  BY <1>9 DEF vars, request, module, sched, life, IInv, TypeOK, RowInv, Written,
              OriginInv, PointIn, AnswerInv, IsHead, ManagerInv, CoveredInv, Covered,
              Waits
<1>. QED
  BY <1>1, <1>2, <1>3, <1>4, <1>5, <1>6, <1>7, <1>8, <1>9 DEF Next

LEMMA InvHolds == Spec => []IInv
BY InitInv, StepInv, PTL DEF Spec

-----------------------------------------------------------------------------
(* What the runs check, for every instance.                                 *)

\* Every variable keeps its type: what is queued is a write of a request, and
\* the request aims at a manager that was made.
THEOREM TypeCorrectness == Spec => []TypeOK
<1>1. IInv => TypeOK
  BY DEF IInv
<1>. QED
  BY <1>1, InvHolds, PTL

\* No crash, no failing call to the database and no manager that Enable replaces
\* under a request loses a pending value: as long as the module is enabled, a
\* request, a queue entry or a verdict under way still has it, or it was given
\* up with a log line.
THEOREM NoWriteForgottenHolds == Spec => []NoWriteForgotten
<1>1. IInv => NoWriteForgotten
  BY DEF IInv, CoveredInv, Covered, Waits, NoWriteForgotten, UnderWay, Serving
<1>. QED
  BY <1>1, InvHolds, PTL

=============================================================================
