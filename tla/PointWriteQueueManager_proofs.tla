-------------------- MODULE PointWriteQueueManager_proofs --------------------
(***************************************************************************)
(* Theorems about PointWriteQueueManager, for every set of devices, writes *)
(* and message ids, every MaxRetry and every set of leftover RESPONSEs.    *)
(*                                                                         *)
(* None of the safety properties is inductive.  The invariant IInv below   *)
(* adds what each of them depends on: a queue holds exactly open writes of *)
(* its own device, each once; the item in the scheduler's hands is still   *)
(* the head of its queue or was acked by the receiver; and the retry count *)
(* trails the number of attempts by the attempt under way.                 *)
(***************************************************************************)
EXTENDS PointWriteQueueManager, SequenceTheorems, TLAPS

USE DEF Enqueued, TokenKept, NextStart, ScanDone, StopWhileIdle, StopSeen,
        RetriesLeft, Reports, Matches

Working == {"check", "prepare", "write", "await", "expire", "remove"}

\* The types of TypeOK, without the bounds that hold only together with IInv.
Types ==
    /\ queues \in [Devices -> Seq(Items)]
    /\ order \in Seq(Devices)
    /\ rrIndex \in 0..Len(order)
    /\ messageId \in [Items -> MsgIds \union {NoMsg}]
    /\ retryCount \in [Items -> Nat]
    /\ done \in [Items -> {"open", "acked", "closed"}]
    /\ notify \in BOOLEAN /\ stop \in BOOLEAN
    /\ pc \in SchedulerStates
    /\ scan \in 0..Len(order)
    /\ cur \in Items \union {NoItem}
    /\ call \in [Items -> {"idle", "append", "wake", "returned"}]
    /\ rx \in {"listen", "lookup", "dequeue"}
    /\ rxFrame \in Frames \union {NoFrame}
    /\ rx # "listen" => rxFrame \in Frames
    /\ air \in [Frames -> Nat]
    /\ attempts \in [Items -> Nat]
    /\ heard \subseteq Items
    /\ verdicts \in [Items -> Seq({"answered", "exhausted"})]
    /\ passed \in [Devices -> SUBSET Devices]

\* A queue holds accepted, open writes of its own device, each of them once.
QueuesInv ==
    \A d \in Devices : \A k \in 1..Len(queues[d]) :
        /\ DeviceOf[queues[d][k]] = d
        /\ call[queues[d][k]] \in {"wake", "returned"}
        /\ done[queues[d][k]] = "open"
        /\ \A l \in 1..Len(queues[d]) : queues[d][k] = queues[d][l] => k = l

\* A write is open until it was accepted.
NewInv == \A i \in Items : call[i] \in {"idle", "append"} => done[i] = "open"

\* Where the scheduler works on an item, that item is the head of its queue, or
\* the receiver has acked it; while it is being prepared no RESPONSE fits it.
CurInv ==
    /\ pc \in Working => /\ cur \in Items
                         /\ IsHead(cur) \/ done[cur] = "acked"
    /\ pc = "report" => /\ cur \in Items
                        /\ done[cur] = "closed"
                        /\ verdicts[cur] = <<>>
    /\ pc = "prepare" => IsHead(cur) /\ messageId[cur] = NoMsg
    /\ pc \in {"write", "await", "expire", "remove"} => messageId[cur] # NoMsg

\* Only the head is encoded, only an encoded write is acked or transmitted.
EncodedInv ==
    \A i \in Items :
        /\ messageId[i] # NoMsg /\ done[i] = "open" => IsHead(i)
        /\ done[i] = "acked" => messageId[i] # NoMsg
        /\ messageId[i] = NoMsg => attempts[i] = 0

\* Verdicts follow the way a write has left its queue.
VerdictInv ==
    \A i \in Items :
        /\ done[i] = "open" => verdicts[i] = <<>>
        /\ done[i] = "acked" => verdicts[i] = <<"answered">>
        /\ done[i] = "closed" =>
              \/ verdicts[i] = <<"exhausted">> /\ attempts[i] = MaxRetry
              \/ verdicts[i] = <<>> /\ pc = "report" /\ cur = i
              \/ verdicts[i] = <<>> /\ attempts[i] = 0

\* The retry count trails the attempts by the attempt under way, except for the
\* attempt a stop has interrupted, which no further attempt follows.
AttemptsInv ==
    /\ \A i \in Items : attempts[i] <= MaxRetry /\ retryCount[i] <= MaxRetry
    /\ pc \in {"prepare", "write"} \/ (pc = "check" /\ ~stop) =>
          attempts[cur] = retryCount[cur] /\ retryCount[cur] < MaxRetry
    /\ pc \in {"await", "expire"} => attempts[cur] = retryCount[cur] + 1
    /\ pc \in {"remove", "report"} =>
          attempts[cur] = MaxRetry /\ retryCount[cur] = MaxRetry
    /\ \A i \in Items :
          done[i] = "open" =>
              \/ cur = i /\ pc \in {"await", "expire", "remove"}
              \/ stop /\ pc \in {"next", "idle", "check", "stopped"}
              \/ attempts[i] = retryCount[i] /\ retryCount[i] < MaxRetry

IInv == /\ Types
        /\ QueuesInv
        /\ NewInv
        /\ CurInv
        /\ EncodedInv
        /\ VerdictInv
        /\ AttemptsInv

-----------------------------------------------------------------------------
(* Facts about sequences, stated once in the form the steps need.           *)

\* Popping the head: what is left is the old queue shifted by one.
LEMMA PopFacts ==
    ASSUME NEW S, NEW q \in Seq(S), q # <<>>
    PROVE  /\ Len(q) \in Nat \ {0}
           /\ Head(q) = q[1] /\ Head(q) \in S
           /\ Tail(q) \in Seq(S)
           /\ Len(Tail(q)) = Len(q) - 1
           /\ \A k \in 1..Len(Tail(q)) : Tail(q)[k] = q[k + 1]
BY HeadTailProperties, EmptySeq, LenProperties, ElementOfSeq

\* Appending: the old elements stay where they are, the new one is last.
LEMMA PushFacts ==
    ASSUME NEW S, NEW q \in Seq(S), NEW e \in S
    PROVE  /\ Len(q) \in Nat
           /\ Append(q, e) \in Seq(S)
           /\ Len(Append(q, e)) = Len(q) + 1
           /\ \A k \in 1..Len(q) : Append(q, e)[k] = q[k]
           /\ Append(q, e)[Len(q) + 1] = e
           /\ Append(q, e) # <<>>
BY AppendProperties, LenProperties

\* The position a scan looks at is a position of order.
LEMMA ScanPosition ==
    ASSUME Types, scan < Len(order)
    PROVE  /\ (rrIndex + scan) % Len(order) \in 0..(Len(order) - 1)
           /\ order[((rrIndex + scan) % Len(order)) + 1] \in Devices
<1>1. /\ rrIndex \in Nat /\ scan \in Nat /\ Len(order) \in Nat
      /\ order \in Seq(Devices)
  BY LenProperties DEF Types
<1>2. (rrIndex + scan) % Len(order) \in 0..(Len(order) - 1)
  BY <1>1
<1>. QED
  BY <1>1, <1>2, ElementOfSeq

\* When the head of a queue leaves, the other queues and writes are untouched.
LEMMA LeaveFacts ==
    ASSUME Types, NEW d \in Devices, queues[d] # <<>>,
           NEW how \in {"acked", "closed"}, Leave(d, how)
    PROVE  /\ queues' \in [Devices -> Seq(Items)]
           /\ done' \in [Items -> {"open", "acked", "closed"}]
           /\ passed' \in [Devices -> SUBSET Devices]
           /\ queues'[d] = Tail(queues[d])
           /\ \A e \in Devices \ {d} : queues'[e] = queues[e]
           /\ Head(queues[d]) \in Items
           /\ done'[Head(queues[d])] = how
           /\ \A i \in Items \ {Head(queues[d])} : done'[i] = done[i]
<1>1. queues[d] \in Seq(Items)
  BY DEF Types
<1>2. Head(queues[d]) \in Items /\ Tail(queues[d]) \in Seq(Items)
  BY <1>1, PopFacts
<1>3. /\ queues' \in [Devices -> Seq(Items)]
      /\ queues'[d] = Tail(queues[d])
      /\ \A e \in Devices \ {d} : queues'[e] = queues[e]
  BY <1>2 DEF Leave, Types
<1>4. /\ done' \in [Items -> {"open", "acked", "closed"}]
      /\ done'[Head(queues[d])] = how
      /\ \A i \in Items \ {Head(queues[d])} : done'[i] = done[i]
  BY <1>2 DEF Leave, Types
<1>5. passed' \in [Devices -> SUBSET Devices]
  BY DEF Leave, Types
<1>. QED
  BY <1>2, <1>3, <1>4, <1>5

\* The two outcomes of RemoveItem.
LEMMA RemoveItemFacts ==
    ASSUME Types, NEW i \in Items, RemoveItem(i)
    PROVE  /\ queues' \in [Devices -> Seq(Items)]
           /\ done' \in [Items -> {"open", "acked", "closed"}]
           /\ passed' \in [Devices -> SUBSET Devices]
BY LeaveFacts, DeviceOfAssumption DEF RemoveItem, IsHead, Types

LEMMA TypesInit == Init => Types
<1>. SUFFICES ASSUME Init PROVE Types
  OBVIOUS
<1>1. <<>> \in Seq(Items) /\ <<>> \in Seq(Devices) /\ Len(<<>>) = 0
      /\ <<>> \in Seq({"answered", "exhausted"})
  BY EmptySeq
<1>2. /\ queues \in [Devices -> Seq(Items)]
      /\ order \in Seq(Devices)
      /\ verdicts \in [Items -> Seq({"answered", "exhausted"})]
  BY <1>1 DEF Init
<1>3. rrIndex \in 0..Len(order) /\ scan \in 0..Len(order)
  BY <1>1 DEF Init
<1>4. air \in [Frames -> Nat]
  BY DEF Init
<1>5. /\ messageId \in [Items -> MsgIds \union {NoMsg}]
      /\ retryCount \in [Items -> Nat]
      /\ done \in [Items -> {"open", "acked", "closed"}]
      /\ call \in [Items -> {"idle", "append", "wake", "returned"}]
      /\ attempts \in [Items -> Nat]
      /\ passed \in [Devices -> SUBSET Devices]
  BY DEF Init
<1>. QED
  BY <1>2, <1>3, <1>4, <1>5 DEF Init, Types, SchedulerStates

LEMMA TypesStep == ASSUME IInv, [Next]_vars PROVE Types'
<1>. USE DEF SchedulerStates, shared, signals, scheduler, receiver, history
<1>. Types /\ CurInv
  BY DEF IInv
<1>1. ASSUME NEW i \in Items, GetOrCreateQueue(i) PROVE Types'
  <2>1. DeviceOf[i] \in Devices
    BY DeviceOfAssumption
  <2>2. order' \in Seq(Devices) /\ Len(order') \in Nat /\ Len(order) <= Len(order')
    BY <1>1, <2>1, PushFacts, LenProperties DEF GetOrCreateQueue, Types
  <2>3. rrIndex' \in 0..Len(order') /\ scan' \in 0..Len(order')
    BY <1>1, <2>2, LenProperties DEF GetOrCreateQueue, Types
  <2>. QED
    BY <1>1, <2>2, <2>3 DEF GetOrCreateQueue, Types
<1>2. ASSUME NEW i \in Items, EnqueueWriteQueue(i) PROVE Types'
  <2>1. DeviceOf[i] \in Devices
    BY DeviceOfAssumption
  <2>2. queues' \in [Devices -> Seq(Items)]
    BY <1>2, <2>1, PushFacts DEF EnqueueWriteQueue, Types
  <2>. QED
    BY <1>2, <2>2 DEF EnqueueWriteQueue, Types
<1>3. ASSUME NEW i \in Items, Wake(i) PROVE Types'
  BY <1>3 DEF Wake, Types
<1>4. CASE Stop
  BY <1>4 DEF Stop, Types
<1>5. CASE Scan
  <2>1. CASE ScanHit
    <3>. DEFINE idx == (rrIndex + scan) % Len(order)
    <3>1. idx \in 0..(Len(order) - 1) /\ order[idx + 1] \in Devices
      BY <2>1, ScanPosition DEF ScanHit
    <3>2. cur' \in Items
      BY <2>1, <3>1, PopFacts DEF ScanHit, Types
    <3>3. rrIndex' \in 0..Len(order') /\ scan' \in 0..Len(order')
      <4>1. Len(order) \in Nat
        BY LenProperties DEF Types
      <4>2. rrIndex' = idx + 1 /\ scan' = 0 /\ order' = order
        BY <2>1 DEF ScanHit, NextStart
      <4>. HIDE DEF idx
      <4>. QED
        BY <3>1, <4>1, <4>2
    <3>4. passed' \in [Devices -> SUBSET Devices]
      <4>1. passed \in [Devices -> SUBSET Devices]
        BY DEF Types
      <4>2. \E d \in Devices :
               passed' = [e \in Devices |->
                             IF e = d \/ queues[e] = <<>> THEN {} ELSE passed[e] \union {d}]
        BY <2>1, <3>1 DEF ScanHit
      <4>. QED
        BY <4>1, <4>2
    <3>. QED
      BY <2>1, <3>2, <3>3, <3>4 DEF ScanHit, Types
  <2>2. CASE ScanMiss
    <3>1. scan' \in 0..Len(order')
      BY <2>2, LenProperties DEF ScanMiss, Types
    <3>. QED
      BY <2>2, <3>1 DEF ScanMiss, Types
  <2>3. CASE ScanEmpty
    <3>1. scan' \in 0..Len(order')
      BY <2>3, LenProperties DEF ScanEmpty, Types
    <3>. QED
      BY <2>3, <3>1 DEF ScanEmpty, Types
  <2>. QED
    BY <1>5, <2>1, <2>2, <2>3 DEF Scan
<1>6. CASE WakeUp \/ StopIdle \/ CheckStop
  BY <1>6 DEF WakeUp, StopIdle, CheckStop, Types
<1>7. CASE Prepare
  <2>1. ASSUME NEW id \in MsgIds, PrepareMessage(id) PROVE Types'
    BY <2>1 DEF PrepareMessage, Types
  <2>2. CASE PrepareFails
    <3>1. cur \in Items
      BY <2>2 DEF PrepareFails, CurInv, Working
    <3>2. /\ queues' \in [Devices -> Seq(Items)]
          /\ done' \in [Items -> {"open", "acked", "closed"}]
          /\ passed' \in [Devices -> SUBSET Devices]
      BY <2>2, <3>1, RemoveItemFacts DEF PrepareFails
    <3>. QED
      BY <2>2, <3>2 DEF PrepareFails, BackToLoop, Types
  <2>3. CASE PreparePanics
    BY <2>3 DEF PreparePanics, Types
  <2>. QED
    BY <1>7, <2>1, <2>2, <2>3 DEF Prepare
<1>8. CASE Transmit \/ TransmitRefused
  <2>1. /\ cur \in Items
        /\ <<DeviceOf[cur], messageId[cur]>> \in Frames
    BY <1>8, DeviceOfAssumption
       DEF Transmit, TransmitRefused, CurInv, Working, Types, Frames
  <2>2. attempts' = [attempts EXCEPT ![cur] = @ + 1]
    BY <1>8 DEF Transmit, TransmitRefused
  <2>3. attempts' \in [Items -> Nat]
    BY <2>1, <2>2 DEF Types
  <2>4. air' \in [Frames -> Nat] /\ heard' \subseteq Items
    <3>. DEFINE f == <<DeviceOf[cur], messageId[cur]>>
    <3>1. [air EXCEPT ![f] = @ + 1] \in [Frames -> Nat]
      BY <2>1 DEF Types
    <3>2. /\ air' = air \/ air' = [air EXCEPT ![f] = @ + 1]
          /\ heard' = heard \/ heard' = heard \union {cur}
      BY <1>8 DEF Transmit, TransmitRefused
    <3>. QED
      BY <2>1, <3>1, <3>2 DEF Types
  <2>. QED
    BY <1>8, <2>3, <2>4 DEF Transmit, TransmitRefused, Types
<1>9. CASE Await
  BY <1>9 DEF Await, AwaitDone, AwaitTimeout, AwaitStop, BackToLoop, Types
<1>10. CASE FinishAttempt
  <2>1. CASE IncRetry
    <3>1. cur \in Items
      BY <2>1 DEF IncRetry, CurInv, Working
    <3>2. retryCount' \in [Items -> Nat]
      BY <2>1, <3>1 DEF IncRetry, Types
    <3>. QED
      BY <2>1, <3>2 DEF IncRetry, BackToLoop, Types
  <2>2. CASE GiveUp
    <3>1. cur \in Items
      BY <2>2 DEF GiveUp, CurInv, Working
    <3>2. /\ queues' \in [Devices -> Seq(Items)]
          /\ done' \in [Items -> {"open", "acked", "closed"}]
          /\ passed' \in [Devices -> SUBSET Devices]
      BY <2>2, <3>1, RemoveItemFacts DEF GiveUp
    <3>. QED
      BY <2>2, <3>2 DEF GiveUp, BackToLoop, Types
  <2>3. CASE OnWriteExhausted
    <3>1. verdicts' \in [Items -> Seq({"answered", "exhausted"})]
      BY <2>3, PushFacts DEF OnWriteExhausted, Tell, Types
    <3>. QED
      BY <2>3, <3>1 DEF OnWriteExhausted, BackToLoop, Types
  <2>. QED
    BY <1>10, <2>1, <2>2, <2>3 DEF FinishAttempt
<1>11. CASE Receive
  <2>1. ASSUME NEW f \in Frames, RxReceive(f) PROVE Types'
    <3>1. air' \in [Frames -> Nat]
      BY <2>1 DEF RxReceive, Types
    <3>. QED
      BY <2>1, <3>1 DEF RxReceive, Types
  <2>2. CASE RxLookup
    BY <2>2 DEF RxLookup, NextValue, NextFrame, Types
  <2>3. CASE RxDequeue
    <3>1. rxFrame \in Frames /\ rxFrame[1] \in Devices
      BY <2>3 DEF RxDequeue, Types, Frames
    <3>2. /\ queues' \in [Devices -> Seq(Items)]
          /\ done' \in [Items -> {"open", "acked", "closed"}]
          /\ passed' \in [Devices -> SUBSET Devices]
      BY <2>3, <3>1, LeaveFacts DEF RxDequeue, Types
    <3>3. verdicts' \in [Items -> Seq({"answered", "exhausted"})]
      <4>. DEFINE i == Head(queues[rxFrame[1]])
      <4>1. \A j \in Items : Append(verdicts[j], "answered")
                                \in Seq({"answered", "exhausted"})
        BY PushFacts DEF Types
      <4>2. CASE verdicts' = verdicts
        BY <4>2 DEF Types
      <4>3. CASE verdicts' = [verdicts EXCEPT ![i] = Append(@, "answered")]
        BY <4>1, <4>3 DEF Types
      <4>. QED
        BY <2>3, <4>2, <4>3 DEF RxDequeue, Tell
    <3>4. /\ rx' \in {"listen", "lookup", "dequeue"}
          /\ rxFrame' \in Frames \union {NoFrame}
          /\ rx' # "listen" => rxFrame' \in Frames
      BY <2>3, <3>1 DEF RxDequeue, NextValue, NextFrame
    <3>. QED
      BY <2>3, <3>2, <3>3, <3>4 DEF RxDequeue, Types
  <2>. QED
    BY <1>11, <2>1, <2>2, <2>3 DEF Receive
<1>12. CASE UNCHANGED vars
  BY <1>12 DEF vars, Types
<1>. QED
  BY <1>1, <1>2, <1>3, <1>4, <1>5, <1>6, <1>7, <1>8, <1>9, <1>10, <1>11, <1>12
     DEF Next, Schedule, EnqueuePoint

-----------------------------------------------------------------------------
(* The queues.                                                              *)

\* The head of a queue is an accepted, open write of that queue's device.
LEMMA HeadFacts ==
    ASSUME Types, QueuesInv, NEW d \in Devices, queues[d] # <<>>
    PROVE  /\ Head(queues[d]) \in Items
           /\ DeviceOf[Head(queues[d])] = d
           /\ IsHead(Head(queues[d]))
           /\ done[Head(queues[d])] = "open"
           /\ call[Head(queues[d])] \in {"wake", "returned"}
<1>1. queues[d] \in Seq(Items)
  BY DEF Types
<1>2. Head(queues[d]) = queues[d][1] /\ 1 \in 1..Len(queues[d])
  BY <1>1, PopFacts
<1>3. Head(queues[d]) \in Items
  BY <1>1, PopFacts
<1>. QED
  BY <1>2, <1>3 DEF QueuesInv, IsHead

\* When the head of one queue leaves, every other head stays a head.
LEMMA OtherHeads ==
    ASSUME Types, NEW d \in Devices, queues[d] # <<>>,
           NEW how \in {"acked", "closed"}, Leave(d, how),
           NEW i \in Items, IsHead(i), i # Head(queues[d])
    PROVE  IsHead(i)'
<1>1. DeviceOf[i] \in Devices \ {d}
  BY DeviceOfAssumption DEF IsHead
<1>2. queues'[DeviceOf[i]] = queues[DeviceOf[i]]
  BY <1>1, LeaveFacts
<1>. QED
  BY <1>2 DEF IsHead

LEMMA LeaveKeepsQueues ==
    ASSUME Types, QueuesInv, NEW d \in Devices, queues[d] # <<>>,
           NEW how \in {"acked", "closed"}, Leave(d, how), UNCHANGED call
    PROVE  QueuesInv'
<1>. DEFINE h == Head(queues[d])
<1>1. /\ queues'[d] = Tail(queues[d])
      /\ \A e \in Devices \ {d} : queues'[e] = queues[e]
      /\ \A i \in Items \ {h} : done'[i] = done[i]
  BY LeaveFacts
<1>2. \A e \in Devices : queues[e] \in Seq(Items)
  BY DEF Types
<1>3. SUFFICES ASSUME NEW e \in Devices, NEW k \in 1..Len(queues'[e])
               PROVE  /\ DeviceOf[queues'[e][k]] = e
                      /\ call[queues'[e][k]] \in {"wake", "returned"}
                      /\ done'[queues'[e][k]] = "open"
                      /\ \A l \in 1..Len(queues'[e]) :
                            queues'[e][k] = queues'[e][l] => k = l
  BY DEF QueuesInv
<1>4. CASE e = d
  <2>1. /\ h = queues[d][1]
        /\ Len(queues'[d]) = Len(queues[d]) - 1
        /\ Len(queues[d]) \in Nat \ {0}
        /\ \A l \in 1..Len(queues'[d]) : queues'[d][l] = queues[d][l + 1]
    BY <1>1, <1>2, PopFacts
  <2>2. \A l \in 1..Len(queues'[d]) :
           l + 1 \in 1..Len(queues[d]) /\ 1 \in 1..Len(queues[d]) /\ l + 1 # 1
    BY <2>1
  <2>3. queues[d][k + 1] # h /\ queues[d][k + 1] \in Items
    BY <1>2, <1>4, <2>1, <2>2, ElementOfSeq DEF QueuesInv
  <2>4. /\ DeviceOf[queues'[d][k]] = d
        /\ call[queues'[d][k]] \in {"wake", "returned"}
        /\ done'[queues'[d][k]] = "open"
    <3>1. queues'[d][k] = queues[d][k + 1] /\ k + 1 \in 1..Len(queues[d])
      BY <1>4, <2>1, <2>2
    <3>2. /\ DeviceOf[queues[d][k + 1]] = d
          /\ call[queues[d][k + 1]] \in {"wake", "returned"}
          /\ done[queues[d][k + 1]] = "open"
      BY <3>1 DEF QueuesInv
    <3>3. done'[queues[d][k + 1]] = done[queues[d][k + 1]]
      BY <1>1, <2>3
    <3>. QED
      BY <3>1, <3>2, <3>3
  <2>5. \A l \in 1..Len(queues'[d]) : queues'[d][k] = queues'[d][l] => k = l
    <3>. TAKE l \in 1..Len(queues'[d])
    <3>1. queues[d][k + 1] = queues[d][l + 1] => k + 1 = l + 1
      BY <1>4, <2>2 DEF QueuesInv
    <3>2. queues'[d][k] = queues[d][k + 1] /\ queues'[d][l] = queues[d][l + 1]
      BY <1>4, <2>1, <2>2
    <3>. QED
      BY <3>1, <3>2
  <2>. QED
    BY <1>4, <2>4, <2>5
<1>5. CASE e # d
  <2>1. queues'[e] = queues[e] /\ k \in 1..Len(queues[e])
    BY <1>1, <1>5
  <2>2. queues[e][k] \in Items /\ DeviceOf[queues[e][k]] = e
    BY <1>2, <2>1, ElementOfSeq DEF QueuesInv
  <2>3. queues[e][k] # h
    BY <1>5, <2>2, HeadFacts
  <2>. QED
    BY <1>1, <2>1, <2>2, <2>3 DEF QueuesInv
<1>. QED
  BY <1>4, <1>5

LEMMA RemoveItemKeepsQueues ==
    ASSUME Types, QueuesInv, NEW i \in Items, RemoveItem(i), UNCHANGED call
    PROVE  QueuesInv'
<1>1. DeviceOf[i] \in Devices
  BY DeviceOfAssumption
<1>2. CASE IsHead(i)
  BY <1>1, <1>2, LeaveKeepsQueues DEF RemoveItem, IsHead
<1>3. CASE ~IsHead(i)
  BY <1>3 DEF RemoveItem, QueuesInv
<1>. QED
  BY <1>2, <1>3

LEMMA EnqueueKeepsQueues ==
    ASSUME Types, QueuesInv, NewInv, NEW i \in Items, EnqueueWriteQueue(i)
    PROVE  QueuesInv'
<1>. DEFINE d == DeviceOf[i]
<1>1. /\ d \in Devices
      /\ queues'[d] = Append(queues[d], i)
      /\ \A e \in Devices \ {d} : queues'[e] = queues[e]
      /\ \A e \in Devices : queues[e] \in Seq(Items)
  BY DeviceOfAssumption DEF EnqueueWriteQueue, Types
<1>2. /\ call[i] = "append" /\ done[i] = "open" /\ call'[i] = "wake"
      /\ \A j \in Items \ {i} : call'[j] = call[j]
      /\ done' = done
  BY DEF EnqueueWriteQueue, NewInv, Types
<1>3. \A e \in Devices : \A k \in 1..Len(queues[e]) :
         queues[e][k] \in Items \ {i}
  BY <1>1, <1>2, ElementOfSeq DEF QueuesInv
<1>4. /\ Len(queues[d]) \in Nat
      /\ Len(queues'[d]) = Len(queues[d]) + 1
      /\ \A k \in 1..Len(queues[d]) : queues'[d][k] = queues[d][k]
      /\ queues'[d][Len(queues[d]) + 1] = i
  BY <1>1, PushFacts
<1>5. ASSUME NEW e \in Devices \ {d}, NEW k \in 1..Len(queues'[e])
      PROVE  /\ DeviceOf[queues'[e][k]] = e
             /\ call'[queues'[e][k]] \in {"wake", "returned"}
             /\ done'[queues'[e][k]] = "open"
             /\ \A l \in 1..Len(queues'[e]) :
                   queues'[e][k] = queues'[e][l] => k = l
  BY <1>1, <1>2, <1>3 DEF QueuesInv
<1>6. ASSUME NEW k \in 1..Len(queues'[d])
      PROVE  /\ DeviceOf[queues'[d][k]] = d
             /\ call'[queues'[d][k]] \in {"wake", "returned"}
             /\ done'[queues'[d][k]] = "open"
             /\ \A l \in 1..Len(queues'[d]) :
                   queues'[d][k] = queues'[d][l] => k = l
  <2>1. CASE k = Len(queues[d]) + 1
    <3>1. queues'[d][k] = i
      BY <1>4, <2>1
    <3>2. \A l \in 1..Len(queues'[d]) :
             l # k => l \in 1..Len(queues[d]) /\ queues'[d][l] # i
      BY <1>1, <1>3, <1>4, <2>1
    <3>. QED
      BY <1>2, <3>1, <3>2
  <2>2. CASE k \in 1..Len(queues[d])
    <3>1. queues'[d][k] = queues[d][k] /\ queues[d][k] \in Items \ {i}
      BY <1>1, <1>3, <1>4, <2>2
    <3>2. \A l \in 1..Len(queues'[d]) :
             \/ l = Len(queues[d]) + 1 /\ queues'[d][l] = i
             \/ l \in 1..Len(queues[d]) /\ queues'[d][l] = queues[d][l]
      BY <1>4
    <3>. QED
      BY <1>1, <1>2, <2>2, <3>1, <3>2 DEF QueuesInv
  <2>. QED
    BY <1>4, <2>1, <2>2
<1>. QED
  BY <1>5, <1>6 DEF QueuesInv

LEMMA QueuesStep == ASSUME IInv, [Next]_vars PROVE QueuesInv' /\ NewInv'
<1>. USE DEF shared, signals, scheduler, receiver, history
<1>. Types /\ QueuesInv /\ NewInv /\ CurInv
  BY DEF IInv
<1>1. ASSUME NEW i \in Items, EnqueuePoint(i) PROVE QueuesInv' /\ NewInv'
  <2>1. CASE GetOrCreateQueue(i)
    <3>1. /\ call'[i] = "append"
          /\ \A j \in Items \ {i} : call'[j] = call[j]
          /\ call[i] = "idle"
          /\ queues' = queues /\ done' = done
      BY <2>1 DEF GetOrCreateQueue, Types
    <3>2. \A d \in Devices : \A k \in 1..Len(queues[d]) :
             queues[d][k] \in Items \ {i}
      BY <3>1, ElementOfSeq DEF QueuesInv, Types
    <3>3. QueuesInv'
      BY <3>1, <3>2 DEF QueuesInv
    <3>. QED
      BY <3>1, <3>3 DEF NewInv
  <2>2. CASE EnqueueWriteQueue(i)
    BY <2>2, EnqueueKeepsQueues DEF EnqueueWriteQueue, NewInv, Types
  <2>3. CASE Wake(i)
    <3>1. /\ call'[i] = "returned"
          /\ \A j \in Items \ {i} : call'[j] = call[j]
          /\ queues' = queues /\ done' = done
      BY <2>3 DEF Wake, Types
    <3>2. \A d \in Devices : \A k \in 1..Len(queues[d]) :
             queues[d][k] \in Items
      BY ElementOfSeq DEF Types
    <3>3. QueuesInv'
      BY <3>1, <3>2 DEF QueuesInv
    <3>. QED
      BY <3>1, <3>3 DEF NewInv
  <2>. QED
    BY <1>1, <2>1, <2>2, <2>3 DEF EnqueuePoint
<1>2. ASSUME NEW i \in Items, RemoveItem(i), UNCHANGED call
      PROVE QueuesInv' /\ NewInv'
  <2>1. QueuesInv'
    BY <1>2, RemoveItemKeepsQueues
  <2>2. CASE IsHead(i)
    <3>1. /\ DeviceOf[i] \in Devices /\ queues[DeviceOf[i]] # <<>>
          /\ Head(queues[DeviceOf[i]]) = i
          /\ Leave(DeviceOf[i], "closed")
      BY <1>2, <2>2, DeviceOfAssumption DEF RemoveItem, IsHead
    <3>2. call[i] \in {"wake", "returned"}
      BY <3>1, HeadFacts
    <3>3. \A j \in Items \ {i} : done'[j] = done[j]
      BY <3>1, LeaveFacts
    <3>. QED
      BY <1>2, <2>1, <3>2, <3>3 DEF NewInv
  <2>3. CASE ~IsHead(i)
    BY <1>2, <2>1, <2>3 DEF RemoveItem, NewInv
  <2>. QED
    BY <2>2, <2>3
<1>3. CASE PrepareFails \/ GiveUp
  BY <1>2, <1>3 DEF PrepareFails, GiveUp, CurInv, Working
<1>4. CASE RxDequeue
  <2>1. rxFrame[1] \in Devices
    BY <1>4 DEF RxDequeue, Types, Frames
  <2>2. CASE queues' = queues /\ done' = done
    BY <1>4, <2>2 DEF RxDequeue, QueuesInv, NewInv
  <2>3. CASE queues[rxFrame[1]] # <<>> /\ Leave(rxFrame[1], "acked")
    <3>1. QueuesInv'
      BY <1>4, <2>1, <2>3, LeaveKeepsQueues DEF RxDequeue
    <3>2. call[Head(queues[rxFrame[1]])] \in {"wake", "returned"}
      BY <2>1, <2>3, HeadFacts
    <3>3. \A j \in Items \ {Head(queues[rxFrame[1]])} : done'[j] = done[j]
      BY <2>1, <2>3, LeaveFacts
    <3>. QED
      BY <1>4, <3>1, <3>2, <3>3 DEF RxDequeue, NewInv
  <2>. QED
    BY <1>4, <2>2, <2>3 DEF RxDequeue
<1>5. CASE UNCHANGED <<queues, done, call>>
  BY <1>5 DEF QueuesInv, NewInv
<1>6. ASSUME Next, ~(\E i \in Items : EnqueuePoint(i)),
             ~(PrepareFails \/ GiveUp), ~RxDequeue
      PROVE  UNCHANGED <<queues, done, call>>
  BY <1>6 DEF Next, Schedule, Scan, ScanHit, ScanMiss, ScanEmpty, WakeUp,
     StopIdle, CheckStop, Prepare, PrepareMessage, PreparePanics, Transmit,
     TransmitRefused, Await, AwaitDone, AwaitTimeout, AwaitStop, FinishAttempt,
     IncRetry, OnWriteExhausted, Receive, RxReceive, RxLookup, Stop
<1>. QED
  BY <1>1, <1>3, <1>4, <1>5, <1>6 DEF vars

-----------------------------------------------------------------------------
(* What each step that moves an item does to one write at a time.           *)

\* Appending a write keeps every head.
LEMMA EnqueueKeepsHeads ==
    ASSUME Types, NEW i \in Items, EnqueueWriteQueue(i),
           NEW j \in Items, IsHead(j)
    PROVE  IsHead(j)'
<1>. DEFINE d == DeviceOf[j]
<1>1. d \in Devices /\ DeviceOf[i] \in Devices /\ queues[d] \in Seq(Items)
  BY DeviceOfAssumption DEF Types
<1>2. CASE DeviceOf[i] = d
  <2>1. queues'[d] = Append(queues[d], i)
    BY <1>1, <1>2 DEF EnqueueWriteQueue, Types
  <2>2. /\ Head(queues[d]) = queues[d][1] /\ 1 \in 1..Len(queues[d])
        /\ queues[d] # <<>>
    BY <1>1, PopFacts DEF IsHead
  <2>3. /\ queues'[d] \in Seq(Items) /\ queues'[d] # <<>>
        /\ queues'[d][1] = queues[d][1]
    BY <1>1, <2>1, <2>2, PushFacts
  <2>4. Head(queues'[d]) = queues'[d][1]
    BY <2>3, PopFacts
  <2>. QED
    BY <2>2, <2>3, <2>4 DEF IsHead
<1>3. CASE DeviceOf[i] # d
  BY <1>1, <1>3 DEF EnqueueWriteQueue, Types, IsHead
<1>. QED
  BY <1>2, <1>3

\* RemoveItem closes the item if it is the head, and changes no other write.
LEMMA RemoveItemEffect ==
    ASSUME Types, QueuesInv, NEW i \in Items, RemoveItem(i)
    PROVE  /\ IsHead(i) => done[i] = "open" /\ done'[i] = "closed"
           /\ ~IsHead(i) => UNCHANGED <<queues, done>>
           /\ \A j \in Items \ {i} :
                 done'[j] = done[j] /\ (IsHead(j) => IsHead(j)')
<1>1. CASE IsHead(i)
  <2>1. /\ DeviceOf[i] \in Devices /\ queues[DeviceOf[i]] # <<>>
        /\ Head(queues[DeviceOf[i]]) = i
        /\ Leave(DeviceOf[i], "closed")
    BY <1>1, DeviceOfAssumption DEF RemoveItem, IsHead
  <2>. QED
    BY <1>1, <2>1, HeadFacts, LeaveFacts, OtherHeads
<1>2. CASE ~IsHead(i)
  BY <1>2 DEF RemoveItem, IsHead
<1>. QED
  BY <1>1, <1>2

\* The write that RxDequeue takes, if any, was open, encoded and a head.
LEMMA RxDequeueEffect ==
    ASSUME Types, QueuesInv, RxDequeue
    PROVE  \/ UNCHANGED <<queues, done, verdicts>>
           \/ \E h \in Items :
                 /\ IsHead(h) /\ done[h] = "open" /\ messageId[h] # NoMsg
                 /\ done'[h] = "acked"
                 /\ verdicts'[h] = Append(verdicts[h], "answered")
                 /\ \A j \in Items \ {h} :
                       /\ done'[j] = done[j] /\ verdicts'[j] = verdicts[j]
                       /\ IsHead(j) => IsHead(j)'
<1>. DEFINE d == rxFrame[1]
            h == Head(queues[d])
<1>1. d \in Devices /\ rxFrame[2] \in MsgIds
  BY DEF RxDequeue, Types, Frames
<1>2. CASE queues[d] # <<>> /\ messageId[h] = rxFrame[2]
  <2>1. Leave(d, "acked") /\ Tell(h, "answered")
    BY <1>2 DEF RxDequeue
  <2>2. h \in Items /\ IsHead(h) /\ done[h] = "open"
    BY <1>1, <1>2, HeadFacts
  <2>3. messageId[h] # NoMsg
    BY <1>1, <1>2, NullsAssumption
  <2>4. /\ done'[h] = "acked"
        /\ \A j \in Items \ {h} : done'[j] = done[j]
    BY <1>1, <1>2, <2>1, LeaveFacts
  <2>5. /\ verdicts'[h] = Append(verdicts[h], "answered")
        /\ \A j \in Items \ {h} : verdicts'[j] = verdicts[j]
    BY <2>1, <2>2 DEF Tell, Types
  <2>6. \A j \in Items \ {h} : IsHead(j) => IsHead(j)'
    BY <1>1, <1>2, <2>1, OtherHeads
  <2>. QED
    BY <2>2, <2>3, <2>4, <2>5, <2>6
<1>3. CASE ~(queues[d] # <<>> /\ messageId[h] = rxFrame[2])
  BY <1>3 DEF RxDequeue
<1>. QED
  BY <1>2, <1>3

\* The steps that leave the scheduler, the queues and the histories alone.
Aside == UNCHANGED <<queues, done, messageId, retryCount, stop, pc, cur,
                     attempts, verdicts>>

LEMMA AsideSteps ==
    /\ \A i \in Items : GetOrCreateQueue(i) \/ Wake(i) => Aside
    /\ RxLookup => Aside
    /\ \A f \in Frames : RxReceive(f) => Aside
    /\ ScanMiss => Aside
    /\ UNCHANGED vars => Aside
BY DEF GetOrCreateQueue, Wake, RxLookup, RxReceive, ScanMiss, vars, Aside,
       shared, signals, scheduler, receiver, history

\* What ScanHit hands to the scheduler is the head of its queue.
LEMMA ScanHitEffect ==
    ASSUME Types, QueuesInv, ScanHit
    PROVE  /\ cur' \in Items /\ IsHead(cur') /\ done[cur'] = "open"
           /\ pc = "next" /\ pc' = "check"
           /\ UNCHANGED <<queues, done, messageId, retryCount, stop,
                          attempts, verdicts>>
<1>. DEFINE d == order[((rrIndex + scan) % Len(order)) + 1]
<1>1. d \in Devices
  BY ScanPosition DEF ScanHit
<1>2. queues[d] # <<>> /\ cur' = Head(queues[d])
  BY DEF ScanHit
<1>. QED
  BY <1>1, <1>2, HeadFacts DEF ScanHit, signals

-----------------------------------------------------------------------------
(* The item in the scheduler's hands, and the encoded writes.               *)

LEMMA CurStep == ASSUME IInv, [Next]_vars PROVE CurInv'
<1>. USE DEF shared, signals, scheduler, receiver, history, Working
<1>. Types /\ QueuesInv /\ CurInv /\ EncodedInv /\ VerdictInv
  BY DEF IInv
<1>1. CASE Aside
  BY <1>1 DEF Aside, CurInv, IsHead
<1>2. CASE Stop
  BY <1>2 DEF Stop, CurInv, IsHead
<1>3. ASSUME NEW i \in Items, EnqueueWriteQueue(i) PROVE CurInv'
  <2>1. UNCHANGED <<done, messageId, pc, cur, verdicts>>
    BY <1>3 DEF EnqueueWriteQueue
  <2>2. \A j \in Items : IsHead(j) => IsHead(j)'
    BY <1>3, EnqueueKeepsHeads
  <2>. QED
    BY <2>1, <2>2 DEF CurInv
<1>4. CASE ScanHit
  BY <1>4, ScanHitEffect DEF CurInv, IsHead
<1>5. CASE pc' \in {"next", "idle", "stopped", "crashed"}
  BY <1>5 DEF CurInv
<1>6. CASE CheckStop
  <2>1. UNCHANGED <<queues, done, messageId, cur, verdicts>>
    BY <1>6 DEF CheckStop
  <2>2. pc = "check" /\ cur \in Items /\ pc' \in {"stopped", "prepare", "write"}
    BY <1>6 DEF CheckStop, CurInv
  <2>3. pc' = "prepare" => messageId[cur] = NoMsg
    BY <1>6 DEF CheckStop
  <2>4. pc' = "write" => messageId[cur] # NoMsg
    BY <1>6 DEF CheckStop
  <2>5. messageId[cur] = NoMsg => IsHead(cur)
    BY <2>2 DEF CurInv, EncodedInv
  <2>. QED
    BY <2>1, <2>2, <2>3, <2>4, <2>5 DEF CurInv, IsHead
<1>7. ASSUME NEW id \in MsgIds, PrepareMessage(id) PROVE CurInv'
  <2>1. /\ cur \in Items /\ cur' = cur /\ pc' = "write"
        /\ UNCHANGED <<queues, done>>
        /\ messageId'[cur] = id
    BY <1>7 DEF PrepareMessage, CurInv, Types
  <2>. QED
    BY <1>7, <2>1, NullsAssumption DEF PrepareMessage, CurInv, IsHead
<1>8. CASE Transmit \/ TransmitRefused \/ AwaitTimeout
  BY <1>8 DEF Transmit, TransmitRefused, AwaitTimeout, CurInv, IsHead
<1>9. CASE IncRetry
  BY <1>9 DEF IncRetry, BackToLoop, CurInv, IsHead
<1>10. CASE GiveUp
  <2>1. pc = "remove" /\ cur \in Items /\ RemoveItem(cur)
    BY <1>10 DEF GiveUp, CurInv
  <2>2. CASE IsHead(cur)
    <3>1. pc' = "report" /\ cur' = cur /\ verdicts' = verdicts
      BY <1>10, <2>2 DEF GiveUp
    <3>2. done[cur] = "open" /\ done'[cur] = "closed"
      BY <2>1, <2>2, RemoveItemEffect
    <3>. QED
      BY <2>1, <3>1, <3>2 DEF CurInv, VerdictInv
  <2>3. CASE ~IsHead(cur)
    BY <1>10, <1>5, <2>3 DEF GiveUp, BackToLoop
  <2>. QED
    BY <2>2, <2>3
<1>11. CASE RxDequeue
  <2>1. UNCHANGED <<pc, cur, messageId>>
    BY <1>11 DEF RxDequeue
  <2>2. CASE UNCHANGED <<queues, done, verdicts>>
    BY <2>1, <2>2 DEF CurInv, IsHead
  <2>3. ASSUME NEW h \in Items, IsHead(h), done[h] = "open",
               messageId[h] # NoMsg, done'[h] = "acked",
               \A j \in Items \ {h} :
                  /\ done'[j] = done[j] /\ verdicts'[j] = verdicts[j]
                  /\ IsHead(j) => IsHead(j)'
        PROVE  CurInv'
    <3>1. CASE cur = h
      BY <2>1, <2>3, <3>1 DEF CurInv
    <3>2. CASE cur # h
      BY <2>1, <2>3, <3>2 DEF CurInv
    <3>. QED
      BY <3>1, <3>2
  <2>. QED
    BY <1>11, <2>2, <2>3, RxDequeueEffect
<1>. QED
  BY <1>1, <1>2, <1>3, <1>4, <1>5, <1>6, <1>7, <1>8, <1>9, <1>10, <1>11,
     AsideSteps
     DEF Next, Schedule, Scan, ScanEmpty, WakeUp, StopIdle, Prepare,
         PrepareFails, PreparePanics, Await, AwaitDone, AwaitStop,
         FinishAttempt, OnWriteExhausted, BackToLoop, EnqueuePoint, Receive

LEMMA EncodedStep == ASSUME IInv, [Next]_vars PROVE EncodedInv'
<1>. USE DEF shared, signals, scheduler, receiver, history, Working
<1>. Types /\ QueuesInv /\ CurInv /\ EncodedInv
  BY DEF IInv
<1>1. CASE UNCHANGED <<queues, done, messageId, attempts>>
  BY <1>1 DEF EncodedInv, IsHead
<1>2. ASSUME NEW i \in Items, EnqueueWriteQueue(i) PROVE EncodedInv'
  <2>1. UNCHANGED <<done, messageId, attempts>>
    BY <1>2 DEF EnqueueWriteQueue
  <2>2. \A j \in Items : IsHead(j) => IsHead(j)'
    BY <1>2, EnqueueKeepsHeads
  <2>. QED
    BY <2>1, <2>2 DEF EncodedInv
<1>3. ASSUME NEW id \in MsgIds, PrepareMessage(id) PROVE EncodedInv'
  <2>1. /\ cur \in Items /\ IsHead(cur)
        /\ UNCHANGED <<queues, done, attempts>>
        /\ messageId'[cur] = id
        /\ \A j \in Items \ {cur} : messageId'[j] = messageId[j]
    BY <1>3 DEF PrepareMessage, CurInv, Types
  <2>. QED
    BY <2>1, NullsAssumption DEF EncodedInv, IsHead
<1>4. CASE Transmit \/ TransmitRefused
  <2>1. /\ cur \in Items /\ messageId[cur] # NoMsg
        /\ UNCHANGED <<queues, done, messageId>>
        /\ \A j \in Items \ {cur} : attempts'[j] = attempts[j]
    BY <1>4 DEF Transmit, TransmitRefused, CurInv, Types
  <2>. QED
    BY <2>1 DEF EncodedInv, IsHead
<1>5. CASE PrepareFails \/ GiveUp
  <2>1. /\ cur \in Items /\ RemoveItem(cur)
        /\ UNCHANGED <<messageId, attempts>>
    BY <1>5 DEF PrepareFails, GiveUp, CurInv
  <2>2. CASE IsHead(cur)
    <3>1. /\ done'[cur] = "closed"
          /\ \A j \in Items \ {cur} :
                done'[j] = done[j] /\ (IsHead(j) => IsHead(j)')
      BY <2>1, <2>2, RemoveItemEffect
    <3>. QED
      BY <2>1, <3>1 DEF EncodedInv
  <2>3. CASE ~IsHead(cur)
    BY <1>1, <2>1, <2>3, RemoveItemEffect
  <2>. QED
    BY <2>2, <2>3
<1>6. CASE RxDequeue
  <2>1. UNCHANGED <<messageId, attempts>>
    BY <1>6 DEF RxDequeue
  <2>2. ASSUME NEW h \in Items, messageId[h] # NoMsg, done'[h] = "acked",
               \A j \in Items \ {h} :
                  done'[j] = done[j] /\ (IsHead(j) => IsHead(j)')
        PROVE  EncodedInv'
    BY <2>1, <2>2 DEF EncodedInv
  <2>. QED
    BY <1>1, <1>6, <2>1, <2>2, RxDequeueEffect
<1>7. ASSUME Next, ~(\E i \in Items : EnqueueWriteQueue(i)),
             ~(\E id \in MsgIds : PrepareMessage(id)),
             ~(Transmit \/ TransmitRefused), ~(PrepareFails \/ GiveUp),
             ~RxDequeue
      PROVE  UNCHANGED <<queues, done, messageId, attempts>>
  BY <1>7 DEF Next, EnqueuePoint, GetOrCreateQueue, Wake, Stop, Schedule, Scan,
     ScanHit, ScanMiss, ScanEmpty, WakeUp, StopIdle, CheckStop, Prepare,
     PreparePanics, Await, AwaitDone, AwaitTimeout, AwaitStop, FinishAttempt,
     IncRetry, OnWriteExhausted, Receive, RxReceive, RxLookup
<1>. QED
  BY <1>1, <1>2, <1>3, <1>4, <1>5, <1>6, <1>7 DEF vars

-----------------------------------------------------------------------------
(* Verdicts and attempts.                                                   *)

LEMMA OneTold == ASSUME NEW v PROVE Append(<<>>, v) = <<v>>
OBVIOUS

LEMMA VerdictStep == ASSUME IInv, [Next]_vars PROVE VerdictInv'
<1>. USE DEF shared, signals, scheduler, receiver, history, Working
<1>. /\ Types /\ QueuesInv /\ CurInv /\ EncodedInv /\ VerdictInv /\ AttemptsInv
     /\ MaxRetry \in Nat \ {0}
  BY MaxRetryAssumption DEF IInv
<1>1. CASE UNCHANGED <<done, attempts, verdicts>> /\ pc # "report"
  BY <1>1 DEF VerdictInv
<1>2. CASE Aside \/ Stop
  BY <1>2 DEF Aside, Stop, VerdictInv
<1>3. ASSUME NEW i \in Items, EnqueueWriteQueue(i) PROVE VerdictInv'
  BY <1>3 DEF EnqueueWriteQueue, VerdictInv
<1>4. CASE Transmit \/ TransmitRefused
  <2>1. /\ cur \in Items
        /\ IsHead(cur) \/ done[cur] = "acked"
        /\ pc # "report"
        /\ UNCHANGED <<done, verdicts>>
        /\ \A j \in Items \ {cur} : attempts'[j] = attempts[j]
    BY <1>4 DEF Transmit, TransmitRefused, CurInv, Types
  <2>2. done[cur] # "closed"
    BY <2>1, HeadFacts, DeviceOfAssumption DEF IsHead
  <2>. QED
    BY <2>1, <2>2 DEF VerdictInv
<1>5. CASE PrepareFails
  <2>1. /\ cur \in Items /\ IsHead(cur) /\ RemoveItem(cur) /\ pc = "prepare"
        /\ attempts[cur] = 0
        /\ UNCHANGED <<attempts, verdicts>>
    BY <1>5 DEF PrepareFails, CurInv, EncodedInv
  <2>2. /\ done[cur] = "open" /\ done'[cur] = "closed"
        /\ \A j \in Items \ {cur} : done'[j] = done[j]
    BY <2>1, RemoveItemEffect
  <2>. QED
    BY <2>1, <2>2 DEF VerdictInv
<1>6. CASE GiveUp
  <2>1. /\ cur \in Items /\ RemoveItem(cur) /\ pc = "remove"
        /\ UNCHANGED <<attempts, verdicts>>
    BY <1>6 DEF GiveUp, CurInv
  <2>2. CASE IsHead(cur)
    <3>1. /\ done[cur] = "open" /\ done'[cur] = "closed"
          /\ \A j \in Items \ {cur} : done'[j] = done[j]
          /\ pc' = "report" /\ cur' = cur
      BY <1>6, <2>1, <2>2, RemoveItemEffect DEF GiveUp
    <3>. QED
      BY <2>1, <3>1 DEF VerdictInv
  <2>3. CASE ~IsHead(cur)
    <3>1. done' = done
      BY <2>1, <2>3, RemoveItemEffect
    <3>. QED
      BY <2>1, <3>1, <1>1
  <2>. QED
    BY <2>2, <2>3
<1>7. CASE OnWriteExhausted
  <2>1. /\ cur \in Items /\ pc = "report" /\ done[cur] = "closed"
        /\ verdicts[cur] = <<>> /\ attempts[cur] = MaxRetry
    BY <1>7 DEF OnWriteExhausted, CurInv, AttemptsInv
  <2>2. /\ verdicts'[cur] = <<"exhausted">>
        /\ \A j \in Items \ {cur} : verdicts'[j] = verdicts[j]
        /\ UNCHANGED <<done, attempts>>
    BY <1>7, <2>1, OneTold DEF OnWriteExhausted, Tell, Types
  <2>. QED
    BY <2>1, <2>2 DEF VerdictInv
<1>8. CASE RxDequeue
  <2>1. UNCHANGED <<pc, cur, attempts>>
    BY <1>8 DEF RxDequeue
  <2>2. CASE UNCHANGED <<queues, done, verdicts>>
    BY <2>1, <2>2 DEF VerdictInv
  <2>3. ASSUME NEW h \in Items, done[h] = "open", done'[h] = "acked",
               verdicts'[h] = Append(verdicts[h], "answered"),
               \A j \in Items \ {h} :
                  done'[j] = done[j] /\ verdicts'[j] = verdicts[j]
        PROVE  VerdictInv'
    <3>1. verdicts'[h] = <<"answered">>
      BY <2>3, OneTold DEF VerdictInv
    <3>. QED
      BY <2>1, <2>3, <3>1 DEF VerdictInv
  <2>. QED
    BY <1>8, <2>2, <2>3, RxDequeueEffect
<1>9. ASSUME Next, ~(\E i \in Items : EnqueuePoint(i)),
             ~(Transmit \/ TransmitRefused), ~PrepareFails, ~GiveUp,
             ~OnWriteExhausted, ~Receive, ~Stop
      PROVE  UNCHANGED <<done, attempts, verdicts>> /\ pc # "report"
  BY <1>9 DEF Next, Schedule, Scan, ScanHit, ScanMiss, ScanEmpty, WakeUp,
     StopIdle, CheckStop, Prepare, PrepareMessage, PreparePanics, Await,
     AwaitDone, AwaitTimeout, AwaitStop, FinishAttempt, IncRetry
<1>. QED
  BY <1>1, <1>2, <1>3, <1>4, <1>5, <1>6, <1>7, <1>8, <1>9, AsideSteps
     DEF EnqueuePoint, Receive

LEMMA AttemptsStep == ASSUME IInv, [Next]_vars PROVE AttemptsInv'
<1>. USE DEF shared, signals, scheduler, receiver, history, Working
<1>. /\ Types /\ QueuesInv /\ CurInv /\ EncodedInv /\ AttemptsInv
     /\ MaxRetry \in Nat \ {0}
  BY MaxRetryAssumption DEF IInv
<1>1. CASE Aside
  BY <1>1 DEF Aside, AttemptsInv
<1>2. CASE Stop
  BY <1>2 DEF Stop, AttemptsInv
<1>3. ASSUME NEW i \in Items, EnqueueWriteQueue(i) PROVE AttemptsInv'
  BY <1>3 DEF EnqueueWriteQueue, AttemptsInv
<1>4. CASE ScanHit
  BY <1>4, ScanHitEffect DEF AttemptsInv
<1>5. CASE ScanEmpty \/ WakeUp \/ StopIdle
  BY <1>5 DEF ScanEmpty, WakeUp, StopIdle, AttemptsInv
<1>6. CASE CheckStop \/ PreparePanics
  BY <1>6 DEF CheckStop, PreparePanics, AttemptsInv
<1>7. ASSUME NEW id \in MsgIds, PrepareMessage(id) PROVE AttemptsInv'
  BY <1>7 DEF PrepareMessage, AttemptsInv
<1>8. CASE Transmit \/ TransmitRefused
  <2>1. /\ cur \in Items /\ pc = "write" /\ pc' \in {"await", "expire"}
        /\ UNCHANGED <<done, retryCount, stop, cur>>
        /\ attempts'[cur] = attempts[cur] + 1
        /\ \A j \in Items \ {cur} : attempts'[j] = attempts[j]
    BY <1>8 DEF Transmit, TransmitRefused, CurInv, Types
  <2>2. /\ attempts[cur] \in Nat /\ retryCount[cur] \in Nat
        /\ attempts[cur] = retryCount[cur] /\ retryCount[cur] < MaxRetry
    BY <2>1 DEF AttemptsInv, Types
  <2>. QED
    BY <2>1, <2>2 DEF AttemptsInv
<1>9. CASE AwaitTimeout
  BY <1>9 DEF AwaitTimeout, AttemptsInv
<1>10. CASE AwaitDone \/ AwaitStop
  BY <1>10 DEF AwaitDone, AwaitStop, BackToLoop, AttemptsInv
<1>11. CASE PrepareFails \/ GiveUp
  <2>1. /\ cur \in Items /\ RemoveItem(cur) /\ pc \in {"prepare", "remove"}
        /\ UNCHANGED <<attempts, retryCount, stop>>
        /\ IsHead(cur) \/ done[cur] = "acked"
    BY <1>11 DEF PrepareFails, GiveUp, CurInv
  <2>2. /\ \A j \in Items \ {cur} : done'[j] = done[j]
        /\ done'[cur] # "open"
    <3>1. IsHead(cur) => done'[cur] = "closed"
      BY <2>1, RemoveItemEffect
    <3>2. ~IsHead(cur) => done'[cur] = "acked"
      BY <2>1, RemoveItemEffect
    <3>. QED
      BY <2>1, <3>1, <3>2, RemoveItemEffect
  <2>3. CASE pc' = "next"
    BY <2>1, <2>2, <2>3 DEF AttemptsInv
  <2>4. CASE pc' = "report" /\ cur' = cur /\ pc = "remove"
    BY <2>1, <2>2, <2>4 DEF AttemptsInv
  <2>. QED
    BY <1>11, <2>3, <2>4 DEF PrepareFails, GiveUp, BackToLoop
<1>12. CASE IncRetry
  <2>1. /\ cur \in Items /\ pc = "expire"
        /\ UNCHANGED <<done, attempts, stop>>
        /\ retryCount'[cur] = retryCount[cur] + 1
        /\ \A j \in Items \ {cur} : retryCount'[j] = retryCount[j]
    BY <1>12 DEF IncRetry, CurInv, Types
  <2>2. /\ attempts[cur] \in Nat /\ retryCount[cur] \in Nat
        /\ attempts[cur] = retryCount[cur] + 1 /\ attempts[cur] <= MaxRetry
    BY <2>1 DEF AttemptsInv, Types
  <2>3. CASE retryCount'[cur] < MaxRetry
    <3>1. pc' = "next" /\ cur' = NoItem
      BY <1>12, <2>3 DEF IncRetry, BackToLoop
    <3>. QED
      BY <2>1, <2>2, <2>3, <3>1 DEF AttemptsInv
  <2>4. CASE ~(retryCount'[cur] < MaxRetry)
    <3>1. pc' = "remove" /\ cur' = cur
      BY <1>12, <2>4 DEF IncRetry
    <3>2. retryCount'[cur] = MaxRetry
      BY <2>1, <2>2, <2>4
    <3>. QED
      BY <2>1, <2>2, <3>1, <3>2 DEF AttemptsInv
  <2>. QED
    BY <2>3, <2>4
<1>13. CASE OnWriteExhausted
  <2>1. cur \in Items /\ done[cur] = "closed"
    BY <1>13 DEF OnWriteExhausted, CurInv
  <2>. QED
    BY <1>13, <2>1 DEF OnWriteExhausted, BackToLoop, AttemptsInv
<1>14. CASE RxDequeue
  <2>1. UNCHANGED <<pc, cur, attempts, retryCount, stop>>
    BY <1>14 DEF RxDequeue
  <2>2. \A j \in Items : done'[j] = "open" => done[j] = "open"
    BY <1>14, RxDequeueEffect
  <2>. QED
    BY <2>1, <2>2 DEF AttemptsInv
<1>. QED
  BY <1>1, <1>2, <1>3, <1>4, <1>5, <1>6, <1>7, <1>8, <1>9, <1>10, <1>11, <1>12,
     <1>13, <1>14, AsideSteps
     DEF Next, EnqueuePoint, Schedule, Scan, Prepare, Await, FinishAttempt,
         Receive

-----------------------------------------------------------------------------
(* The theorems.                                                            *)

LEMMA InitIInv == Init => IInv
<1>. SUFFICES ASSUME Init PROVE IInv
  OBVIOUS
<1>1. Types
  BY TypesInit
<1>2. \A d \in Devices : Len(queues[d]) = 0
  BY EmptySeq DEF Init
<1>3. QueuesInv
  BY <1>2 DEF QueuesInv
<1>. QED
  BY <1>1, <1>3, MaxRetryAssumption
     DEF IInv, Init, NewInv, CurInv, Working, EncodedInv, VerdictInv, AttemptsInv

LEMMA StepIInv == IInv /\ [Next]_vars => IInv'
BY TypesStep, QueuesStep, CurStep, EncodedStep, VerdictStep, AttemptsStep DEF IInv

\* The invariant the other theorems rest on holds in every reachable state.
THEOREM InductiveInvariant == Spec => []IInv
BY InitIInv, StepIInv, PTL DEF Spec

\* Every variable keeps its type, for every size of the system; the retry count
\* stays within maxRetry (finishAttempt) and rrIndex within order (nextPending).
THEOREM TypeCorrectness == Spec => []TypeOK
<1>1. IInv => TypeOK
  BY MaxRetryAssumption DEF IInv, Types, AttemptsInv, TypeOK
<1>. QED
  BY <1>1, InductiveInvariant, PTL

\* However a late RESPONSE and the response timer interleave, the owner of a
\* point is told at most one verdict (dequeue, RemoveItem, finishAttempt).
THEOREM OneVerdictHolds == Spec => []OneVerdict
<1>1. ASSUME NEW v PROVE Len(<<v>>) = 1
  OBVIOUS
<1>2. Len(<<>>) = 0
  OBVIOUS
<1>3. ASSUME IInv, NEW i \in Items PROVE Len(verdicts[i]) <= 1
  <2>1. verdicts[i] \in {<<>>, <<"answered">>, <<"exhausted">>}
    BY <1>3 DEF IInv, Types, VerdictInv
  <2>2. Len(verdicts[i]) = 0 \/ Len(verdicts[i]) = 1
    BY <1>1, <1>2, <2>1
  <2>3. \A n : n = 0 \/ n = 1 => n <= 1
    OBVIOUS
  <2>. QED
    BY <2>2, <2>3, Zenon
<1>4. IInv => OneVerdict
  BY <1>3 DEF OneVerdict
<1>. QED
  BY <1>4, InductiveInvariant, PTL

\* A transmitted write that has left its queue is never left without a verdict,
\* except while finishAttempt is about to report it.
THEOREM EncodedWriteIsToldHolds == Spec => []EncodedWriteIsTold
<1>1. <<"answered">> # <<>> /\ <<"exhausted">> # <<>>
  OBVIOUS
<1>2. ASSUME IInv, NEW i \in Items, done[i] # "open", verdicts[i] = <<>>
      PROVE  attempts[i] = 0 \/ (pc = "report" /\ cur = i)
  BY <1>1, <1>2 DEF IInv, Types, VerdictInv
<1>3. IInv => EncodedWriteIsTold
  BY <1>2 DEF EncodedWriteIsTold
<1>. QED
  BY <1>3, InductiveInvariant, PTL

\* No write is attempted more than maxRetry times, and an exhausted write exactly
\* that often (transmit, finishAttempt).
THEOREM AttemptsBoundedHolds == Spec => []AttemptsBounded
<1>1. <<"exhausted">> # <<"answered">> /\ \A v : <<v>> # <<>>
  OBVIOUS
<1>2. IInv => AttemptsBounded
  BY <1>1 DEF IInv, Types, VerdictInv, AttemptsInv, AttemptsBounded
<1>. QED
  BY <1>2, InductiveInvariant, PTL

\* Only the head of a queue carries an encoded frame (transmit, EnqueuePoint).
THEOREM OnlyHeadEncodedHolds == Spec => []OnlyHeadEncoded
<1>1. IInv => OnlyHeadEncoded
  BY DEF IInv, EncodedInv, OnlyHeadEncoded
<1>. QED
  BY <1>1, InductiveInvariant, PTL

\* No RESPONSE takes a write whose frame does not exist yet (dequeue).
THEOREM AckedWasEncodedHolds == Spec => []AckedWasEncoded
<1>1. IInv => AckedWasEncoded
  BY DEF IInv, EncodedInv, AckedWasEncoded
<1>. QED
  BY <1>1, InductiveInvariant, PTL

\* The scheduler closes no write but the one in its hands (RemoveItem).
THEOREM RemovesOnlyItsOwnHolds == Spec => RemovesOnlyItsOwn
<1>. DEFINE Own == \A i \in Items :
                      done[i] = "open" /\ done'[i] = "closed" =>
                          /\ cur = i
                          /\ pc = "prepare" \/ attempts[i] = MaxRetry
<1>. USE DEF shared, signals, scheduler, receiver, history, Working
<1>1. ASSUME IInv, Next PROVE Own
  <2>. Types /\ QueuesInv /\ CurInv /\ AttemptsInv
    BY <1>1 DEF IInv
  <2>1. CASE PrepareFails \/ GiveUp
    <3>1. /\ cur \in Items /\ RemoveItem(cur)
          /\ pc = "prepare" \/ attempts[cur] = MaxRetry
      BY <2>1 DEF PrepareFails, GiveUp, CurInv, AttemptsInv
    <3>2. \A j \in Items \ {cur} : done'[j] = done[j]
      BY <3>1, RemoveItemEffect
    <3>. QED
      BY <3>1, <3>2
  <2>2. CASE RxDequeue
    BY <2>2, RxDequeueEffect
  <2>3. CASE done' = done
    BY <2>3
  <2>4. ASSUME ~(PrepareFails \/ GiveUp), ~RxDequeue PROVE done' = done
    BY <1>1, <2>4 DEF Next, EnqueuePoint, GetOrCreateQueue, EnqueueWriteQueue,
       Wake, Stop, Schedule, Scan, ScanHit, ScanMiss, ScanEmpty, WakeUp,
       StopIdle, CheckStop, Prepare, PrepareMessage, PreparePanics, Transmit,
       TransmitRefused, Await, AwaitDone, AwaitTimeout, AwaitStop,
       FinishAttempt, IncRetry, OnWriteExhausted, Receive, RxReceive, RxLookup
  <2>. QED
    BY <2>1, <2>2, <2>3, <2>4
<1>2. IInv /\ [Next]_vars => [Own]_vars
  BY <1>1
<1>. QED
  BY <1>2, InductiveInvariant, PTL DEF Spec, RemovesOnlyItsOwn

\* After a stop the scheduler transmits nothing more once it is back in its loop.
THEOREM QuietAfterStopHolds == Spec => QuietAfterStop
<1>. DEFINE Quiet == stop /\ pc \in {"next", "idle", "check", "stopped"} =>
                        pc' \in {"next", "idle", "check", "stopped"}
<1>1. [Next]_vars => [Quiet]_vars
  BY DEF Next, EnqueuePoint, GetOrCreateQueue, EnqueueWriteQueue,
     Wake, Stop, Schedule, Scan, ScanHit, ScanMiss, ScanEmpty, WakeUp,
     StopIdle, CheckStop, Prepare, PrepareMessage, PrepareFails, PreparePanics,
     Transmit, TransmitRefused, Await, AwaitDone, AwaitTimeout, AwaitStop,
     FinishAttempt, IncRetry, GiveUp, OnWriteExhausted, Receive, RxReceive,
     RxLookup, RxDequeue, shared, signals, scheduler, receiver, history
<1>. QED
  BY <1>1, PTL DEF Spec, QuietAfterStop

-----------------------------------------------------------------------------
(* PointWriteQueueManager implements the safety part of PendingWrites.      *)

StillOpen == UNCHANGED stop /\ pc # "crashed" /\ pc' # "crashed"

\* A write leaving the head of its queue is a Settle with one of the outcomes.
LEMMA LeaveSettles ==
    ASSUME Types, QueuesInv, NEW d \in Devices, queues[d] # <<>>,
           NEW how \in {"acked", "closed"}, Leave(d, how),
           UNCHANGED <<call, retryCount>>, StillOpen
    PROVE  Abstract!Step
<1>. DEFINE h == Head(queues[d])
            o == Outcome'[h]
<1>1. /\ h \in Items /\ call[h] \notin {"idle", "append"}
      /\ done'[h] = how
      /\ \A j \in Items \ {h} : done'[j] = done[j]
  <2>1. h \in Items /\ call[h] \notin {"idle", "append"}
    BY HeadFacts
  <2>. QED
    BY <2>1, LeaveFacts
<1>2. o \in Abstract!Outcomes
  BY <1>1 DEF Outcome, Abstract!Outcomes
<1>3. ASSUME NEW j \in Items \ {h} PROVE Outcome'[j] = Outcome[j]
  BY <1>1 DEF Outcome
<1>4. Outcome' = [Outcome EXCEPT ![h] = o]
  <2>1. /\ DOMAIN Outcome = Items /\ DOMAIN Outcome' = Items
        /\ Outcome = [j \in Items |-> Outcome[j]] /\ Outcome' = [j \in Items |-> Outcome'[j]]
    BY DEF Outcome
  <2>. QED
    BY <1>1, <1>3, <2>1
<1>5. Abstract!Settle(d, o)
  BY <1>4 DEF Abstract!Settle, Leave, StillOpen
<1>. QED
  BY <1>2, <1>5 DEF Abstract!Step

\* Steps that neither accept nor settle a write nor close the manager.
LEMMA StutterSteps ==
    ASSUME Types, UNCHANGED <<queues, done>>, StillOpen,
           \A i \in Items :
              call[i] \in {"idle", "append"} <=> call'[i] \in {"idle", "append"},
           \A i \in Items :
              retryCount'[i] = retryCount[i] \/ done[i] # "closed"
    PROVE  UNCHANGED Abstract!abstractVars
<1>1. ASSUME NEW i \in Items PROVE Outcome'[i] = Outcome[i]
  <2>1. done'[i] = done[i]
    OBVIOUS
  <2>2. CASE retryCount'[i] = retryCount[i]
    BY <2>1, <2>2 DEF Outcome
  <2>3. CASE done[i] # "closed"
    BY <2>1, <2>3 DEF Outcome, Types
  <2>. QED
    BY <2>2, <2>3
<1>2. Outcome' = Outcome
  BY <1>1 DEF Outcome
<1>. QED
  BY <1>2 DEF Abstract!abstractVars, StillOpen

LEMMA StepSimulation ==
    ASSUME IInv, [Next]_vars
    PROVE  [Abstract!Step]_(Abstract!abstractVars)
<1>. USE DEF shared, signals, scheduler, receiver, history, Working
<1>. Types /\ QueuesInv /\ NewInv /\ CurInv /\ EncodedInv
  BY DEF IInv
<1>1. ASSUME NEW i \in Items, EnqueueWriteQueue(i), pc # "crashed"
      PROVE  Abstract!Accept(i)
  <2>1. /\ call[i] = "append" /\ call'[i] = "wake" /\ done[i] = "open"
        /\ \A j \in Items \ {i} : call'[j] = call[j]
        /\ UNCHANGED <<done, retryCount, stop, pc>>
    BY <1>1 DEF EnqueueWriteQueue, NewInv, Types
  <2>2. Outcome[i] = "new" /\ Outcome'[i] = "pending"
    BY <2>1 DEF Outcome
  <2>3. \A j \in Items \ {i} : Outcome'[j] = Outcome[j]
    BY <2>1 DEF Outcome
  <2>4. Outcome' = [Outcome EXCEPT ![i] = "pending"]
    BY <2>2, <2>3 DEF Outcome
  <2>. QED
    BY <1>1, <2>1, <2>2, <2>4 DEF Abstract!Accept, EnqueueWriteQueue
<1>2. CASE Stop \/ PreparePanics
  <2>1. /\ UNCHANGED <<queues, done, retryCount, call>>
        /\ stop' \/ pc' = "crashed"
    BY <1>2 DEF Stop, PreparePanics
  <2>2. Outcome' = Outcome
    BY <2>1 DEF Outcome
  <2>3. Abstract!Close
    BY <2>1, <2>2 DEF Abstract!Close
  <2>. QED
    BY <2>3 DEF Abstract!Step
<1>3. CASE PrepareFails \/ GiveUp
  <2>1. /\ cur \in Items /\ RemoveItem(cur)
        /\ UNCHANGED <<call, retryCount>> /\ StillOpen
    BY <1>3 DEF PrepareFails, GiveUp, BackToLoop, CurInv, StillOpen
  <2>2. CASE IsHead(cur)
    <3>1. /\ DeviceOf[cur] \in Devices /\ queues[DeviceOf[cur]] # <<>>
          /\ Leave(DeviceOf[cur], "closed")
      BY <2>1, <2>2, DeviceOfAssumption DEF RemoveItem, IsHead
    <3>. QED
      BY <2>1, <3>1, LeaveSettles
  <2>3. CASE ~IsHead(cur)
    BY <2>1, <2>3, StutterSteps DEF RemoveItem
  <2>. QED
    BY <2>2, <2>3
<1>4. CASE RxDequeue /\ pc # "crashed"
  <2>1. /\ rxFrame[1] \in Devices
        /\ UNCHANGED <<call, retryCount>> /\ StillOpen
    BY <1>4 DEF RxDequeue, Types, Frames, StillOpen
  <2>2. CASE UNCHANGED <<queues, done>>
    BY <2>1, <2>2, StutterSteps
  <2>3. CASE queues[rxFrame[1]] # <<>> /\ Leave(rxFrame[1], "acked")
    BY <2>1, <2>3, LeaveSettles
  <2>. QED
    BY <1>4, <2>2, <2>3 DEF RxDequeue
<1>5. CASE IncRetry
  <2>1. /\ cur \in Items
        /\ IsHead(cur) \/ done[cur] = "acked"
        /\ \A j \in Items \ {cur} : retryCount'[j] = retryCount[j]
        /\ UNCHANGED <<queues, done, call>> /\ StillOpen
    BY <1>5 DEF IncRetry, BackToLoop, CurInv, StillOpen, Types
  <2>2. done[cur] # "closed"
    BY <2>1, HeadFacts, DeviceOfAssumption DEF IsHead
  <2>. QED
    BY <2>1, <2>2, StutterSteps
<1>6. ASSUME NEW i \in Items, GetOrCreateQueue(i) \/ Wake(i), pc # "crashed"
      PROVE  UNCHANGED Abstract!abstractVars
  <2>1. /\ UNCHANGED <<queues, done, retryCount>> /\ StillOpen
        /\ \A j \in Items : call[j] \in {"idle", "append"} <=>
                            call'[j] \in {"idle", "append"}
    BY <1>6 DEF GetOrCreateQueue, Wake, StillOpen, Types
  <2>. QED
    BY <2>1, StutterSteps
<1>7. CASE UNCHANGED vars
  BY <1>7 DEF vars, Abstract!abstractVars, Outcome
<1>8. ASSUME Next, ~(\E i \in Items : EnqueuePoint(i)), ~Stop, ~Prepare,
             ~GiveUp, ~IncRetry, ~RxDequeue
      PROVE  UNCHANGED Abstract!abstractVars
  <2>1. UNCHANGED <<queues, done, retryCount, call>> /\ StillOpen
    BY <1>8 DEF Next, Schedule, Scan, ScanHit, ScanMiss, ScanEmpty, WakeUp,
       StopIdle, CheckStop, Transmit, TransmitRefused, Await, AwaitDone,
       AwaitTimeout, AwaitStop, FinishAttempt, OnWriteExhausted, Receive,
       RxReceive, RxLookup, BackToLoop, StillOpen
  <2>. QED
    BY <2>1, StutterSteps
<1>9. ASSUME NEW id \in MsgIds, PrepareMessage(id)
      PROVE  UNCHANGED Abstract!abstractVars
  <2>1. UNCHANGED <<queues, done, retryCount, call>> /\ StillOpen
    BY <1>9 DEF PrepareMessage, StillOpen
  <2>. QED
    BY <2>1, StutterSteps
<1>. QED
  BY <1>1, <1>2, <1>3, <1>4, <1>5, <1>6, <1>7, <1>8, <1>9
     DEF Next, EnqueuePoint, Prepare, Abstract!Step

\* The queues, the scheduler and the receiver together implement PendingWrites:
\* writes of a device leave in the order EnqueuePoint accepted them, once, and
\* with one outcome (EnqueueWriteQueue, RemoveItem, dequeue).
THEOREM Refinement == Spec => RefinesSafety
<1>1. Init => Abstract!Begin
  BY DEF Init, Abstract!Begin, Outcome
<1>2. IInv /\ [Next]_vars => [Abstract!Step]_(Abstract!abstractVars)
  BY StepSimulation
<1>. QED
  BY <1>1, <1>2, InductiveInvariant, PTL DEF Spec, RefinesSafety, Abstract!Safety

-----------------------------------------------------------------------------
(* No wake-up is lost.                                                      *)

Token == notify \/ \E i \in Items : call[i] = "wake"

\* A device with a call under way has a queue in order; whatever the scan has
\* passed over is empty, or was filled since and a token is there or coming.
WakeInv ==
    /\ \A i \in Items : call[i] # "idle" =>
          \E p \in 1..Len(order) : order[p] = DeviceOf[i]
    /\ pc # "next" => scan = 0
    /\ pc = "next" =>
          \A k \in 0..(scan - 1) :
              queues[order[((rrIndex + k) % Len(order)) + 1]] # <<>> => Token
    /\ NoLostWakeup

\* Counting from any start, a full round visits every position.
LEMMA FullRound ==
    ASSUME NEW n \in Nat \ {0}, NEW r \in 0..n, NEW p \in 0..(n - 1)
    PROVE  \E k \in 0..(n - 1) : (r + k) % n = p
<1>1. p % n = p /\ (p + n) % n = p
  OBVIOUS
<1>2. CASE r <= p
  <2>1. p - r \in 0..(n - 1) /\ r + (p - r) = p
    BY <1>2
  <2>. QED
    BY <1>1, <2>1
<1>3. CASE p < r
  <2>1. p + n - r \in 0..(n - 1) /\ r + (p + n - r) = p + n
    BY <1>3
  <2>. QED
    BY <1>1, <2>1
<1>. QED
  BY <1>2, <1>3

\* When every position of order holds an empty queue there is no work at all.
LEMMA NothingPending ==
    ASSUME IInv, WakeInv, pc = "next", scan = Len(order),
           NEW d \in Devices, queues[d] # <<>>
    PROVE  Token
<1>. Types /\ QueuesInv
  BY DEF IInv
<1>1. PICK p \in 1..Len(order) : order[p] = d
  BY HeadFacts DEF WakeInv
<1>2. /\ Len(order) \in Nat \ {0}
      /\ rrIndex \in 0..Len(order) /\ p - 1 \in 0..(Len(order) - 1)
  BY LenProperties DEF Types
<1>3. PICK k \in 0..(Len(order) - 1) : (rrIndex + k) % Len(order) = p - 1
  BY <1>2, FullRound
<1>4. order[((rrIndex + k) % Len(order)) + 1] = d
  BY <1>1, <1>2, <1>3
<1>. QED
  BY <1>3, <1>4 DEF WakeInv

\* Steps that fill no queue, take no token and leave order and the scan alone.
LEMMA WakeKeeps ==
    ASSUME Types, WakeInv, UNCHANGED <<order, rrIndex, scan, notify, call>>,
           \A d \in Devices : queues'[d] # <<>> => queues[d] # <<>>,
           pc' = pc \/ (pc # "next" /\ pc' # "idle")
    PROVE  WakeInv'
<1>1. Token' = Token
  BY DEF Token
<1>2. ASSUME pc' = "next", NEW k \in 0..(scan - 1),
             queues'[order[((rrIndex + k) % Len(order)) + 1]] # <<>>
      PROVE  Token
  <2>1. /\ Len(order) \in Nat /\ rrIndex \in Nat /\ scan \in Nat
        /\ scan <= Len(order) /\ k \in Nat /\ k < scan
    BY LenProperties DEF Types
  <2>2. ((rrIndex + k) % Len(order)) + 1 \in 1..Len(order)
    BY <2>1
  <2>3. order[((rrIndex + k) % Len(order)) + 1] \in Devices
    BY <2>2, ElementOfSeq DEF Types
  <2>4. pc = "next"
    BY <1>2, <2>1 DEF WakeInv
  <2>. QED
    BY <1>2, <2>3, <2>4 DEF WakeInv
<1>3. NoLostWakeup'
  BY DEF WakeInv, NoLostWakeup
<1>. QED
  BY <1>1, <1>2, <1>3 DEF WakeInv

LEMMA WakeStep == ASSUME IInv, WakeInv, [Next]_vars PROVE WakeInv'
<1>. USE DEF shared, signals, scheduler, receiver, history, Working
<1>. Types /\ QueuesInv /\ CurInv /\ scan \in Nat /\ Len(order) \in Nat
  BY LenProperties DEF IInv, Types
<1>1. ASSUME NEW i \in Items, GetOrCreateQueue(i) PROVE WakeInv'
  <2>1. /\ scan' = 0 /\ scan = 0 /\ UNCHANGED <<queues, notify, pc, rrIndex>>
        /\ call'[i] = "append" /\ call[i] = "idle"
        /\ \A j \in Items \ {i} : call'[j] = call[j]
    BY <1>1 DEF GetOrCreateQueue, ManagerLocked, WakeInv, Types
  <2>2. \A j \in Items : call'[j] # "idle" =>
           \E p \in 1..Len(order') : order'[p] = DeviceOf[j]
    <3>1. CASE DeviceOf[i] \in Range(order) /\ order' = order
      <4>1. \E p \in 1..Len(order) : order[p] = DeviceOf[i]
        BY <3>1, LenProperties DEF Range, Types
      <4>. QED
        BY <2>1, <3>1, <4>1 DEF WakeInv
    <3>2. CASE order' = Append(order, DeviceOf[i])
      <4>1. DeviceOf[i] \in Devices /\ order \in Seq(Devices)
        BY DeviceOfAssumption DEF Types
      <4>2. /\ Len(order') = Len(order) + 1
            /\ order'[Len(order) + 1] = DeviceOf[i]
            /\ \A p \in 1..Len(order) : order'[p] = order[p]
        BY <3>2, <4>1, PushFacts
      <4>3. /\ Len(order) + 1 \in 1..Len(order')
            /\ \A p \in 1..Len(order) : p \in 1..Len(order')
        BY <4>2
      <4>4. \A j \in Items \ {i} : call'[j] # "idle" =>
               \E p \in 1..Len(order) : order[p] = DeviceOf[j]
        BY <2>1 DEF WakeInv
      <4>. QED
        BY <4>2, <4>3, <4>4
    <3>. QED
      BY <1>1, <3>1, <3>2 DEF GetOrCreateQueue
  <2>3. Token => Token'
    BY <2>1 DEF Token
  <2>4. NoLostWakeup'
    BY <2>1, <2>3 DEF WakeInv, NoLostWakeup, Token
  <2>. QED
    BY <2>1, <2>2, <2>4 DEF WakeInv
<1>2. ASSUME NEW i \in Items, EnqueueWriteQueue(i) PROVE WakeInv'
  <2>1. /\ Token' /\ UNCHANGED <<order, rrIndex, scan, pc>>
        /\ call'[i] = "wake" /\ call[i] = "append"
        /\ \A j \in Items \ {i} : call'[j] = call[j]
    BY <1>2 DEF EnqueueWriteQueue, Token, Types
  <2>. QED
    BY <2>1 DEF WakeInv, NoLostWakeup, Token
<1>3. ASSUME NEW i \in Items, Wake(i) PROVE WakeInv'
  <2>1. /\ Token' /\ UNCHANGED <<order, rrIndex, scan, pc, queues>>
        /\ call[i] = "wake"
        /\ \A j \in Items \ {i} : call'[j] = call[j]
    BY <1>3 DEF Wake, Token, Types
  <2>. QED
    BY <2>1 DEF WakeInv, NoLostWakeup, Token
<1>4. CASE ScanHit
  BY <1>4 DEF ScanHit, WakeInv, NoLostWakeup
<1>5. CASE ScanMiss
  <2>1. /\ scan' = scan + 1 /\ pc = "next" /\ pc' = "next"
        /\ UNCHANGED <<order, rrIndex, queues, notify, call>>
        /\ queues[order[((rrIndex + scan) % Len(order)) + 1]] = <<>>
    BY <1>5 DEF ScanMiss
  <2>2. \A k \in 0..(scan' - 1) : k \in 0..(scan - 1) \/ k = scan
    BY <2>1
  <2>3. Token' <=> Token
    BY <2>1 DEF Token
  <2>. QED
    BY <2>1, <2>2, <2>3 DEF WakeInv, NoLostWakeup
<1>6. CASE ScanEmpty
  <2>1. /\ pc = "next" /\ scan = Len(order) /\ pc' = "idle" /\ scan' = 0
        /\ UNCHANGED <<order, rrIndex, queues, notify, call>>
    BY <1>6 DEF ScanEmpty
  <2>2. (\E d \in Devices : queues[d] # <<>>) => Token
    BY <2>1, NothingPending
  <2>3. NoLostWakeup'
    BY <2>1, <2>2 DEF NoLostWakeup, Token
  <2>. QED
    BY <2>1, <2>3 DEF WakeInv
<1>7. CASE WakeUp
  BY <1>7 DEF WakeUp, WakeInv, NoLostWakeup
<1>8. CASE PrepareFails \/ GiveUp \/ RxDequeue
  <2>1. /\ \A d \in Devices : queues'[d] # <<>> => queues[d] # <<>>
        /\ UNCHANGED <<order, rrIndex, scan, notify, call>>
    BY <1>8, DeviceOfAssumption DEF PrepareFails, GiveUp, RxDequeue, RemoveItem,
       Leave, IsHead, CurInv, Types, Frames
  <2>2. pc' = pc \/ (pc # "next" /\ pc' # "idle")
    BY <1>8 DEF PrepareFails, GiveUp, RxDequeue, BackToLoop
  <2>. QED
    BY <2>1, <2>2, WakeKeeps
<1>9. ASSUME UNCHANGED vars \/ Stop \/ StopIdle \/ CheckStop \/ PreparePanics
             \/ Transmit \/ TransmitRefused \/ Await \/ IncRetry
             \/ OnWriteExhausted \/ RxLookup
             \/ (\E id \in MsgIds : PrepareMessage(id))
             \/ (\E f \in Frames : RxReceive(f))
      PROVE  WakeInv'
  <2>1. UNCHANGED <<order, rrIndex, scan, notify, call, queues>>
    BY <1>9 DEF vars, Stop, StopIdle, CheckStop, PreparePanics, Transmit,
       TransmitRefused, Await, AwaitDone, AwaitTimeout, AwaitStop, IncRetry,
       OnWriteExhausted, RxLookup, PrepareMessage, RxReceive
  <2>2. pc' = pc \/ (pc # "next" /\ pc' # "idle")
    BY <1>9 DEF vars, Stop, StopIdle, CheckStop, PreparePanics, Transmit,
       TransmitRefused, Await, AwaitDone, AwaitTimeout, AwaitStop, IncRetry,
       OnWriteExhausted, RxLookup, PrepareMessage, RxReceive, BackToLoop
  <2>. QED
    BY <2>1, <2>2, WakeKeeps
<1>. QED
  BY <1>1, <1>2, <1>3, <1>4, <1>5, <1>6, <1>7, <1>8, <1>9
     DEF Next, EnqueuePoint, Schedule, Scan, Prepare, FinishAttempt, Receive

LEMMA WakeInvariant == Spec => []WakeInv
<1>1. Init => WakeInv
  BY DEF Init, WakeInv, NoLostWakeup
<1>2. IInv /\ WakeInv /\ [Next]_vars => WakeInv'
  BY WakeStep
<1>. QED
  BY <1>1, <1>2, InductiveInvariant, PTL DEF Spec

\* The scheduler never sleeps on pending work, however the calls that create and
\* fill queues interleave with its scan (nextPending, EnqueuePoint, wake).
THEOREM NoLostWakeupHolds == Spec => []NoLostWakeup
<1>1. WakeInv => NoLostWakeup
  BY DEF WakeInv
<1>. QED
  BY <1>1, WakeInvariant, PTL

-----------------------------------------------------------------------------
(* Turns.  Positions of order count from 0 here, as rrIndex does.           *)

Positions == 0..(Len(order) - 1)
At(p) == order[p + 1]

\* The scan that starts at rrIndex comes to position q after position p.
Later(p, q) == IF p >= rrIndex <=> q >= rrIndex THEN p < q ELSE p >= rrIndex

\* The scan under way has been at position p.
Scanned(p) == IF p >= rrIndex THEN p - rrIndex < scan
                              ELSE p + Len(order) - rrIndex < scan

\* A device that was served while another one waited is scanned later than it;
\* nobody has waited at a position that the scan has found empty.
TurnsInv ==
    /\ \A p, q \in Positions : At(p) = At(q) => p = q
    /\ \A d \in Devices : \A e \in passed[d] :
          /\ \E p \in Positions : At(p) = e
          /\ \E p \in Positions : At(p) = d
    /\ \A d \in Devices : queues[d] = <<>> => passed[d] = {}
    /\ \A p \in Positions : Scanned(p) => passed[At(p)] = {}
    /\ \A p, q \in Positions : At(q) \in passed[At(p)] => Later(p, q)

Turn == pc = "next" /\ pc' = "check" =>
            \A d \in Devices :
                queues[d] # <<>> /\ d # DeviceOf[cur'] =>
                    DeviceOf[cur'] \notin passed[d]

\* Steps that leave order and the scan alone, and add nothing to passed.
LEMMA TurnsKeep ==
    ASSUME Types, TurnsInv, UNCHANGED <<order, rrIndex, scan>>,
           \A d \in Devices : passed'[d] = passed[d] \/ passed'[d] = {},
           \A d \in Devices : queues'[d] = <<>> /\ queues[d] # <<>> => passed'[d] = {}
    PROVE  TurnsInv'
<1>1. /\ Positions' = Positions
      /\ \A p, q \in Positions : (At(p)' = At(p)) /\ (Scanned(p)' <=> Scanned(p))
                                  /\ (Later(p, q)' <=> Later(p, q))
  BY DEF Positions, At, Scanned, Later
<1>2. \A p \in Positions : At(p) \in Devices
  BY LenProperties, ElementOfSeq DEF Positions, At, Types
<1>. QED
  BY <1>1, <1>2 DEF TurnsInv

\* The position the scan is at, and what it has been at, without the remainder.
LEMMA ScanIndex ==
    ASSUME Types, scan < Len(order), NEW idx, idx = (rrIndex + scan) % Len(order)
    PROVE  /\ idx \in Positions /\ Len(order) \in Nat \ {0}
           /\ rrIndex \in 0..Len(order) /\ scan \in Nat
           /\ idx = IF rrIndex + scan < Len(order) THEN rrIndex + scan
                                                   ELSE rrIndex + scan - Len(order)
<1>1. /\ rrIndex \in 0..Len(order) /\ scan \in 0..Len(order) /\ Len(order) \in Nat
  BY LenProperties DEF Types
<1>2. Len(order) \in Nat \ {0}
  BY <1>1
<1>3. ASSUME NEW n \in Nat \ {0}, NEW m \in 0..(n - 1)
      PROVE  m % n = m /\ (m + n) % n = m
  BY <1>3
<1>4. CASE rrIndex + scan < Len(order)
  <2>1. rrIndex + scan \in 0..(Len(order) - 1)
    BY <1>1, <1>4
  <2>. QED
    BY <1>1, <1>2, <1>3, <1>4, <2>1 DEF Positions
<1>5. CASE ~(rrIndex + scan < Len(order))
  <2>1. /\ rrIndex + scan - Len(order) \in 0..(Len(order) - 1)
        /\ (rrIndex + scan - Len(order)) + Len(order) = rrIndex + scan
    BY <1>1, <1>5
  <2>. QED
    BY <1>1, <1>2, <1>3, <1>5, <2>1 DEF Positions
<1>. QED
  BY <1>4, <1>5

\* Serving the device at idx is its turn, and puts it last.
LEMMA TurnsScanHit ==
    ASSUME IInv, WakeInv, TurnsInv, ScanHit
    PROVE  TurnsInv' /\ Turn
<1>. Types /\ QueuesInv
  BY DEF IInv
<1>0. PICK idx : idx = (rrIndex + scan) % Len(order)
  OBVIOUS
<1>. DEFINE d == At(idx)
<1>1. /\ idx \in Positions /\ Len(order) \in Nat \ {0}
      /\ rrIndex \in 0..Len(order) /\ scan \in Nat
      /\ idx = IF rrIndex + scan < Len(order) THEN rrIndex + scan
                                              ELSE rrIndex + scan - Len(order)
  BY <1>0, ScanIndex DEF ScanHit
<1>2. /\ queues[d] # <<>> /\ cur' = Head(queues[d]) /\ rrIndex' = idx + 1
      /\ passed' = [e \in Devices |->
            IF e = d \/ queues[e] = <<>> THEN {} ELSE passed[e] \union {d}]
      /\ scan' = 0 /\ UNCHANGED <<queues, order>>
  BY <1>0 DEF ScanHit, At
<1>3. \A p \in Positions : At(p) \in Devices
  BY LenProperties, ElementOfSeq DEF Positions, At, Types
<1>4. d \in Devices /\ DeviceOf[cur'] = d
  BY <1>1, <1>2, <1>3, HeadFacts
<1>. HIDE DEF d
<1>. At(idx) = d
  BY DEF d
<1>5. /\ Positions' = Positions /\ \A p \in Positions : At(p)' = At(p)
      /\ Positions = 0..(Len(order) - 1) /\ Len(order)' = Len(order)
  BY <1>2 DEF Positions, At
<1>6. /\ rrIndex' = idx + 1 /\ scan' = 0 /\ Len(order') = Len(order)
      /\ Len(order) \in Nat /\ rrIndex \in Nat /\ rrIndex <= Len(order)
      /\ scan \in Nat /\ scan < Len(order)
      /\ \/ rrIndex + scan < Len(order) /\ idx = rrIndex + scan
         \/ rrIndex + scan >= Len(order) /\ idx = rrIndex + scan - Len(order)
  BY <1>1, <1>2 DEF ScanHit
<1>7. ASSUME NEW p \in Positions
      PROVE  /\ ~Scanned(p)'
             /\ p # idx => /\ Scanned(p) \/ (Later(idx, p) /\ ~Later(p, idx))
                           /\ Later(p, idx)'
  <2>1. p \in Nat /\ p < Len(order)
    BY <1>1, <1>5
  <2>2. ~Scanned(p)'
    BY <1>6, <2>1 DEF Scanned
  <2>3. ASSUME p # idx, ~Scanned(p) PROVE Later(idx, p) /\ ~Later(p, idx)
    BY <1>6, <2>1, <2>3 DEF Scanned, Later
  <2>4. p # idx => Later(p, idx)'
    BY <1>6, <2>1 DEF Later
  <2>. QED
    BY <2>2, <2>3, <2>4
<1>8. ASSUME NEW p \in Positions, p # idx, ~Scanned(p),
             NEW q \in Positions, q # idx, Later(p, q)
      PROVE  Later(p, q)'
  <2>1. p \in Nat /\ p < Len(order) /\ q \in Nat /\ q < Len(order)
    BY <1>1, <1>5
  <2>. QED
    BY <1>6, <1>8, <2>1 DEF Scanned, Later
<1>9. ASSUME NEW p \in Positions, passed[At(p)] # {} PROVE ~Scanned(p)
  BY <1>9 DEF TurnsInv
<1>10. Turn
  <2>. SUFFICES ASSUME NEW e \in Devices, queues[e] # <<>>, e # d, d \in passed[e]
                PROVE  FALSE
    BY <1>4 DEF Turn
  <2>1. PICK p \in Positions : At(p) = e
    BY DEF TurnsInv
  <2>2. p # idx /\ ~Scanned(p) /\ Later(p, idx)
    BY <1>1, <1>9, <2>1 DEF TurnsInv
  <2>. QED
    BY <1>7, <2>2
<1>11. ASSUME NEW p \in Positions, NEW q \in Positions, At(q) \in passed'[At(p)]
       PROVE  Later(p, q)'
  <2>1. At(p) # d /\ queues[At(p)] # <<>>
    <3>1. At(p) \in Devices
      BY <1>3
    <3>2. passed'[At(p)] = IF At(p) = d \/ queues[At(p)] = <<>> THEN {}
                                                            ELSE passed[At(p)] \union {d}
      BY <1>2, <3>1
    <3>. QED
      BY <1>11, <3>2
  <2>2. CASE q = idx
    BY <1>1, <1>7, <2>1, <2>2
  <2>3. CASE q # idx
    <3>1. At(q) # d
      BY <1>1, <2>3 DEF TurnsInv
    <3>2. At(q) \in passed[At(p)]
      BY <1>2, <1>3, <1>11, <2>1, <3>1
    <3>. QED
      BY <1>1, <1>8, <1>9, <2>1, <2>3, <3>2 DEF TurnsInv
  <2>. QED
    BY <2>2, <2>3
<1>12. ASSUME NEW e \in Devices, NEW f \in passed'[e]
       PROVE  /\ \E p \in Positions : At(p) = f
              /\ \E p \in Positions : At(p) = e
  <2>1. queues[e] # <<>> /\ (f = d \/ f \in passed[e])
    BY <1>2, <1>12
  <2>2. PICK p \in 1..Len(order) : order[p] = e
    <3>1. /\ Head(queues[e]) \in Items /\ DeviceOf[Head(queues[e])] = e
          /\ call[Head(queues[e])] # "idle"
      BY <2>1, HeadFacts
    <3>. QED
      BY <3>1 DEF WakeInv
  <2>3. p - 1 \in Positions /\ At(p - 1) = e
    BY <1>1, <2>2 DEF Positions, At
  <2>. QED
    BY <1>1, <2>1, <2>3 DEF TurnsInv
<1>13. \A p, q \in Positions' : (At(p) = At(q))' => p = q
  BY <1>5 DEF TurnsInv
<1>14. \A e \in Devices : queues'[e] = <<>> => passed'[e] = {}
  BY <1>2
<1>15. \A p \in Positions' : Scanned(p)' => passed'[At(p)'] = {}
  BY <1>5, <1>7
<1>16. \A p, q \in Positions' : At(q)' \in passed'[At(p)'] => Later(p, q)'
  BY <1>5, <1>11
<1>17. \A e \in Devices : \A f \in passed'[e] :
          /\ \E p \in Positions' : At(p)' = f
          /\ \E p \in Positions' : At(p)' = e
  BY <1>5, <1>12
<1>. QED
  BY <1>10, <1>13, <1>14, <1>15, <1>16, <1>17 DEF TurnsInv

\* A queue that is created comes last, and the scan is not under way.
LEMMA TurnsCreate ==
    ASSUME IInv, WakeInv, TurnsInv, NEW i \in Items, GetOrCreateQueue(i)
    PROVE  TurnsInv'
<1>. Types
  BY DEF IInv
<1>1. /\ scan = 0 /\ UNCHANGED <<queues, rrIndex, scan, passed>>
      /\ Len(order) \in Nat /\ rrIndex \in 0..Len(order)
  BY LenProperties DEF GetOrCreateQueue, ManagerLocked, WakeInv, Types,
     scheduler, history
<1>2. CASE order' = order
  BY <1>1, <1>2, TurnsKeep
<1>3. CASE DeviceOf[i] \notin Range(order) /\ order' = Append(order, DeviceOf[i])
  <2>1. PICK n : n = Len(order)
    OBVIOUS
  <2>2. /\ Len(order') = n + 1 /\ order'[n + 1] = DeviceOf[i]
        /\ \A p \in 1..n : order'[p] = order[p]
    BY <1>3, <2>1, DeviceOfAssumption, PushFacts DEF Types
  <2>3. /\ Positions = 0..(n - 1) /\ Positions' = 0..n
        /\ \A p \in Positions : At(p)' = At(p)
        /\ At(n)' = DeviceOf[i]
        /\ \A p \in Positions : At(p) # DeviceOf[i]
    BY <1>1, <1>3, <2>1, <2>2 DEF Positions, At, Range
  <2>4. n \in Nat /\ \A p \in Positions' : p \in Positions \/ p = n
    BY <1>1, <2>1, <2>3
  <2>5. \A p \in Positions : At(p) \in Devices
    BY LenProperties, ElementOfSeq DEF Positions, At, Types
  <2>6. ASSUME NEW p \in Positions', NEW q \in Positions',
               At(q)' \in passed[At(p)']
        PROVE  p \in Positions /\ q \in Positions /\ Later(p, q)
    <3>1. At(p)' \in Devices
      BY <2>3, <2>4, <2>5, DeviceOfAssumption
    <3>2. PICK r, t \in Positions : At(r) = At(q)' /\ At(t) = At(p)'
      BY <2>6, <3>1 DEF TurnsInv
    <3>3. p # n /\ q # n
      BY <2>3, <3>2
    <3>. QED
      BY <2>3, <2>4, <2>6, <3>3 DEF TurnsInv
  <2>7. \A p, q \in Positions' : At(p)' = At(q)' => p = q
    BY <2>3, <2>4 DEF TurnsInv
  <2>8. ASSUME NEW p \in Positions' PROVE ~Scanned(p)'
    <3>1. scan' = 0 /\ rrIndex' = rrIndex /\ rrIndex \in 0..n /\ p \in 0..n
      BY <1>1, <2>1, <2>3
    <3>. QED
      BY <2>2, <2>4, <3>1 DEF Scanned
  <2>9. \A p, q : Later(p, q)' <=> Later(p, q)
    BY <1>1 DEF Later
  <2>10. \A p \in Positions : p \in Positions'
    BY <2>3, <2>4
  <2>11. \A d \in Devices : \A e \in passed'[d] :
            /\ \E p \in Positions' : At(p)' = e
            /\ \E p \in Positions' : At(p)' = d
    BY <1>1, <2>3, <2>10 DEF TurnsInv
  <2>12. \A p, q \in Positions' : At(q)' \in passed'[At(p)'] => Later(p, q)'
    BY <1>1, <2>6, <2>9
  <2>13. \A d \in Devices : queues'[d] = <<>> => passed'[d] = {}
    BY <1>1 DEF TurnsInv
  <2>. QED
    BY <2>7, <2>8, <2>11, <2>12, <2>13 DEF TurnsInv
<1>. QED
  BY <1>2, <1>3 DEF GetOrCreateQueue

\* A scan goes on only after it has found an empty queue.
LEMMA TurnsScanMiss == ASSUME IInv, TurnsInv, ScanMiss PROVE TurnsInv'
<1>. Types
  BY DEF IInv
<1>0. PICK idx : idx = (rrIndex + scan) % Len(order)
  OBVIOUS
<1>1. /\ idx \in Positions /\ Len(order) \in Nat \ {0}
      /\ rrIndex \in 0..Len(order) /\ scan \in Nat
      /\ idx = IF rrIndex + scan < Len(order) THEN rrIndex + scan
                                              ELSE rrIndex + scan - Len(order)
  BY <1>0, ScanIndex DEF ScanMiss
<1>2. /\ queues[At(idx)] = <<>> /\ scan' = scan + 1
      /\ UNCHANGED <<queues, order, rrIndex, passed>>
  BY <1>0 DEF ScanMiss, At, shared, history
<1>3. /\ Positions' = Positions /\ Len(order') = Len(order)
      /\ \A p \in Positions : At(p) \in Devices /\ At(p)' = At(p)
      /\ \A p, q : Later(p, q)' <=> Later(p, q)
  BY <1>2, LenProperties, ElementOfSeq DEF Positions, At, Types, Later
<1>4. ASSUME NEW p \in Positions, Scanned(p)' PROVE Scanned(p) \/ p = idx
  <2>1. p \in Nat /\ p < Len(order)
    BY <1>1 DEF Positions
  <2>2. IF p >= rrIndex THEN p - rrIndex < scan + 1
                        ELSE p + Len(order) - rrIndex < scan + 1
    BY <1>2, <1>3, <1>4 DEF Scanned
  <2>. QED
    BY <1>1, <2>1, <2>2 DEF Scanned
<1>5. \A p \in Positions : Scanned(p)' => passed[At(p)] = {}
  BY <1>2, <1>3, <1>4 DEF TurnsInv
<1>. QED
  BY <1>2, <1>3, <1>5 DEF TurnsInv

LEMMA TurnsStep ==
    ASSUME IInv, WakeInv, TurnsInv, [Next]_vars
    PROVE  TurnsInv' /\ [Turn]_vars
<1>. USE DEF shared, signals, scheduler, receiver, history
<1>. Types /\ CurInv
  BY DEF IInv
<1>1. CASE ScanHit
  BY <1>1, TurnsScanHit
<1>2. CASE ScanMiss
  BY <1>2, TurnsScanMiss DEF ScanMiss, Turn
<1>3. ASSUME NEW i \in Items, GetOrCreateQueue(i) PROVE TurnsInv' /\ Turn
  BY <1>3, TurnsCreate DEF GetOrCreateQueue, Turn
<1>4. ASSUME NEW i \in Items, EnqueueWriteQueue(i) PROVE TurnsInv' /\ Turn
  <2>1. /\ queues' = [queues EXCEPT ![DeviceOf[i]] = Append(@, i)]
        /\ UNCHANGED <<order, rrIndex, scan, passed, pc>>
    BY <1>4 DEF EnqueueWriteQueue
  <2>2. Append(queues[DeviceOf[i]], i) # <<>>
    <3>1. queues[DeviceOf[i]] \in Seq(Items)
      BY DeviceOfAssumption DEF Types
    <3>. QED
      BY <3>1, PushFacts
  <2>3. \A d \in Devices : queues'[d] # <<>> \/ queues'[d] = queues[d]
    BY <2>1, <2>2 DEF Types
  <2>. QED
    BY <2>1, <2>3, TurnsKeep DEF Turn
<1>5. CASE ScanEmpty
  <2>1. /\ scan' = 0 /\ UNCHANGED <<queues, order, rrIndex, passed>>
        /\ pc' = "idle" /\ Len(order) \in Nat /\ rrIndex \in 0..Len(order)
    BY <1>5, LenProperties DEF ScanEmpty, Types
  <2>2. ASSUME NEW p \in Positions PROVE ~Scanned(p)'
    BY <2>1 DEF Scanned, Positions
  <2>3. /\ Positions' = Positions /\ \A p : At(p)' = At(p)
        /\ \A p, q : Later(p, q)' <=> Later(p, q)
    BY <2>1 DEF Positions, At, Later
  <2>. QED
    BY <2>1, <2>2, <2>3 DEF TurnsInv, Turn
<1>6. CASE PrepareFails \/ GiveUp \/ RxDequeue
  <2>1. /\ \A d \in Devices : \/ passed'[d] = passed[d] /\ queues'[d] = queues[d]
                              \/ queues'[d] # <<>> /\ passed'[d] = passed[d]
                              \/ passed'[d] = {}
        /\ UNCHANGED <<order, rrIndex, scan>> /\ (pc = "next" => pc' = "next")
    <3>1. ASSUME NEW d \in Devices, queues[d] # <<>>, NEW how, Leave(d, how)
          PROVE  \A e \in Devices : \/ passed'[e] = passed[e] /\ queues'[e] = queues[e]
                                    \/ queues'[e] # <<>> /\ passed'[e] = passed[e]
                                    \/ passed'[e] = {}
      <4>1. queues[d] \in Seq(Items) /\ Len(Tail(queues[d])) = Len(queues[d]) - 1
            /\ Len(queues[d]) \in Nat /\ Tail(queues[d]) \in Seq(Items)
        BY <3>1, PopFacts DEF Types
      <4>2. Len(queues[d]) # 1 => Tail(queues[d]) # <<>>
        <5>1. ASSUME NEW t, t = <<>> PROVE Len(t) = 0
          BY <5>1, EmptySeq
        <5>2. Tail(queues[d]) = <<>> => Len(Tail(queues[d])) = 0
          BY <5>1, Zenon
        <5>. QED
          BY <4>1, <5>2
      <4>3. queues'[d] = Tail(queues[d])
            /\ passed'[d] = IF Len(queues[d]) = 1 THEN {} ELSE passed[d]
        BY <3>1 DEF Leave, Types
      <4>4. \A e \in Devices \ {d} : passed'[e] = passed[e] /\ queues'[e] = queues[e]
        BY <3>1 DEF Leave, Types
      <4>. QED
        BY <4>2, <4>3, <4>4
    <3>2. CASE UNCHANGED <<queues, passed>>
      BY <1>6, <3>2 DEF PrepareFails, GiveUp, RxDequeue, BackToLoop
    <3>3. CASE PrepareFails \/ GiveUp
      BY <3>1, <3>3, <3>2, DeviceOfAssumption
         DEF PrepareFails, GiveUp, RemoveItem, IsHead, CurInv, BackToLoop, Working
    <3>4. CASE RxDequeue
      BY <3>1, <3>2, <3>4 DEF RxDequeue, Types, Frames
    <3>. QED
      BY <1>6, <3>3, <3>4
  <2>. QED
    BY <2>1, TurnsKeep DEF Turn
<1>7. ASSUME UNCHANGED vars \/ Stop \/ StopIdle \/ CheckStop \/ PreparePanics
             \/ Transmit \/ TransmitRefused \/ Await \/ IncRetry \/ WakeUp
             \/ OnWriteExhausted \/ RxLookup \/ (\E i \in Items : Wake(i))
             \/ (\E id \in MsgIds : PrepareMessage(id))
             \/ (\E f \in Frames : RxReceive(f))
      PROVE  TurnsInv' /\ Turn
  <2>1. UNCHANGED <<order, rrIndex, scan, passed, queues>> /\ (pc = "next" => pc' = "next")
    BY <1>7 DEF vars, Stop, StopIdle, CheckStop, PreparePanics, Transmit,
       TransmitRefused, Await, AwaitDone, AwaitTimeout, AwaitStop, IncRetry, WakeUp,
       OnWriteExhausted, RxLookup, Wake, PrepareMessage, RxReceive
  <2>. QED
    BY <2>1, TurnsKeep DEF Turn
<1>. QED
  BY <1>1, <1>2, <1>3, <1>4, <1>5, <1>6, <1>7
     DEF Next, EnqueuePoint, Schedule, Scan, Prepare, FinishAttempt, Receive

\* The turns are fair for any number of devices: whoever waits is served before
\* another device has its second turn (nextPending, rrIndex).
THEOREM RoundRobinHolds == Spec => RoundRobin
<1>1. Init => TurnsInv
  BY EmptySeq DEF Init, TurnsInv, Positions
<1>2. IInv /\ WakeInv /\ TurnsInv /\ [Next]_vars => TurnsInv' /\ [Turn]_vars
  BY TurnsStep
<1>. QED
  BY <1>1, <1>2, InductiveInvariant, WakeInvariant, PTL DEF Spec, RoundRobin, Turn

-----------------------------------------------------------------------------
(* Settled writes.                                                          *)

\* A settled write is not picked up again, and is put on air at most once more,
\* by the attempt that was under way (nextPending, transmit).
THEOREM SettledStaysSilentHolds == Spec => SettledStaysSilent
<1>. DEFINE Silent == \A i \in Items : done[i] # "open" /\ cur # i =>
                          attempts'[i] = attempts[i] /\ cur' # i
<1>. USE DEF shared, signals, scheduler, receiver, history
<1>1. ASSUME IInv, Next PROVE Silent
  <2>. Types /\ QueuesInv
    BY <1>1 DEF IInv
  <2>1. CASE ScanHit
    BY <2>1, ScanHitEffect
  <2>2. CASE Transmit \/ TransmitRefused
    BY <2>2 DEF Transmit, TransmitRefused, Types
  <2>3. ASSUME ~ScanHit, ~(Transmit \/ TransmitRefused)
        PROVE  UNCHANGED attempts /\ (UNCHANGED cur \/ cur' = NoItem)
    BY <1>1, <2>3 DEF Next, EnqueuePoint, GetOrCreateQueue, EnqueueWriteQueue,
       Wake, Stop, Schedule, Scan, ScanMiss, ScanEmpty, WakeUp, StopIdle,
       CheckStop, Prepare, PrepareMessage, PrepareFails, PreparePanics, Await,
       AwaitDone, AwaitTimeout, AwaitStop, FinishAttempt, IncRetry, GiveUp,
       OnWriteExhausted, Receive, RxReceive, RxLookup, RxDequeue, BackToLoop
  <2>. QED
    BY <2>1, <2>2, <2>3, NullsAssumption
<1>2. IInv /\ [Next]_vars => [Silent]_vars
  BY <1>1
<1>. QED
  BY <1>2, InductiveInvariant, PTL DEF Spec, SettledStaysSilent
-----------------------------------------------------------------------------
(* Whose RESPONSE it is.                                                     *)

\* A RESPONSE under way, or in the receiver's hands, answers a frame the device
\* has heard or one of an earlier run; the id of such a frame stays.
AirInv ==
    /\ \A f \in Frames : air[f] > 0 \/ (rx # "listen" /\ f = rxFrame) => Answers(f)
    /\ \A i \in heard : messageId[i] # NoMsg
    /\ AckedWasHeard

\* What keeps AirInv: ids, once given, and heard frames stay.
LEMMA AnswersStay ==
    ASSUME heard \subseteq heard', heard' \subseteq Items,
           \A i \in heard : messageId'[i] = messageId[i]
    PROVE  \A f : Answers(f) => Answers(f)'
BY DEF Answers

LEMMA AirStep == ASSUME IInv, AirInv, [Next]_vars PROVE AirInv'
<1>. Types /\ QueuesInv /\ CurInv
  BY DEF IInv
<1>. USE DEF shared, signals, scheduler, receiver, history
<1>1. ASSUME UNCHANGED <<messageId, heard, air>>,
             \/ rx' = "listen"
             \/ rx # "listen" /\ rxFrame' = rxFrame
             \/ UNCHANGED <<rx, rxFrame>>,
             \A i \in Items : done'[i] = "acked" => done[i] = "acked"
      PROVE  AirInv'
  BY <1>1 DEF AirInv, AckedWasHeard, Answers
<1>2. ASSUME NEW i \in Items, EnqueuePoint(i) PROVE AirInv'
  BY <1>1, <1>2 DEF EnqueuePoint, GetOrCreateQueue, EnqueueWriteQueue, Wake
<1>3. CASE Scan \/ WakeUp \/ StopIdle \/ CheckStop \/ PreparePanics \/ Stop
           \/ TransmitRefused \/ Await \/ IncRetry \/ OnWriteExhausted \/ UNCHANGED vars
  BY <1>1, <1>3 DEF Scan, ScanHit, ScanMiss, ScanEmpty, WakeUp, StopIdle, CheckStop,
     PreparePanics, Stop, TransmitRefused, Await, AwaitDone, AwaitTimeout, AwaitStop,
     IncRetry, OnWriteExhausted, BackToLoop, vars
<1>4. CASE PrepareFails \/ GiveUp
  <2>1. cur \in Items /\ RemoveItem(cur) /\ UNCHANGED <<messageId, heard, air, rx, rxFrame>>
    BY <1>4 DEF PrepareFails, GiveUp, CurInv, Working
  <2>2. \A i \in Items : done'[i] = "acked" => done[i] = "acked"
    BY <2>1, RemoveItemEffect
  <2>. QED
    BY <1>1, <2>1, <2>2
<1>5. ASSUME NEW id \in MsgIds, PrepareMessage(id) PROVE AirInv'
  <2>1. /\ cur \in Items /\ messageId[cur] = NoMsg /\ IsHead(cur)
        /\ messageId' = [messageId EXCEPT ![cur] = id]
        /\ UNCHANGED <<heard, air, rx, rxFrame, done>>
    BY <1>5 DEF PrepareMessage, CurInv, Working
  <2>2. done[cur] = "open"
    BY <2>1, HeadFacts, DeviceOfAssumption DEF IsHead
  <2>3. \A i \in heard : messageId'[i] = messageId[i] /\ i \in Items
    BY <2>1 DEF AirInv, Types
  <2>4. \A f : Answers(f) => Answers(f)'
    BY <2>1, <2>3, AnswersStay DEF Types
  <2>5. \A i \in Items : done[i] = "acked" => messageId'[i] = messageId[i]
    BY <2>1, <2>2 DEF Types
  <2>. QED
    BY <2>1, <2>3, <2>4, <2>5 DEF AirInv, AckedWasHeard
<1>6. CASE Transmit
  <2>1. /\ cur \in Items /\ messageId[cur] # NoMsg
        /\ heard \subseteq heard' /\ heard' \subseteq heard \union {cur}
        /\ UNCHANGED <<messageId, rx, rxFrame, done>>
    BY <1>6 DEF Transmit, CurInv, Working
  <2>2. \A f : Answers(f) => Answers(f)'
    BY <2>1, AnswersStay DEF Types
  <2>3. ASSUME NEW f \in Frames, air'[f] > 0
        PROVE  air[f] > 0 \/ Answers(f)'
    <3>1. \/ air'[f] = air[f]
          \/ f = <<DeviceOf[cur], messageId[cur]>> /\ cur \in heard'
      BY <1>6, <2>1 DEF Transmit, Types
    <3>. QED
      BY <2>1, <2>3, <3>1 DEF Answers
  <2>. QED
    BY <2>1, <2>2, <2>3 DEF AirInv, AckedWasHeard
<1>7. ASSUME NEW f \in Frames, RxReceive(f) PROVE AirInv'
  <2>1. /\ Answers(f) /\ rxFrame' = f
        /\ \A g \in Frames : air'[g] > 0 => air[g] > 0
        /\ UNCHANGED <<messageId, heard, done>>
    BY <1>7 DEF RxReceive, AirInv, Types
  <2>. QED
    BY <2>1 DEF AirInv, AckedWasHeard, Answers
<1>8. CASE RxLookup
  <2>1. /\ UNCHANGED <<messageId, heard, air, done>>
        /\ rx' = "listen" \/ (rx # "listen" /\ rxFrame' = rxFrame)
    BY <1>8 DEF RxLookup, NextValue, NextFrame
  <2>. QED
    BY <1>1, <2>1
<1>9. CASE RxDequeue
  <2>1. /\ UNCHANGED <<messageId, heard, air>>
        /\ rx' = "listen" \/ (rx # "listen" /\ rxFrame' = rxFrame)
    BY <1>9 DEF RxDequeue, NextValue, NextFrame
  <2>2. rxFrame \in Frames /\ Answers(rxFrame)
    BY <1>9 DEF RxDequeue, AirInv, Types
  <2>3. \A i \in Items : done'[i] = "acked" =>
           done[i] = "acked" \/ rxFrame = <<DeviceOf[i], messageId[i]>>
    <3>. DEFINE d == rxFrame[1]
                h == Head(queues[d])
    <3>1. d \in Devices /\ rxFrame = <<d, rxFrame[2]>>
      BY <2>2 DEF Frames
    <3>2. CASE queues[d] # <<>> /\ messageId[h] = rxFrame[2]
      <4>1. Leave(d, "acked")
        BY <1>9, <3>2 DEF RxDequeue
      <4>2. \A i \in Items \ {h} : done'[i] = done[i]
        BY <3>1, <3>2, <4>1, LeaveFacts
      <4>3. DeviceOf[h] = d
        BY <3>1, <3>2, HeadFacts
      <4>. QED
        BY <3>1, <3>2, <4>2, <4>3
    <3>3. CASE ~(queues[d] # <<>> /\ messageId[h] = rxFrame[2])
      BY <1>9, <3>3 DEF RxDequeue
    <3>. QED
      BY <3>2, <3>3
  <2>. QED
    BY <2>1, <2>2, <2>3 DEF AirInv, AckedWasHeard, Answers
<1>. QED
  BY <1>2, <1>3, <1>4, <1>5, <1>6, <1>7, <1>8, <1>9
  DEF Next, Schedule, Prepare, FinishAttempt, Receive

\* A write is acked by an answer to a frame the device has heard, or to one of an
\* earlier run, of the same id (Transmit, dequeue).
THEOREM AckedWasHeardHolds == Spec => []AckedWasHeard
<1>1. Init => AirInv
  BY DEF Init, AirInv, AckedWasHeard, Answers
<1>2. IInv /\ AirInv /\ [Next]_vars => AirInv'
  BY AirStep
<1>3. AirInv => AckedWasHeard
  BY DEF AirInv
<1>. QED
  BY <1>1, <1>2, <1>3, InductiveInvariant, PTL DEF Spec
=============================================================================
