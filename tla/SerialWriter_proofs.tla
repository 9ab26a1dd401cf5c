-------------------------- MODULE SerialWriter_proofs --------------------------
(***************************************************************************)
(* Theorems about the serial writer, for every number of frames, of calls  *)
(* of Enable and of slots in the queue.                                    *)
(***************************************************************************)
EXTENDS SerialWriter, TLAPS

\* A drainer that was told to end, or has ended, was started before; it ends
\* only when told.
DrainerInv ==
    /\ \A d \in done : drainer[d] # "unborn"
    /\ \A d \in Drainers : drainer[d] = "gone" => d \in done
    /\ OneDrainer

\* Where the accepted frames of a drainer are: on air, in its hand or in its
\* queue, in the order they were accepted.
OrderInv ==
    /\ \A f \in Frames : call[f] = "sent" => \E i \in DOMAIN accepted : accepted[i] = f
    /\ \A i \in DOMAIN air : call[air[i]] = "sent"
    /\ \A d \in Drainers : drainer[d] = "write" => holding[d] # NoFrame
    /\ \A d \in Drainers : holding[d] # NoFrame =>
          /\ call[holding[d]] = "sent" /\ target[holding[d]] = d
          /\ \A j \in DOMAIN queue[d] : Before(accepted, holding[d], queue[d][j])
          /\ \A i \in DOMAIN air : target[air[i]] = d => Before(accepted, air[i], holding[d])
    /\ \A d \in Drainers : \A j \in DOMAIN queue[d] :
          /\ call[queue[d][j]] = "sent" /\ target[queue[d][j]] = d
          /\ \A i \in DOMAIN queue[d] : i < j => Before(accepted, queue[d][i], queue[d][j])
          /\ \A i \in DOMAIN air : target[air[i]] = d => Before(accepted, air[i], queue[d][j])
    /\ InOrderOnce

IInv == TypeOK /\ DrainerInv /\ OrderInv

\* The case distinction behind initWriteQueue.
LEMMA InitQueue ==
    ASSUME IInv, initWriteQueue
    PROVE  /\ writeQueue' \in Drainers
           /\ drainer' \in [Drainers -> {"unborn", "select", "write", "pause", "gone"}]
           /\ \A d \in Drainers : drainer[d] # "unborn" => drainer'[d] = drainer[d]
           /\ \A d \in Drainers : drainer'[d] = "gone" => drainer[d] = "gone"
           /\ {d \in Drainers : drainer'[d] \notin {"unborn", "gone"} /\ d \notin done}
                 = {writeQueue'}
<1>1. CASE HasQueue
  BY <1>1, NoQueueAssumption DEF IInv, TypeOK, DrainerInv, OneDrainer, Alive,
     initWriteQueue, HasQueue, Drainers
<1>2. CASE ~HasQueue
  <2>1. PICK d \in Drainers : /\ IsFresh(d)
                              /\ writeQueue' = d
                              /\ drainer' = [drainer EXCEPT ![d] = "select"]
    BY <1>2 DEF initWriteQueue, HasQueue
  <2>2. drainer[d] = "unborn" /\ d \notin done
    BY <2>1 DEF IsFresh, IInv, DrainerInv
  <2>3. {e \in Drainers : drainer[e] \notin {"unborn", "gone"} /\ e \notin done} = {}
    BY <1>2 DEF IInv, DrainerInv, OneDrainer, Alive
  <2> QED
    BY <2>1, <2>2, <2>3 DEF IInv, TypeOK
<1> QED
  BY <1>1, <1>2

LEMMA InitInv == Init => IInv
<1> SUFFICES ASSUME Init PROVE IInv
  OBVIOUS
<1> USE DEF Init
<1>1. TypeOK
  BY BoundsAssumption, FramesAssumption DEF TypeOK, Calling, Drainers, Managers, Frames
<1>2. DrainerInv
  BY NoQueueAssumption DEF DrainerInv, OneDrainer, Alive, HasQueue, Drainers
<1>3. OrderInv
  BY FramesAssumption DEF OrderInv, InOrderOnce, Drainers
<1> QED
  BY <1>1, <1>2, <1>3 DEF IInv

\* Every action keeps the types.
LEMMA TypeStep == IInv /\ [Next]_vars => TypeOK'
<1> SUFFICES ASSUME IInv, [Next]_vars PROVE TypeOK'
  OBVIOUS
<1> USE DEF IInv
<1>1. ASSUME NEW d \in Drainers, Drain(d) PROVE TypeOK'
  <2>1. CASE DrainerTakes(d)
    <3>1. Head(queue[d]) \in Frames /\ Tail(queue[d]) \in Seq(Frames)
      BY <2>1 DEF TypeOK, DrainerTakes
    <3> QED
      BY <2>1, <3>1 DEF TypeOK, DrainerTakes, calls, life, history
  <2>2. CASE DrainerEnds(d)
    BY <2>2 DEF TypeOK, DrainerEnds, calls, life, history
  <2>3. CASE DrainerWrites(d)
    <3>1. holding[d] \in Frames
      BY <2>3 DEF TypeOK, DrainerWrites, OrderInv
    <3>2. air' \in Seq(Frames)
      BY <2>3, <3>1 DEF TypeOK, DrainerWrites
    <3>3. drainer' \in [Drainers -> {"unborn", "select", "write", "pause", "gone"}]
      BY <2>3 DEF TypeOK, DrainerWrites, AfterWrite
    <3>4. holding' \in [Drainers -> Frames \cup {NoFrame}]
      BY <2>3 DEF TypeOK, DrainerWrites
    <3> QED
      BY <2>3, <3>2, <3>3, <3>4 DEF TypeOK, DrainerWrites, calls, life
  <2>4. CASE DrainerRests(d)
    BY <2>4 DEF TypeOK, DrainerRests, calls, life, history
  <2> QED
    BY <1>1, <2>1, <2>2, <2>3, <2>4 DEF Drain
<1>2. ASSUME NEW m \in Managers, NEW f \in Requests, Request(m, f) PROVE TypeOK'
  <2>1. call' \in [Frames -> Calling \cup {"new", "sent", "refused"}]
    BY <1>2 DEF TypeOK, Request, Calling
  <2>2. inHand' \in [Managers -> Requests \cup {NoFrame}]
    BY <1>2 DEF TypeOK, Request
  <2>3. \A g \in Frames : call'[g] \in {"send", "sent"} => target'[g] # NoQueue
    BY <1>2 DEF TypeOK, Request, Frames
  <2> QED
    BY <1>2, <2>1, <2>2, <2>3 DEF TypeOK, Request, drains, history
<1>3. ASSUME NEW f \in Acks, Acknowledge(f) PROVE TypeOK'
  BY <1>3 DEF TypeOK, Acknowledge, Frames, drains, life, history, Calling
<1>4. ASSUME NEW f \in Frames, WriteToLoRaRaw(f) PROVE TypeOK'
  <2>1. CASE WriteInit(f)
    <3>1. /\ writeQueue' \in Drainers
          /\ drainer' \in [Drainers -> {"unborn", "select", "write", "pause", "gone"}]
      BY <2>1, InitQueue DEF WriteInit
    <3> QED
      BY <2>1, <3>1 DEF TypeOK, WriteInit, life, history, Calling
  <2>2. CASE WriteChecksPort(f)
    BY <2>2 DEF TypeOK, WriteChecksPort, drains, life, history, Calling
  <2>3. CASE WriteGetsQueue(f)
    BY <2>3 DEF TypeOK, WriteGetsQueue, AfterGet, HasQueue, drains, life, history, Calling
  <2>4. CASE WriteSends(f)
    <3>1. target[f] \in Drainers
      BY <2>4 DEF TypeOK, WriteSends
    <3>2. queue' \in [Drainers -> Seq(Frames)] /\ accepted' \in Seq(Frames)
      BY <2>4, <3>1 DEF TypeOK, WriteSends, Queued
    <3>3. /\ call' \in [Frames -> Calling \cup {"new", "sent", "refused"}]
          /\ \A g \in Frames : call'[g] \in {"send", "sent"} => target'[g] # NoQueue
      BY <2>4 DEF TypeOK, WriteSends
    <3> QED
      BY <2>4, <3>2, <3>3 DEF TypeOK, WriteSends, life
  <2>5. CASE WriteTimesOut(f)
    BY <2>5 DEF TypeOK, WriteTimesOut, drains, life, history, Calling
  <2> QED
    BY <1>4, <2>1, <2>2, <2>3, <2>4, <2>5 DEF WriteToLoRaRaw
<1>5. ASSUME NEW m \in Managers, Finish(m) PROVE TypeOK'
  BY <1>5 DEF TypeOK, Finish, drains, calls, history
<1>6. CASE Enable
  <2>1. /\ writeQueue' \in Drainers
        /\ drainer' \in [Drainers -> {"unborn", "select", "write", "pause", "gone"}]
    BY <1>6, InitQueue DEF Enable
  <2>2. stopped' \subseteq Managers /\ manager' \in 0..MaxEnables
    BY <1>6, BoundsAssumption DEF TypeOK, Enable, Managers
  <2> QED
    BY <1>6, <2>1, <2>2 DEF TypeOK, Enable, calls, history
<1>7. CASE DisableStopsManager
  <2>1. stopped' \subseteq Managers
    BY <1>7, BoundsAssumption DEF TypeOK, DisableStopsManager, Managers
  <2> QED
    BY <1>7, <2>1 DEF TypeOK, DisableStopsManager, drains, calls, history
<1>8. CASE DisableStopsQueue
  BY <1>8 DEF TypeOK, DisableStopsQueue, stopWriteQueue, HasQueue, Dropped, calls, history
<1>9. CASE PortOpens
  BY <1>9 DEF TypeOK, PortOpens, drains, calls, life, history
<1>10. CASE PortLost
  BY <1>10 DEF TypeOK, PortLost, drains, calls, life, history
<1>11. CASE UNCHANGED vars
  BY <1>11 DEF TypeOK, vars, drains, calls, life, history
<1> QED
  BY <1>1, <1>2, <1>3, <1>4, <1>5, <1>6, <1>7, <1>8, <1>9, <1>10, <1>11 DEF Next

\* Every action keeps the one drainer.
LEMMA DrainerStep == IInv /\ [Next]_vars => DrainerInv'
<1> SUFFICES ASSUME IInv, [Next]_vars PROVE DrainerInv'
  OBVIOUS
<1> USE DEF IInv
<1>1. ASSUME UNCHANGED <<writeQueue, done, drainer>> PROVE DrainerInv'
  BY <1>1 DEF DrainerInv, OneDrainer, Alive, HasQueue
<1>2. ASSUME initWriteQueue, UNCHANGED done PROVE DrainerInv'
  <2>1. OneDrainer'
    BY <1>2, InitQueue, NoQueueAssumption DEF OneDrainer, Alive, HasQueue, Drainers
  <2> QED
    BY <1>2, <2>1, InitQueue DEF DrainerInv, TypeOK
<1>3. ASSUME NEW d \in Drainers, Drain(d) PROVE DrainerInv'
  <2>1. CASE DrainerEnds(d)
    BY <2>1 DEF DrainerEnds, DrainerInv, OneDrainer, Alive, HasQueue, TypeOK
  <2>2. ASSUME drainer[d] \notin {"unborn", "gone"},
               drainer' = [drainer EXCEPT ![d] = drainer'[d]],
               drainer'[d] \notin {"unborn", "gone"},
               UNCHANGED <<writeQueue, done>>
        PROVE  DrainerInv'
    <3>1. \A e \in Drainers : Alive(e)' <=> Alive(e)
      BY <2>2 DEF Alive, TypeOK
    <3>2. OneDrainer'
      BY <2>2, <3>1 DEF DrainerInv, OneDrainer, HasQueue
    <3> QED
      BY <2>2, <3>2 DEF DrainerInv, TypeOK
  <2>3. CASE DrainerTakes(d)
    BY <2>2, <2>3 DEF DrainerTakes, TypeOK
  <2>4. CASE DrainerWrites(d)
    BY <2>2, <2>4 DEF DrainerWrites, AfterWrite, TypeOK
  <2>5. CASE DrainerRests(d)
    BY <2>2, <2>5 DEF DrainerRests, TypeOK
  <2> QED
    BY <1>3, <2>1, <2>3, <2>4, <2>5 DEF Drain
<1>4. ASSUME NEW m \in Managers, NEW f \in Requests, Request(m, f) PROVE DrainerInv'
  BY <1>1, <1>4 DEF Request, drains
<1>5. ASSUME NEW f \in Acks, Acknowledge(f) PROVE DrainerInv'
  BY <1>1, <1>5 DEF Acknowledge, drains
<1>6. ASSUME NEW f \in Frames, WriteToLoRaRaw(f) PROVE DrainerInv'
  <2>1. CASE WriteInit(f)
    BY <1>2, <2>1 DEF WriteInit
  <2>2. CASE ~WriteInit(f)
    BY <1>1, <1>6, <2>2 DEF WriteToLoRaRaw, WriteChecksPort, WriteGetsQueue,
       WriteSends, WriteTimesOut, drains
  <2> QED
    BY <2>1, <2>2
<1>7. ASSUME NEW m \in Managers, Finish(m) PROVE DrainerInv'
  BY <1>1, <1>7 DEF Finish, drains
<1>8. CASE Enable
  BY <1>2, <1>8 DEF Enable
<1>9. CASE DisableStopsQueue
  <2>1. drainer' = drainer /\ writeQueue' = NoQueue
    BY <1>9 DEF DisableStopsQueue, stopWriteQueue, Dropped
  <2>2. {d \in Drainers : Alive(d)' /\ d \notin done'} = {}
    BY <1>9, <2>1 DEF DisableStopsQueue, stopWriteQueue, DrainerInv, OneDrainer,
       Alive, HasQueue
  <2>3. \A d \in done' : drainer[d] # "unborn"
    <3>1. HasQueue => drainer[writeQueue] # "unborn"
      BY DEF DrainerInv, OneDrainer, Alive, HasQueue
    <3> QED
      BY <1>9, <3>1 DEF DisableStopsQueue, stopWriteQueue, DrainerInv
  <2>4. done \subseteq done'
    BY <1>9 DEF DisableStopsQueue, stopWriteQueue
  <2> QED
    BY <2>1, <2>2, <2>3, <2>4 DEF DrainerInv, OneDrainer, HasQueue
<1>10. CASE DisableStopsManager \/ PortOpens \/ PortLost \/ UNCHANGED vars
  BY <1>1, <1>10 DEF DisableStopsManager, PortOpens, PortLost, vars, drains
<1> QED
  BY <1>3, <1>4, <1>5, <1>6, <1>7, <1>8, <1>9, <1>10 DEF Next

\* A frame that is accepted comes after all that were accepted before it.
LEMMA BeforeGrows ==
    ASSUME accepted \in Seq(Frames), NEW f \in Frames, accepted' = Append(accepted, f)
    PROVE  /\ \A g, h : Before(accepted, g, h) => Before(accepted', g, h)
           /\ \A g : (\E i \in DOMAIN accepted : accepted[i] = g) => Before(accepted', g, f)
           /\ \A g : (\E i \in DOMAIN accepted : accepted[i] = g) =>
                     \E i \in DOMAIN accepted' : accepted'[i] = g
           /\ \E i \in DOMAIN accepted' : accepted'[i] = f
<1>1. /\ Len(accepted') = Len(accepted) + 1
      /\ DOMAIN accepted = 1..Len(accepted) /\ DOMAIN accepted' = 1..Len(accepted')
      /\ \A i \in 1..Len(accepted) : accepted'[i] = accepted[i]
      /\ accepted'[Len(accepted) + 1] = f
      /\ Len(accepted) \in Nat
  OBVIOUS
<1>2. DOMAIN accepted \subseteq DOMAIN accepted'
  BY <1>1
<1>3. \A g, h : Before(accepted, g, h) => Before(accepted', g, h)
  BY <1>1, <1>2 DEF Before
<1>4. Len(accepted) + 1 \in DOMAIN accepted'
  BY <1>1
<1>5. \A g : (\E i \in DOMAIN accepted : accepted[i] = g) => Before(accepted', g, f)
  BY <1>1, <1>2, <1>4 DEF Before
<1> QED
  BY <1>1, <1>2, <1>3, <1>4, <1>5

\* OrderInv reads nothing but the accepted frames, their targets and places.
LEMMA OrderFrame ==
    ASSUME IInv,
           UNCHANGED <<queue, holding, accepted, air>>,
           \A d \in Drainers : drainer'[d] = "write" => drainer[d] = "write",
           \A f \in Frames : call'[f] = "sent" <=> call[f] = "sent",
           \A f \in Frames : call[f] = "sent" => target'[f] = target[f]
    PROVE  OrderInv'
<1>1. \A i \in DOMAIN air : air[i] \in Frames /\ call[air[i]] = "sent"
  BY DEF IInv, TypeOK, OrderInv
<1>2. \A d \in Drainers : \A j \in DOMAIN queue[d] : queue[d][j] \in Frames
  BY DEF IInv, TypeOK
<1>3. \A d \in Drainers : holding[d] # NoFrame => holding[d] \in Frames
  BY DEF IInv, TypeOK
<1>4. \A g, h : Before(accepted', g, h) <=> Before(accepted, g, h)
  BY DEF Before
<1>5. InOrderOnce'
  BY <1>1, <1>4 DEF IInv, OrderInv, InOrderOnce
<1>6. \A d \in Drainers : \A j \in DOMAIN queue'[d] :
          /\ call'[queue'[d][j]] = "sent" /\ target'[queue'[d][j]] = d
          /\ \A i \in DOMAIN queue'[d] : i < j => Before(accepted', queue'[d][i], queue'[d][j])
          /\ \A i \in DOMAIN air' : target'[air'[i]] = d => Before(accepted', air'[i], queue'[d][j])
  BY <1>1, <1>2, <1>4 DEF IInv, OrderInv
<1>7. \A d \in Drainers : holding'[d] # NoFrame =>
          /\ call'[holding'[d]] = "sent" /\ target'[holding'[d]] = d
          /\ \A j \in DOMAIN queue'[d] : Before(accepted', holding'[d], queue'[d][j])
          /\ \A i \in DOMAIN air' : target'[air'[i]] = d => Before(accepted', air'[i], holding'[d])
  BY <1>1, <1>3, <1>4 DEF IInv, OrderInv
<1>8. /\ \A f \in Frames : call'[f] = "sent" => \E i \in DOMAIN accepted' : accepted'[i] = f
      /\ \A i \in DOMAIN air' : call'[air'[i]] = "sent"
      /\ \A d \in Drainers : drainer'[d] = "write" => holding'[d] # NoFrame
  BY <1>1 DEF IInv, OrderInv
<1> QED
  BY <1>5, <1>6, <1>7, <1>8 DEF OrderInv

\* The head of a queue moves into the drainer's hand.
LEMMA OrderTakes ==
    ASSUME IInv, NEW d \in Drainers, DrainerTakes(d)
    PROVE  OrderInv'
<1> USE DEF IInv
<1>1. /\ queue[d] \in Seq(Frames) /\ queue[d] # <<>>
      /\ queue'[d] = Tail(queue[d]) /\ holding'[d] = Head(queue[d])
      /\ \A e \in Drainers \ {d} : queue'[e] = queue[e] /\ holding'[e] = holding[e]
      /\ UNCHANGED <<call, target, accepted, air>>
      /\ \A e \in Drainers \ {d} : drainer'[e] = drainer[e]
  BY DEF DrainerTakes, TypeOK, calls, history
<1>2. /\ 1 \in DOMAIN queue[d] /\ holding'[d] = queue[d][1]
      /\ \A j \in DOMAIN queue'[d] : /\ j + 1 \in DOMAIN queue[d]
                                     /\ queue'[d][j] = queue[d][j + 1]
                                     /\ j \in Nat /\ 1 < j + 1
  BY <1>1
<1>3. \A g, h : Before(accepted', g, h) <=> Before(accepted, g, h)
  BY <1>1 DEF Before
<1>4. holding'[d] \in Frames
  BY <1>1
<1>5. \A j \in DOMAIN queue'[d] : Before(accepted, holding'[d], queue'[d][j])
  BY <1>2 DEF OrderInv
<1>6. \A j \in DOMAIN queue'[d] :
          /\ call[queue'[d][j]] = "sent" /\ target[queue'[d][j]] = d
          /\ \A i \in DOMAIN queue'[d] : i < j => Before(accepted, queue'[d][i], queue'[d][j])
          /\ \A i \in DOMAIN air : target[air[i]] = d => Before(accepted, air[i], queue'[d][j])
  BY <1>2 DEF OrderInv
<1>7. \A e \in Drainers : \A j \in DOMAIN queue'[e] :
          /\ call'[queue'[e][j]] = "sent" /\ target'[queue'[e][j]] = e
          /\ \A i \in DOMAIN queue'[e] : i < j => Before(accepted, queue'[e][i], queue'[e][j])
          /\ \A i \in DOMAIN air : target[air[i]] = e => Before(accepted, air[i], queue'[e][j])
  <2> SUFFICES ASSUME NEW e \in Drainers
               PROVE  \A j \in DOMAIN queue'[e] :
                   /\ call'[queue'[e][j]] = "sent" /\ target'[queue'[e][j]] = e
                   /\ \A i \in DOMAIN queue'[e] : i < j => Before(accepted, queue'[e][i], queue'[e][j])
                   /\ \A i \in DOMAIN air : target[air[i]] = e => Before(accepted, air[i], queue'[e][j])
    OBVIOUS
  <2>1. CASE e = d
    BY <1>1, <1>6, <2>1
  <2>2. CASE e # d
    <3>1. queue'[e] = queue[e] /\ UNCHANGED <<call, target>>
      BY <1>1, <2>2
    <3> QED
      BY <3>1 DEF OrderInv
  <2> QED
    BY <2>1, <2>2
<1>8. \A e \in Drainers : holding'[e] # NoFrame =>
          /\ call'[holding'[e]] = "sent" /\ target'[holding'[e]] = e
          /\ \A j \in DOMAIN queue'[e] : Before(accepted, holding'[e], queue'[e][j])
          /\ \A i \in DOMAIN air : target[air[i]] = e => Before(accepted, air[i], holding'[e])
  <2>1. ASSUME NEW e \in Drainers \ {d}
        PROVE  queue'[e] = queue[e] /\ holding'[e] = holding[e]
    BY <1>1
  <2>2. /\ call[holding'[d]] = "sent" /\ target[holding'[d]] = d
        /\ \A i \in DOMAIN air : target[air[i]] = d => Before(accepted, air[i], holding'[d])
    BY <1>2 DEF OrderInv
  <2> SUFFICES ASSUME NEW e \in Drainers, holding'[e] # NoFrame
               PROVE  /\ call'[holding'[e]] = "sent" /\ target'[holding'[e]] = e
                      /\ \A j \in DOMAIN queue'[e] : Before(accepted, holding'[e], queue'[e][j])
                      /\ \A i \in DOMAIN air :
                            target[air[i]] = e => Before(accepted, air[i], holding'[e])
    OBVIOUS
  <2>3. CASE e = d
    BY <1>1, <1>5, <2>2, <2>3
  <2>4. CASE e # d
    <3>1. queue'[e] = queue[e] /\ holding'[e] = holding[e] /\ UNCHANGED <<call, target>>
      BY <1>1, <2>1, <2>4
    <3> QED
      BY <3>1 DEF OrderInv
  <2> QED
    BY <2>3, <2>4
<1>9. InOrderOnce'
  BY <1>1, <1>3 DEF OrderInv, InOrderOnce
<1>10. \A e \in Drainers : drainer'[e] = "write" => holding'[e] # NoFrame
  BY <1>1, <1>4, FramesAssumption DEF OrderInv
<1> QED
  BY <1>1, <1>3, <1>7, <1>8, <1>9, <1>10 DEF OrderInv

\* The frame in the drainer's hand goes on air, or is lost.
LEMMA OrderWrites ==
    ASSUME IInv, NEW d \in Drainers, DrainerWrites(d)
    PROVE  OrderInv'
<1> USE DEF IInv
<1> DEFINE h == holding[d]
<1>1. /\ h \in Frames /\ call[h] = "sent" /\ target[h] = d
      /\ \A j \in DOMAIN queue[d] : Before(accepted, h, queue[d][j])
      /\ \A i \in DOMAIN air : target[air[i]] = d => Before(accepted, air[i], h)
  BY FramesAssumption DEF DrainerWrites, TypeOK, OrderInv
<1>2. /\ holding'[d] = NoFrame
      /\ \A e \in Drainers \ {d} : holding'[e] = holding[e] /\ drainer'[e] = drainer[e]
      /\ drainer'[d] # "write"
      /\ UNCHANGED <<queue, call, target, accepted>>
  BY DEF DrainerWrites, TypeOK, AfterWrite, calls
<1>0. air \in Seq(Frames) /\ air' \in {air, Append(air, h)}
  BY DEF DrainerWrites, TypeOK
<1>4. /\ DOMAIN air = 1..Len(air) /\ Len(air) \in Nat
      /\ DOMAIN air' \subseteq Nat
  BY <1>0, <1>1
<1>3. \A i \in DOMAIN air' : \/ i \in DOMAIN air /\ air'[i] = air[i]
                             \/ i = Len(air) + 1 /\ air'[i] = h
  <2>1. CASE air' = air
    BY <2>1
  <2>2. CASE air' = Append(air, h)
    BY <1>0, <1>1, <2>2
  <2> QED
    BY <1>0, <2>1, <2>2
<1>5. \A x, y : Before(accepted', x, y) <=> Before(accepted, x, y)
  BY <1>2 DEF Before
<1>6. InOrderOnce'
  <2> SUFFICES ASSUME NEW i \in DOMAIN air', NEW j \in DOMAIN air',
                      i < j, target[air'[i]] = target[air'[j]]
               PROVE  Before(accepted, air'[i], air'[j])
    BY <1>2, <1>5 DEF InOrderOnce
  <2>1. i \in DOMAIN air /\ air'[i] = air[i]
    BY <1>3, <1>4
  <2>2. CASE j \in DOMAIN air /\ air'[j] = air[j]
    BY <2>1, <2>2 DEF OrderInv, InOrderOnce
  <2>3. CASE air'[j] = h
    BY <1>1, <2>1, <2>3
  <2> QED
    BY <1>3, <2>2, <2>3
<1>7. \A e \in Drainers : \A j \in DOMAIN queue'[e] :
          /\ call'[queue'[e][j]] = "sent" /\ target'[queue'[e][j]] = e
          /\ \A i \in DOMAIN queue'[e] : i < j => Before(accepted', queue'[e][i], queue'[e][j])
          /\ \A i \in DOMAIN air' : target'[air'[i]] = e => Before(accepted, air'[i], queue'[e][j])
  BY <1>1, <1>2, <1>3, <1>5 DEF OrderInv
<1>8. \A e \in Drainers : holding'[e] # NoFrame =>
          /\ call'[holding'[e]] = "sent" /\ target'[holding'[e]] = e
          /\ \A j \in DOMAIN queue'[e] : Before(accepted', holding'[e], queue'[e][j])
          /\ \A i \in DOMAIN air' : target'[air'[i]] = e => Before(accepted, air'[i], holding'[e])
  BY <1>1, <1>2, <1>3, <1>5 DEF OrderInv
<1>9. /\ \A f \in Frames : call'[f] = "sent" => \E i \in DOMAIN accepted' : accepted'[i] = f
      /\ \A i \in DOMAIN air' : call'[air'[i]] = "sent"
      /\ \A e \in Drainers : drainer'[e] = "write" => holding'[e] # NoFrame
  BY <1>1, <1>2, <1>3 DEF OrderInv
<1> QED
  BY <1>5, <1>6, <1>7, <1>8, <1>9 DEF OrderInv

\* A caller's frame enters the queue it was given.
LEMMA OrderSends ==
    ASSUME IInv, NEW f \in Frames, WriteSends(f)
    PROVE  OrderInv'
<1> USE DEF IInv
<1> DEFINE d == target[f]
<1>1. /\ d \in Drainers /\ queue[d] \in Seq(Frames)
      /\ queue'[d] = Append(queue[d], f)
      /\ \A e \in Drainers \ {d} : queue'[e] = queue[e]
      /\ UNCHANGED <<drainer, holding, target, air>>
      /\ call[f] # "sent" /\ call'[f] = "sent"
      /\ \A g \in Frames \ {f} : call'[g] = call[g]
      /\ accepted \in Seq(Frames) /\ accepted' = Append(accepted, f)
  BY DEF WriteSends, TypeOK, Queued
<1>2. /\ \A g, h : Before(accepted, g, h) => Before(accepted', g, h)
      /\ \A g : (\E i \in DOMAIN accepted : accepted[i] = g) => Before(accepted', g, f)
      /\ \A g \in Frames : call'[g] = "sent" => \E i \in DOMAIN accepted' : accepted'[i] = g
  <2>1. /\ \A g, h : Before(accepted, g, h) => Before(accepted', g, h)
        /\ \A g : (\E i \in DOMAIN accepted : accepted[i] = g) => Before(accepted', g, f)
        /\ \A g : (\E i \in DOMAIN accepted : accepted[i] = g) =>
                  \E i \in DOMAIN accepted' : accepted'[i] = g
        /\ \E i \in DOMAIN accepted' : accepted'[i] = f
    BY <1>1, BeforeGrows
  <2>2. ASSUME NEW g \in Frames, call'[g] = "sent"
        PROVE  \E i \in DOMAIN accepted' : accepted'[i] = g
    <3>1. CASE g = f
      BY <2>1, <3>1
    <3>2. CASE g # f
      <4>1. \E i \in DOMAIN accepted : accepted[i] = g
        BY <1>1, <2>2, <3>2 DEF OrderInv
      <4> QED
        BY <2>1, <4>1
    <3> QED
      BY <3>1, <3>2
  <2> QED
    BY <2>1, <2>2
<1>3. \A g \in Frames : call[g] = "sent" => call'[g] = "sent" /\ Before(accepted', g, f)
  BY <1>1, <1>2 DEF OrderInv
<1>4. \A i \in DOMAIN air : air[i] \in Frames /\ call[air[i]] = "sent"
  BY DEF TypeOK, OrderInv
<1>5. \A e \in Drainers : \A j \in DOMAIN queue[e] :
          queue[e][j] \in Frames /\ call[queue[e][j]] = "sent" /\ target[queue[e][j]] = e
  BY DEF TypeOK, OrderInv
<1>6. \A e \in Drainers : holding[e] # NoFrame =>
          holding[e] \in Frames /\ call[holding[e]] = "sent" /\ target[holding[e]] = e
  BY DEF TypeOK, OrderInv
<1>7. \A j \in DOMAIN queue'[d] : \/ j \in DOMAIN queue[d] /\ queue'[d][j] = queue[d][j]
                                  \/ j = Len(queue[d]) + 1 /\ queue'[d][j] = f
  BY <1>1
<1>8. \A j \in DOMAIN queue[d] : ~(Len(queue[d]) + 1 < j)
  BY <1>1
<1>9. \A e \in Drainers : \A j \in DOMAIN queue'[e] :
          /\ call'[queue'[e][j]] = "sent" /\ target'[queue'[e][j]] = e
          /\ \A i \in DOMAIN queue'[e] : i < j => Before(accepted', queue'[e][i], queue'[e][j])
          /\ \A i \in DOMAIN air' : target'[air'[i]] = e => Before(accepted', air'[i], queue'[e][j])
  <2> SUFFICES ASSUME NEW e \in Drainers, NEW j \in DOMAIN queue'[e]
               PROVE  /\ call'[queue'[e][j]] = "sent" /\ target'[queue'[e][j]] = e
                      /\ \A i \in DOMAIN queue'[e] : i < j => Before(accepted', queue'[e][i], queue'[e][j])
                      /\ \A i \in DOMAIN air' :
                            target'[air'[i]] = e => Before(accepted', air'[i], queue'[e][j])
    OBVIOUS
  <2>1. CASE e # d
    <3>1. queue'[e] = queue[e]
      BY <1>1, <2>1
    <3> QED
      BY <1>1, <1>2, <1>3, <1>5, <3>1 DEF OrderInv
  <2>2. CASE e = d /\ j \in DOMAIN queue[d] /\ queue'[d][j] = queue[d][j]
    <3>1. \A i \in DOMAIN queue'[d] : i < j => Before(accepted', queue'[d][i], queue'[d][j])
      <4> SUFFICES ASSUME NEW i \in DOMAIN queue'[d], i < j
                   PROVE  Before(accepted', queue'[d][i], queue'[d][j])
        OBVIOUS
      <4>1. i \in DOMAIN queue[d] /\ queue'[d][i] = queue[d][i]
        BY <1>7, <1>8, <2>2
      <4>2. Before(accepted, queue[d][i], queue[d][j])
        BY <1>1, <2>2, <4>1 DEF OrderInv
      <4> QED
        BY <1>2, <2>2, <4>1, <4>2
    <3>2. \A i \in DOMAIN air' :
              target'[air'[i]] = e => Before(accepted', air'[i], queue'[e][j])
      BY <1>1, <1>2, <2>2 DEF OrderInv
    <3>3. call'[queue'[e][j]] = "sent" /\ target'[queue'[e][j]] = e
      <4>1. queue[d][j] \in Frames /\ call[queue[d][j]] = "sent" /\ target[queue[d][j]] = d
        BY <1>1, <1>5, <2>2
      <4> HIDE DEF d
      <4>2. call'[queue[d][j]] = "sent" /\ target' = target
        BY <1>1, <1>3, <4>1
      <4> QED
        BY <2>2, <4>1, <4>2
    <3> QED
      BY <2>2, <3>1, <3>2, <3>3
  <2>3. CASE e = d /\ j = Len(queue[d]) + 1 /\ queue'[d][j] = f
    <3>1. \A i \in DOMAIN queue'[d] : i < j => Before(accepted', queue'[d][i], queue'[d][j])
      <4> SUFFICES ASSUME NEW i \in DOMAIN queue'[d], i < j
                   PROVE  Before(accepted', queue'[d][i], f)
        BY <2>3
      <4>1. i \in DOMAIN queue[d] /\ queue'[d][i] = queue[d][i]
        BY <1>1, <1>7, <2>3
      <4> QED
        BY <1>1, <1>3, <1>5, <4>1
    <3> QED
      BY <1>1, <1>3, <1>4, <2>3, <3>1
  <2> QED
    BY <1>7, <2>1, <2>2, <2>3
<1>10. \A e \in Drainers : holding'[e] # NoFrame =>
          /\ call'[holding'[e]] = "sent" /\ target'[holding'[e]] = e
          /\ \A j \in DOMAIN queue'[e] : Before(accepted', holding'[e], queue'[e][j])
          /\ \A i \in DOMAIN air' : target'[air'[i]] = e => Before(accepted', air'[i], holding'[e])
  <2> SUFFICES ASSUME NEW e \in Drainers, holding[e] # NoFrame
               PROVE  /\ call'[holding'[e]] = "sent" /\ target'[holding'[e]] = e
                      /\ \A j \in DOMAIN queue'[e] : Before(accepted', holding'[e], queue'[e][j])
                      /\ \A i \in DOMAIN air' :
                            target'[air'[i]] = e => Before(accepted', air'[i], holding'[e])
    BY <1>1
  <2>1. \A j \in DOMAIN queue'[e] : Before(accepted', holding'[e], queue'[e][j])
    <3> SUFFICES ASSUME NEW j \in DOMAIN queue'[e]
                 PROVE  Before(accepted', holding'[e], queue'[e][j])
      OBVIOUS
    <3>1. CASE j \in DOMAIN queue[e] /\ queue'[e][j] = queue[e][j]
      BY <1>1, <1>2, <3>1 DEF OrderInv
    <3>2. CASE queue'[e][j] = f
      BY <1>1, <1>3, <1>6, <3>2
    <3> QED
      BY <1>1, <1>7, <3>1, <3>2
  <2> QED
    BY <1>1, <1>2, <1>3, <1>6, <2>1 DEF OrderInv
<1>11. InOrderOnce'
  BY <1>1, <1>2 DEF OrderInv, InOrderOnce
<1>12. /\ \A i \in DOMAIN air' : call'[air'[i]] = "sent"
       /\ \A e \in Drainers : drainer'[e] = "write" => holding'[e] # NoFrame
  BY <1>1, <1>3, <1>4 DEF OrderInv
<1> QED
  BY <1>2, <1>9, <1>10, <1>11, <1>12 DEF OrderInv

\* Every action keeps the order.
LEMMA OrderStep == IInv /\ [Next]_vars => OrderInv'
<1> SUFFICES ASSUME IInv, [Next]_vars PROVE OrderInv'
  OBVIOUS
<1>1. ASSUME NEW d \in Drainers, Drain(d) PROVE OrderInv'
  <2>1. CASE DrainerEnds(d)
    <3>1. \A e \in Drainers : drainer'[e] = "write" => drainer[e] = "write"
      BY <2>1 DEF DrainerEnds, IInv, TypeOK
    <3> QED
      BY <2>1, <3>1, OrderFrame DEF DrainerEnds, calls, history
  <2>2. CASE DrainerRests(d)
    <3>1. \A e \in Drainers : drainer'[e] = "write" => drainer[e] = "write"
      BY <2>2 DEF DrainerRests, IInv, TypeOK
    <3> QED
      BY <2>2, <3>1, OrderFrame DEF DrainerRests, calls, history
  <2> QED
    BY <1>1, <2>1, <2>2, OrderTakes, OrderWrites DEF Drain
<1>2. ASSUME NEW m \in Managers, NEW f \in Requests, Request(m, f) PROVE OrderInv'
  <2>1. \A g \in Frames : call'[g] = "sent" <=> call[g] = "sent"
    BY <1>2 DEF Request, IInv, TypeOK
  <2> QED
    BY <1>2, <2>1, OrderFrame DEF Request, drains, history
<1>3. ASSUME NEW f \in Acks, Acknowledge(f) PROVE OrderInv'
  <2>1. \A g \in Frames : call'[g] = "sent" <=> call[g] = "sent"
    BY <1>3 DEF Acknowledge, IInv, TypeOK
  <2> QED
    BY <1>3, <2>1, OrderFrame DEF Acknowledge, drains, history
<1>4. ASSUME NEW f \in Frames, WriteToLoRaRaw(f) PROVE OrderInv'
  <2>1. CASE WriteInit(f)
    <3>1. \A g \in Frames : call'[g] = "sent" <=> call[g] = "sent"
      BY <2>1 DEF WriteInit, IInv, TypeOK
    <3>2. \A d \in Drainers : drainer'[d] = "write" => drainer[d] = "write"
      BY <2>1 DEF WriteInit, initWriteQueue, IsFresh, IInv, TypeOK
    <3> QED
      BY <2>1, <3>1, <3>2, OrderFrame DEF WriteInit, history
  <2>2. CASE WriteChecksPort(f)
    <3>1. \A g \in Frames : call'[g] = "sent" <=> call[g] = "sent"
      BY <2>2 DEF WriteChecksPort, IInv, TypeOK
    <3> QED
      BY <2>2, <3>1, OrderFrame DEF WriteChecksPort, drains, history
  <2>3. CASE WriteGetsQueue(f)
    <3>1. \A g \in Frames : /\ call'[g] = "sent" <=> call[g] = "sent"
                            /\ call[g] = "sent" => target'[g] = target[g]
      BY <2>3 DEF WriteGetsQueue, AfterGet, IInv, TypeOK
    <3> QED
      BY <2>3, <3>1, OrderFrame DEF WriteGetsQueue, drains, history
  <2>4. CASE WriteTimesOut(f)
    <3>1. \A g \in Frames : call'[g] = "sent" <=> call[g] = "sent"
      BY <2>4 DEF WriteTimesOut, IInv, TypeOK
    <3> QED
      BY <2>4, <3>1, OrderFrame DEF WriteTimesOut, drains, history
  <2> QED
    BY <1>4, <2>1, <2>2, <2>3, <2>4, OrderSends DEF WriteToLoRaRaw
<1>5. ASSUME NEW m \in Managers, Finish(m) PROVE OrderInv'
  BY <1>5, OrderFrame DEF Finish, drains, calls, history
<1>6. CASE Enable
  <2>1. \A d \in Drainers : drainer'[d] = "write" => drainer[d] = "write"
    BY <1>6 DEF Enable, initWriteQueue, IsFresh, IInv, TypeOK
  <2> QED
    BY <1>6, <2>1, OrderFrame DEF Enable, calls, history
<1>7. CASE DisableStopsManager
  BY <1>7, OrderFrame DEF DisableStopsManager, drains, calls, history
<1>8. CASE DisableStopsQueue
  BY <1>8, OrderFrame DEF DisableStopsQueue, calls, history
<1>9. CASE PortOpens \/ PortLost \/ UNCHANGED vars
  BY <1>9, OrderFrame DEF PortOpens, PortLost, vars, drains, calls, history
<1> QED
  BY <1>1, <1>2, <1>3, <1>4, <1>5, <1>6, <1>7, <1>8, <1>9 DEF Next

LEMMA Inductive == Spec => []IInv
<1>1. IInv /\ [Next]_vars => IInv'
  BY TypeStep, DrainerStep, OrderStep DEF IInv
<1> QED
  BY <1>1, InitInv, PTL DEF Spec

\* Every variable keeps its type, and no call sends on a nil channel
\* (WriteToLoRaRaw tests what getWriteQueue returns).
THEOREM TypeCorrectness == Spec => []TypeOK
BY Inductive, PTL DEF IInv

\* One drainer at most is meant to go on, and it is the one that gets frames
\* (initWriteQueue, stopWriteQueue).
THEOREM OneDrainerHolds == Spec => []OneDrainer
BY Inductive, PTL DEF IInv, DrainerInv

\* Each queue's frames go out in the order they were accepted
\* (WriteToLoRaRaw, processWriteQueue).
THEOREM InOrderOnceHolds == Spec => []InOrderOnce
BY Inductive, PTL DEF IInv, OrderInv
================================================================================
