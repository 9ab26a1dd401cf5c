---------------------------- MODULE RunLoop_proofs ----------------------------
(***************************************************************************)
(* Theorems about run loops, for every number of calls of Enable, of loops *)
(* and of handles: until addNetwork has started a loop beside the one of   *)
(* Enable, and if the sleep of Disable is long enough, at most one loop    *)
(* and one reader own the port.                                            *)
(*                                                                         *)
(* The invariant follows the interrupt: it is in the current channel while *)
(* Disable sleeps, and once a loop has taken it that loop is closing.      *)
(***************************************************************************)
EXTENDS RunLoop, FiniteSetTheorems, TLAPS

USE DEF Polls, AfterLoss, LossReported, CloseHandle, Go, Read, UpdateNetworkFault, faults

\* Where a loop has opened the port and not yet closed it.
HasPort == {"opened", "loop", "select", "handle", "close"}

\* While the module is enabled there is a channel to interrupt it by.
ChannelInv == host # "off" => interruptChan \in Channels

\* One loop at most, and the interrupt that ends it: in the channel, or taken.
InterruptInv ==
    /\ \A k, l \in Running : k = l
    /\ host = "off" => Running = {}
    /\ \A l \in Loops : loop[l] = "close" => host = "sleeping"
    /\ interrupt # {} => host = "sleeping" /\ interrupt = {interruptChan}
    /\ host = "sleeping" /\ interrupt = {} => \A l \in Running : loop[l] = "close"

\* An open handle is the one in Port, and the running loop has it.
PortInv ==
    /\ \A h \in Handles : handle[h] = "open" =>
          /\ h = Port
          /\ \E l \in Running : loop[l] \in HasPort
    /\ \A h \in Handles : handle[h] = "unused" => h # Port
    /\ \A l \in Loops : loop[l] \in HasPort \ {"close"} => Port \in Handles

\* DeadLinkIsFaulty without its exception.
FaultInv == \A l \in Loops :
    /\ loop[l] \in {"loop", "select", "handle"}
    /\ reader[l] = "ended"
    /\ ~closed[l]
    => fault \/ l \in unreported

\* A reader scans an open handle only for the running loop.
ReaderInv ==
    /\ \A l \in Loops : reader[l] = "start" =>
          /\ host # "off" /\ Port \in Handles
          /\ l \in Running \/ (Running = {} /\ host = "sleeping")
    /\ \A l \in Loops : reader[l] \in {"scan", "send"} =>
          /\ readerPort[l] \in Handles
          /\ handle[readerPort[l]] # "unused"
          /\ handle[readerPort[l]] = "open" => l \in Running
    /\ FaultInv

OwnerInv == InterruptInv /\ PortInv /\ ReaderInv

IInv == TypeOK /\ ChannelInv /\ (~added => OwnerInv)

\* What the steps of an owner's life start from.
Alone == TypeOK /\ ChannelInv /\ OwnerInv /\ ~added

LEMMA Bounds == MaxEnables \in Nat /\ MaxLoops \in Nat /\ MaxOpens \in Nat
BY BoundsAssumption

LEMMA InitInv == Init => IInv
<1> SUFFICES ASSUME Init PROVE IInv
  OBVIOUS
<1> USE DEF Init
<1>1. network \in BOOLEAN /\ fault \in BOOLEAN
  OBVIOUS
<1>2. /\ interruptChan \in 0..MaxEnables /\ Port \in 0..MaxOpens
      /\ listening \in [Loops -> 0..MaxEnables] /\ readerPort \in [Loops -> 0..MaxOpens]
  BY Bounds
<1>3. TypeOK
  BY <1>1, <1>2 DEF TypeOK
<1>4. ChannelInv /\ OwnerInv
  BY DEF ChannelInv, OwnerInv, InterruptInv, PortInv, ReaderInv, Running, HasPort,
         Handles, FaultInv
<1> QED
  BY <1>3, <1>4 DEF IInv

LEMMA TypeStep == TypeOK /\ ChannelInv /\ [Next]_vars => TypeOK'
<1> SUFFICES ASSUME TypeOK, ChannelInv, [Next]_vars PROVE TypeOK'
  OBVIOUS
<1> USE DEF TypeOK, life, port, runs, readers
<1>1. ASSUME NEW l \in Loops, Run(l) PROVE TypeOK'
  <2>1. CASE SerialOpens(l)
    <3>1. Port' \in 0..MaxOpens
      BY <2>1, Bounds DEF SerialOpens, Handles
    <3>2. handle' \in [Handles -> {"unused", "open", "lost", "closed"}]
      BY <2>1 DEF SerialOpens
    <3>3. loop'[l] = "opened" /\ reader[l] = "unborn"
      BY <2>1 DEF SerialOpens
    <3> QED
      BY <2>1, <3>1, <3>2, <3>3 DEF SerialOpens
  <2>2. CASE SerialOpenFails(l)
    BY <2>2 DEF SerialOpenFails
  <2>3. CASE RunPolls(l)
    BY <2>3 DEF RunPolls
  <2>4. CASE RunSleeps(l)
    BY <2>4 DEF RunSleeps
  <2>5. CASE RunIterates(l)
    BY <2>5 DEF RunIterates
  <2>6. CASE RunStartsReader(l)
    BY <2>6 DEF RunStartsReader
  <2>7. CASE RunSelects(l)
    BY <2>7 DEF RunSelects
  <2>8. CASE RunInterrupted(l)
    BY <2>8 DEF RunInterrupted
  <2>9. CASE RunSeesLoss(l)
    BY <2>9 DEF RunSeesLoss
  <2>10. CASE RunTakesPayload(l)
    BY <2>10 DEF RunTakesPayload
  <2>11. CASE RunHandled(l)
    BY <2>11 DEF RunHandled
  <2>12. CASE RunReturns(l)
    BY <2>12 DEF RunReturns
  <2> QED
    BY <1>1, <2>1, <2>2, <2>3, <2>4, <2>5, <2>6, <2>7, <2>8, <2>9, <2>10, <2>11,
       <2>12 DEF Run
<1>2. ASSUME NEW l \in Loops, Loop(l) PROVE TypeOK'
  <2>1. CASE ReaderStarts(l)
    BY <2>1 DEF ReaderStarts
  <2>2. CASE ReaderScans(l)
    BY <2>2 DEF ReaderScans
  <2>3. CASE ReaderSends(l)
    BY <2>3 DEF ReaderSends
  <2>4. CASE ReaderEnds(l)
    BY <2>4 DEF ReaderEnds
  <2> QED
    BY <1>2, <2>1, <2>2, <2>3, <2>4 DEF Loop
<1>3. CASE Enable
  BY <1>3, Bounds DEF Enable, Spawn, IsFirst
<1>4. CASE DisableStarts
  BY <1>4 DEF DisableStarts
<1>5. CASE DisableInterrupts
  BY <1>5 DEF DisableInterrupts, ChannelInv
<1>6. CASE DisableReturns
  BY <1>6 DEF DisableReturns
<1>7. CASE PortLost
  BY <1>7 DEF PortLost
<1>8. CASE addNetwork
  BY <1>8 DEF addNetwork, Spawn, IsFirst
<1>9. CASE DeleteNetwork
  BY <1>9 DEF DeleteNetwork
<1>10. CASE UNCHANGED vars
  BY <1>10 DEF vars
<1> QED
  BY <1>1, <1>2, <1>3, <1>4, <1>5, <1>6, <1>7, <1>8, <1>9, <1>10 DEF Next

\* The current channel.
LEMMA ChannelStep == TypeOK /\ ChannelInv /\ [Next]_vars => ChannelInv'
<1> SUFFICES ASSUME TypeOK, ChannelInv, [Next]_vars PROVE ChannelInv'
  OBVIOUS
<1>1. CASE UNCHANGED <<host, interruptChan>>
  BY <1>1 DEF ChannelInv
<1>2. CASE Enable
  BY <1>2, Bounds DEF Enable, ChannelInv, TypeOK, Channels
<1>3. CASE DisableStarts \/ DisableInterrupts \/ DisableReturns
  BY <1>3 DEF DisableStarts, DisableInterrupts, DisableReturns, ChannelInv
<1>4. ASSUME NEW l \in Loops, Run(l) PROVE UNCHANGED <<host, interruptChan>>
  BY <1>4 DEF Run, SerialOpens, SerialOpenFails, RunPolls, RunSleeps, RunIterates,
     RunStartsReader, RunSelects, RunInterrupted, RunSeesLoss, RunTakesPayload,
     RunHandled, RunReturns, life
<1>5. ASSUME NEW l \in Loops, Loop(l) PROVE UNCHANGED <<host, interruptChan>>
  BY <1>5 DEF Loop, ReaderStarts, ReaderScans, ReaderSends, ReaderEnds, life
<1>6. CASE addNetwork \/ DeleteNetwork \/ PortLost \/ UNCHANGED vars
  BY <1>1, <1>6 DEF addNetwork, DeleteNetwork, PortLost, life, vars
<1> QED
  BY <1>1, <1>2, <1>3, <1>4, <1>5, <1>6 DEF Next

\* The loops and the interrupt.
LEMMA InterruptStep ==
    ASSUME Patient
    PROVE  Alone /\ [Next]_vars /\ ~added' => InterruptInv'
<1> SUFFICES ASSUME Alone, [Next]_vars, ~added' PROVE InterruptInv'
  OBVIOUS
<1> USE DEF Alone, OwnerInv, ChannelInv, InterruptInv, Running, life, port, runs, readers
<1>1. ASSUME NEW l \in Loops, Run(l) PROVE InterruptInv'
  <2>1. ASSUME UNCHANGED <<host, interruptChan, interrupt>>, l \in Running,
               loop' = [loop EXCEPT ![l] = loop'[l]],
               loop[l] # "close", loop'[l] # "close"
        PROVE  InterruptInv'
    BY <2>1 DEF TypeOK
  <2>2. CASE SerialOpens(l)
    BY <2>1, <2>2 DEF SerialOpens, TypeOK
  <2>3. CASE SerialOpenFails(l)
    BY <2>1, <2>3 DEF SerialOpenFails, TypeOK
  <2>4. CASE RunSleeps(l)
    BY <2>1, <2>4 DEF RunSleeps, TypeOK
  <2>5. CASE RunIterates(l)
    BY <2>1, <2>5 DEF RunIterates, TypeOK
  <2>6. CASE RunStartsReader(l)
    BY <2>1, <2>6 DEF RunStartsReader, TypeOK
  <2>7. CASE RunSelects(l)
    BY <2>1, <2>7 DEF RunSelects, TypeOK
  <2>8. CASE RunSeesLoss(l)
    BY <2>1, <2>8 DEF RunSeesLoss, TypeOK
  <2>9. CASE RunTakesPayload(l)
    BY <2>1, <2>9 DEF RunTakesPayload, TypeOK
  <2>10. CASE RunHandled(l)
    BY <2>1, <2>10 DEF RunHandled, TypeOK
  <2>11. CASE RunPolls(l) \/ RunInterrupted(l)
    <3>1. interrupt' = {} /\ loop' = [loop EXCEPT ![l] = "close"] /\ l \in Running
      BY <2>11 DEF RunPolls, RunInterrupted, TypeOK
    <3>2. UNCHANGED <<host, interruptChan>>
      BY <2>11 DEF RunPolls, RunInterrupted
    <3>3. \A k \in Loops : loop'[k] \notin {"unborn", "gone"} => k = l
      BY <3>1 DEF TypeOK
    <3>4. host = "sleeping"
      BY <2>11 DEF RunPolls, RunInterrupted
    <3> QED
      BY <3>1, <3>2, <3>3, <3>4 DEF TypeOK
  <2>12. CASE RunReturns(l)
    BY <2>12 DEF RunReturns, TypeOK
  <2> QED
    BY <1>1, <2>2, <2>3, <2>4, <2>5, <2>6, <2>7, <2>8, <2>9, <2>10, <2>11, <2>12 DEF Run
<1>2. ASSUME NEW l \in Loops, Loop(l) PROVE InterruptInv'
  BY <1>2 DEF Loop, ReaderStarts, ReaderScans, ReaderSends, ReaderEnds
<1>3. CASE Enable
  <2>1. PICK l \in Loops : loop' = [loop EXCEPT ![l] = "open"]
    BY <1>3 DEF Enable, Spawn
  <2>2. Running' = {l}
    BY <1>3, <2>1 DEF Enable, TypeOK
  <2>3. interrupt' = {} /\ host' = "on" /\ interruptChan' \in Channels
    BY <1>3, Bounds DEF Enable, TypeOK, Channels
  <2>4. \A k \in Loops : loop'[k] # "close"
    BY <1>3, <2>1 DEF Enable, TypeOK
  <2> QED
    BY <2>2, <2>3, <2>4
<1>4. CASE DisableStarts
  BY <1>4 DEF DisableStarts
<1>5. CASE DisableInterrupts
  BY <1>5 DEF DisableInterrupts
<1>6. CASE DisableReturns
  BY <1>6 DEF DisableReturns, Sleeps
<1>7. CASE PortLost
  BY <1>7 DEF PortLost
<1>8. CASE DeleteNetwork \/ UNCHANGED vars
  BY <1>8 DEF DeleteNetwork, vars
<1>9. ~addNetwork
  BY DEF addNetwork
<1> QED
  BY <1>1, <1>2, <1>3, <1>4, <1>5, <1>6, <1>7, <1>8, <1>9 DEF Next

\* Who has the port: a handle that is open is the one in Port, and the running
\* loop has opened it.
LEMMA PortStep ==
    ASSUME Patient
    PROVE  Alone /\ [Next]_vars /\ ~added' => PortInv'
<1> SUFFICES ASSUME Alone, [Next]_vars, ~added' PROVE PortInv'
  OBVIOUS
<1> USE DEF Alone, OwnerInv, ChannelInv, PortInv, InterruptInv, Running, HasPort, life, port, runs, readers
<1>1. ASSUME NEW l \in Loops, Run(l) PROVE PortInv'
  <2>1. ASSUME UNCHANGED <<Port, handle>>, NEW to, loop' = [loop EXCEPT ![l] = to],
               to \notin {"unborn", "gone"},
               loop[l] \in HasPort => to \in HasPort,
               to \in HasPort \ {"close"} => loop[l] \in HasPort \ {"close"}
        PROVE  PortInv'
    BY <2>1 DEF TypeOK
  <2>2. CASE SerialOpens(l)
    <3>1. PICK h \in Handles : /\ handle[h] = "unused"
                               /\ handle' = [handle EXCEPT ![h] = "open"]
                               /\ Port' = h
      BY <2>2 DEF SerialOpens, IsFirst
    <3>2. \A g \in Handles : handle[g] # "open"
      BY <2>2 DEF SerialOpens
    <3>3. l \in Running' /\ loop'[l] = "opened"
      BY <2>2 DEF SerialOpens, TypeOK
    <3>4. \A g \in Handles : handle'[g] = "open" => g = h
      BY <3>1, <3>2 DEF TypeOK
    <3>5. handle'[h] = "open"
      BY <3>1 DEF TypeOK
    <3> QED
      BY <3>1, <3>3, <3>4, <3>5
  <2>3. CASE SerialOpenFails(l)
    BY <2>1, <2>3 DEF SerialOpenFails
  <2>4. CASE RunSleeps(l)
    BY <2>1, <2>4 DEF RunSleeps
  <2>5. CASE RunIterates(l)
    BY <2>1, <2>5 DEF RunIterates
  <2>6. CASE RunStartsReader(l)
    BY <2>1, <2>6 DEF RunStartsReader
  <2>7. CASE RunSelects(l)
    BY <2>1, <2>7 DEF RunSelects
  <2>8. CASE RunSeesLoss(l)
    BY <2>1, <2>8 DEF RunSeesLoss
  <2>9. CASE RunTakesPayload(l)
    BY <2>1, <2>9 DEF RunTakesPayload
  <2>10. CASE RunHandled(l)
    BY <2>1, <2>10 DEF RunHandled
  <2>11. CASE RunPolls(l)
    BY <2>1, <2>11 DEF RunPolls
  <2>12. CASE RunInterrupted(l)
    BY <2>1, <2>12 DEF RunInterrupted
  <2>13. CASE RunReturns(l)
    <3>1. \A h \in Handles : handle'[h] # "open"
      BY <2>13, Bounds DEF RunReturns, TypeOK, Handles
    <3>2. \A h \in Handles : handle'[h] = "unused" => handle[h] = "unused"
      BY <2>13 DEF RunReturns, TypeOK
    <3>3. \A k \in Loops : loop'[k] \in HasPort => loop[k] \in HasPort
      BY <2>13 DEF RunReturns, TypeOK
    <3> QED
      BY <2>13, <3>1, <3>2, <3>3 DEF RunReturns, TypeOK
  <2> QED
    BY <1>1, <2>2, <2>3, <2>4, <2>5, <2>6, <2>7, <2>8, <2>9, <2>10, <2>11, <2>12,
       <2>13 DEF Run
<1>2. ASSUME NEW l \in Loops, Loop(l) PROVE PortInv'
  BY <1>2 DEF Loop, ReaderStarts, ReaderScans, ReaderSends, ReaderEnds
<1>3. CASE Enable
  <2>1. PICK l \in Loops : loop[l] = "unborn" /\ loop' = [loop EXCEPT ![l] = "open"]
    BY <1>3 DEF Enable, Spawn
  <2> QED
    BY <1>3, <2>1 DEF Enable, TypeOK
<1>4. CASE DisableStarts \/ DisableInterrupts \/ DisableReturns
  BY <1>4 DEF DisableStarts, DisableInterrupts, DisableReturns
<1>5. CASE PortLost
  BY <1>5 DEF PortLost, TypeOK
<1>6. CASE DeleteNetwork \/ UNCHANGED vars
  BY <1>6 DEF DeleteNetwork, vars
<1>7. ~addNetwork
  BY DEF addNetwork
<1> QED
  BY <1>1, <1>2, <1>3, <1>4, <1>5, <1>6, <1>7 DEF Next

\* Who reads the port, and whether its end was noticed.
LEMMA ReaderStep ==
    ASSUME Patient
    PROVE  Alone /\ [Next]_vars /\ ~added' => ReaderInv'
<1> SUFFICES ASSUME Alone, [Next]_vars, ~added' PROVE ReaderInv'
  OBVIOUS
<1> USE DEF Alone, OwnerInv, ChannelInv, ReaderInv, FaultInv, InterruptInv,
            Running, HasPort, life, port, runs, readers
<1>1. ASSUME NEW l \in Loops, Run(l) PROVE ReaderInv'
  <2>1. ASSUME UNCHANGED <<Port, handle, host, faults, reader, readerPort, closed>>,
               l \in Running, NEW to, loop' = [loop EXCEPT ![l] = to], to \notin {"unborn", "gone"},
               loop[l] \in {"loop", "select", "handle"} \/ to \notin {"loop", "select", "handle"}
        PROVE  ReaderInv'
    BY <2>1 DEF TypeOK
  <2>2. CASE SerialOpens(l)
    <3>1. PICK h \in Handles : /\ handle[h] = "unused"
                               /\ handle' = [handle EXCEPT ![h] = "open"]
                               /\ Port' = h
      BY <2>2 DEF SerialOpens, IsFirst
    <3>2. \A k \in Loops : k # l => loop[k] \in {"unborn", "gone"}
      BY <2>2 DEF SerialOpens
    <3>3. \A k \in Loops : reader[k] # "start"
      BY <2>2, <3>2 DEF SerialOpens, TypeOK
    <3> QED
      BY <2>2, <3>1, <3>2, <3>3 DEF SerialOpens, TypeOK
  <2>3. CASE SerialOpenFails(l)
    <3>1. \A k \in Loops : loop'[k] \notin {"loop", "select", "handle"}
      BY <2>3 DEF SerialOpenFails, TypeOK
    <3> QED
      BY <2>3, <3>1 DEF SerialOpenFails, TypeOK
  <2>4. CASE RunSleeps(l)
    BY <2>4 DEF RunSleeps, TypeOK
  <2>5. CASE RunIterates(l)
    BY <2>1, <2>5 DEF RunIterates
  <2>6. CASE RunStartsReader(l)
    <3>1. /\ loop' = [loop EXCEPT ![l] = "loop"] /\ reader' = [reader EXCEPT ![l] = "start"]
          /\ UNCHANGED <<host, Port, handle, readerPort, closed>> /\ loop[l] = "opened"
      BY <2>6 DEF RunStartsReader
    <3>2. \A k \in Loops : k # l => loop[k] \in {"unborn", "gone"}
      BY <3>1
    <3>3. host # "off" /\ Port \in Handles
      BY <3>1 DEF PortInv
    <3> QED
      BY <3>1, <3>2, <3>3 DEF TypeOK
  <2>7. CASE RunSelects(l)
    BY <2>1, <2>7 DEF RunSelects
  <2>8. CASE RunSeesLoss(l)
    <3>1. /\ loop' = [loop EXCEPT ![l] = "loop"]
          /\ UNCHANGED <<host, Port, handle, reader, readerPort>> /\ loop[l] = "select"
      BY <2>8 DEF RunSeesLoss
    <3>2. fault' \/ l \in unreported'
      BY <2>8 DEF RunSeesLoss
    <3>3. \A k \in Loops : k # l => loop[k] \in {"unborn", "gone"}
      BY <3>1
    <3> QED
      BY <3>1, <3>2, <3>3 DEF TypeOK
  <2>9. CASE RunTakesPayload(l)
    BY <2>1, <2>9 DEF RunTakesPayload
  <2>10. CASE RunHandled(l)
    BY <2>1, <2>10 DEF RunHandled
  <2>11. CASE RunPolls(l)
    BY <2>1, <2>11 DEF RunPolls
  <2>12. CASE RunInterrupted(l)
    BY <2>1, <2>12 DEF RunInterrupted
  <2>13. CASE RunReturns(l)
    <3>1. \A h \in Handles : handle'[h] # "open"
      BY <2>13, Bounds DEF RunReturns, TypeOK, Handles, PortInv
    <3>2. \A h \in Handles : handle'[h] = "unused" => handle[h] = "unused"
      BY <2>13 DEF RunReturns, TypeOK
    <3>3. \A k \in Loops : loop'[k] \in {"unborn", "gone"}
      BY <2>13 DEF RunReturns, TypeOK
    <3>4. host = "sleeping"
      BY <2>13 DEF RunReturns
    <3> QED
      BY <2>13, <3>1, <3>2, <3>3, <3>4 DEF RunReturns, TypeOK
  <2> QED
    BY <1>1, <2>2, <2>3, <2>4, <2>5, <2>6, <2>7, <2>8, <2>9, <2>10, <2>11, <2>12,
       <2>13 DEF Run
<1>2. ASSUME NEW l \in Loops, Loop(l) PROVE ReaderInv'
  <2>1. CASE ReaderStarts(l)
    BY <2>1 DEF ReaderStarts, TypeOK, PortInv
  <2>2. CASE ReaderScans(l)
    BY <2>2 DEF ReaderScans, TypeOK
  <2>3. CASE ReaderSends(l)
    BY <2>3 DEF ReaderSends, TypeOK
  <2>4. CASE ReaderEnds(l)
    BY <2>4 DEF ReaderEnds, TypeOK
  <2> QED
    BY <1>2, <2>1, <2>2, <2>3, <2>4 DEF Loop
<1>3. CASE Enable
  <2>1. PICK l \in Loops : loop[l] = "unborn" /\ loop' = [loop EXCEPT ![l] = "open"]
    BY <1>3 DEF Enable, Spawn
  <2> QED
    BY <1>3, <2>1 DEF Enable, TypeOK
<1>4. CASE DisableStarts \/ DisableInterrupts
  BY <1>4 DEF DisableStarts, DisableInterrupts, TypeOK
<1>5. CASE DisableReturns
  BY <1>5 DEF DisableReturns, Sleeps
<1>6. CASE PortLost
  BY <1>6 DEF PortLost, TypeOK
<1>7. CASE DeleteNetwork \/ UNCHANGED vars
  BY <1>7 DEF DeleteNetwork, vars
<1>8. ~addNetwork
  BY DEF addNetwork
<1> QED
  BY <1>1, <1>2, <1>3, <1>4, <1>5, <1>6, <1>7, <1>8 DEF Next

\* Nothing but addNetwork sets added, and nothing resets it.
LEMMA AddedStays == added /\ [Next]_vars => added'
BY DEF Next, Run, Loop, SerialOpens, SerialOpenFails, RunPolls, RunSleeps,
   RunIterates, RunStartsReader, RunSelects, RunInterrupted, RunSeesLoss,
   RunTakesPayload, RunHandled, RunReturns, ReaderStarts, ReaderScans,
   ReaderSends, ReaderEnds, Enable, DisableStarts, DisableInterrupts,
   DisableReturns, addNetwork, DeleteNetwork, PortLost, life, vars

LEMMA Inductive == ASSUME Patient PROVE Spec => []IInv
<1>1. IInv /\ [Next]_vars => IInv'
  <2> SUFFICES ASSUME IInv, [Next]_vars PROVE IInv'
    OBVIOUS
  <2>1. TypeOK' /\ ChannelInv'
    BY TypeStep, ChannelStep DEF IInv
  <2>2. ASSUME ~added' PROVE OwnerInv'
    BY <2>2, AddedStays, InterruptStep, PortStep, ReaderStep
    DEF IInv, Alone, OwnerInv
  <2> QED
    BY <2>1, <2>2 DEF IInv
<1> QED
  BY <1>1, InitInv, PTL DEF Spec

\* Types need no patience.
LEMMA TypesInductive == Spec => [](TypeOK /\ ChannelInv)
<1>1. Init => TypeOK /\ ChannelInv
  BY InitInv DEF IInv
<1> QED
  BY <1>1, TypeStep, ChannelStep, PTL DEF Spec

\* A set whose elements are all the same has one element at most.
LEMMA AtMostOne ==
    ASSUME NEW S, \A x, y \in S : x = y
    PROVE  Cardinality(S) <= 1
<1>1. CASE S = {}
  BY <1>1, FS_EmptySet
<1>2. CASE S # {}
  <2>1. PICK x : S = {x}
    BY <1>2
  <2> QED
    BY <2>1, FS_Singleton
<1> QED
  BY <1>1, <1>2

\* Every variable keeps its type, and a loop opens the port only before it has a
\* reader, whatever the sleep of Disable and whatever addNetwork does (run).
THEOREM TypeCorrectness == Spec => []TypeOK
BY TypesInductive, PTL

\* Enable never starts a run loop beside another one (Enable, Disable, run).
THEOREM OneRunLoopHolds == ASSUME Patient PROVE Spec => []OneRunLoop
<1>1. IInv => OneRunLoop
  BY AtMostOne DEF IInv, OwnerInv, InterruptInv, OneRunLoop
<1> QED
  BY <1>1, Inductive, PTL

\* Disable leaves no run loop and no open port (Disable, run, disconnect).
THEOREM DisabledIsQuietHolds == ASSUME Patient PROVE Spec => []DisabledIsQuiet
<1>1. IInv => DisabledIsQuiet
  BY DEF IInv, OwnerInv, InterruptInv, PortInv, DisabledIsQuiet
<1> QED
  BY <1>1, Inductive, PTL

\* One handle is open, and one reader scans it (SerialOpen, Loop).
THEOREM OneOwnerHolds == ASSUME Patient PROVE Spec => []OneOwner
<1>1. ASSUME IInv, ~added
      PROVE  /\ Cardinality({h \in Handles : handle[h] = "open"}) <= 1
             /\ Cardinality(Reading) <= 1
  <2>1. \A x, y \in {h \in Handles : handle[h] = "open"} : x = y
    BY <1>1 DEF IInv, OwnerInv, PortInv
  <2>2. \A x, y \in Reading : x = y
    BY <1>1 DEF IInv, OwnerInv, ReaderInv, InterruptInv, Reading
  <2> QED
    BY <2>1, <2>2, AtMostOne
<1>2. IInv => OneOwner
  BY <1>1 DEF OneOwner
<1> QED
  BY <1>2, Inductive, PTL

\* A link nobody reads any more stays marked as in fault, unless the one call that
\* was to mark it has failed (run, UpdateNetworkFault).
THEOREM DeadLinkIsFaultyHolds == ASSUME Patient PROVE Spec => []DeadLinkIsFaulty
<1>1. IInv => DeadLinkIsFaulty
  BY DEF IInv, OwnerInv, ReaderInv, FaultInv, DeadLinkIsFaulty
<1> QED
  BY <1>1, Inductive, PTL
===============================================================================
