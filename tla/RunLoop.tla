------------------------------- MODULE RunLoop -------------------------------
(***************************************************************************)
(* Who reads the serial port: the run loops (pkg/run.go), the reader       *)
(* goroutine of each (Loop in pkg/serial.go), SerialOpen and SerialClose,  *)
(* and what starts and ends them: Enable and Disable (pkg/enable.go),      *)
(* addNetwork (pkg/app.go) and the DELETE handler of networks.             *)
(*                                                                         *)
(* A loop never leaves its inner for statement except by an interrupt, so  *)
(* it has one reader at most, named after it.  The channel interruptChan   *)
(* is made anew by each Enable; a loop waits on the channel it found when  *)
(* it entered select.                                                      *)
(*                                                                         *)
(* The environment: opening the port may fail, an open port may be lost,   *)
(* the scanner may give up on a line that is too long, and each call of    *)
(* UpdateNetworkFault may fail: its callers discard the error.             *)
(***************************************************************************)
EXTENDS Naturals, FiniteSets

CONSTANTS
    MaxEnables,  \* bound: calls of Enable
    MaxLoops,    \* bound: run loops ever started
    MaxOpens,    \* bound: successful calls of serial.Open
    Patient      \* the sleep in Disable outlasts whatever a loop is doing

Channels == 1..MaxEnables
Loops    == 1..MaxLoops
Handles  == 1..MaxOpens

ASSUME BoundsAssumption == {MaxEnables, MaxLoops, MaxOpens} \subseteq Nat
ASSUME PatientAssumption == Patient \in BOOLEAN

VARIABLES
    network,       \* the database has the network of this module
    fault,         \* the network is marked as in fault
    host,          \* where the host is between Enable and Disable
    interruptChan, \* the current channel, 0 for nil
    interrupt,     \* channels that hold an interrupt
    Port,          \* the global handle, 0 for nil
    handle,        \* what became of each handle
    loop,          \* where each run loop is
    listening,     \* the channel its select waits on
    reader,        \* where the reader of each loop is
    readerPort,    \* the handle the reader scans
    payload,       \* serialPayloadChan of a loop holds a line
    closed,        \* serialCloseChan of a loop holds an error
    added,         \* history: addNetwork has started a loop
    unreported     \* history: loops whose report of a loss has failed

faults  == <<fault, unreported>>
life    == <<network, host, interruptChan, added>>
port    == <<Port, handle>>
runs    == <<loop, listening>>
readers == <<reader, readerPort, payload, closed>>
vars    == <<life, faults, interrupt, port, runs, readers>>

Init ==
    /\ network \in BOOLEAN
    /\ fault = FALSE
    /\ host = "off"
    /\ interruptChan = 0
    /\ interrupt = {}
    /\ Port = 0
    /\ handle = [h \in Handles |-> "unused"]
    /\ loop = [l \in Loops |-> "unborn"]
    /\ listening = [l \in Loops |-> 0]
    /\ reader = [l \in Loops |-> "unborn"]
    /\ readerPort = [l \in Loops |-> 0]
    /\ payload = [l \in Loops |-> FALSE]
    /\ closed = [l \in Loops |-> FALSE]
    /\ added = FALSE
    /\ unreported = {}

Go(l, from, to) == loop[l] = from /\ loop' = [loop EXCEPT ![l] = to]

\* The next element of 1..n that is still in its first state.
IsFirst(x, f, first) == f[x] = first /\ \A y \in 1..(x - 1) : f[y] # first

\* UpdateNetworkFault, a call of the host's database: no caller looks at its
\* error or repeats it, and a call that fails leaves the fault as it was.
UpdateNetworkFault(value, ok) ==
    /\ ok => network
    /\ fault' = IF ok THEN value ELSE fault

-------------------------------------------------------------------------------
(* run, up to the inner loop.                                                *)

\* go m.run().
Spawn == \E l \in Loops : IsFirst(l, loop, "unborn") /\ Go(l, "unborn", "open")

SerialOpens(l) ==
    /\ Go(l, "open", "opened")
    /\ network
    /\ \E h \in Handles :
          /\ IsFirst(h, handle, "unused")
          /\ handle' = [handle EXCEPT ![h] = "open"]
          /\ Port' = h
    /\ \E ok \in BOOLEAN : UpdateNetworkFault(FALSE, ok)
    /\ UNCHANGED <<life, unreported, interrupt, listening, readers>>

\* No network or no settings, which update nothing, or serial.Open fails; Port
\* keeps its value.
SerialOpenFails(l) ==
    /\ Go(l, "open", "failed")
    /\ \E ok \in BOOLEAN : UpdateNetworkFault(TRUE, ok)
    /\ UNCHANGED <<life, unreported, interrupt, port, listening, readers>>

PollsNever == FALSE  \* Defect: a loop that cannot open the port does not look.

\* The outer select polls interruptChan; a nil channel is never ready.
Polls == interruptChan \in interrupt

RunPolls(l) ==
    /\ Polls
    /\ \E from \in {"opened", "failed"} : Go(l, from, "close")
    /\ interrupt' = interrupt \ {interruptChan}
    /\ UNCHANGED <<life, faults, port, listening, readers>>

RunSleeps(l) ==
    /\ ~Polls
    /\ Go(l, "failed", "sleep")
    /\ \E ok \in BOOLEAN : UpdateNetworkFault(TRUE, ok)
    /\ UNCHANGED <<life, unreported, interrupt, port, listening, readers>>

RunIterates(l) ==
    /\ Go(l, "sleep", "open")
    /\ UNCHANGED <<life, faults, interrupt, port, listening, readers>>

RunStartsReader(l) ==
    /\ ~Polls
    /\ Go(l, "opened", "loop")
    /\ \E ok \in BOOLEAN : UpdateNetworkFault(FALSE, ok)
    /\ reader' = [reader EXCEPT ![l] = "start"]
    /\ UNCHANGED <<life, unreported, interrupt, port, listening, readerPort, payload,
                   closed>>

-------------------------------------------------------------------------------
(* The inner loop.                                                           *)

RunSelects(l) ==
    /\ Go(l, "loop", "select")
    /\ listening' = [listening EXCEPT ![l] = interruptChan]
    /\ UNCHANGED <<life, faults, interrupt, port, readers>>

RunInterrupted(l) ==
    /\ listening[l] \in interrupt
    /\ Go(l, "select", "close")
    /\ interrupt' = interrupt \ {listening[l]}
    /\ UNCHANGED <<life, faults, port, listening, readers>>

AfterLossReopens == "open"  \* Defect: opens again, beside the old channels.

\* "attempting to reconnect...": continue goes back to the inner select.
AfterLoss == "loop"

LossForgotten(l) == fault  \* Defect: the network's fault is not updated.

LossReported(l) == TRUE

RunSeesLoss(l) ==
    /\ closed[l]
    /\ Go(l, "select", AfterLoss)
    /\ closed' = [closed EXCEPT ![l] = FALSE]
    /\ \E ok \in BOOLEAN :
          /\ UpdateNetworkFault(LossReported(l), ok)
          /\ unreported' = IF ok THEN unreported ELSE unreported \cup {l}
    /\ UNCHANGED <<life, interrupt, port, listening, reader, readerPort, payload>>

RunTakesPayload(l) ==
    /\ payload[l]
    /\ Go(l, "select", "handle")
    /\ payload' = [payload EXCEPT ![l] = FALSE]
    /\ UNCHANGED <<life, faults, interrupt, port, listening, reader, readerPort, closed>>

\* handleSerialPayload returns.
RunHandled(l) ==
    /\ Go(l, "handle", "loop")
    /\ UNCHANGED <<life, faults, interrupt, port, listening, readers>>

CloseForgotten == handle  \* Defect: no deferred SerialClose.

\* SerialClose closes the handle in Port, whichever loop opened it.
CloseHandle == IF Port = 0 THEN handle ELSE [handle EXCEPT ![Port] = "closed"]

RunReturns(l) ==
    /\ Go(l, "close", "gone")
    /\ handle' = CloseHandle
    /\ UNCHANGED <<life, faults, interrupt, Port, listening, readers>>

Run(l) ==
    \/ SerialOpens(l) \/ SerialOpenFails(l)
    \/ RunPolls(l) \/ RunSleeps(l) \/ RunIterates(l) \/ RunStartsReader(l)
    \/ RunSelects(l) \/ RunInterrupted(l) \/ RunSeesLoss(l)
    \/ RunTakesPayload(l) \/ RunHandled(l) \/ RunReturns(l)

-------------------------------------------------------------------------------
(* Loop, the reader goroutine.                                               *)

Read(l, from, to) == reader[l] = from /\ reader' = [reader EXCEPT ![l] = to]

\* bufio.NewScanner(Port): the handle in Port when the goroutine starts.
ReaderStarts(l) ==
    /\ Read(l, "start", "scan")
    /\ readerPort' = [readerPort EXCEPT ![l] = Port]
    /\ UNCHANGED <<life, faults, interrupt, port, runs, payload, closed>>

ReaderScans(l) ==
    /\ Read(l, "scan", "send")
    /\ handle[readerPort[l]] = "open"
    /\ UNCHANGED <<life, faults, interrupt, port, runs, readerPort, payload, closed>>

ReaderSends(l) ==
    /\ Read(l, "send", "scan")
    /\ ~payload[l]
    /\ payload' = [payload EXCEPT ![l] = TRUE]
    /\ UNCHANGED <<life, faults, interrupt, port, runs, readerPort, closed>>

\* Scan returns false: the port is lost or closed, or, while it is open, the
\* line does not fit the scanner's buffer.
ReaderEnds(l) ==
    /\ Read(l, "scan", "ended")
    /\ closed' = [closed EXCEPT ![l] = TRUE]
    /\ UNCHANGED <<life, faults, interrupt, port, runs, readerPort, payload>>

Loop(l) == ReaderStarts(l) \/ ReaderScans(l) \/ ReaderSends(l) \/ ReaderEnds(l)

\* The reader's steps that do not depend on what the port delivers.
LoopGoesOn(l) == \/ ReaderStarts(l)
                 \/ ReaderSends(l)
                 \/ ReaderEnds(l) /\ handle[readerPort[l]] # "open"

-------------------------------------------------------------------------------
(* What starts and ends the loops.                                           *)

Enable ==
    /\ host = "off"
    /\ interruptChan < MaxEnables
    /\ interruptChan' = interruptChan + 1
    /\ Spawn
    /\ host' = "on"
    /\ UNCHANGED <<network, added, faults, interrupt, port, listening, readers>>

\* Disable takes m.mutex, ...
DisableStarts ==
    /\ host = "on"
    /\ host' = "disabling"
    /\ UNCHANGED <<network, interruptChan, added, faults, interrupt, port, runs, readers>>

\* ... sends to interruptChan, which has one slot, ...
DisableInterrupts ==
    /\ host = "disabling"
    /\ interruptChan \notin interrupt
    /\ interrupt' = interrupt \cup {interruptChan}
    /\ host' = "sleeping"
    /\ UNCHANGED <<network, interruptChan, added, faults, port, runs, readers>>

\* The sleep is long enough for a loop to take the interrupt and to return, and
\* for its reader to start.
Sleeps == Patient => /\ interrupt = {}
                     /\ \A l \in Loops : loop[l] # "close" /\ reader[l] # "start"

\* ... and sleeps ReIterationTime and a second.
DisableReturns ==
    /\ host = "sleeping"
    /\ Sleeps
    /\ host' = "off"
    /\ UNCHANGED <<network, interruptChan, added, faults, interrupt, port, runs, readers>>

addNetwork ==
    /\ host = "on"
    /\ ~network
    /\ network' = TRUE
    /\ fault' = FALSE
    /\ Spawn
    /\ added' = TRUE
    /\ UNCHANGED <<unreported, host, interruptChan, interrupt, port, listening, readers>>

DeleteNetwork ==
    /\ host = "on"
    /\ network
    /\ network' = FALSE
    /\ UNCHANGED <<host, interruptChan, added, faults, interrupt, port, runs, readers>>

PortLost ==
    /\ \E h \in Handles : /\ handle[h] = "open"
                          /\ handle' = [handle EXCEPT ![h] = "lost"]
    /\ UNCHANGED <<life, faults, interrupt, Port, runs, readers>>

Next == \/ \E l \in Loops : Run(l) \/ Loop(l)
        \/ Enable
        \/ DisableStarts
        \/ DisableInterrupts
        \/ DisableReturns
        \/ addNetwork
        \/ DeleteNetwork
        \/ PortLost

\* Every goroutine goes on when it can; select starves none of its channels.
Fairness ==
    /\ \A l \in Loops : /\ WF_vars(Run(l))
                        /\ SF_vars(RunInterrupted(l) \/ RunPolls(l))
                        /\ SF_vars(RunSeesLoss(l))
                        /\ WF_vars(LoopGoesOn(l))
    /\ WF_vars(DisableInterrupts)
    /\ WF_vars(DisableReturns)

Spec == Init /\ [][Next]_vars /\ Fairness

-------------------------------------------------------------------------------
(* Properties.                                                               *)

TypeOK ==
    /\ network \in BOOLEAN
    /\ fault \in BOOLEAN
    /\ host \in {"off", "on", "disabling", "sleeping"}
    /\ interruptChan \in 0..MaxEnables
    /\ interrupt \subseteq Channels
    /\ Port \in 0..MaxOpens
    /\ handle \in [Handles -> {"unused", "open", "lost", "closed"}]
    /\ loop \in [Loops -> {"unborn", "open", "opened", "failed", "sleep", "loop",
                            "select", "handle", "close", "gone"}]
    /\ listening \in [Loops -> 0..MaxEnables]
    /\ reader \in [Loops -> {"unborn", "start", "scan", "send", "ended"}]
    /\ readerPort \in [Loops -> 0..MaxOpens]
    /\ payload \in [Loops -> BOOLEAN]
    /\ closed \in [Loops -> BOOLEAN]
    /\ added \in BOOLEAN
    /\ unreported \subseteq Loops
    /\ \A l \in Loops : loop[l] \in {"unborn", "open", "opened", "failed", "sleep"}
                           => reader[l] = "unborn"

Running == {l \in Loops : loop[l] \notin {"unborn", "gone"}}

\* A reader's line belongs to the handle it scans.
Reading == {l \in Loops : /\ reader[l] \in {"scan", "send"}
                          /\ handle[readerPort[l]] = "open"}

\* Enable never starts a run loop beside one that Disable has not ended: there
\* are two only if addNetwork has started one beside the loop of Enable.
OneRunLoop == ~added => Cardinality(Running) <= 1

\* "plugin is disabled": no run loop goes on, and the port is free.  Disable ends
\* one loop, so that one more, of addNetwork, would go on.
DisabledIsQuiet == ~added /\ host = "off" =>
    /\ Running = {}
    /\ \A h \in Handles : handle[h] # "open"

\* The bytes of the port are not shared: one open handle, and one reader of it,
\* whatever readers earlier loops have left behind.
OneOwner == ~added =>
    /\ Cardinality({h \in Handles : handle[h] = "open"}) <= 1
    /\ Cardinality(Reading) <= 1

\* A link that nobody reads is marked as in fault, from the moment the run loop
\* has noticed until a new Enable or addNetwork.  The only way out is the error
\* run discards: the one update that reports the loss has failed, and nothing
\* makes up for it.
DeadLinkIsFaulty == ~added => \A l \in Loops :
    /\ loop[l] \in {"loop", "select", "handle"}
    /\ reader[l] = "ended"
    /\ ~closed[l]
    => fault \/ l \in unreported

\* Disable returns: its send on interruptChan, with m.mutex held, finds room,
\* and one of the run loops takes the interrupt wherever it is.
DisableEnds == host = "disabling" ~> host = "off"

\* The loss of a port that is being read becomes a fault of the network, unless
\* the loop is interrupted first, or its one attempt to report the loss fails.
LossIsReported == \A l \in Loops :
    reader[l] = "scan" /\ handle[readerPort[l]] = "lost"
       ~> fault \/ l \in unreported \/ loop[l] = "gone"

\* What run logs, "serial connection attempting to reconnect...": a loop whose
\* reader has ended opens the port again, or is interrupted.
Reconnects == \A l \in Loops :
    reader[l] = "ended" ~> loop[l] \in {"open", "close", "gone"}
===============================================================================
