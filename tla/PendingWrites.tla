---------------------------- MODULE PendingWrites ----------------------------
(***************************************************************************)
(* What the point write queues promise, without radio, retries or threads. *)
(* A write that EnqueuePoint has accepted waits behind the earlier writes  *)
(* of its device, leaves only from the head of that device's queue, and    *)
(* leaves once, with one outcome:                                          *)
(*                                                                         *)
(*   "answered"   a RESPONSE removed it (dequeue with a message id)        *)
(*   "exhausted"  maxRetry attempts were made (finishAttempt)              *)
(*   "dropped"    its frame could not be prepared (transmit)               *)
(*                                                                         *)
(* As long as the manager has not been closed (stopped, or killed by a     *)
(* panic) the head of every non-empty queue is eventually settled.         *)
(* PointWriteQueueManager.tla is shown to implement this module.           *)
(***************************************************************************)
EXTENDS Sequences

CONSTANTS Devices,   \* device UUIDs
          Items,     \* the writes, one for each call of EnqueuePoint
          DeviceOf   \* the device each write is addressed to

VARIABLES pending,   \* the queue of each device
          outcome,   \* what became of each write
          closed     \* the scheduler will not settle anything any more

abstractVars == <<pending, outcome, closed>>

Outcomes == {"answered", "exhausted", "dropped"}

Begin ==
    /\ pending = [d \in Devices |-> <<>>]
    /\ outcome = [i \in Items |-> "new"]
    /\ closed = FALSE

Accept(i) ==
    /\ outcome[i] = "new"
    /\ outcome' = [outcome EXCEPT ![i] = "pending"]
    /\ pending' = [pending EXCEPT ![DeviceOf[i]] = Append(@, i)]
    /\ UNCHANGED closed

Settle(d, o) ==
    /\ pending[d] # <<>>
    /\ outcome' = [outcome EXCEPT ![Head(pending[d])] = o]
    /\ pending' = [pending EXCEPT ![d] = Tail(@)]
    /\ UNCHANGED closed

Close ==
    /\ closed' = TRUE
    /\ UNCHANGED <<pending, outcome>>

Step ==
    \/ \E i \in Items : Accept(i)
    \/ \E d \in Devices, o \in Outcomes : Settle(d, o)
    \/ Close

Safety == Begin /\ [][Step]_abstractVars

SettleOpen(d) == ~closed /\ \E o \in Outcomes : Settle(d, o)

Promise == Safety /\ \A d \in Devices : WF_abstractVars(SettleOpen(d))
==============================================================================
