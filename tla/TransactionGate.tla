--------------------------- MODULE TransactionGate ---------------------------
(***************************************************************************)
(* The admission gate of src/aslmp/transport/inflight.py: it leases the    *)
(* in-flight slots of one connection.  A lease is the body of              *)
(* `async with gate.lease(...)`; a STRICT gate refuses a lease it has no   *)
(* room for, a SERIALIZE gate parks the caller on an asyncio future in a   *)
(* FIFO deque.  Everything between two awaits is one atomic step; a future *)
(* whose result is set runs its task only later, as a step of its own.     *)
(*                                                                         *)
(* Abstracted: the sequence number is the task that asks (one allocator,   *)
(* never reused while held), the clock and the counters are left out.      *)
(***************************************************************************)
EXTENDS Naturals, Sequences, FiniteSets
LOCAL INSTANCE SequencesExt

CONSTANTS
    Task,       \* the callers: one lease each at a time
    Capacity,   \* TransactionGate(capacity=...)
    Modes       \* the Concurrency members the gate may be built with

ASSUME GateAssumption ==
    /\ IsFiniteSet(Task)
    /\ Capacity \in Nat \ {0}       \* a capacity below 1 raises in __init__
    /\ Modes \subseteq {"STRICT", "SERIALIZE"}

VARIABLES
    mode,       \* Concurrency: fixed when the gate is built
    lease,      \* where each task stands with the gate, see Phase
    waiters     \* the deque of futures, each named by the task awaiting it

gateVars == <<mode, lease, waiters>>

(***************************************************************************)
(* "pending" and "cancelled" are states of the future a queued task awaits *)
(* (cancelling a task cancels the future it awaits, which stays in the     *)
(* deque until the task runs); "woken" is a future whose result is set and *)
(* whose task has not run yet, "wokenCancelled" one whose task was         *)
(* cancelled in that gap.                                                  *)
(***************************************************************************)
Phase == {"idle", "refused", "pending", "cancelled",
          "woken", "wokenCancelled", "holding"}

InPhase(p) == {t \in Task : lease[t] = p}
Holders == InPhase("holding")
Woken   == InPhase("woken") \cup InPhase("wokenCancelled")
Queued  == {waiters[i] : i \in DOMAIN waiters}

GateInit ==
    /\ mode \in Modes
    /\ lease = [t \in Task |-> "idle"]
    /\ waiters = <<>>

-----------------------------------------------------------------------------
\* `_free`: room for one more, and nobody queued ahead.
Free == Cardinality(Holders) < Capacity /\ waiters = <<>>

\* The positions of the futures that are not done, in the lease map `done`.
Live(done) == {i \in DOMAIN waiters : done[waiters[i]] = "pending"}

\* Faults for WakeNext: it wakes the last in line; it looks at the head only, and wakes
\* nobody if that one is done.
WakeLast(done) ==
    \/ /\ Live(done) = {}
       /\ waiters' = <<>>
       /\ lease' = done
    \/ \E i \in Live(done) :
         /\ \A j \in Live(done) : j <= i
         /\ waiters' = RemoveAt(waiters, i)
         /\ lease' = [done EXCEPT ![waiters[i]] = "woken"]

WakeHeadOnly(done) ==
    /\ waiters' = IF waiters = <<>> THEN <<>> ELSE Tail(waiters)
    /\ lease' = IF 1 \in Live(done) THEN [done EXCEPT ![waiters[1]] = "woken"] ELSE done

(***************************************************************************)
(* `_wake_next`: drop futures that are already done from the head of the   *)
(* deque and hand the slot to the first that is not.  `done` is the lease  *)
(* map the step leaves behind for everybody but the task it wakes.         *)
(***************************************************************************)
WakeNext(done) ==
    \/ /\ Live(done) = {}
       /\ waiters' = <<>>
       /\ lease' = done
    \/ \E i \in Live(done) :
         /\ \A j \in Live(done) : i <= j
         /\ waiters' = SubSeq(waiters, i + 1, Len(waiters))
         /\ lease' = [done EXCEPT ![waiters[i]] = "woken"]

Outside(t) == lease[t] \in {"idle", "refused"}

\* `_acquire` on a free gate: the slot is held without suspending.
Admit(t) ==
    /\ Outside(t)
    /\ Free
    /\ lease' = [lease EXCEPT ![t] = "holding"]
    /\ UNCHANGED <<mode, waiters>>

\* `_acquire` on a full STRICT gate raises SlmpConcurrentTransactionError.
Refuse(t) ==
    /\ Outside(t)
    /\ ~Free
    /\ mode = "STRICT"
    /\ lease' = [lease EXCEPT ![t] = "refused"]
    /\ UNCHANGED <<mode, waiters>>

\* `_acquire` on a full SERIALIZE gate suspends in `_wait`.
Enqueue(t) ==
    /\ Outside(t)
    /\ ~Free
    /\ mode = "SERIALIZE"
    /\ lease' = [lease EXCEPT ![t] = "pending"]
    /\ waiters' = Append(waiters, t)
    /\ UNCHANGED mode

\* `_wait` returns and `_acquire` goes on to take the slot: it looks at
\* neither the capacity nor the deque again.
Resume(t) ==
    /\ lease[t] = "woken"
    /\ lease' = [lease EXCEPT ![t] = "holding"]
    /\ UNCHANGED <<mode, waiters>>

\* The body of the `async with` is over, however it ended: `_release`.
Release(t) ==
    /\ lease[t] = "holding"
    /\ WakeNext([lease EXCEPT ![t] = "idle"])
    /\ UNCHANGED mode

\* task.cancel() on a task suspended in `_wait`.
Cancel(t) ==
    /\ \/ /\ lease[t] = "pending"
          /\ lease' = [lease EXCEPT ![t] = "cancelled"]
       \/ /\ lease[t] = "woken"
          /\ lease' = [lease EXCEPT ![t] = "wokenCancelled"]
    /\ UNCHANGED <<mode, waiters>>

\* A fault for Unwind: a cancelled task keeps to itself the slot it was handed.
UnwindKeepingSlot(t) ==
    /\ \/ /\ lease[t] = "cancelled"
          /\ lease' = [lease EXCEPT ![t] = "idle"]
          /\ waiters' = SelectSeq(waiters, LAMBDA w : w # t)
       \/ /\ lease[t] = "wokenCancelled"
          /\ lease' = [lease EXCEPT ![t] = "idle"]
          /\ UNCHANGED waiters
    /\ UNCHANGED mode

\* The `except BaseException` of `_wait`: leave the line, or pass on the slot
\* that was handed over in the meantime.
Unwind(t) ==
    /\ \/ /\ lease[t] = "cancelled"
          /\ lease' = [lease EXCEPT ![t] = "idle"]
          /\ \/ t \notin Queued /\ UNCHANGED waiters
             \/ \E i \in DOMAIN waiters :
                  waiters[i] = t /\ waiters' = RemoveAt(waiters, i)
       \/ /\ lease[t] = "wokenCancelled"
          /\ WakeNext([lease EXCEPT ![t] = "idle"])
    /\ UNCHANGED mode

GateNext ==
    \E t \in Task :
        \/ Admit(t) \/ Refuse(t) \/ Enqueue(t)
        \/ Resume(t) \/ Release(t)
        \/ Cancel(t) \/ Unwind(t)

(***************************************************************************)
(* A done future's task is on the event loop's ready list, so it runs; the *)
(* `finally` of `lease` runs because every exchange is bounded by its      *)
(* timeout.  Nothing obliges a caller to ask, or to cancel.                *)
(***************************************************************************)
GateFairness ==
    \A t \in Task : WF_gateVars(Resume(t) \/ Unwind(t)) /\ WF_gateVars(Release(t))

GateSpec == GateInit /\ [][GateNext]_gateVars /\ GateFairness
-----------------------------------------------------------------------------
(***************************************************************************)
(* Properties.                                                             *)
(***************************************************************************)

\* Types, and what the deque holds: futures still pending, in line once each,
\* or cancelled ones whose task has not unwound; a STRICT gate never queues.
GateTypeOK ==
    /\ mode \in Modes
    /\ lease \in [Task -> Phase]
    /\ waiters \in Seq(Task)
    /\ InPhase("pending") \subseteq Queued
    /\ \A i \in DOMAIN waiters :
         /\ lease[waiters[i]] \in {"pending", "cancelled"}
         /\ \A j \in DOMAIN waiters : waiters[i] = waiters[j] => i = j
    /\ mode = "STRICT" => \A t \in Task : lease[t] \in {"idle", "refused", "holding"}

\* The STRICT refusal keeps its promise: the connection never has more
\* exchanges in flight than it has slots.
StrictKeepsCapacity ==
    mode = "STRICT" => Cardinality(Holders) <= Capacity

\* Nobody waits for a slot that is free: while anybody is in line, every slot
\* is held or has been handed to a task about to run.  Were it false, the task
\* at the head would be waiting for a release that nobody is left to make.  It
\* rests on `_release`, on `_wake_next` skipping futures that are already
\* cancelled, and on the handler of `_wait` passing on a slot it cannot use.
NoIdleCapacity ==
    waiters # <<>> => Cardinality(Holders \cup Woken) >= Capacity

\* "The next FIFO waiter is woken" (`lease`): a step that hands a slot to b
\* leaves nobody pending who was in line ahead of b, and no step wakes two.
WakesInOrder ==
    [][\A i, j \in DOMAIN waiters :
          i < j /\ lease[waiters[i]] = "pending" /\ lease[waiters[j]] = "pending"
          => lease'[waiters[j]] # "woken"]_gateVars

\* Every task that joins the line leaves it with a slot unless it is
\* cancelled: "nothing is dropped" (`Concurrency.SERIALIZE`).
EveryWaiterIsServed ==
    \A t \in Task :
        lease[t] = "pending" ~> lease[t] \in {"holding", "cancelled", "wokenCancelled"}

\* What the class says of both modes: it "hands out in-flight slots, up to
\* `capacity`, and refuses or queues past it".  It does not hold: a task that
\* asks between the wake-up of a waiter and that waiter's turn to run finds the
\* deque empty and the slot unheld, and both get it.
KeepsCapacity == Cardinality(Holders) <= Capacity
=============================================================================
