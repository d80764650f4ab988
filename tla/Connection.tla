------------------------------ MODULE Connection ------------------------------
(***************************************************************************)
(* One SLMP connection over TCP: src/aslmp/connection.py (Connection, Txn) *)
(* on src/aslmp/transport/tcp.py, driven by the life cycle and the single  *)
(* request path of src/aslmp/client.py (connect, reconnect, _prove,        *)
(* aclose, _run, _run_silent), with the gate of TransactionGate.           *)
(*                                                                         *)
(* asyncio is cooperative: a task that got control keeps it until it       *)
(* suspends.  `running` holds that task; only it moves until then.  A task *)
(* suspends in three places: queued at the gate, parked on the socket, or  *)
(* inside the connect of `TcpTransport.open`.  Closing a transport and     *)
(* noting a failure never suspend.                                         *)
(*                                                                         *)
(* Abstracted: frames, deadlines and values.  An operation on the socket   *)
(* ends in one of the ways the code tells apart; a deadline is one of      *)
(* them.  `tail[g]` is what the wire remembers of socket g: the tasks that *)
(* wrote (part of) a request on it whose answer has not been read.         *)
(***************************************************************************)
EXTENDS TransactionGate, Integers

CONSTANTS
    User,           \* tasks that run commands
    Opener,         \* tasks that call connect() and reconnect()
    Kinds,          \* the exchanges users ask for, see Kind
    Cancellable,    \* the kinds of exchange a caller may cancel on the socket
    HandshakeSteps, \* transactions in `_prove`: NONE 0, SELF_TEST 1, ..._AND_IDENTIFY 2
    MaxGeneration   \* bound on reconnects

\* "answered" reads its response, "silent" is exchange_without_response.
Kind == {"answered", "silent"}

ASSUME ConnectionAssumption ==
    /\ Task = User \cup Opener
    /\ User \cap Opener = {}
    /\ Capacity = 1                 \* TcpTransport.max_in_flight
    /\ Kinds \subseteq Kind /\ Cancellable \subseteq Kind
    /\ HandshakeSteps \in 0 .. 2
    /\ MaxGeneration \in Nat

Generation == 0 .. MaxGeneration
NoSocket == -1

VARIABLES
    state,      \* Connection._state
    generation, \* Connection._generation
    sock,       \* TcpTransport._sock: the generation that opened it, or NoSocket
    busy,       \* TcpTransport._busy
    pending,    \* TcpTransport._pending: whose operation close() would cancel
    running,    \* the task that has control, if any
    pc,         \* where each task is
    kind,       \* the exchange it asked for
    at,         \* the socket its exchange, or its open, holds
    op,         \* the operation it is parked on, and how that ended
    step,       \* handshake transactions it has had answered
    ahead,      \* tasks already due to run when an open began
    tail,       \* per socket: requests written and not yet answered
    proven      \* sockets whose handshake was answered

txnVars  == <<pc, kind, at, step>>
connVars == <<state, generation, sock, busy, pending, running, op, ahead, tail, proven>>
vars == <<gateVars, txnVars, connVars>>

State == {"NEW", "CONNECTING", "OPEN", "READY", "FAILED", "CLOSED"}
Parked == {"write", "read"}
Ended == {"done", "some", "lost", "timeout", "bad", "closed", "cancelled"}

Usable == state \in {"OPEN", "READY"}

\* A fault for FailedState: CLOSED is not sticky.
FailedOverClosed == "FAILED"

\* `note_failure` and `retire_after_silent_exchange`: sticky states stay.
FailedState == IF state \in {"CLOSED", "FAILED"} THEN state ELSE "FAILED"

ConnInit ==
    /\ GateInit
    /\ state = "NEW" /\ generation = 0
    /\ sock = NoSocket /\ busy = FALSE /\ pending = {}
    /\ running = {}
    /\ pc = [t \in Task |-> "idle"]
    /\ kind = [t \in Task |-> "answered"]
    /\ at = [t \in Task |-> NoSocket]
    /\ op = [t \in Task |-> "none"]
    /\ step = [t \in Task |-> 0]
    /\ ahead = [o \in Opener |-> {}]
    /\ tail = [g \in Generation |-> {}]
    /\ proven = {}

-----------------------------------------------------------------------------
(***************************************************************************)
(* Pieces of steps.                                                        *)
(***************************************************************************)

\* Faults for CloseTransport: `_sock` is not reset; the operation is not cancelled.
CloseKeepingSock(whose, ops) ==
    /\ sock' = sock
    /\ busy' = FALSE
    /\ op' = [t \in Task |-> IF t \in whose /\ ops[t] = "parked" THEN "closed" ELSE ops[t]]

CloseWithoutCancel(whose, ops) ==
    /\ sock' = NoSocket
    /\ busy' = FALSE
    /\ op' = ops

\* `TcpTransport.close`: an operation still parked is cancelled and its task
\* finds out when it runs.
CloseTransport(whose, ops) ==
    /\ sock' = NoSocket
    /\ busy' = FALSE
    /\ op' = [t \in Task |-> IF t \in whose /\ ops[t] = "parked" THEN "closed" ELSE ops[t]]

\* Tasks due to run, given the operations `ops` of a step.
Due(ops) == {t \in Task : ops[t] \in Ended \/ lease[t] \in {"woken", "cancelled", "wokenCancelled"}}

\* t has run: it no longer runs ahead of an open.
Ran(t) == ahead' = [o \in Opener |-> ahead[o] \ {t}]

Suspend(t, where) ==
    /\ pc' = [pc EXCEPT ![t] = where]
    /\ running' = {}

\* The locals of a call.
locals == <<kind, at, step>>

\* The call returns, or raises, to its caller.
Return(t) ==
    /\ Suspend(t, "idle")
    /\ kind' = [kind EXCEPT ![t] = "answered"]
    /\ at' = [at EXCEPT ![t] = NoSocket]
    /\ step' = [step EXCEPT ![t] = 0]

\* The transaction of t was answered.  A command returns; an opener goes on with
\* the handshake, unless the answer is an end code, or not the echo or the CPU it
\* wants: then connect() raises and the connection stays OPEN.
Answered(t) ==
    \/ Return(t) /\ UNCHANGED proven
    \/ /\ t \in Opener
       /\ running' = {t}
       /\ step' = [step EXCEPT ![t] = @ + 1]
       /\ UNCHANGED <<kind, at>>
       /\ IF step[t] + 1 < HandshakeSteps
          THEN /\ pc' = [pc EXCEPT ![t] = "acquire"]
               /\ UNCHANGED proven
          ELSE /\ pc' = [pc EXCEPT ![t] = "confirm"]
               /\ proven' = proven \cup {at[t]}

-----------------------------------------------------------------------------
(***************************************************************************)
(* Life cycle.                                                             *)
(***************************************************************************)

\* `_open` up to the connect: what `open` and `reopen` share.
BeginOpen(o, ops) ==
    /\ state' = "CONNECTING"
    /\ at' = [at EXCEPT ![o] = generation']
    /\ step' = [step EXCEPT ![o] = 0]
    /\ ahead' = [ahead EXCEPT ![o] = Due(ops)]
    /\ Suspend(o, "connecting")

\* connect(): `open` is legal only from NEW.
Connect(o) ==
    /\ running = {} /\ pc[o] = "idle"
    /\ state = "NEW"
    /\ UNCHANGED <<gateVars, generation, sock, busy, pending, op, kind, tail, proven>>
    /\ BeginOpen(o, op)

\* reconnect(): `reopen` closes the transport and bumps the generation first.
Reconnect(o) ==
    /\ running = {} /\ pc[o] = "idle"
    /\ state # "CLOSED"
    /\ generation < MaxGeneration
    /\ generation' = generation + 1
    /\ CloseTransport(pending, op)
    /\ UNCHANGED <<gateVars, pending, kind, tail, proven>>
    /\ BeginOpen(o, op')

\* aclose() ran while the socket was opening.
ClosedMeanwhile == state = "CLOSED"

\* `transport.open` returned: the socket is installed.  If the connection was
\* closed in the meantime the new socket is closed too, otherwise the handshake
\* starts without suspending.
OpenSucceeds(o) ==
    /\ running = {} /\ pc[o] = "connecting"
    /\ ahead[o] = {}
    /\ \/ /\ ClosedMeanwhile
          /\ CloseTransport(pending, op)
          /\ Return(o)
          /\ UNCHANGED state
       \/ /\ ~ClosedMeanwhile
          /\ state' = "OPEN"
          /\ sock' = at[o] /\ busy' = FALSE
          /\ running' = {o}
          /\ pc' = [pc EXCEPT ![o] = IF HandshakeSteps = 0 THEN "confirm" ELSE "acquire"]
          /\ UNCHANGED <<op, locals>>
    /\ UNCHANGED <<gateVars, generation, pending, ahead, tail, proven>>

\* The open failed, timed out, found an EOF waiting or was cancelled.
OpenFails(o) ==
    /\ running = {} /\ pc[o] = "connecting"
    /\ state' = IF state = "CLOSED" THEN state ELSE "FAILED"
    /\ CloseTransport(pending, op)
    /\ Return(o)
    /\ UNCHANGED <<gateVars, generation, pending, ahead, tail, proven>>

\* A fault for Confirm: it does not look at the state.
ConfirmAnyState(o) ==
    /\ running = {o} /\ pc[o] = "confirm"
    /\ state' = "READY"
    /\ Return(o)
    /\ UNCHANGED <<gateVars, generation, sock, busy, pending, op, ahead, tail, proven>>

\* `confirm`, legal only from OPEN; otherwise it raises.
Confirm(o) ==
    /\ running = {o} /\ pc[o] = "confirm"
    /\ state' = IF state = "OPEN" THEN "READY" ELSE state
    /\ Return(o)
    /\ UNCHANGED <<gateVars, generation, sock, busy, pending, op, ahead, tail, proven>>

\* aclose(): CLOSED before the transport closes, and it never suspends.
Aclose ==
    /\ running = {}
    /\ state # "CLOSED"
    /\ state' = "CLOSED"
    /\ CloseTransport(pending, op)
    /\ UNCHANGED <<gateVars, txnVars, generation, pending, running, ahead, tail, proven>>
-----------------------------------------------------------------------------
(***************************************************************************)
(* One transaction: `Connection.transaction` around `Txn.exchange`.        *)
(***************************************************************************)

\* A caller runs a command.
Call(u) ==
    /\ running = {} /\ pc[u] = "idle"
    /\ running' = {u}
    /\ pc' = [pc EXCEPT ![u] = "acquire"]
    /\ \E k \in Kinds : kind' = [kind EXCEPT ![u] = k]
    /\ UNCHANGED <<gateVars, state, generation, sock, busy, pending, at, op, step, ahead,
                   tail, proven>>

\* `require_usable`, then the gate: refused, admitted or queued.
Acquire(t) ==
    /\ running = {t} /\ pc[t] = "acquire"
    /\ \/ /\ ~Usable
          /\ Return(t)
          /\ UNCHANGED gateVars
       \/ /\ Usable
          /\ Refuse(t)
          /\ Return(t)
       \/ /\ Usable
          /\ Admit(t)
          /\ pc' = [pc EXCEPT ![t] = "leased"]
          /\ UNCHANGED <<running, locals>>
       \/ /\ Usable
          /\ Enqueue(t)
          /\ Suspend(t, "queued")
          /\ UNCHANGED locals
    /\ UNCHANGED <<state, generation, sock, busy, pending, op, ahead, tail, proven>>

\* A queued task is handed its slot.
LeaveQueue(t) ==
    /\ running = {} /\ pc[t] = "queued"
    /\ Resume(t)
    /\ running' = {t}
    /\ pc' = [pc EXCEPT ![t] = "leased"]
    /\ Ran(t)
    /\ UNCHANGED <<state, generation, sock, busy, pending, kind, at, op, step, tail, proven>>

\* A queued task was cancelled: it unwinds without a token.
AbandonQueue(t) ==
    /\ running = {} /\ pc[t] = "queued"
    /\ Unwind(t)
    /\ Return(t)
    /\ Ran(t)
    /\ UNCHANGED <<state, generation, sock, busy, pending, op, tail, proven>>

\* A fault for FindUnusable: it raises outside the `async with`, so nobody releases.
FindUnusableOutside(t) ==
    /\ running = {t} /\ pc[t] = "leased"
    /\ ~Usable
    /\ Return(t)
    /\ UNCHANGED <<gateVars, state, generation, sock, busy, pending, op, ahead, tail, proven>>

\* The second `require_usable`, after the gate: it raises and the slot is freed.
FindUnusable(t) ==
    /\ running = {t} /\ pc[t] = "leased"
    /\ ~Usable
    /\ Release(t)
    /\ Return(t)
    /\ UNCHANGED <<state, generation, sock, busy, pending, op, ahead, tail, proven>>

\* A fault for Unused: the backstop is gone, as the gate seems to be enough.
GateSuffices == TRUE

\* No exchange has the socket.
Unused == ~busy

\* The `_busy` backstop of `TcpTransport.exchange`: a usage error before a byte
\* is written, which `Txn.exchange` reports without closing anything.
FindBusy(t) ==
    /\ running = {t} /\ pc[t] = "leased"
    /\ Usable /\ sock # NoSocket /\ ~Unused
    /\ Release(t)
    /\ Return(t)
    /\ UNCHANGED <<state, generation, sock, busy, pending, op, ahead, tail, proven>>

\* There is no socket, or the OS refuses the first byte: nothing was sent, and
\* `note_failure` closes and fails the connection.
FailToSend(t) ==
    /\ running = {t} /\ pc[t] = "leased"
    /\ Usable /\ (sock = NoSocket \/ Unused)
    /\ state' = FailedState
    /\ CloseTransport(pending, op)
    /\ Release(t)
    /\ Return(t)
    /\ UNCHANGED <<generation, pending, ahead, tail, proven>>

\* Park on the socket: `_pending` is the operation, so close() can cancel it.
Park(t, where) ==
    /\ op' = [op EXCEPT ![t] = "parked"]
    /\ pending' = {t}
    /\ Suspend(t, where)

\* `expect_response=False` closes the socket it wrote on, and
\* `retire_after_silent_exchange` fails the connection.
Retire(t, ops) ==
    /\ state' = FailedState
    /\ CloseTransport({}, ops)
    /\ Release(t)
    /\ Return(t)

\* `_send_all`: the OS takes all of the request or part of it.
Send(t) ==
    /\ running = {t} /\ pc[t] = "leased"
    /\ Usable /\ sock # NoSocket /\ Unused
    /\ tail' = [tail EXCEPT ![sock] = @ \cup {t}]
    /\ \/ /\ Park(t, "write") \/ (kind[t] = "answered" /\ Park(t, "read"))
          /\ at' = [at EXCEPT ![t] = sock]
          /\ busy' = TRUE
          /\ UNCHANGED <<gateVars, state, sock, kind, step>>
       \/ /\ kind[t] = "silent"
          /\ Retire(t, op)
          /\ UNCHANGED pending
    /\ UNCHANGED <<generation, ahead, proven>>

-----------------------------------------------------------------------------
(***************************************************************************)
(* What happens to a parked operation.  The task runs later.               *)
(***************************************************************************)

\* The socket makes progress, or fails: the request is out ("done"), some or all
\* of the response is in ("some", "done"), it is not a frame ("bad"), or the peer
\* ended the connection ("lost").
SocketEvent(t) ==
    /\ running = {} /\ op[t] = "parked"
    /\ \E e \in {"some", "done", "bad", "lost"} :
         /\ pc[t] = "write" => e \in {"done", "lost"}
         /\ at[t] # sock => e = "lost"
         /\ op' = [op EXCEPT ![t] = e]
    /\ UNCHANGED <<gateVars, txnVars, state, generation, sock, busy, pending, running, ahead,
                   tail, proven>>

\* The deadline passes.
Timeout(t) ==
    /\ running = {} /\ op[t] = "parked"
    /\ op' = [op EXCEPT ![t] = "timeout"]
    /\ UNCHANGED <<gateVars, txnVars, state, generation, sock, busy, pending, running, ahead,
                   tail, proven>>

\* The caller cancels the task.  Cancellation wins over whatever the operation
\* came to, a close() included.
CancelTask(t) ==
    /\ running = {}
    /\ \/ /\ pc[t] = "queued"
          /\ Cancel(t)
          /\ UNCHANGED op
       \/ /\ pc[t] \in Parked /\ kind[t] \in Cancellable
          /\ op[t] # "cancelled"
          /\ op' = [op EXCEPT ![t] = "cancelled"]
          /\ UNCHANGED gateVars
    /\ UNCHANGED <<txnVars, state, generation, sock, busy, pending, running, ahead, tail, proven>>

-----------------------------------------------------------------------------
(***************************************************************************)
(* A parked task runs.  `finally` has reset `_pending`.                    *)
(***************************************************************************)

\* The request is out, or part of the response is in, and there is more to read.
Progressed(t) ==
    /\ kind[t] = "answered"
    /\ \/ pc[t] = "write" /\ op[t] = "done"
       \/ pc[t] = "read" /\ op[t] = "some"

\* Park in the next read, unless `_sock` is gone.
GoOn(t) ==
    /\ running = {} /\ pc[t] \in Parked
    /\ Progressed(t) /\ sock # NoSocket
    /\ Park(t, "read")
    /\ Ran(t)
    /\ UNCHANGED <<gateVars, state, generation, sock, busy, kind, at, step, tail, proven>>

\* The silent request is out.
FinishSilent(t) ==
    /\ running = {} /\ pc[t] = "write"
    /\ op[t] = "done" /\ kind[t] = "silent"
    /\ pending' = {}
    /\ Retire(t, [op EXCEPT ![t] = "none"])
    /\ Ran(t)
    /\ UNCHANGED <<generation, tail, proven>>

\* The whole response is in.
Succeed(t) ==
    /\ running = {} /\ pc[t] = "read"
    /\ op[t] = "done"
    /\ busy' = FALSE /\ pending' = {}
    /\ op' = [op EXCEPT ![t] = "none"]
    /\ tail' = [tail EXCEPT ![at[t]] = @ \ {t}]
    /\ Release(t)
    /\ Answered(t)
    /\ Ran(t)
    /\ UNCHANGED <<state, generation, sock>>

\* A fault for FailExchange: a timeout leaves the socket in service.
FailKeepingSocket(t) ==
    /\ running = {} /\ pc[t] \in Parked
    /\ op[t] \in {"lost", "timeout", "bad", "closed"}
    /\ IF op[t] = "timeout"
       THEN UNCHANGED <<state, sock>> /\ busy' = FALSE /\ op' = [op EXCEPT ![t] = "none"]
       ELSE state' = FailedState /\ CloseTransport({}, [op EXCEPT ![t] = "none"])
    /\ pending' = {}
    /\ Release(t)
    /\ Return(t)
    /\ Ran(t)
    /\ UNCHANGED <<generation, tail, proven>>

\* Anything else fails the exchange after its bytes went out: `note_failure`
\* closes the socket, whichever socket that is by now.
FailExchange(t) ==
    /\ running = {} /\ pc[t] \in Parked
    /\ \/ op[t] \in {"lost", "timeout", "bad", "closed"}
       \/ op[t] = "cancelled" /\ kind[t] = "answered"
       \/ Progressed(t) /\ sock = NoSocket
    /\ state' = FailedState
    /\ pending' = {}
    /\ CloseTransport({}, [op EXCEPT ![t] = "none"])
    /\ Release(t)
    /\ Return(t)
    /\ Ran(t)
    /\ UNCHANGED <<generation, tail, proven>>

\* `exchange_without_response` lets a cancellation through untouched: its token
\* still says nothing was sent, so nobody closes the socket.
CancelSilent(t) ==
    /\ running = {} /\ pc[t] = "write"
    /\ op[t] = "cancelled" /\ kind[t] = "silent"
    /\ busy' = FALSE /\ pending' = {}
    /\ op' = [op EXCEPT ![t] = "none"]
    /\ Release(t)
    /\ Return(t)
    /\ Ran(t)
    /\ UNCHANGED <<state, generation, sock, tail, proven>>

Runs(t) ==
    \/ Acquire(t) \/ LeaveQueue(t) \/ AbandonQueue(t)
    \/ FindUnusable(t) \/ FindBusy(t) \/ FailToSend(t) \/ Send(t)
    \/ GoOn(t) \/ FinishSilent(t) \/ Succeed(t) \/ FailExchange(t) \/ CancelSilent(t)

Next ==
    \/ \E t \in Task : Runs(t) \/ SocketEvent(t) \/ Timeout(t) \/ CancelTask(t)
    \/ \E u \in User : Call(u)
    \/ \E o \in Opener : Connect(o) \/ Reconnect(o) \/ OpenSucceeds(o) \/ OpenFails(o)
                         \/ Confirm(o)
    \/ Aclose

(***************************************************************************)
(* The ready list of the event loop is FIFO: a task that is due runs, even *)
(* if others suspend and come back in between, which makes it strong       *)
(* fairness.  Every operation and every open has a deadline; a read that   *)
(* keeps receiving parts is parked again and again, and the deadline falls *)
(* in one of those waits.  The task that has control goes on.              *)
(***************************************************************************)
Fairness ==
    /\ \A t \in Task : SF_vars(Runs(t)) /\ SF_vars(Timeout(t))
    /\ \A o \in Opener : WF_vars(Confirm(o)) /\ SF_vars(OpenFails(o))

Spec == ConnInit /\ [][Next]_vars /\ Fairness

-----------------------------------------------------------------------------
(***************************************************************************)
(* Properties.                                                             *)
(***************************************************************************)

\* Types, with how the parts of a task's state go together.
ConnTypeOK ==
    /\ GateTypeOK
    /\ state \in State
    /\ generation \in Generation
    /\ sock \in Generation \cup {NoSocket}
    /\ busy \in BOOLEAN
    /\ pending \subseteq Task /\ Cardinality(pending) <= 1
    /\ running \subseteq Task /\ Cardinality(running) <= 1
    /\ pc \in [Task -> {"idle", "connecting", "acquire", "queued", "leased", "write", "read",
                        "confirm"}]
    /\ kind \in [Task -> Kind]
    /\ at \in [Task -> Generation \cup {NoSocket}]
    /\ op \in [Task -> Ended \cup {"none", "parked"}]
    /\ step \in [Task -> 0 .. HandshakeSteps]
    /\ ahead \in [Opener -> SUBSET Task]
    /\ tail \in [Generation -> SUBSET Task]
    /\ proven \subseteq Generation
    /\ \A t \in Task :
         /\ pc[t] \in {"acquire", "leased", "confirm"} <=> t \in running
         /\ pc[t] \in Parked <=> op[t] # "none"
         /\ pc[t] \in Parked \cup {"leased"} <=> lease[t] = "holding"

\* "An unread tail is exactly how the NEXT transaction reads the previous one's
\* bytes as fresh data" (`note_failure`): whatever is on the wire of the socket
\* in service belongs to a task still exchanging on it.
NoUnreadTail ==
    sock # NoSocket =>
        \A t \in tail[sock] : pc[t] \in Parked /\ at[t] = sock

\* Two requests before the first response are answered once, for the last: the
\* socket in service never carries two.  The gate alone does not give this
\* (KeepsCapacity fails); it takes `_busy` too, which every close() and every
\* exchange that ends resets.
AloneOnTheWire ==
    sock # NoSocket => Cardinality(tail[sock]) <= 1

\* "CLOSED on purpose", "sticky and the socket is closed": a connection that is
\* not usable holds no socket -- on TCP, the PLC's only slot on that entry -- and
\* one that is usable has one.
SocketFollowsState == Usable <=> sock # NoSocket

\* READY means that the handshake was answered on the socket now in service.
ReadyIsProven ==
    state = "READY" /\ HandshakeSteps > 0 => sock \in proven

\* "Closing a client with a transaction in flight now ends that transaction at
\* once" (CHANGELOG): nobody is left waiting on a socket that close() took away,
\* however many tasks share the one `_pending` that close() knows of.
NobodyWaitsOnAClosedSocket ==
    \A t \in Task : op[t] = "parked" => at[t] = sock

\* The connection implements its abstract life cycle: READY comes only from OPEN,
\* OPEN only from an open of its own, CLOSED is never left, and an exchange that
\* fails, whenever its task gets to run, moves nothing but a usable or opening
\* connection to FAILED.
Life == INSTANCE Lifecycle WITH opening <- {o \in Opener : pc[o] = "connecting"}
Refines == Life!LifeSpec

\* Every call returns to its caller: no task is left parked on a socket that
\* was closed or replaced under it, or in line at the gate.
EveryCallReturns == \A t \in Task : pc[t] # "idle" ~> pc[t] = "idle"
=============================================================================
