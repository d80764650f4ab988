----------------------------- MODULE UdpTransport -----------------------------
(***************************************************************************)
(* The UDP transport of src/aslmp/transport/udp.py under the rule its      *)
(* connection adds: whatever ends an exchange in an error after it was     *)
(* admitted closes the socket (Connection.note_failure).  Up to `depth`    *)
(* requests are in flight; they take turns at reading the socket, passing  *)
(* a lock (the baton) on, and whoever reads a datagram hands it to the     *)
(* exchange that claims it.                                                *)
(*                                                                         *)
(* An exchange is named by its number, which is also its serial: the 65536 *)
(* serials do not come round within the calls modelled.  A datagram is the *)
(* number of the request it answers, or Foreign.  Everything between two   *)
(* awaits is one step.  A deadline may pass whenever its exchange waits.   *)
(***************************************************************************)
EXTENDS Naturals, Sequences, FiniteSets
LOCAL INSTANCE SequencesExt     \* RemoveAt

CONSTANTS
    MaxCalls,    \* bound: exchanges made in a behaviour
    MaxOpens,    \* bound: times the connection is opened
    MaxQueued,   \* bound: datagrams in the receive buffer of the socket
    Depths,      \* the pipeline depths the transport may be built with
    Duplicated   \* the frame formats on which the network may repeat an answer

ASSUME UdpAssumption ==
    /\ MaxCalls \in Nat /\ MaxOpens \in Nat /\ MaxQueued \in Nat
    /\ Depths \subseteq Nat \ {0}
    /\ Duplicated \subseteq {"3E", "4E"}

Call == 1 .. MaxCalls
Foreign == 0        \* a datagram from an address the entry never sent to
Datagram == Call \cup {Foreign}

VARIABLES
    format,    \* the frame format: 4E carries a serial, 3E does not
    depth,     \* _pipeline_depth
    up,        \* _sock is set and the connection is usable
    port,      \* the source port of the last socket bound, each a fresh number
    opens,     \* how often the connection was opened
    calls,     \* the exchanges admitted so far
    wire,      \* the answers on their way, each to the port its request came from
    buffer,    \* what the socket has received and nobody has read
    waiters,   \* _waiters: the exchanges in flight
    pc,        \* where each exchange is, see Where
    future,    \* the future of each waiter: Pending, Closed or Got(a datagram)
    read,      \* the datagram an exchange has read and not dispatched yet (else Foreign)
    baton      \* _read_baton and the tasks that acquire it

config == <<format, depth>>
network == <<wire, buffer>>
udpVars == <<config, up, port, opens, calls, network, waiters, pc, future, read, baton>>

\* The futures of the waiters.
Pending == [is |-> "pending", datagram |-> Foreign]
Closed  == [is |-> "failed", datagram |-> Foreign]
Got(d)  == [is |-> "delivered", datagram |-> d]

(***************************************************************************)
(* "racing" waits for the baton or its own answer, "reading" is parked on  *)
(* the socket, "received" has a datagram and is not resumed yet, "severed" *)
(* had its parked read cancelled by close().                               *)
(***************************************************************************)
Where == {"unsent", "racing", "reading", "received", "severed", "done"}
Active(c) == pc[c] \notin {"unsent", "done"}

\* A list that holds c at most once, without it.
Without(s, c) ==
    IF \E i \in DOMAIN s : s[i] = c
    THEN RemoveAt(s, CHOOSE i \in DOMAIN s : s[i] = c)
    ELSE s

InFlight == {waiters[i] : i \in DOMAIN waiters}

-----------------------------------------------------------------------------
(***************************************************************************)
(* The baton is an asyncio.Lock, taken by a task of its own per attempt:   *)
(* `task` says where that is.  "created" has not run; "queued" waits in    *)
(* `line`; "woken" was released to and has not run; "cancelled", "dying"   *)
(* and "stillborn" are queued, woken and created ones that were cancelled. *)
(***************************************************************************)
Acquiring == {"none", "created", "queued", "woken", "held",
              "cancelled", "dying", "stillborn"}

FreshBaton == [locked |-> FALSE, line |-> <<>>, task |-> [c \in Call |-> "none"]]

\* Lock._wake_up_first(): the head of the line, unless its future is done.
WakeFirst(b) ==
    IF b.line # <<>> /\ b.task[Head(b.line)] = "queued"
    THEN [b EXCEPT !.task[Head(b.line)] = "woken"]
    ELSE b

\* Lock.release() by exchange c.
Release(b, c) == WakeFirst([b EXCEPT !.locked = FALSE, !.task[c] = "none"])

\* Task.cancel() on the acquire of c, which notices when it runs next.
CancelAcquire(b, c) ==
    [b EXCEPT !.task[c] = CASE @ = "created" -> "stillborn"
                            [] @ = "queued"  -> "cancelled"
                            [] @ = "woken"   -> "dying"
                            [] OTHER         -> @]

\* A fault for LetGo: an acquire that has already succeeded is only cancelled.
LetGoByCancelling(b, c) == CancelAcquire(b, c)

\* How an exchange leaves the race for the baton, having won it or not.
LetGo(b, c) == IF b.task[c] = "held" THEN Release(b, c) ELSE CancelAcquire(b, c)

\* One step of the task that acquires the baton for c: Lock.acquire().
AcquireStep(c) ==
    /\ \/ /\ baton.task[c] = "created"
          /\ baton' = IF ~baton.locked /\ \A i \in DOMAIN baton.line :
                                            baton.task[baton.line[i]] = "cancelled"
                      THEN [baton EXCEPT !.locked = TRUE, !.task[c] = "held"]
                      ELSE [baton EXCEPT !.line = Append(@, c), !.task[c] = "queued"]
       \/ /\ baton.task[c] = "woken"
          /\ baton' = [baton EXCEPT !.locked = TRUE, !.line = Without(@, c),
                                    !.task[c] = "held"]
       \/ /\ baton.task[c] \in {"cancelled", "dying"}
          /\ LET left == [baton EXCEPT !.line = Without(@, c), !.task[c] = "none"]
             IN  baton' = IF left.locked THEN left ELSE WakeFirst(left)
       \/ /\ baton.task[c] = "stillborn"
          /\ baton' = [baton EXCEPT !.task[c] = "none"]
    /\ UNCHANGED <<config, up, port, opens, calls, network, waiters, pc, future, read>>

-----------------------------------------------------------------------------
UdpInit ==
    /\ format \in {"3E", "4E"}
    /\ depth \in Depths
    /\ depth > 1 => format = "4E"       \* refused in __init__ otherwise
    /\ up = FALSE
    /\ port = 0 /\ opens = 0 /\ calls = 0
    /\ wire = {} /\ buffer = <<>>
    /\ waiters = <<>>
    /\ pc = [c \in Call |-> "unsent"]
    /\ future = [c \in Call |-> Pending]
    /\ read = [c \in Call |-> Foreign]
    /\ baton = FreshBaton

(***************************************************************************)
(* close() and what the connection makes of it, run by exchange c in its   *)
(* last step (c = 0: by nobody in flight): every other waiter's future is  *)
(* failed and the one parked read is cancelled.                            *)
(***************************************************************************)
\* A fault for FailedBy: only the reader is told.
FailReaderOnly(f, c) ==
    [d \in Call |-> IF d \in InFlight \ {c} /\ pc[d] = "reading" THEN Closed ELSE f[d]]

FailedBy(f, c) ==
    [d \in Call |-> IF d \in InFlight \ {c} /\ f[d] = Pending THEN Closed ELSE f[d]]

CloseBy(f, c) ==
    /\ up' = FALSE
    /\ buffer' = <<>>
    /\ waiters' = <<>>
    /\ future' = FailedBy(f, c)
    /\ pc' = [d \in Call |-> CASE d = c -> "done"
                               [] d # c /\ pc[d] = "reading" -> "severed"
                               [] OTHER -> pc[d]]

\* open() of the transport inside connect() or reopen(): it awaits the resolver,
\* so whatever close() made due has run before it binds a socket.
Open ==
    /\ ~up
    /\ opens < MaxOpens
    /\ \A c \in Call : ~Active(c) /\ baton.task[c] = "none"
    /\ opens' = opens + 1
    /\ port' = port + 1
    /\ up' = TRUE
    /\ baton' = FreshBaton
    /\ waiters' = <<>>
    /\ buffer' = <<>>
    /\ UNCHANGED <<config, calls, wire, pc, future, read>>

\* close() from outside: aclose(), reopen(), a datagram the OS refused to send,
\* or a request without a response, which retires its socket.
Close ==
    /\ up
    /\ CloseBy(future, 0)
    /\ UNCHANGED <<config, port, opens, calls, wire, read, baton>>

-----------------------------------------------------------------------------
(***************************************************************************)
(* The network.  An answer that never arrives is a lost one; one for a     *)
(* port that is no longer bound lands nowhere.                             *)
(***************************************************************************)
Arrive ==
    /\ up /\ Len(buffer) < MaxQueued
    /\ \E a \in wire :
         /\ a.port = port
         /\ buffer' = Append(buffer, a.answers)
         /\ \/ wire' = wire \ {a}
            \/ format \in Duplicated /\ wire' = wire
    /\ UNCHANGED <<config, up, port, opens, calls, waiters, pc, future, read, baton>>

Stray ==
    /\ up /\ Len(buffer) < MaxQueued
    /\ buffer' = Append(buffer, Foreign)
    /\ UNCHANGED <<config, up, port, opens, calls, wire, waiters, pc, future, read, baton>>

-----------------------------------------------------------------------------
\* A fault for Drained: the drain forgets to look at who is in flight.
DrainAlways == <<>>

\* `_drain_stale`, which runs when nothing else is in flight.
Drained == IF waiters = <<>> THEN <<>> ELSE buffer

\* A fault for Solo: nobody takes the baton.
SoloAlways == TRUE

\* `_await_response` picks its pump by the depth.
Solo == depth = 1

\* An iteration of the pump up to its await.
Pumping == IF Solo THEN "reading" ELSE "racing"
AskBaton(b, c) == IF Solo THEN b ELSE [b EXCEPT !.task[c] = "created"]

\* exchange(), up to the await of the response.
Exchange ==
    LET c == calls + 1 IN
    /\ up
    /\ c \in Call
    /\ Len(waiters) < depth             \* raises _too_many_in_flight otherwise
    /\ calls' = c
    /\ buffer' = Drained
    /\ wire' = wire \cup {[port |-> port, answers |-> c]}
    /\ waiters' = Append(waiters, c)
    /\ pc' = [pc EXCEPT ![c] = Pumping]
    /\ baton' = AskBaton(baton, c)
    /\ UNCHANGED <<config, up, port, opens, future, read>>

\* The last step of exchange c, with the futures in f: it returns its answer; or
\* the answer is a truncated message, or close() failed its future, and the error
\* closes the connection.
End(f, c) ==
    \/ /\ f[c] # Closed
       /\ waiters' = Without(waiters, c)
       /\ pc' = [pc EXCEPT ![c] = "done"]
       /\ future' = f
       /\ UNCHANGED <<up, buffer>>
    \/ CloseBy(f, c)

\* asyncio.wait() returns with the answer in, the baton taken or not.
Answered(c) ==
    /\ pc[c] = "racing" /\ future[c] # Pending
    /\ baton' = LetGo(baton, c)
    /\ End(future, c)
    /\ UNCHANGED <<config, port, opens, calls, wire, read>>

\* asyncio.wait() returns with the baton only: park on the socket.
Park(c) ==
    /\ pc[c] = "racing" /\ future[c] = Pending
    /\ baton.task[c] = "held"
    /\ pc' = [pc EXCEPT ![c] = "reading"]
    /\ UNCHANGED <<config, up, port, opens, calls, network, waiters, future, read, baton>>

\* sock_recvfrom() completes; the exchange runs later.
Receive(c) ==
    /\ pc[c] = "reading" /\ buffer # <<>>
    /\ read' = [read EXCEPT ![c] = Head(buffer)]
    /\ buffer' = Tail(buffer)
    /\ pc' = [pc EXCEPT ![c] = "received"]
    /\ UNCHANGED <<config, up, port, opens, calls, wire, waiters, future, baton>>

-----------------------------------------------------------------------------
\* Correlation.matches(): 4E compares the serial, 3E takes whatever comes; a
\* foreign datagram may carry any serial.
Matches(d, c) == format = "3E" \/ d \in {c, Foreign}

\* Faults for Claimants: the source of the datagram is not looked at; only the
\* oldest exchange in flight is asked.
ClaimantsOfAnySource(d) == {i \in DOMAIN waiters :
    future[waiters[i]] = Pending /\ Matches(d, waiters[i])}
ClaimantsAtHead(d) == {i \in DOMAIN waiters :
    /\ i = 1
    /\ d # Foreign
    /\ future[waiters[i]] = Pending
    /\ Matches(d, waiters[i])}

\* The exchanges `_dispatch` may give datagram d to, by their place in line.
Claimants(d) == {i \in DOMAIN waiters :
    /\ d # Foreign
    /\ future[waiters[i]] = Pending
    /\ Matches(d, waiters[i])}

\* `_dispatch`: the first claimant gets the datagram; without one it is dropped.
Delivered(d) ==
    [c \in Call |->
       IF \E i \in Claimants(d) : waiters[i] = c /\ \A j \in Claimants(d) : i <= j
       THEN Got(d) ELSE future[c]]

\* The reader runs: it dispatches what it read, lets go of the baton, and ends if
\* the answer was its own or close() has failed it; else it starts over.
Dispatch(c) ==
    /\ pc[c] = "received"
    /\ read' = [read EXCEPT ![c] = Foreign]
    /\ LET f == Delivered(read[c])
           b == LetGo(baton, c)
       IN  \/ /\ f[c] # Pending
              /\ baton' = b
              /\ End(f, c)
           \/ /\ f[c] = Pending
              /\ baton' = AskBaton(b, c)
              /\ pc' = [pc EXCEPT ![c] = Pumping]
              /\ future' = f
              /\ UNCHANGED <<up, buffer, waiters>>
    /\ UNCHANGED <<config, port, opens, calls, wire>>

\* `_rebind` in `_lost`: only when nothing else is in flight.
Rebound(c) == IF up /\ InFlight \subseteq {c} THEN port + 1 ELSE port

\* The deadline passes: `_lost`, after which the error closes the connection.
Lose(c) ==
    /\ \/ pc[c] = "racing" /\ future[c] = Pending
       \/ pc[c] \in {"reading", "received"}
    /\ port' = Rebound(c)
    /\ baton' = LetGo(baton, c)
    /\ read' = [read EXCEPT ![c] = Foreign]
    /\ CloseBy(future, c)
    /\ UNCHANGED <<config, opens, calls, wire>>

\* The task is cancelled, wherever it waits, which closes the connection too.
Cancel(c) ==
    /\ Active(c)
    /\ baton' = LetGo(baton, c)
    /\ read' = [read EXCEPT ![c] = Foreign]
    /\ CloseBy(future, c)
    /\ UNCHANGED <<config, port, opens, calls, wire>>

\* The reader whose parked read close() cancelled runs.
Severed(c) ==
    /\ pc[c] = "severed"
    /\ baton' = LetGo(baton, c)
    /\ CloseBy(future, c)
    /\ UNCHANGED <<config, port, opens, calls, wire, read>>

-----------------------------------------------------------------------------
\* The steps of the coroutine of exchange c that are due once they are enabled.
Step(c) == Answered(c) \/ Park(c) \/ Receive(c) \/ Dispatch(c) \/ Severed(c)

UdpNext ==
    \/ Open \/ Close \/ Arrive \/ Stray \/ Exchange
    \/ \E c \in Call : AcquireStep(c) \/ Step(c) \/ Lose(c) \/ Cancel(c)

\* The event loop runs what is ready; deadlines and the network promise nothing.
UdpFairness ==
    \A c \in Call : WF_udpVars(AcquireStep(c)) /\ WF_udpVars(Step(c))

UdpSpec == UdpInit /\ [][UdpNext]_udpVars /\ UdpFairness

-----------------------------------------------------------------------------
\* The types; at most `depth` waiters, each of an exchange that is in its pump; and
\* none on a closed transport.
UdpTypeOK ==
    /\ format \in {"3E", "4E"}
    /\ depth \in Depths
    /\ depth > 1 => format = "4E"
    /\ up \in BOOLEAN
    /\ port \in Nat /\ opens \in Nat /\ calls \in 0 .. MaxCalls
    /\ wire \subseteq [port : Nat, answers : Call]
    /\ buffer \in Seq(Datagram)
    /\ waiters \in Seq(Call) /\ Len(waiters) <= depth
    /\ \A c \in InFlight : Active(c)
    /\ ~up => waiters = <<>>
    /\ pc \in [Call -> Where]
    /\ future \in [Call -> {Pending, Closed} \cup {Got(d) : d \in Datagram}]
    /\ read \in [Call -> Datagram]
    /\ baton \in [locked : BOOLEAN, line : Seq(Call), task : [Call -> Acquiring]]

\* Two coroutines never read the socket at once: the second registration would
\* replace the first one's callback (udp.py:560).
OneReader ==
    \A c, d \in Call :
      pc[c] \in {"reading", "received", "severed"} /\
      pc[d] \in {"reading", "received", "severed"} => c = d

\* The baton is never held by nobody: while it is locked an exchange holds it
\* that is still in the pump, and while it is free a task in line for it is about
\* to run and will take it or pass it on (udp.py:583).
BatonIsNeverStranded ==
    /\ baton.locked => \E c \in Call : baton.task[c] = "held" /\ Active(c)
    /\ ~baton.locked /\ baton.line # <<>> =>
         \E i \in DOMAIN baton.line :
           baton.task[baton.line[i]] \in {"woken", "cancelled", "dying"}

\* The answer an exchange is given is the answer to its own request: not a late
\* one, not a stranger's, not another exchange's (udp.py:47).
AnswerIsMine ==
    \A c \in Call : future[c] \in {Pending, Closed, Got(c)}

\* close() wakes everybody: nobody waits for the baton, an answer or the socket of
\* a transport that is closed (udp.py:361).
ClosedWakesEverybody ==
    ~up => \A c \in Call : /\ pc[c] # "reading"
                           /\ pc[c] = "racing" => future[c] # Pending

\* The answers this process has in hand: queued on the socket, or read and not
\* dispatched yet.
InHand == {buffer[i] : i \in DOMAIN buffer} \cup
          {read[c] : c \in {d \in Call : pc[d] = "received"}}

\* As long as the socket stays, an answer that has arrived for an exchange in
\* flight is kept until it is delivered: neither the drain, nor a dispatch, nor
\* another reader throws it away (udp.py:389).
NoAnswerThrownAway ==
    [][\A c \in InFlight :
         up /\ up' /\ future[c] = Pending /\ c \in InHand =>
           c \in InHand' \/ future'[c] = Got(c)]_udpVars

\* An answer that has arrived reaches its exchange, whoever reads it, unless that
\* exchange is given up or the connection closed: no reader keeps the baton.
AnswerIsDelivered ==
    \A c \in Call :
      (c \in InFlight /\ future[c] = Pending /\ c \in InHand)
        ~> (future[c] # Pending \/ pc[c] = "done")
=============================================================================
