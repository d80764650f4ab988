----------------------------- MODULE Supervisor -----------------------------
(***************************************************************************)
(* src/aslmp/resilience.py: a Supervisor that rebuilds the connection of   *)
(* one client, on the life cycle of Lifecycle.tla.                         *)
(*                                                                         *)
(* Around it: the owner, who connects, closes and may reconnect by hand; a *)
(* caller with one exchange at a time; tasks inside wait_ready().  An      *)
(* opener whose socket is up has its handshake transaction in              *)
(* `exchanging`, like the caller its exchange.  An exchange whose socket   *)
(* is closed under it is in `cut` until its task runs and fails.           *)
(*                                                                         *)
(* Abstracted: delays, reasons, clocks, counters, the gate and the wire    *)
(* (Connection.tla).  The handshake is the default one, which identifies.  *)
(***************************************************************************)
EXTENDS Lifecycle, Naturals

CONSTANTS
    Waiter,         \* tasks that call wait_ready()
    Cpu,            \* the CPUs that may answer at the address
    NoCpu,          \* Plc.identity before the first handshake
    MaxAttempts,    \* ExponentialBackoff.max_attempts
    Scopes          \* sets of Doings: what else the environment may do in one life

\* The owner reconnects by hand; stops, and starts, the supervisor; the handshake is
\* refused by an end code or the wrong CPU; a listener of the user raises; a
\* supervisor is started after it gave up, or on a client that is closed already.
Doings == {"reconnect", "stop", "refuse", "raise", "late"}

ASSUME SupervisorAssumption ==
    /\ Opener = {"watcher", "owner"}
    /\ NoCpu \notin Cpu
    /\ MaxAttempts \in Nat \ {0}
    /\ Scopes \subseteq SUBSET Doings

VARIABLES
    exchanging, \* whose transactions are on the wire
    cut,        \* those whose socket was closed under them
    sup,        \* Supervisor._ready, _wake, _stopped, _surrendered, and _listening: since
                \* the first start() there are a listener and the two events
    watcher,    \* Supervisor._task: where `_supervise` is, or start() before it
    attempt,    \* the attempt number of `_reconnect`
    previous,   \* its previous_model
    identity,   \* Plc.identity
    cpu,        \* the CPU at the address
    bound,      \* history: the first CPU whose handshake was confirmed
    waiting,    \* where each wait_ready() is
    scope       \* what the environment does, chosen once

wireVars == <<exchanging, cut>>
watchVars == <<watcher, attempt, previous>>
cpuVars == <<identity, cpu, bound>>
vars == <<lifeVars, wireVars, sup, watchVars, cpuVars, waiting>>

Exchanger == Opener \cup {"caller"}

SupInit ==
    /\ LifeInit
    /\ exchanging = {} /\ cut = {}
    /\ sup = [listening |-> FALSE, ready |-> FALSE, wake |-> FALSE, stopped |-> FALSE,
              surrendered |-> FALSE]
    /\ watcher = "none" /\ attempt = 1 /\ previous = NoCpu
    /\ identity = NoCpu /\ cpu \in Cpu /\ bound = NoCpu
    /\ waiting = [w \in Waiter |-> "idle"]
    /\ scope \in Scopes

-----------------------------------------------------------------------------
(***************************************************************************)
(* Pieces of steps.  `s` is the value of `sup` a step has reached so far.  *)
(***************************************************************************)

\* The flags become s.  `Event.set` wakes everybody who waits.
Tell(s) ==
    /\ sup' = s
    /\ waiting' = [w \in Waiter |-> IF waiting[w] = "parked" /\ s.ready THEN "woken"
                                                                       ELSE waiting[w]]

\* A fault for GaveUp: nobody is woken.
GaveUpSilently(s) == [s EXCEPT !.surrendered = TRUE]

\* `_surrender`.
GaveUp(s) == [s EXCEPT !.surrendered = TRUE, !.ready = TRUE]

\* `_on_event` is registered at the first start and looks at `_stopped`.
Hears(s) == s.listening /\ ~s.stopped

\* A listener of the user that raises is called first and ends the emission.
Unheard(s) == IF ~Hears(s) \/ "raise" \in scope THEN {s} ELSE {}

\* A fault for AfterFailure: `ready` is left for the watcher to clear.
WakeOnly(s) == Unheard(s) \cup IF Hears(s) THEN {[s EXCEPT !.wake = TRUE]} ELSE {}

\* `_on_event` on ConnectionFailed.
AfterFailure(s) ==
    Unheard(s) \cup IF Hears(s) THEN {[s EXCEPT !.ready = FALSE, !.wake = TRUE]} ELSE {}

\* `_on_event` on a Disconnected that was expected.
AfterClose(s) ==
    Unheard(s) \cup IF Hears(s) THEN {[GaveUp(s) EXCEPT !.stopped = TRUE, !.wake = TRUE]} ELSE {}

\* The transport closes: what is left on the wire is cut off.
CutOff(rest) == exchanging' = rest /\ cut' = rest

\* No task is due to run.  asyncio runs it before it looks at sockets and timers.
Quiet ==
    /\ cut = {}
    /\ watcher # "cancelled"
    /\ ~(watcher = "waiting" /\ sup.wake)

\* The answer of x is taken: one that was there when its socket was closed is, too.
Answered(x) ==
    /\ x \in exchanging /\ (x \in cut \/ Quiet)
    /\ exchanging' = exchanging \ {x} /\ cut' = cut \ {x}

\* The handshake of a connection to the CPU at the address is confirmed.
Confirmed ==
    /\ Prove
    /\ bound' = IF bound = NoCpu THEN cpu ELSE bound

\* `_emit` from the watcher: a listener that raises kills it.
Emit(next) == watcher' = next \/ ("raise" \in scope /\ watcher' = "died")

\* The watcher's `reconnect()` raised an SlmpError.
AttemptFailed(s) ==
    /\ UNCHANGED previous
    /\ \/ /\ attempt >= MaxAttempts
          /\ Tell(GaveUp(s))
          /\ watcher' = "returned"
          /\ UNCHANGED attempt
       \/ /\ attempt < MaxAttempts /\ s.surrendered
          /\ Tell(s)
          /\ watcher' = "returned"
          /\ UNCHANGED attempt
       \/ /\ attempt < MaxAttempts /\ ~s.surrendered
          /\ Tell(s)
          /\ Emit("sleeping")
          /\ attempt' = attempt + 1

\* `connect()` or `reconnect()` of o raised.  What start() awaits, it lets through.
Raised(o, s) ==
    \/ o = "watcher" /\ AttemptFailed(s)
    \/ /\ o = "owner" /\ Tell(s)
       /\ watcher' = IF watcher = "starting" THEN "none" ELSE watcher
       /\ UNCHANGED <<attempt, previous>>

\* The same in the handshake, where `_report_handshake_failure` emits
\* HandshakeFailed and lets what a listener raises through.
HandshakeRaised(o, s) ==
    \/ Raised(o, s)
    \/ o = "watcher" /\ "raise" \in scope /\ Tell(s) /\ watcher' = "died"
       /\ UNCHANGED <<attempt, previous>>

-----------------------------------------------------------------------------
(***************************************************************************)
(* The owner and the caller.                                               *)
(***************************************************************************)

\* connect() by hand.
Connect ==
    /\ Open("owner")
    /\ UNCHANGED <<wireVars, sup, watchVars, cpuVars, waiting>>

\* reconnect() by hand.
ManualReconnect ==
    /\ "reconnect" \in scope
    /\ "owner" \notin exchanging
    /\ Reopen("owner")
    /\ CutOff(exchanging)
    /\ UNCHANGED <<sup, watchVars, cpuVars, waiting>>

\* aclose() of the client.
CloseClient ==
    /\ Close
    /\ CutOff(exchanging)
    /\ \E s \in AfterClose(sup) : Tell(s)
    /\ UNCHANGED <<watchVars, cpuVars>>

\* A fault for Begin: a connection that is down already is left to the next event.
BeginAsleep == [listening |-> TRUE, ready |-> Usable, wake |-> FALSE, stopped |-> FALSE,
                surrendered |-> sup.surrendered]

\* The flags `start` leaves behind: new events; `_surrendered` is not reset.
Begin == [listening |-> TRUE, ready |-> Usable, wake |-> ~Usable, stopped |-> FALSE,
          surrendered |-> sup.surrendered]

\* start().  On a client that is NEW it connects, with its events and its listener in
\* place and no task yet.  Whoever still waits, waits on the event of the earlier start.
Start ==
    /\ watcher = "none" /\ "owner" \notin opening \cup exchanging
    /\ state = "CLOSED" \/ sup.surrendered => "late" \in scope
    /\ waiting' = [w \in Waiter |-> IF waiting[w] = "parked" THEN "orphaned" ELSE waiting[w]]
    /\ \/ /\ Open("owner")
          /\ watcher' = "starting"
          /\ sup' = [Begin EXCEPT !.wake = FALSE]
       \/ /\ state # "NEW" /\ UNCHANGED lifeVars
          /\ watcher' = "waiting"
          /\ sup' = Begin
    /\ UNCHANGED <<wireVars, attempt, previous, cpuVars>>

\* aclose() of the supervisor, until its `await task`.  Inside start() there is no task.
Stop ==
    /\ "stop" \in scope
    /\ watcher \notin {"none", "cancelled"}
    /\ sup' = [sup EXCEPT !.stopped = TRUE]
    /\ watcher' = CASE watcher = "starting" -> "starting"
                    [] watcher \in {"returned", "died"} -> "none"
                    [] OTHER -> "cancelled"
    /\ UNCHANGED <<lifeVars, wireVars, attempt, previous, cpuVars, waiting>>

\* The caller's exchange begins, and is answered.
Call ==
    /\ Usable /\ "caller" \notin exchanging
    /\ exchanging' = exchanging \cup {"caller"}
    /\ UNCHANGED <<lifeVars, cut, sup, watchVars, cpuVars, waiting>>

Answer ==
    /\ Answered("caller")
    /\ UNCHANGED <<lifeVars, sup, watchVars, cpuVars, waiting>>

\* It was a silent one, and its socket is retired: an expected Disconnected.
Silence ==
    /\ Quiet /\ "caller" \in exchanging
    /\ CutOff(exchanging \ {"caller"})
    /\ Fail
    /\ \E s \in AfterClose(sup) : Tell(s)
    /\ UNCHANGED <<watchVars, cpuVars>>

\* Another CPU is put at the address while the connection is down.
SwapCpu ==
    /\ ~Usable /\ cut = {}
    /\ cpu' \in Cpu \ {cpu}
    /\ UNCHANGED <<lifeVars, wireVars, sup, watchVars, identity, bound, waiting>>

-----------------------------------------------------------------------------
(***************************************************************************)
(* How opens, handshakes and exchanges end.                                *)
(***************************************************************************)

\* The socket is up: the first handshake transaction begins at once.
OpenSucceeds(o) ==
    /\ Quiet
    /\ Opened(o)
    /\ exchanging' = exchanging \cup {o}
    /\ UNCHANGED <<cut, sup, watchVars, cpuVars, waiting>>

\* The open failed, or the connection was closed meanwhile.
OpenFails(o) ==
    /\ Quiet
    /\ NotOpened(o)
    /\ CutOff(exchanging)
    /\ Raised(o, sup)
    /\ UNCHANGED cpuVars

\* `note_failure`: the transport closes, the connection fails and says so.
FailExchange(x) ==
    /\ x \in exchanging /\ (x \in cut \/ Quiet)
    /\ x = "watcher" => watcher = "attempting"
    /\ CutOff(exchanging \ {x})
    /\ \E s \in IF state \in {"CLOSED", "FAILED"} THEN {sup} ELSE AfterFailure(sup) :
         \/ x = "caller" /\ Tell(s) /\ UNCHANGED watchVars
         \/ x # "caller" /\ HandshakeRaised(x, s)
    /\ IF state \in {"CLOSED", "FAILED"} THEN UNCHANGED lifeVars ELSE Fail
    /\ UNCHANGED cpuVars

\* The handshake is refused by an end code, by the gate, or for the CPU's model: the
\* socket stays.
Refused(o) ==
    /\ "refuse" \in scope
    /\ Quiet /\ o \in exchanging
    /\ exchanging' = exchanging \ {o}
    /\ HandshakeRaised(o, sup)
    /\ UNCHANGED <<lifeVars, cut, cpuVars>>

\* The handshake is answered and `confirm` raises: the connection is not OPEN any more, or
\* the listener raised on Connected.  The identity was taken before.
NotConfirmed(o) ==
    /\ Answered(o)
    /\ identity' = cpu
    /\ \/ state # "OPEN" /\ UNCHANGED <<lifeVars, bound>>
       \/ "raise" \in scope /\ Confirmed
    /\ Raised(o, sup)
    /\ UNCHANGED cpu

\* The owner's handshake is confirmed, and start() goes on to its end.
OwnerConfirmed ==
    /\ Answered("owner")
    /\ identity' = cpu
    /\ Confirmed
    /\ IF watcher = "starting"
       THEN watcher' = "waiting" /\ Tell([sup EXCEPT !.ready = TRUE])
       ELSE UNCHANGED <<watcher, sup, waiting>>
    /\ UNCHANGED <<cpu, attempt, previous>>

\* A fault for SameTarget: the model code is read before each attempt, not before the first.
SameAsLastAnswer == identity \in {NoCpu, cpu}

\* `_confirm_target`.
SameTarget == previous \in {NoCpu, cpu}

\* The watcher's is: it stands down, reports ready, or closes a connection to
\* another CPU, all without suspending.
WatcherConfirmed ==
    /\ Quiet /\ "watcher" \in exchanging /\ state = "OPEN"
    /\ identity' = cpu
    /\ UNCHANGED <<cpu, attempt, previous>>
    /\ \/ /\ sup.surrendered \/ SameTarget \/ "raise" \in scope
          /\ Confirmed
          /\ exchanging' = exchanging \ {"watcher"} /\ UNCHANGED cut
          /\ \/ sup.surrendered /\ watcher' = "returned" /\ Tell(sup)
             \/ ~sup.surrendered /\ "raise" \in scope /\ watcher' = "died" /\ Tell(sup)
             \/ /\ ~sup.surrendered /\ SameTarget
                /\ watcher' = "waiting"
                /\ Tell([sup EXCEPT !.ready = TRUE])
       \/ /\ ~sup.surrendered /\ ~SameTarget
          /\ state' = "CLOSED" /\ UNCHANGED <<opening, bound>>
          /\ CutOff(exchanging \ {"watcher"})
          /\ watcher' = "returned"
          /\ \E s \in AfterClose(sup) : Tell(GaveUp(s))

-----------------------------------------------------------------------------
(***************************************************************************)
(* The watcher.                                                            *)
(***************************************************************************)

\* The connection is usable by the time the watcher runs.
UpAgain == Usable

\* `_supervise` woke up.
Wake ==
    /\ watcher = "waiting" /\ sup.wake
    /\ LET s == [sup EXCEPT !.wake = FALSE] IN
         \/ /\ sup.stopped \/ state = "CLOSED"
            /\ watcher' = "returned"
            /\ Tell(s)
            /\ UNCHANGED <<attempt, previous>>
         \/ /\ ~sup.stopped /\ state # "CLOSED" /\ UpAgain
            /\ Tell(s)
            /\ UNCHANGED watchVars
         \/ /\ ~sup.stopped /\ state # "CLOSED" /\ ~UpAgain
            /\ Tell([s EXCEPT !.ready = FALSE])
            /\ previous' = identity
            /\ attempt' = 1
            /\ Emit("sleeping")
    /\ UNCHANGED <<lifeVars, wireVars, cpuVars>>

\* A fault for StoodDown: `_stopped` is not looked at after the sleep.
NeverStoodDown == FALSE

\* `_stopped`, after the backoff.
StoodDown == sup.stopped

\* The backoff is over.
SleepEnds ==
    /\ Quiet /\ watcher = "sleeping"
    /\ \/ /\ StoodDown
          /\ watcher' = "returned"
          /\ UNCHANGED <<lifeVars, wireVars, sup, attempt, previous, waiting>>
       \/ /\ ~StoodDown /\ state = "CLOSED"
          /\ AttemptFailed(sup)
          /\ UNCHANGED <<lifeVars, wireVars>>
       \/ /\ ~StoodDown
          /\ Reopen("watcher")
          /\ CutOff(exchanging)
          /\ watcher' = "attempting"
          /\ UNCHANGED <<sup, attempt, previous, waiting>>
    /\ UNCHANGED cpuVars

\* The cancellation of `aclose` reaches the watcher, in whatever it awaits.
Unwind ==
    /\ watcher = "cancelled"
    /\ watcher' = "none"
    /\ \/ /\ "watcher" \notin opening \cup exchanging
          /\ UNCHANGED <<lifeVars, wireVars>>
       \/ /\ NotOpened("watcher")
          /\ CutOff(exchanging)
       \/ /\ "watcher" \in exchanging
          /\ CutOff(exchanging \ {"watcher"})
          /\ IF state \in {"CLOSED", "FAILED"} THEN UNCHANGED lifeVars ELSE Fail
    /\ UNCHANGED <<sup, attempt, previous, cpuVars, waiting>>

\* wait_ready() finds `ready` cleared, and returns or raises when it was set.
WaitReady(w) ==
    /\ waiting[w] = "idle" /\ sup.listening /\ ~sup.ready
    /\ waiting' = [waiting EXCEPT ![w] = "parked"]
    /\ UNCHANGED <<lifeVars, wireVars, sup, watchVars, cpuVars>>

Return(w) ==
    /\ waiting[w] = "woken"
    /\ waiting' = [waiting EXCEPT ![w] = "idle"]
    /\ UNCHANGED <<lifeVars, wireVars, sup, watchVars, cpuVars>>

Ends(o) == OpenSucceeds(o) \/ OpenFails(o) \/ FailExchange(o) \/ Refused(o) \/ NotConfirmed(o)

Next ==
    \/ Connect \/ ManualReconnect \/ CloseClient \/ Start \/ Stop
    \/ Call \/ Answer \/ Silence \/ FailExchange("caller") \/ SwapCpu
    \/ \E o \in Opener : Ends(o)
    \/ OwnerConfirmed \/ WatcherConfirmed \/ Wake \/ SleepEnds \/ Unwind
    \/ \E w \in Waiter : WaitReady(w) \/ Return(w)

(***************************************************************************)
(* Every open and every exchange has a deadline, a backoff is finite, and  *)
(* a due task runs.  Other tasks that are due first only delay them, which *)
(* makes it strong fairness for what waits for the network or a timer.     *)
(***************************************************************************)
Expires(o) == OpenFails(o) \/ FailExchange(o)

Fairness ==
    /\ WF_vars(Wake) /\ WF_vars(Unwind)
    /\ SF_vars(SleepEnds \/ Expires("watcher"))
    /\ SF_vars(Expires("owner")) /\ SF_vars(FailExchange("caller"))
    /\ \A w \in Waiter : WF_vars(Return(w))

Spec == SupInit /\ [][Next /\ UNCHANGED scope]_<<vars, scope>> /\ Fairness

-----------------------------------------------------------------------------
(***************************************************************************)
(* Properties.                                                             *)
(***************************************************************************)

\* Types, with where an attempt is and what may be on the wire.
SupTypeOK ==
    /\ LifeTypeOK
    /\ exchanging \subseteq Exchanger /\ cut \subseteq exchanging
    /\ sup \in [listening : BOOLEAN, ready : BOOLEAN, wake : BOOLEAN, stopped : BOOLEAN,
                surrendered : BOOLEAN]
    /\ watcher \in {"none", "starting", "waiting", "sleeping", "attempting", "cancelled", "returned", "died"}
    /\ attempt \in 1 .. MaxAttempts
    /\ previous \in Cpu \cup {NoCpu} /\ identity \in Cpu \cup {NoCpu}
    /\ cpu \in Cpu /\ bound \in Cpu \cup {NoCpu}
    /\ waiting \in [Waiter -> {"idle", "parked", "woken", "orphaned"}]
    /\ opening \cap exchanging = {}
    /\ exchanging # cut => Usable
    /\ watcher = "attempting" => "watcher" \in opening \cup exchanging
    /\ "watcher" \in opening \cup exchanging => watcher \in {"attempting", "cancelled"}

\* No lost wake-up: a watcher that waits with `ready` cleared is due to run.  A
\* failure before the watcher's first await, or while it is inside `_reconnect`,
\* would otherwise be "the one failure nobody reconnects from" (start).
NoLostFailure == watcher = "waiting" /\ ~sup.ready => sup.wake

\* "A waiter that arrived before the task next ran would otherwise be handed the
\* previous connection's ready" (`_on_event`): under a supervisor in charge, `ready` is
\* set only while the connection is usable, whatever handshakes are refused, unless a
\* listener of the user raises or somebody else reconnects, closes or supervises.
ReadyIsNotStale ==
    scope \subseteq {"refuse"} /\ sup.ready /\ ~sup.surrendered /\ ~sup.stopped => Usable

\* "Wake every waiter so none of them hangs" (`_surrender`): once the supervisor
\* gave up, wait_ready() answers.
SurrenderIsAnswered == sup.surrendered => sup.ready

\* A supervisor that was stopped, or told that the client was closed or its socket
\* retired on purpose, never opens the connection again.
NoReopenOnceStopped ==
    [][sup.stopped /\ sup'.stopped => ~("watcher" \notin opening /\ "watcher" \in opening')]_vars

\* A connection to another CPU is "closed rather than handed back" (`_confirm_target`):
\* whoever goes by READY, or by wait_ready(), is on the CPU whose handshake was confirmed
\* first, however many attempts failed in between and whatever identity they left behind;
\* unless the owner reconnects by hand, supervision is stopped and started again, or a
\* listener of the user ends the watcher first.
\* It says nothing of an exchange on a connection that is OPEN, which is usable as well.
SameCpu ==
    /\ scope \subseteq {"refuse"} /\ bound # NoCpu
    /\ state = "READY" \/ (sup.ready /\ ~sup.surrendered /\ ~sup.stopped)
    => cpu = bound

\* Everybody who waits for the connection is told that it is up, or why it will not be,
\* while nobody stops the supervisor and no handshake is refused; but when the connect
\* inside start() fails, only the caller of start() is told, and no watcher is left for
\* those who wait.
EveryWaiterIsAnswered ==
    \A w \in Waiter :
        scope = {} /\ waiting[w] = "parked" ~> waiting[w] \in {"idle", "woken"} \/ watcher = "none"
=============================================================================
