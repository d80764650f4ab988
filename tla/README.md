# A model of aslmp

`aslmp` is a client for the SLMP protocol of MELSEC PLCs: an asyncio client over TCP or
UDP, a supervisor that rebuilds its connection, a synchronous facade, typed reads and
block plans on top, and a simulated CPU for tests. This directory models it in TLA+ in
two halves: the parts whose correctness depends on the order in which things happen, and
the parts whose correctness depends on both ends meaning the same thing by the units
between them. TLC checks the modules on small instances, TLAPS proves theorems about
them for every value of their constants.

Everything runs from this directory:

    tlasany M.tla                            parse a module
    tlc -workers 2 -config X.cfg M           check a configuration
    tlapm M.tla                              check the proofs of a module

`PROJECT.json` is the machine-readable index: the components, the runs, which definition
stands for which lines of the source, the hazards and the properties that watch them.

## 1. Inventory

The library is single-threaded asyncio: a task keeps control until it awaits something
that suspends. Most hazards are therefore about what may happen between an await and the
statement after it.

| component | source (`src/src/aslmp/`) | state | operations | what makes it correct |
|---|---|---|---|---|
| TransactionGate | `transport/inflight.py` | leases held, a FIFO deque of futures | `lease` (admit, refuse, queue), wake-up, release, cancellation | never more leases than slots, no lost wake-up, FIFO |
| Connection, Txn | `connection.py` | `_state`, `_generation`, serial allocator, counters | `open`, `reopen`, `confirm`, `aclose`, `transaction`, `exchange`, `exchange_without_response`, `note_failure` | a socket with unread or half-written bytes is never used again, CLOSED is final, FAILED is sticky, READY means proven |
| TcpTransport | `transport/tcp.py`, `transport/base.py` | `_sock`, `_busy`, `_pending` | `open`, `exchange`, `close` | one request on the wire, nobody left waiting on a closed socket |
| UdpTransport | `transport/udp.py` | `_sock`, `_waiters`, the read baton, the epoch | `open`, `exchange`, both pumps, `_dispatch`, `_drain_stale`, `_rebind`, `close` | each request gets its own answer, one reader, the baton is always passed on |
| Client (`Plc`) | `client.py`, `timed.py` | identity, observers, password and monitor state | `connect`, `reconnect`, `_prove`, `aclose`, the typed API, remote control, monitor | every command is one transaction on a usable connection, carried out at most once, and its caller is told when that is in doubt |
| Supervisor | `resilience.py` | `_ready`, `_wake`, `_stopped`, `_surrendered`, the watcher task | `start`, `aclose`, `wait_ready`, `_on_event`, `_supervise`, `_reconnect` | no failure is slept through, every waiter is answered, ready means the CPU it was |
| Synchronous facade | `sync.py` | a loop on a thread of its own, `_closed` | `submit`, `shutdown`, `close` | every call returns |
| HealthMonitor | `health.py` | window, two streaks, the verdict, two stamps | `observe`, `probe_once`, `run` | a probe never competes with traffic and only goes into silence, the verdict is what was observed, the loop ends |
| Frames, codec, reader | `wire/frames.py`, `wire/codec.py`, `wire/reader.py`, `wire/raw.py` | the accumulator of a reader; the rest is pure | both frames in both codings, the length field, the accumulator | encoding and decoding agree, never a byte too many asked for |
| Device addresses | `wire/address.py`, `wire/devicetable.py`, `wire/devspec.py` | none | literals in the radix of the CPU, both specification formats | a literal names the point the CPU has under that name |
| Commands | `commands/` | none | validation, payload, declared length, decoding, the registry | what is accepted is served, values come back in the order asked for, what mutates says so |
| Profiles | `profile.py`, `profiles/`, `identity.py` | none | limits, ranges, radices, capabilities of eight CPUs | no request past what the CPU takes |
| Errors | `errors/` | none | end code, fault and failed exchange to exception | the class a caller catches is the one that happened |
| Blocks | `blocks/` | none | fields, layout, bind, read and write of a plan | every field is what is in its place, a plan says when it is not atomic |
| Cadence | `loop.py` | the grid, the index, the overrun count | `__anext__` | no index is dropped |
| EntryGroup | `entries.py` | named clients | `connect_all`, `aclose` | all connected or none |
| Timing, observability | `timing.py`, `observability.py`, `results.py`, `_clock.py` | counters, histograms | stamps, percentiles | stamps in order |
| Simulated CPU | `testing/dispatch.py`, `testing/memory.py`, `testing/targets.py` | memory, operating state, monitor list, password lock | dispatch of every command | it does what a CPU does, the bad things included |
| Simulator server | `testing/server.py` and the rest of `testing/` | its connections | answers, pathologies, scenarios | one answer per request |
| Tools | `tools/` | none | argument parsing, printing | not modelled: no state of their own |

How they interact: a `Plc` owns one `Connection`, which owns a `TransactionGate` and a
transport. A command is `Plc._run` → `Connection.transaction` (gate) → `Txn.exchange` →
`Transport.exchange`. Failures go the other way: the exchange calls
`Connection.note_failure`, which closes the transport (which cancels the parked operation
of whoever is on the socket), moves the state to FAILED and emits an event; the event is a
callback into the `Supervisor`, which sets flags for its watcher task; the watcher calls
`Plc.reconnect`, which goes down the same path. The gate is shared by commands, the
handshake and the probes of a `HealthMonitor`, which sees the transactions of everybody
else through a callback; the state of the connection is read before and after every await.
What travels in an exchange is made by a `Command` from a profile and a coding, put in a
frame, served by the CPU, cut into pieces by the transport, put together by the accumulator
and decoded by the same `Command`; typed verbs and bound blocks are one or more of these.

Hard to test in this code, and what the properties are aimed at (all of them, with their
lines, in `PROJECT.json` under `hazards`):

* a task that is woken runs one loop iteration after the step that woke it, and anybody
  may act in between (gate, connection, supervisor, UDP);
* cancellation arrives at any await, and again while the first is being handled;
* `close()` from one task under the feet of another that is parked on the socket;
* state read before an await and used after it (`_open`, `_reconnect`, `wait_ready`);
* a UDP network that loses, delays, repeats and invents datagrams, while several
  exchanges take turns at reading one socket;
* a listener that raises in the middle of an emission;
* delays that were computed before a sleep and are relied on after it;
* one table that is too wide or one base that is wrong: a plausible value from another
  register and no error at all;
* limits that differ between CPU, coding and unit, and lengths counted in bytes here and in
  characters there;
* calls that are several requests, any of which may be lost, refused, or carried out long
  after the caller was told that it failed, while other clients use the same CPU.

## 2. Modules

Who may use the wire, and when:

    SequenceFacts                       lemmas about sequences
    TransactionGate
          │ EXTENDS
          ├─ Health ─── HealthProofs    the gate with a monitor at it
      Connection ───── ConnectionProofs
          │ implements (INSTANCE)
       Lifecycle                        the abstract specification of a connection
          │ EXTENDS
      Supervisor ───── SupervisorProofs
      UdpTransport ─── UdpTransportProofs
      SyncRuntime
      Cpu
          │ EXTENDS
      Session ──────── SessionProofs

What travels on it (each module EXTENDS those its arrows come from):

    Codec ─→ Frames ─→ Reader
      └─→ Devices ─→ Profile ─→ Profiles ─→ CommandBase
    CommandBase ─→ AccessCommands, ControlCommands ─→ Commands
    CommandBase ─→ SimMemory
    SimMemory, Commands ─→ Dispatch              the CPU, unit by unit
    Dispatch, Reader ─→ Wire                     one request and its answer
    Commands ─→ BlockLayout ─→ Verbs
    Wire, BlockLayout ─→ BlockPlan
    BlockPlan, Verbs, Errors ─→ Calls ─→ MCWire  the methods of the client
                                  └─── WireProofs ─→ CallsProofs

**TransactionGate** (`transport/inflight.py`). `lease[t]` says where task `t` stands with
the gate: queued futures are "pending" or "cancelled" (a cancelled future stays in the
deque until its task runs), "woken" is a future that has its result and whose task has not
run yet, "wokenCancelled" one that was cancelled in that gap. `waiters` is the deque.
`Admit`, `Refuse` and `Enqueue` are the three outcomes of `_acquire`; `Resume` is the rest
of it after `_wait`; `Release` and `WakeNext` are `_release` and `_wake_next`; `Unwind` is
the `except BaseException` of `_wait`.

**Connection** (`connection.py` on `transport/tcp.py`, driven by `client.py`) EXTENDS the
gate, so a transaction here queues in the deque of that module. `running` is the task that
has control: only it moves until it suspends, which it does queued at the gate, parked on
the socket, or inside the connect of `TcpTransport.open`. A parked operation ends in one
of the ways the code tells apart (`op`), and the task finds out in a later step. The
variable `tail` is what the wire remembers: requests written to a socket whose answer has
not been read. `ahead` holds the tasks that were due to run when an open began: the event
loop runs its ready list before it looks at sockets, so they run before the open can
complete. Serial numbers, frames and counters are left out, and so is the emission of
events.

**Lifecycle** is what the tasks around a connection see of it: `ConnectionState` and the
opens in progress. Connection implements it (property `Refines`, theorem
`ConnectionRefinesLifecycle`), and Supervisor is built on it instead of on the whole
connection.

**Supervisor** (`resilience.py`). The record `sup` holds its events and flags, `watcher`
where `_supervise` is. Around it: an owner who connects, closes and reconnects by hand, a
caller with one exchange at a time, tasks in `wait_ready()`, and CPUs that change behind
the address. An exchange whose socket is closed under it is in `cut` until its task runs.
`Quiet` states that a task is due: asyncio runs it before it looks at sockets and timers.
`scope`, one of the sets in the constant `Scopes`, is chosen at the start of a behaviour and
says what else the environment may do ("reconnect" by hand, "stop" and restart the
supervision, "refuse" the handshake by an end code, a listener that may "raise", supervision
started too "late" on a closed client). `ReadyIsNotStale` and `SameCpu` are stated for scopes
with nothing but "refuse" in them, `EveryWaiterIsAnswered` for the empty one. `start()` on a
client that is NEW connects with its events and its listener in place and no task yet
(`watcher` is "starting"): whoever is in `wait_ready()` then waits on an event that only the
end of `start()`, or a later task, sets. `bound` is history, the CPU of the first handshake
that was confirmed; the handshake is the default one, which identifies the CPU.

**UdpTransport** (`transport/udp.py`) under the rule its connection adds, that an exchange
that fails closes the socket. An exchange is its number, which is its serial as well; the
65536 serials do not come round within a behaviour. The read baton is an `asyncio.Lock`
that each exchange acquires in a task of its own; `AcquireStep` is one step of that task,
and cancelling it, before or after the lock was handed to it, is `LetGo`. `wire` holds the
answers on their way (one that is lost never arrives), `buffer` the socket's receive
buffer, `future` the futures of the waiters, `read` a datagram that was read and not
dispatched yet. `Open` binds a socket only after everything that `close()` made due has
run, because it awaits the resolver first.

**SyncRuntime** (`sync.py`). Threads that call, one that closes, and the event loop they
share, callback by callback: `ready` is the ready list of asyncio, `todo` how many of it
the running iteration still takes, `stopping` what `loop.stop()` sets, `left` what the
gather of `_drain` still waits for. `submit()` is two steps, the look at `_closed` and the
call that schedules, because another thread may close in between. A coroutine suspends
whenever it likes and may never be due again, except that it fails at once on a client
that is closed and ends when it is cancelled.

**Cpu** (`testing/dispatch.py`, `testing/memory.py`) is the peer: `Handle` is
`Dispatcher.handle`, the other operators are the handlers it calls, each from a CPU to a
CPU and an answer. It is the simulator's CPU because that is the one the repository has the
code of.

**Session** (`client.py` on a CPU) is several clients and one CPU. A call is its number in
`log`; it sends the requests of `RequestOf`, one after the other, and ends in what its
caller is `told`. The connection is no more than up, down or closed here, since how it comes
to be so is Connection's subject; what matters is that a client which gave up no longer
listens (`Awaited`) while its request may still be carried out (`Serve`). `performed` and
`reached` are history: how often the command of a call was carried out, and whether the CPU
was ever as the call wanted it. `TurnSwitch` is a hand on the key switch, which overrules
remote commands; `lies` is the simulator's CPU that ignores them.

**Health** (`health.py`) EXTENDS the gate as well: the callers of the gate are the client's
other tasks and the monitor is one more. A delay is what is left of it, so `Tick` is all
there is to time: `sleepLeft` of the sleep `run()` is in, `idleLeft` and `attemptLeft` of
what `due_in` compares; `tried` is history, what the last attempt found of the time since the
last transaction and since the attempt before. `Look` is an iteration of `run()`, with everything `probe_once` does
until it awaits; `ProbeEnds` is the rest of it. The connection is usable, down or closed,
and `cut` are the exchanges whose socket was closed under them, which `observe` passes over
as `abandoned`. `verdict` is the window with the two streaks, counted no further than they
are compared. A behaviour either has the monitor or is callers only (`Setups`), which is
the gate by itself. Two slots are a pipelined UDP connection; with one there would be no
wake-up gap beside a probe.

**Codec, Frames, Reader** (`wire/`). A unit of the wire is a byte in binary and a
one-character string in ASCII, so that no unit of one coding passes for one of the other. A
parser is a refusal and the record it yields otherwise; `Frames` builds and parses requests
and answers in 3E and 4E, error block and route included; `Reader` is the accumulator, a
record that is fed and asked how many units it still needs.

**Devices, Profile, Profiles** (`wire/address.py`, `profile.py`, `profiles/`). The device
table, the literals in the radix of the CPU, the specification of a point in both formats;
the rules for limits, spans and capabilities; and the eight CPUs row by row. A check is the
name of the refusal, in the order in which the code makes its checks.

**CommandBase, AccessCommands, ControlCommands, Commands** (`commands/`). A command is a
record. For each there is what refuses it, the declared length of its payload, the payload,
what an answer means, and its row of the registry.

**SimMemory, Dispatch** (`testing/`). The simulated CPU again, this time unit by unit: it
parses the request, checks password, limits, ranges and bit devices in its own order, and
has an end code for each. Cpu has the same CPU without codings and limits, for Session,
where it is the order of requests that matters.

**Wire** (`transport/`, `wire/reader.py`). Calls of an entry of a plant (a CPU, a coding, a
frame, a transport), one after another: `Send`, the CPU's answer, and the receive loop that
feeds it piece by piece; a stale answer may be ahead of it and the receive buffer has its
limit. Serials are those of `SerialAllocator`, 1 to 65535 and over again.

**BlockLayout, BlockPlan** (`blocks/`). What a class of fields declares and what `bind()`
makes of it: bits folded into windows, points, chunks, the reader of each field; a plan is
bound, read over as many requests as it takes, and unpacked, or written.

**Verbs, Errors, Calls** (`client.py`, `errors/`). A verb is a record, and what it does next
is a set of steps given the answers so far: it asks, returns or raises. `Errors` is the tree
of exceptions with the tables that lead to it; `Calls` runs verbs over `Wire` and names the
exception that leaves each.

**SequenceFacts** says what a sequence is after an element was removed; the gate's deque
and the line of the baton are both lists that tasks leave from the middle.

Each component that is run by itself has an MC module; MCTransactionGate is the gate
with a single slot, MCHealth the gate with two and a monitor, MCWire the whole second
half. Definitions called a fault ("A fault for X") are not part of any specification:
they are variants of X with a plausible bug, kept beside it, which show that the
properties notice.

## 3. Runs

| run | instance | what it shows |
|---|---|---|
| `gate` | 2 slots, both modes; 4 callers, or 2 callers and a monitor | of the gate `NoIdleCapacity`, `WakesInOrder`, `EveryWaiterIsServed`, under cancellation at any moment of the wait; of the monitor `ProbeNeverWaits`, `OnlyIntoSilence`, `VerdictIsEarned`, `MonitorEnds` |
| `gate_capacity` | 3 tasks, 1 slot | finding 1: a SERIALIZE gate exceeds its capacity |
| `connection` | 2 callers, 1 opener, 2 reconnects, both modes, 2 handshake steps | the socket invariants (`NoUnreadTail`, `AloneOnTheWire`, `SocketFollowsState`, `ReadyIsProven`, `NobodyWaitsOnAClosedSocket`), and `Refines`: the implementation of Lifecycle |
| `connection_progress` | 2 callers, 1 opener, 1 reconnect, SERIALIZE | `EveryCallReturns` |
| `supervisor` | 2 attempts, 2 CPUs, 1 waiter; `scope` everything, "refuse" or nothing | whatever the environment does `NoLostFailure`, `NoReopenOnceStopped`; whatever handshakes are refused `ReadyIsNotStale`, `SameCpu`; undisturbed `EveryWaiterIsAnswered` |
| `supervisor_surrender` | `scope` "refuse" | finding 2: a waiter blocks for ever |
| `udp` | 3 exchanges, depths 1 to 3, 2 opens, 1 queued datagram, answers repeated on 4E | `OneReader`, `BatonIsNeverStranded`, `AnswerIsMine`, `ClosedWakesEverybody`, `NoAnswerThrownAway`, `AnswerIsDelivered` |
| `sync` | 2 calling threads, 1 that closes | `EarlyCallReturns`, `ShutdownEnds` |
| `sync_shutdown` | 1 calling thread, 1 that closes | finding 3: the loop is closed over a live task |
| `session` | 2 clients, 2 calls of 16 kinds, a pair of registers written together, a third, and one the CPU lacks | `DoubtIsTold`, `VerifiedWasReached`, `TwinsReadAlike` |
| `session_not_sent` | the same | finding 4: a write that was carried out is reported as not sent |
| `wire` | FX5U and R04CPU in every coding, frame and format; 2 commands, or one verb or block | of commands `ReadsWhatIsThere`, `MemoryIsWhatWasAsked`, `AcceptedIsServed`, `HarmlessIsHarmless`; of framing `AnswersAreTaken`, and that what is sent is what was meant, `SentAsMeant`; of blocks `BlockIsWhatIsDeclared`, `BlockWriteIsItsFields`; of verbs `TypedIsWhatIsThere`, `ErrorTellsWhatHappened` |

Why the bounds are enough. The gate: two slots and four callers give a full gate with a
line of two, whose head and tail can each be cancelled before or after they are woken.
The monitor: two callers keep a gate of two slots busy, or leave it a slot while one is
being woken; a silence of three units and an interval of two are both more than the one
unit a step of time is, so that an attempt can come too early for either, each can be the
later one, and traffic during a sleep moves the first; thresholds and window of two have a
streak that is broken, one that is long enough and an outcome that falls out. The
connection: two callers make one that waits behind, or is refused because of, the other;
one reconnect replaces the socket under an exchange, the second replaces one that was
replaced. The supervisor: with two attempts one of them can be the last and not be the
first, and an attempt that was refused, or failed after the CPU told its name, comes before
one that another CPU answers; two CPUs are the right one and a wrong one. UDP: three exchanges at depth 3 are a
reader, one that is woken and one that sleeps behind it in the line of the baton, and at
depth 1 or 2 the third is sent after another has ended; one queued datagram is enough
for an answer, a repeated answer or a stranger's datagram to be ahead of the one that is
awaited; the second open is where an exchange could outlive its socket. The synchronous
facade: of two calls one can be suspended, or late, while the other is answered. The
calls of `session`: with two, the request of a call that was given up is carried out
during another, of the same client or of the other, and every pair of commands meets; a
read of three points is two requests when a request takes two. The wire: the first call
is any command of a list with the limit, the end of a range and one point over each for
every family of devices, the second reads back what it left; an answer comes whole, or
split after its first unit or about the end of its prefix; values stay below 2^31, since
TLC's integers do; a remote command is polled twice; verbs and blocks are the only call
of their behaviour, but are several requests. Two of the plants have a stale answer in
the buffer, one has its key switch in STOP. `connection` is run
with SYMMETRY on the callers and `session` on the clients, both without liveness.

Where a run leaves something out because a property fails with it, the hazards say so:
`ReadyIsProven` fails with two openers (`_sock` is looked at before the connect and
overwritten after it); "FAILED is never left implicitly" fails when `reopen()` cuts off
an exchange; `NoUnreadTail` fails with cancelled silent exchanges (`Cancellable` of
`connection` has only answered ones); of the properties of the supervisor that are stated
for narrow scopes, "reconnect" and "raise" each break all three, "stop" breaks `SameCpu`
and `EveryWaiterIsAnswered`, "refuse" and "late" break `EveryWaiterIsAnswered`, which also
excepts a `start()` whose connect failed; `SameCpu` fails when it speaks of OPEN as well as
of READY; `AnswerIsMine` fails on 3E with repeated answers.

Deadlock is checked except in the `udp` runs, where a behaviour is over when its exchanges
and opens are used up, the `sync` runs, where it is over when the loop is closed, and
`gate`, where it is over when the client is closed and nobody is left at the gate.

## 4. Fairness

asyncio's ready list is FIFO: a task whose future is done runs, whatever others do. That
is weak fairness where nothing can take the reason away again (`Resume`, `Unwind`,
`Wake`, `AcquireStep`, the steps of a UDP exchange) and strong fairness in Connection
and Supervisor, where other due tasks go first and disable it for a moment. Every
exchange and every open has a deadline (`Timeout`, `OpenFails`, `FailExchange` there;
`Expires` in Supervisor, for an opener in either), and a backoff is finite (`SleepEnds`):
one fairness for each task, since a task awaits one of them at a time. Nothing is assumed of the network, of callers, of
the owner or of cancellation. In UdpTransport not even deadlines are fair:
`AnswerIsDelivered` is about answers that have arrived. In SyncRuntime the threads run
on and the loop takes its next callback; that what a coroutine waits for happens is not
assumed. In Health time passes, the monitor runs when its sleep is over, woken tasks
run, and an exchange, a probe included, ends by its timeout; that anybody calls, opens
or closes is not assumed. Wire states no liveness: that an answer comes at all is a
matter of the other half.

## 5. Proofs

All proofs are for arbitrary constants, under the assumptions named in each module
(`GateAssumption`, `ConnectionAssumption`, `SupervisorAssumption`, `UdpAssumption`,
`CpuAssumption`, `SessionAssumption`, `HealthAssumption`, `RegistryAssumption`,
`PlantsAssumption`, `AsksAssumption`, `VerbsAssumption`, `TreeAssumption`), which TLC
evaluates in the runs.
Those of the wire say what a caller brings with him: a context whose coding its profile
allows, a route that fits its fields, commands of the registry, and for `raw_command` the
honest word whether a command mutates, which no code checks. The end codes of a CPU are
two octets and not 0, as `EndCodePolicy.__post_init__` has it (`testing/targets.py`), the
ranges of a profile are of the four kinds of `DeviceRange` and a span is not empty
(`profile.py`), and a context speaks of devices in the short or the long format. A CPU with the stale reply
pathology has one entry, since the simulator keeps `_last_response` by connection.

* **HealthProofs**, of the gate: `GateTypeOK` is inductive as it stands (theorem
  `GateTypeCorrect`); `StrictCapacity` and `NoStrandedWaiter` are inductive relative to
  it, the latter by counting holders and woken tasks; `ServedInOrder` is a step property
  from it.
* **ConnectionProofs**: every step of Connection is a step of Lifecycle or a stutter. The
  mapping needs one fact about reachable states, `NewIsUntouched`: a task with a lease on
  a connection that was never opened could move NEW to FAILED, which Lifecycle forbids.
  `SocketAlwaysFollowsState` holds for any tasks. The other invariants of the socket are
  proved with one task that opens (`Lone`), as a client is used; with two, `ReadyIsProven`
  fails. `ExchangeInv` is the argument: an exchange that got the socket has it alone until
  its task has run, since `busy` keeps every other out, and a new socket is installed only
  after the tasks that were due when its open began (`ahead`) have run, so no exchange of an
  old socket meets the new one. From it `NobodyEverWaitsOnAClosedSocket` and, with what a
  handshake has proven (`ReadyInv`), `ReadyIsAlwaysProven`. `TheWireIsNeverShared` adds
  `WireInv` = `CancelledMay` ∧ `TailFresh` ∧ `TailRead`: a socket is opened with nothing on
  it, and what is on the one in service is of a task that is exchanging. It assumes that silent
  exchanges are not cancelled (`Uncancelled`), where `NoUnreadTail` does fail;
  `OneRequestAtATime` is its other half.
* **SupervisorProofs**: `SupInv` = `SupTypeOK` ∧ `NewIsUnused` ∧ `Attended` ∧ `CutIsDown`.
  `NoLostFailure` alone is not inductive: a watcher may wait with its wake-up set while
  the connection has become usable by other hands, and would then consume the wake-up and
  find nothing to do. `Attended` adds that the connection is down as long as the watcher
  has not run, which holds because due tasks run before anything can bring it up, an
  exchange that was cut off among them (`CutIsDown`).
  `ReadyIsNeverStale` and `AlwaysSameCpu` need `Solo`, whatever handshakes are refused: one
  task at a time opens (`OneAttempt`), and the owner before there is a task that watches
  (`OwnerFirst`); as long as the watcher rebuilds, readiness is cleared (`Unready`) and
  `previous` is the CPU that was confirmed first, whatever identity its attempts leave behind
  (`Target`); an attempt of a watcher that surrendered has no connection left to bind
  (`Surrender`). `NotStale` and `Home` are the two properties.
* **UdpTransportProofs**: `UdpInv` = `UdpTypeOK` ∧ `BatonOK` ∧ `Ties` ∧ `Alone` ∧
  `Numbered` ∧ `Awake`. `BatonOK` is the invariant of the lock (who is in its line, in
  which state, and that a free lock never has a sleeper at its head), proved first for
  each operation on a lock by itself (`WakeFirstEffect`, `LetGoEffect`, `AskEffect`,
  `LeaveLine`, `AcquireEffect`) and then for the steps that use it. `Ties` connects the
  lock to where the exchanges are, `Alone` is what a depth of 1 gives, `Awake` connects
  the exchanges to the waiters of the open socket. Every step that closes goes through
  lemma `Closing`, every step that returns an answer through `Returning`.
  `OneReader`, `BatonIsNeverStranded` and `ClosedWakesEverybody` follow;
  `SerialKeepsAnswers` is `AnswerIsMine` for 4E, whatever the network does.
  `NothingIsThrownAway` shows that an answer in the buffer or in a reader's hand has exactly
  one claimant, the exchange it is of, and that the drain runs only when nobody is in flight.
* **SessionProofs**: `SessionInv` = `SessionTypeOK` ∧ `Posted` ∧ `Ledger` ∧ `Underway` ∧
  `DoubtIsTold`, for any number of clients, calls, registers and values. `DoubtIsTold`
  needs to know why the first answer decides: `Posted` makes a request the only one of its
  call and step, so that serving it leaves no second copy; `Ledger` says that a command
  still on its way was not carried out, and that a call which went on had its command
  carried out; `Underway` says what an answer that has arrived is evidence of. That the
  CPU stays a CPU is proved handler by handler (`HandleTyped`). The steps that end or
  continue a call go through one lemma (`SettleStep`), those that send through another
  (`PostStep`). The theorems are `SessionTypeCorrect` and `DoubtIsAlwaysTold`.
  `VerifiedIsAlwaysReached` adds `Evidence`: an answer to the request that asks after a
  command, when it says what the call looks for, is proof that the CPU was as the call
  wanted it at some moment after it was carried out. `TwinsAreAlwaysAlike` adds that the
  registers of a `Twin` hold the same value in the CPU (`SameTwins`), which every write
  keeps because a call has all of them with one value or none (`TwinAssumption`, the premise
  of the property), and that an answer is a snapshot; it needs the last of several writes to one register, the greatest of a finite
  set of positions (`Greatest`, by well-foundedness instead of induction).
* **WireProofs** has two parts. The first is about the formats by themselves, for both
  codings, both frames, every value a field holds and every payload. `AnyPieces`: the prefix
  of a message depends on its head alone, so the length is known when the head is there; an
  accumulator that `Holds` the first n units asks for no more than what is left, accepts any
  piece of it and then holds n + k, so what is complete is the message, whichever way it was
  cut. `RequestArrives`, `AnswerArrives`, `RefusalArrives`: what is built is parsed to the
  serial, the route, the codes, the error block and the payload it was built from, which
  rests on the round trip of a number in 8 and 16 bits (by giving the digits, not by
  induction on them) and on where each field is (`At`). `StrangersAreRefused`: on 4E an
  answer with another serial is never taken. `PatchedIsBuilt`: the prebuilt request of a
  bound block, its serial patched in, is the one that would have been built. `WordsArrive`
  and `BitsArrive`: the bulk data of reads and writes, of any length.

  From these the device specification and the batch commands, end to end. `DeviceArrives`:
  the CPU reads the point the client wrote, in any coding, format and family and for every
  index of four octets that its field has room for, provided that both count the family in
  the same base; `ShippedBasesAgree`: the two simulated CPUs and the profiles made for them
  do, in each encoding the profile allows. The digits of an index come in three bases and
  lengths up to eight; they are compared place by place against tables of powers (`IsPowers`,
  `RadixBases`). `WordsAreRead`, `BitsAreRead`, `WordsAreWritten` and `BitsAreWritten` say of
  the encoder, the handler of the CPU and the decoder together that a command is refused by
  the CPU's own checks of the point and count that the caller meant, and otherwise reads what
  the CPU has there or writes what the caller gave, of a negative word the two's complement.
  They hold of a CPU that is `Served` (same coding, format and bases, and a profile with a row
  for every family), of a literal that `Denotes` the point, of less than 65536 points, and
  the reads of a memory whose window is of words or bits (`IsWords`, `IsBits`): windows of
  bit devices are folds over cells.

  The second part is about behaviours of `Calls`, which has Wire and BlockPlan in it.
  `CallsInv` = `WireInv` ∧ `PlanWell` ∧ `TaskWell` is inductive, and
  `WireInv` = `WireTypeOK` ∧ `AskedWell` ∧ `AnsweredWell` ∧ `LastWell` ∧ `OutcomeWell`.
  `AnswersAreTaken` alone is not: that the receiver is complete exactly with the last unit
  follows only when the units in its buffer are the first of a whole answer (`AnsweredWell`,
  by `Holds`), that a CPU answers with such a message only when the request on the wire is
  the one its client built (`AskedWell`), and what a CPU that is one answer behind sends is
  an answer to the same client (`LastWell`). `PlanWell` and `TaskWell` tie a block or a verb
  to the entry whose requests it makes. The theorems are `WireTyped`, `EveryAnswerIsTaken`
  and, handler by handler of the simulated CPU, `HarmlessStaysHarmless`. They have
  `[]MessagesFit` as a premise: that a payload is of units of its coding and no longer than
  the length field can say. The code has no other check than the limits of the profiles, so
  it is a matter of eight tables against the sum of the lengths of a list, which is
  induction over data; TLC checks it in `wire`.

  Over the same behaviours the batch commands, as a client and a CPU carry them out:
  `BatchReadsWhatIsThere` and `BatchMemoryIsWhatWasAsked` are the parts of the two
  invariants of `wire` that are about `OfBatch` calls: a batch command, of any caller, alone
  or as the step of a verb, to a CPU that answers in order. `BatchInv` = `TellInv` ∧
  `NoBatchInBlocks` is inductive relative to `CallsInv`. `Unserved`: a request on its way has
  changed nothing, so that what the CPU meets is the memory the call found (`call.before`).
  `AnswerTells`: an answer on its way, read as the client will read it, either refuses and the
  memory is as before, or carries what `There` asks for and the memory is as `IsAsked` wants
  it. That is the induction hypothesis the outcome needs, since between the serving and the
  decoding anything may be cut anywhere. `OutcomeTells`: the client's result says the same; a
  batch command is never `silent`, and none that a CPU accepted fails to decode. The premise
  is `[]SentAsMeant`, which is `MessagesFit`, `BatchIsMeant` and `StateIsShown`: that what a
  literal resolves to is what it means, that its number fits its field and its count two
  octets, that the memory holds words and bits, and that it shows in SD203 what the CPU does. Literals of any
  length and windows of any memory are folds, so this premise is TLC's, in `wire`; a caller
  who writes SD203 himself is outside it, since the simulator publishes over it. A batch read
  that is refused is refused before anything was touched whether or not the client checked
  the ranges, which is more than `MemoryIsWhatWasAsked` asks.

  `BatchAcceptedIsServed` goes on from there to `AcceptedIsServed`. `BatchInv` also says why
  an answer is a refusal: `Validate` found nothing against the command (`Unserved`), so the
  unit, the count and the span are those the client's profile allows (`BatchValidated`,
  `CountIsTaken`, `SpanIsThere`), the CPU's own checks pass (`Unopposed`), and what is left is
  a lock, a device of two words a point or a family without a static range (`IsExcused`,
  `Granted`). Its premise `MadeForTheirCpus` is that a client's profile is `NoWider` than the
  CPU it calls: the same ranges, the long format only where the CPU has it, and rows for the
  batch commands that allow no more points than it takes. `ShippedAssumption`, an assumption
  of `Wire` that TLC evaluates, says it of the FX5U and iQ-R profiles and the two CPUs of the
  simulator; it is a comparison of tables written with `@@`, which the prover cannot open.
* **CallsProofs** goes on to what a caller is told. `ErrorTells` is `ErrorTellsWhatHappened`
  for every command, block and verb and every CPU that answers in order. It takes both ends
  of the route an error comes by: the tables of `Errors`, where `TreeAssumption` says of the
  classes they name that each is an SlmpError of one line (`OfOneLine`), and what is the
  case when an error is raised, which is `ToldInv` = `WireTold` ∧ `ReadsOnly` ∧ `VerbTold` ∧
  `RaisedTold`, inductive relative to `CallsInv`. `LeftAlone`: until a request is served, for
  good if its command does not mutate, and if it was refused, the memory is as the call found
  it. `AnswerIsLegible`: a CPU answers a command that mutates with what its client can read,
  so that what cannot be decoded is of a command that does not; it rests on the handlers of
  the mutating commands having nothing to say (`SaysNothing`). `VerbTold` follows a verb over
  its requests: until it has sent one that may change something the memory is as the verb
  found it, and whatever follows the first answer only looks. What it looks with is not
  refused, which would be a usage error after a write: that is the premise
  `WrittenMayBeRead`, that a client allows the read-back of every verified write it allows.
  The other premise, `CodesTellTheCause`, is that the end codes of a CPU have the class of
  their cause. Both are of the shipped tables, and TLC evaluates them for the plants of
  `wire` (`MCPremises`). A CPU with the stale reply pathology is left to TLC, since it
  answers with what another command was told.

  `OneValueIsWhatIsThere` is `TypedIsWhatIsThere` for the verbs of one value (`OfOneValue`): a
  number of any kind or a bit that is read or written, in either word order and with any
  bounds, the CPU's state, and the remote commands. Lemmas about values come first:
  `NumbersAreRead` and `ValuedIsThere`, that what the client makes of the words is what a
  person reads off the cells, which `ValueThere` says by arithmetic of its own;
  `OneValueWrites`, that a write puts the cells of its value and no other. Then the steps of a
  verb: what it asks (`OneValueAsks`), what it makes of the answers (`OneValueTells`), and
  that this is so of the memory it was over (`OneValueIsTold`). `ValueInv`, inductive relative
  to `CallsInv` ∧ `BatchInv`, holds them together over the requests of a verb: `IsAsking` and
  `HasAsked` say which command is under way and that the memory beside what was written is as
  the verb found it, `HasTold` what the last answer said and that the memory still says so,
  and `Shows` that SD203 has the CPU's state once a request that only looks was served, which
  is what a remote command is verified by. Beside `[]SentAsMeant` its premise is
  `StatusIsMeant`, that SD203 means the register the CPU publishes in; TLC evaluates it with
  the other two. The attempt corrected the model in one place: `CellsOf` took a register of a
  bit device for one cell, where it is sixteen points, and a verified write of `M16` that
  shows the difference is now among the verbs of `wire`.
* **HealthProofs**, of the monitor: every step of Health is one of the gate or leaves it alone
  (`GateSteps`), so `NoStrandedCaller` carries over. `ProbesNeverWait` rests on
  `ProbeIsAdmitted`: a gate nobody holds and nobody waits at is free, in both modes.
  `ProbesOnlyIntoSilence`: the delays left and the times passed add up (`ClocksOK`), so that
  when `run()` makes an attempt, which it does with nothing left of either, both have passed.
  `VerdictsAreEarned`: `Fits` says that the streaks are those of the window as far as they
  are counted, which a push keeps (`PushedStreak`: it shifts what is in the window, and what
  falls out is older than any streak that is compared).

Model-checked only: liveness and everything that needs ENABLED (`EveryWaiterIsServed`,
`EveryCallReturns`, `EveryWaiterIsAnswered`, `AnswerIsDelivered`, `EarlyCallReturns`,
`ShutdownEnds`, `MonitorEnds`), which TLAPS does not handle; `AnswerIsMine` on 3E; and of
`wire` what a call means to its caller: `ReadsWhatIsThere` and `MemoryIsWhatWasAsked` for
other commands than the batch ones, `AcceptedIsServed` likewise, `BlockIsWhatIsDeclared`,
`BlockWriteIsItsFields`, `TypedIsWhatIsThere` of text, arrays, random access and
diagnostics, it and `ErrorTellsWhatHappened` of a CPU with a stale answer, and
`SentAsMeant`. They speak of lists of points that travel one behind the
other in another order than the caller's, whose offsets are folds, and of literals of any
length, both of which would be induction over data. No module that is proved about declares
a RECURSIVE operator. `GateTypeOK`, `StrictKeepsCapacity`,
`SupTypeOK`, `UdpTypeOK`, `SessionTypeOK` and `WireTypeOK` are proved and are not in the
runs any more.

## 6. Findings

1. `gate_capacity` (`transport/inflight.py`): a task woken at the gate takes its slot
   without looking again, and the deque no longer shows it, so a newcomer between the
   wake-up and its turn is admitted on the same slot and served first. On TCP the `_busy`
   backstop then refuses the one that had waited; `AloneOnTheWire` shows that the wire is
   safe nevertheless.
2. `supervisor_surrender` (`resilience.py`): after giving up with the socket still up, the
   next failure clears readiness for good and `wait_ready()` blocks for ever.
3. `sync_shutdown` (`sync.py`): a call that looked at `_closed` in time and schedules in
   the last iteration of the loop becomes a task only inside the drain, which has counted
   already; the loop is closed over it and its caller blocks for ever.
4. `session_not_sent` (`client.py`): a write with `verify=True` was carried out, the
   connection fails, and the read-back raises `SlmpNotConnectedError` or
   `SlmpNotSentError`, "nothing was sent, so nothing happened on the PLC".

Smaller ones, which the models show or which came up while they were written. Those the
hazards of `PROJECT.json` name are marked (h).

Errors:

* `SlmpUsageError` is documented as "no byte left this process" (`errors/__init__.py:546`).
  The check of a clock source in a block raises a configuration error after the read
  (`blocks/fields.py`, `check_reading`), and `_read_random_split` validates its second chunk
  after the first was sent (h). `ErrorTellsWhatHappened` makes exceptions of both.
* An answer of a mutating command that cannot be decoded raises SlmpPayloadShapeError and
  not SlmpOutcomeUnknownError, although the command was carried out.
* `RemoteControl.reset` catches SlmpTransportError only, while a silent exchange that fails
  raises SlmpOutcomeUnknownError; and a request that was not sent at all gives
  `ResetOutcome(responded=False)`.
* The verifying read of `_apply` that fails after the remote command was answered raises its
  own error (finding 4 is the same for writes).
* `Route.decode` raises SlmpRouteError, which is not of the family of frame errors; a device
  number too large for its field raises the codec's own SlmpCodecValueError.

Limits and tables:

* The receive buffer of 2048 bytes (`transport/base.py:133`) is called big enough for the
  largest response; a 960-word answer in ASCII is 3862 units. On TCP it comes in several
  pieces, on UDP it is cut and refused (h).
* A double word at LZ1 of an iQ-R is refused as out of range. iQ-R in ASCII has no rows for
  0403, 1402, 0406 and 1406, which are refused as a fault of configuration; its bit reads
  have 3584 points in the client's table and 7168 in the simulator's. `fx5u.py:501` says
  that the FX5UJ overrides sixteen rows, where it overrides nineteen.
* Points of a 1402 that overlap are written in the order of the wire, words first. A monitor
  (0801, 0802) answers for the last registration, whoever made it. With
  `validate_ranges=False` the simulator carries out part of a write and then refuses it.
* `_offset` and `_refuse_overlap` of `blocks/plan.py` count registers on bit and double-word
  devices too. The fields of a split plan are not of one moment, as documented. A string
  with a NUL in it is cut there when it is read, so that a verified write of one fails.

Connections:

* A monitor's probe never waits in line, but it can be admitted in the wake-up gap of
  finding 1. A silent exchange that succeeded (Remote Reset) is observed as a failure, since
  its timing is never complete. The verdict outlives a reconnect.
* `EntryGroup.connect_all` closes what it opened on an SlmpError, not on a cancellation, and
  not the entry whose handshake was refused; an ExceptionGroup from closing replaces the
  exception it promises to raise unchanged.
* `start()` makes its event before it connects. Whoever waits on it when that connect fails
  is never told, although `wait_ready()` is to "say why it will not be" (`resilience.py:351`):
  the exception goes to the caller of `start()`, and there is no task that would set the
  event; a second `start()` makes an event of its own (h).
* "A transaction during a reconnect raises. It does not wait." (`resilience.py:24`) holds until
  the socket is up. From then until its handshake is answered the connection is OPEN, which is
  usable, and an exchange of a caller runs on whatever CPU is there (h).
* After its backoff sleep the watcher reconnects without a look at the state. One lost
  datagram of a pipelined burst closes the socket under the others.

## 7. Not modelled, and why

Whole components:

* **Cadence** (`loop.py`): arithmetic on a clock that one task reads and shares with nobody.
  A clock that goes back, which its lateness does not expect, is a matter of the clock.
* **EntryGroup** (`entries.py`): opens and closes clients one after another and owns nothing
  but their list; each client is Connection's subject.
* **Timing, observability, results** (`timing.py`, `observability.py`, `results.py`,
  `timed.py`, `_clock.py`): stamps, counters and histograms influence nothing else.
* **Tools** (`tools/`): argument parsing and printing around the client.

Parts of the others, in `PROJECT.json` component by component. The larger ones: the
wording of errors and the reports they carry; the emission of events and sinks that
raise, except where Supervisor and Health have them; `commands/ondemand.py`, which
parses what no transport delivers; evidence and citations of the profiles; `describe`
and the annotations of blocks; real numbers as such, a real of the model being its bits;
the sockets, scenarios and the other pathologies of the simulator's server; the delays
of the backoff; a join of the synchronous facade that times out.

The two halves are not composed into one module: Wire has one call at a time and stands for
an exchange of Connection that runs to its end. What the other half assumes of it is that an
answer is taken whole or not at all, which is `AnyPieces` and `EveryAnswerIsTaken`.

## 8. Plan

1. *Server* (`testing/server.py`): message boundaries, coalesced requests, closing with work
   in hand, and the pathologies beside the stale reply.
2. *Synchronous facade*: two threads that close, a join that times out; the safety part of
   `ShutdownEnds` as an invariant and its proof.
3. *EntryGroup* with a Supervisor for each entry, and *Cadence* under slow bodies.
4. Proofs about the second half: random access, blocks and the monitor as the batch
   commands; that `SpanOf` bounds every point of a request.
