-------------------------------- MODULE Health --------------------------------
(***************************************************************************)
(* HealthMonitor of src/aslmp/health.py, run() and what it sees of its     *)
(* client: the transactions of other tasks, which `observe` is given, and  *)
(* the gate, at which its probe (0x0619) is one more task.                 *)
(*                                                                         *)
(* Time is kept as what is left of each delay, so that nothing grows: Tick *)
(* is one unit of it.  Between two awaits a task is not interrupted; the   *)
(* last look of a probe that ends late is a step of its own here.          *)
(*                                                                         *)
(* Abstracted: the state of the connection is usable (OPEN, READY), down   *)
(* (NEW, CONNECTING, FAILED) or closed, and `cut` are the exchanges whose  *)
(* socket was closed under them.  The module Connection says how that      *)
(* comes about.  Streaks are counted no further than they are compared.    *)
(***************************************************************************)
EXTENDS TransactionGate

CONSTANTS
    Monitor,            \* the task that runs run()
    Setups,             \* which tasks there may be: the monitor, or callers only
    IdleProbeAfter,     \* idle_probe_after
    ProbeInterval,      \* probe_interval
    UnhealthyAfter,     \* unhealthy_after
    HealthyAfter,       \* healthy_after
    WindowCapacity      \* window

ASSUME HealthAssumption ==
    /\ Monitor \in Task
    /\ Setups \subseteq SUBSET Task
    /\ IdleProbeAfter \in Nat \ {0} /\ ProbeInterval \in Nat \ {0}
    /\ UnhealthyAfter \in Nat \ {0} /\ HealthyAfter \in Nat \ {0}
    /\ WindowCapacity \in Nat \ {0}

VARIABLES
    present,        \* the tasks of this behaviour
    state,          \* of the connection
    cut,            \* holders whose socket is gone
    doing,          \* where run() is: "asleep", "probing", "ended", "died"
    sleepLeft,      \* what is left of its sleep
    idleLeft,       \* until idle_probe_after has passed since _last_activity_at
    attemptLeft,    \* until probe_interval has passed since _last_attempt_at
    verdict,        \* _window, the two streaks and _healthy
    silence, quiet, \* history: how long since the last observed transaction, since
                    \* the last attempt, measured no further than the two delays
    tried           \* history: the two as the last attempt of run() found them

linkVars == <<present, state, cut>>
clockVars == <<sleepLeft, idleLeft, attemptLeft, silence, quiet, tried>>
healthVars == <<gateVars, linkVars, clockVars, doing, verdict>>

Callers == present \ {Monitor}
NewVerdict == [window |-> <<>>, failures |-> 0, successes |-> 0, healthy |-> FALSE]

HealthInit ==
    /\ GateInit
    /\ present \in Setups
    /\ state = "down" /\ cut = {}
    /\ doing = "asleep" /\ sleepLeft = 0
    /\ idleLeft = 0 /\ attemptLeft = 0
    /\ verdict = NewVerdict
    /\ silence = IdleProbeAfter /\ quiet = ProbeInterval
    /\ tried = [silence |-> IdleProbeAfter, quiet |-> ProbeInterval]

Lesser(a, b) == IF a < b THEN a ELSE b
Greater(a, b) == IF a > b THEN a ELSE b
Before(n) == IF n = 0 THEN 0 ELSE n - 1

-----------------------------------------------------------------------------
(***************************************************************************)
(* The verdict.                                                            *)
(***************************************************************************)

\* A deque with a maxlen: the oldest goes.
Pushed(window, ok) ==
    Append(IF Len(window) < WindowCapacity THEN window ELSE Tail(window), ok)

RecordSuccess(v) ==
    [window    |-> Pushed(v.window, TRUE),
     failures  |-> 0,
     successes |-> Lesser(v.successes + 1, HealthyAfter),
     healthy   |-> v.healthy \/ v.successes + 1 >= HealthyAfter]

\* A fault for RecordFailure: the streak of successes is not broken.
FailureKeepsStreak(v) ==
    [window    |-> Pushed(v.window, FALSE),
     failures  |-> Lesser(v.failures + 1, UnhealthyAfter),
     successes |-> v.successes,
     healthy   |-> v.healthy /\ v.failures + 1 < UnhealthyAfter]

RecordFailure(v) ==
    [window    |-> Pushed(v.window, FALSE),
     failures  |-> Lesser(v.failures + 1, UnhealthyAfter),
     successes |-> 0,
     healthy   |-> v.healthy /\ v.failures + 1 < UnhealthyAfter]

-----------------------------------------------------------------------------
(***************************************************************************)
(* How an exchange ends.  An answer, an end code and an answer that cannot *)
(* be decoded leave the connection as it is; whatever else there is closes *)
(* the socket: a loss or a timeout, a request that was not sent, a silent  *)
(* exchange, a cancellation, and the end of one that was cut.              *)
(***************************************************************************)
Harmless == {"answered", "refused", "undecodable"}
Outcomes(t) ==
    IF t \in cut THEN {"abandoned", "cancelled"}
    ELSE Harmless \cup {"lost", "unsent", "silent", "cancelled"}

\* The socket is closed under those who are parked on it; who was answered already,
\* and is due to run, is not.
SocketClosed(ending) == \E c \in SUBSET (Holders \ ending) : cut' = (cut \ ending) \cup c

\* `note_failure` and `retire_after_silent_exchange`.
Settle(t, outcome) ==
    IF outcome \in Harmless THEN cut' = cut \ {t} /\ UNCHANGED state
    ELSE /\ SocketClosed({t})
         /\ state' = IF state = "usable" THEN "down" ELSE state

\* `observe`: of a transaction that never got out there is no record, nor of one that was
\* cancelled or whose answer cannot be decoded; one that was abandoned is passed over.
Observe(outcome) ==
    IF Monitor \in present /\ outcome \in {"answered", "refused", "lost", "silent"}
    THEN /\ verdict' = IF outcome = "answered" THEN RecordSuccess(verdict) ELSE RecordFailure(verdict)
         /\ idleLeft' = IdleProbeAfter
         /\ silence' = 0
    ELSE UNCHANGED <<verdict, idleLeft, silence>>

-----------------------------------------------------------------------------
(***************************************************************************)
(* The callers, and whoever opens and closes the connection.               *)
(***************************************************************************)

\* `transaction`: the state is looked at, then the gate.
Ask(t) ==
    /\ state = "usable"
    /\ Admit(t) \/ Refuse(t) \/ Enqueue(t)

Call(t) ==
    /\ Ask(t)
    /\ UNCHANGED <<linkVars, clockVars, doing, verdict>>

\* Woken inside the gate: the state is looked at again, and on a connection that is not
\* usable the body ends where it began.
GoOn(t) ==
    /\ Resume(t)
    /\ cut' = IF state = "usable" THEN cut ELSE cut \cup {t}
    /\ UNCHANGED <<present, state, clockVars, doing, verdict>>

GiveUp(t) ==
    /\ Cancel(t) \/ Unwind(t)
    /\ UNCHANGED <<linkVars, clockVars, doing, verdict>>

\* A call ends, and its lease with it.  A 0x0619, of ping() or of a handshake, is not
\* observed.
End(t) ==
    /\ Release(t)
    /\ \E outcome \in Outcomes(t) :
         /\ Settle(t, outcome)
         /\ Observe(outcome) \/ UNCHANGED <<verdict, idleLeft, silence>>
    /\ UNCHANGED <<present, doing, sleepLeft, attemptLeft, quiet, tried>>

\* connect() succeeds, or reconnect() does.
Opened ==
    /\ state = "down" /\ state' = "usable"
    /\ UNCHANGED <<gateVars, present, cut, clockVars, doing, verdict>>

\* reconnect() closes the socket first; aclose() closes it for good.
Closed ==
    /\ state # "closed"
    /\ state' \in {"down", "closed"}
    /\ SocketClosed({})
    /\ UNCHANGED <<gateVars, present, clockVars, doing, verdict>>

\* Nobody but the monitor asks what time it is.
Tick ==
    /\ Monitor \in present
    /\ sleepLeft' = Before(sleepLeft)
    /\ idleLeft' = Before(idleLeft)
    /\ attemptLeft' = Before(attemptLeft)
    /\ silence' = Lesser(silence + 1, IdleProbeAfter)
    /\ quiet' = Lesser(quiet + 1, ProbeInterval)
    /\ UNCHANGED <<gateVars, linkVars, doing, verdict, tried>>

-----------------------------------------------------------------------------
(***************************************************************************)
(* run().                                                                  *)
(***************************************************************************)

\* A fault for Over: `while True`.
NeverOver == FALSE

\* What the loop ends for.
Over == state = "closed"

\* `due_in`: the later of silence and interval.
DueIn == Greater(idleLeft, attemptLeft)

\* After a sleep the delay is computed again.
NotYet == DueIn > 0

\* A fault for StandsDown: it leaves it to the gate to refuse the probe.
RefusedIfBusy == state # "usable"

\* `probe_once` looks at the connection and at the gate.
StandsDown ==
    \/ state # "usable"
    \/ Holders # {} \/ waiters # <<>>

SleepAgain ==
    /\ sleepLeft' = DueIn
    /\ UNCHANGED <<gateVars, linkVars, idleLeft, attemptLeft, silence, quiet, tried, doing, verdict>>

\* What every attempt leaves in the history, whether it probes or stands down.
Tried ==
    /\ tried' = [silence |-> silence, quiet |-> quiet]
    /\ quiet' = 0

\* A fault for Skip: an attempt that stood down is not counted as one.
SkipUncounted ==
    /\ StandsDown
    /\ Tried
    /\ sleepLeft' = DueIn
    /\ UNCHANGED <<gateVars, linkVars, idleLeft, attemptLeft, silence, doing, verdict>>

\* An attempt that is skipped counts as one, and the loop goes back to sleep.
Skip ==
    /\ StandsDown
    /\ Tried
    /\ attemptLeft' = ProbeInterval
    /\ sleepLeft' = Greater(idleLeft, ProbeInterval)
    /\ UNCHANGED <<gateVars, linkVars, idleLeft, silence, doing, verdict>>

\* Nothing is awaited between the look at the gate and the lease.
Probe ==
    /\ ~StandsDown
    /\ Ask(Monitor)
    /\ Tried
    /\ attemptLeft' = ProbeInterval
    /\ doing' = "probing"
    /\ UNCHANGED <<linkVars, idleLeft, silence, sleepLeft, verdict>>

\* run() starts, or wakes.
Look ==
    /\ Monitor \in present
    /\ doing = "asleep" /\ sleepLeft = 0
    /\ \/ /\ Over
          /\ doing' = "ended"
          /\ UNCHANGED <<gateVars, linkVars, clockVars, verdict>>
       \/ ~Over /\ NotYet /\ SleepAgain
       \/ ~Over /\ ~NotYet /\ (Skip \/ Probe)

\* The probe records its own outcome.  Closed under it, it says nothing of the link; one
\* that is cancelled ends run(); an on_change that raises does so too.
ProbeEnds ==
    /\ doing = "probing"
    /\ Release(Monitor)
    /\ \E outcome \in Outcomes(Monitor) \ {"silent"} :
         /\ Settle(Monitor, outcome)
         /\ verdict' = CASE outcome = "answered" -> RecordSuccess(verdict)
                         [] outcome \in {"abandoned", "cancelled"} -> verdict
                         [] OTHER -> RecordFailure(verdict)
         /\ IF outcome = "cancelled" THEN doing' = "ended"
            ELSE \/ doing' = "asleep"
                 \/ verdict'.healthy # verdict.healthy /\ doing' = "died"
    /\ sleepLeft' = DueIn
    /\ UNCHANGED <<present, idleLeft, attemptLeft, silence, quiet, tried>>

\* Its task is cancelled in its sleep.
Stop ==
    /\ Monitor \in present
    /\ doing = "asleep" /\ doing' = "ended"
    /\ UNCHANGED <<gateVars, linkVars, clockVars, verdict>>

HealthNext ==
    \/ \E t \in Callers : Call(t) \/ GoOn(t) \/ GiveUp(t) \/ End(t)
    \/ Opened \/ Closed \/ Tick
    \/ Look \/ ProbeEnds \/ Stop

(***************************************************************************)
(* Time passes, what is due runs, and an exchange is bounded by its        *)
(* timeout, the probe's too.  Nobody has to call, to open or to close.     *)
(***************************************************************************)
HealthFairness ==
    /\ WF_healthVars(Tick) /\ WF_healthVars(Look) /\ WF_healthVars(ProbeEnds)
    /\ \A t \in Task :
         WF_healthVars(t \in Callers /\ (GoOn(t) \/ (Unwind(t) /\ GiveUp(t))))
         /\ WF_healthVars(t \in Callers /\ End(t))

HealthSpec == HealthInit /\ [][HealthNext]_healthVars /\ HealthFairness
-----------------------------------------------------------------------------
(***************************************************************************)
(* Properties.                                                             *)
(***************************************************************************)

\* "It never queues behind live traffic" (`probe_once`): whatever calls, failures and
\* wake-ups there are around it, the probe has its slot at once or none.
ProbeNeverWaits == lease[Monitor] \in {"idle", "holding"}

\* run() probes "into silence": whenever it made an attempt, idle_probe_after had passed
\* since the last observed transaction, one that came in during the sleep included, and
\* probe_interval since the attempt before, one that stood down included, so that a
\* connection that is always busy does not spin the loop.
OnlyIntoSilence == tried.silence = IdleProbeAfter /\ tried.quiet = ProbeInterval

\* The last n outcomes in the window are all `ok`.
Streak(window, ok, n) ==
    /\ Len(window) >= n
    /\ \A i \in Len(window) - n + 1 .. Len(window) : window[i] = ok

\* "One bad read does not flap a plant alarm": an exchange is recorded once, whether it was
\* a caller's or a probe, only when it ends and only when its socket was not closed under
\* it; and the verdict is what the last streak in the window that was long enough made it,
\* as long as the window can hold one.
VerdictIsEarned ==
    [][/\ verdict'.window \in {verdict.window, Pushed(verdict.window, TRUE), Pushed(verdict.window, FALSE)}
       /\ verdict' # verdict => \E t \in Holders \ cut : t \notin Holders'
       /\ WindowCapacity >= Greater(HealthyAfter, UnhealthyAfter) =>
            (verdict'.healthy <=> \/ Streak(verdict'.window, TRUE, HealthyAfter)
                                  \/ verdict.healthy /\ ~Streak(verdict'.window, FALSE, UnhealthyAfter))]_healthVars

\* "Watch until the client is closed" (`run`): closing the client ends the monitor, asleep
\* or with a probe on the wire.
MonitorEnds ==
    Monitor \in present /\ state = "closed" ~> doing \in {"ended", "died"}
=============================================================================
