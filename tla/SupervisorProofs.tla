--------------------------- MODULE SupervisorProofs ---------------------------
(***************************************************************************)
(* Proofs about Supervisor, for any tasks in wait_ready(), any CPUs, any   *)
(* number of attempts and everything the environment may do.               *)
(***************************************************************************)
EXTENDS Supervisor, TLAPS

Flags == [listening : BOOLEAN, ready : BOOLEAN, wake : BOOLEAN, stopped : BOOLEAN,
          surrendered : BOOLEAN]
Where == {"none", "starting", "waiting", "sleeping", "attempting", "cancelled", "returned", "died"}
Wait == {"idle", "parked", "woken", "orphaned"}

\* The wake-up a waiting watcher has coming while `ready` is cleared finds the
\* connection down: what makes it usable lets due tasks run first.
Attended == watcher = "waiting" /\ ~sup.ready => sup.wake /\ ~Usable

\* Nothing goes on on a connection that was never opened.
NewIsUnused == state = "NEW" => opening = {} /\ exchanging = {}

\* An exchange that was cut off runs before anything comes up again.
CutIsDown == cut # {} => ~Usable

\* The inductive invariant.
SupInv == SupTypeOK /\ NewIsUnused /\ Attended /\ CutIsDown

-----------------------------------------------------------------------------
(***************************************************************************)
(* What the events and the pieces of steps do to the flags.                *)
(***************************************************************************)

LEMMA GaveUpFlags ==
    ASSUME NEW s \in Flags
    PROVE  GaveUp(s) \in Flags /\ GaveUp(s).ready
BY DEF Flags, GaveUp

LEMMA FailureFlags ==
    ASSUME NEW s \in Flags, NEW r \in AfterFailure(s)
    PROVE  /\ r \in Flags
           /\ r = s \/ (~r.ready /\ r.wake)
BY DEF Flags, AfterFailure, Unheard

LEMMA CloseFlags ==
    ASSUME NEW s \in Flags, NEW r \in AfterClose(s)
    PROVE  /\ r \in Flags
           /\ r = s \/ r.ready
<1> DEFINE g == GaveUp(s)
<1>1. g \in Flags /\ g.ready
  BY GaveUpFlags
<1>2. r = s \/ r = [g EXCEPT !.stopped = TRUE, !.wake = TRUE]
  BY DEF AfterClose, Unheard
<1> HIDE DEF g
<1> QED
  BY <1>1, <1>2 DEF Flags

LEMMA BeginFlags ==
    ASSUME sup \in Flags
    PROVE  Begin \in Flags /\ (~Begin.ready => Begin.wake /\ ~Usable)
<1>1. Usable \in BOOLEAN
  BY DEF Usable
<1>2. Begin \in Flags
  BY <1>1 DEF Begin, Flags
<1>3. Begin.ready = Usable /\ Begin.wake = ~Usable
  BY DEF Begin
<1> QED
  BY <1>1, <1>2, <1>3

LEMMA TellFlags ==
    ASSUME NEW s \in Flags, Tell(s), waiting \in [Waiter -> Wait]
    PROVE  sup' = s /\ sup' \in Flags /\ waiting' \in [Waiter -> Wait]
BY DEF Tell, Wait

\* A failed attempt ends in any place but "waiting" and "attempting".
LEMMA RaisedEffect ==
    ASSUME SupTypeOK, NEW o \in Opener, NEW s \in Flags, HandshakeRaised(o, s)
    PROVE  /\ sup' \in Flags /\ waiting' \in [Waiter -> Wait]
           /\ attempt' \in 1 .. MaxAttempts /\ previous' = previous
           /\ o = "owner" => sup' = s /\ watcher' = IF watcher = "starting" THEN "none" ELSE watcher
           /\ o = "watcher" => watcher' \in {"returned", "sleeping", "died"}
<1> USE SupervisorAssumption
<1>1. waiting \in [Waiter -> Wait] /\ attempt \in 1 .. MaxAttempts
  BY DEF SupTypeOK, Wait
<1>2. CASE /\ o = "owner" /\ Tell(s)
           /\ watcher' = IF watcher = "starting" THEN "none" ELSE watcher
           /\ UNCHANGED <<attempt, previous>>
  BY <1>1, <1>2, TellFlags
<1>3. CASE o = "watcher" /\ AttemptFailed(s)
  <2>1. \/ Tell(GaveUp(s)) \/ Tell(s)
    BY <1>3 DEF AttemptFailed
  <2>2. sup' \in Flags /\ waiting' \in [Waiter -> Wait]
    BY <1>1, <2>1, TellFlags, GaveUpFlags
  <2> QED
    BY <1>1, <1>3, <2>2 DEF AttemptFailed, Emit
<1>4. CASE o = "watcher" /\ Tell(s) /\ watcher' = "died" /\ UNCHANGED <<attempt, previous>>
  BY <1>1, <1>4, TellFlags
<1> QED
  BY <1>2, <1>3, <1>4 DEF HandshakeRaised, Raised

-----------------------------------------------------------------------------
LEMMA InvInit == SupInit => SupInv
BY SupervisorAssumption
DEF SupInit, SupInv, SupTypeOK, LifeInit, LifeTypeOK, State, NewIsUnused, Attended, CutIsDown, Exchanger

\* Opens, handshakes and exchanges that end.
LEMMA EndsKeepInv ==
    ASSUME SupInv, NEW o \in Opener, Ends(o) PROVE SupInv'
<1> USE SupervisorAssumption
        DEF SupInv, SupTypeOK, LifeTypeOK, State, NewIsUnused, Attended, CutIsDown, Exchanger, Usable,
            Flags, Where, Wait
<1>1. CASE OpenSucceeds(o)
  BY <1>1 DEF OpenSucceeds, Opened, Quiet, cpuVars, watchVars
<1>2. CASE OpenFails(o)
  <2>1. HandshakeRaised(o, sup)
    BY <1>2 DEF OpenFails, HandshakeRaised
  <2> QED
    BY <1>2, <2>1, RaisedEffect DEF OpenFails, NotOpened, Quiet, CutOff, cpuVars
<1>3. CASE FailExchange(o)
  <2>1. PICK s \in IF state \in {"CLOSED", "FAILED"} THEN {sup} ELSE AfterFailure(sup) :
             HandshakeRaised(o, s)
    BY <1>3 DEF FailExchange
  <2>2. s \in Flags /\ (s = sup \/ (~s.ready /\ s.wake))
    BY FailureFlags
  <2>3. /\ sup' \in Flags /\ waiting' \in [Waiter -> Wait]
        /\ attempt' \in 1 .. MaxAttempts /\ previous' = previous
        /\ o = "owner" => sup' = s /\ watcher' = IF watcher = "starting" THEN "none" ELSE watcher
        /\ o = "watcher" => watcher' \in {"returned", "sleeping", "died"}
    BY <2>1, <2>2, RaisedEffect
  <2>4. /\ o \in exchanging /\ exchanging' = exchanging \ {o} /\ cut' = exchanging'
        /\ UNCHANGED <<opening, identity, cpu, bound>>
        /\ state' \in {"CLOSED", "FAILED"}
    BY <1>3 DEF FailExchange, Fail, CutOff, cpuVars, lifeVars
  <2>5. SupTypeOK'
    BY <2>3, <2>4
  <2> QED
    BY <2>2, <2>3, <2>4, <2>5
<1>4. CASE Refused(o)
  BY <1>4, RaisedEffect DEF Refused, Quiet, lifeVars, cpuVars
<1>5. CASE NotConfirmed(o)
  <2>1. HandshakeRaised(o, sup)
    BY <1>5 DEF NotConfirmed, HandshakeRaised
  <2>2. /\ sup' \in Flags /\ waiting' \in [Waiter -> Wait]
        /\ attempt' \in 1 .. MaxAttempts /\ previous' = previous
        /\ o = "owner" => sup' = sup /\ watcher' = IF watcher = "starting" THEN "none" ELSE watcher
        /\ o = "watcher" => watcher' \in {"returned", "sleeping", "died"}
    BY <2>1, RaisedEffect
  <2>3. /\ o \in exchanging /\ exchanging' = exchanging \ {o}
        /\ (o \in cut \/ cut = {}) /\ cut' = cut \ {o}
        /\ opening' = opening /\ identity' = cpu /\ cpu' = cpu
        /\ state' = state \/ (state = "OPEN" /\ state' = "READY")
        /\ bound' \in {bound, cpu}
    BY <1>5 DEF NotConfirmed, Answered, Confirmed, Prove, Quiet, lifeVars
  <2>4. SupTypeOK'
    BY <2>2, <2>3
  <2> QED
    BY <2>2, <2>3, <2>4
<1> QED
  BY <1>1, <1>2, <1>3, <1>4, <1>5 DEF Ends

\* The owner and the caller.
LEMMA OthersKeepInv ==
    ASSUME SupInv,
           \/ Connect \/ ManualReconnect \/ CloseClient \/ Start \/ Stop
           \/ Call \/ Answer \/ Silence \/ FailExchange("caller") \/ SwapCpu
           \/ OwnerConfirmed
    PROVE  SupInv'
<1> USE SupervisorAssumption
        DEF SupInv, SupTypeOK, LifeTypeOK, State, NewIsUnused, Attended, CutIsDown, Exchanger, Usable,
            Flags, Where, Wait, cpuVars, watchVars, wireVars, lifeVars
<1>1. CASE Connect
  BY <1>1 DEF Connect, Open, BeginOpening
<1>2. CASE ManualReconnect
  BY <1>2 DEF ManualReconnect, Reopen, BeginOpening, CutOff
<1>3. CASE CloseClient
  <2>1. PICK s \in AfterClose(sup) : Tell(s)
    BY <1>3 DEF CloseClient
  <2>2. s \in Flags /\ (s = sup \/ s.ready)
    BY CloseFlags
  <2>3. sup' = s /\ waiting' \in [Waiter -> Wait]
    BY <2>1, <2>2, TellFlags
  <2>4. /\ state' = "CLOSED" /\ exchanging' = exchanging /\ cut' = exchanging
        /\ UNCHANGED <<opening, watcher, attempt, previous, identity, cpu, bound>>
    BY <1>3 DEF CloseClient, Close, CutOff
  <2>5. SupTypeOK'
    BY <2>2, <2>3, <2>4
  <2>6. Attended' /\ NewIsUnused'
    <3>1. ~Usable' /\ watcher' = watcher /\ NewIsUnused'
      BY <2>4
    <3>2. sup' = sup \/ sup'.ready
      BY <2>2, <2>3
    <3> QED
      BY <3>1, <3>2
  <2>7. CutIsDown'
    BY <2>4
  <2> QED
    BY <2>5, <2>6, <2>7
<1>4. CASE Start
  <2>1. Begin \in Flags /\ [Begin EXCEPT !.wake = FALSE] \in Flags
    BY BeginFlags
  <2>2. waiting' \in [Waiter -> Wait]
    BY <1>4 DEF Start
  <2>3. UNCHANGED <<exchanging, cut, attempt, previous, identity, cpu, bound>>
    BY <1>4 DEF Start
  <2>4. CASE Open("owner") /\ watcher' = "starting" /\ sup' = [Begin EXCEPT !.wake = FALSE]
    BY <2>1, <2>2, <2>3, <2>4 DEF Open, BeginOpening
  <2>5. CASE state # "NEW" /\ UNCHANGED lifeVars /\ watcher' = "waiting" /\ sup' = Begin
    <3>1. sup' \in Flags /\ (~sup'.ready => sup'.wake /\ ~Usable)
      BY <2>5, BeginFlags
    <3>2. watcher = "none" /\ UNCHANGED <<state, opening>>
      BY <1>4, <2>5 DEF Start
    <3> QED
      BY <2>2, <2>3, <2>5, <3>1, <3>2
  <2>6. \/ Open("owner") /\ watcher' = "starting" /\ sup' = [Begin EXCEPT !.wake = FALSE]
        \/ state # "NEW" /\ UNCHANGED lifeVars /\ watcher' = "waiting" /\ sup' = Begin
    BY <1>4 DEF Start
  <2> QED
    BY <2>4, <2>5, <2>6
<1>5. CASE Stop
  <2>1. /\ watcher # "cancelled" /\ sup' = [sup EXCEPT !.stopped = TRUE]
        /\ UNCHANGED <<state, opening, exchanging, cut, attempt, previous, identity, cpu, bound, waiting>>
    BY <1>5 DEF Stop
  <2>2. watcher' \in {"starting", "none", "cancelled"} /\ (watcher = "attempting" => watcher' = "cancelled")
    BY <1>5 DEF Stop
  <2>3. sup' \in Flags
    BY <2>1
  <2>4. SupTypeOK'
    <3>1. "watcher" \in opening' \cup exchanging' => watcher' \in {"attempting", "cancelled"}
      BY <2>1, <2>2
    <3>2. watcher' # "attempting" /\ watcher' \in Where
      BY <2>2
    <3> QED
      BY <2>1, <2>3, <3>1, <3>2
  <2>5. NewIsUnused' /\ Attended' /\ CutIsDown'
    BY <2>1, <2>2
  <2> HIDE DEF SupTypeOK, NewIsUnused, Attended, CutIsDown
  <2> QED
    BY <2>4, <2>5
<1>6. CASE Call \/ Answer
  BY <1>6 DEF Call, Answer, Answered, Quiet
<1>7. CASE Silence
  <2>1. PICK s \in AfterClose(sup) : Tell(s)
    BY <1>7 DEF Silence
  <2>2. s \in Flags /\ (s = sup \/ s.ready)
    BY CloseFlags
  <2>3. sup' = s /\ waiting' \in [Waiter -> Wait]
    BY <2>1, <2>2, TellFlags
  <2> QED
    BY <1>7, <2>2, <2>3 DEF Silence, Fail, CutOff
<1>8. CASE FailExchange("caller")
  <2>1. PICK s \in IF state \in {"CLOSED", "FAILED"} THEN {sup} ELSE AfterFailure(sup) :
             Tell(s) /\ UNCHANGED watchVars
    BY <1>8 DEF FailExchange, HandshakeRaised, Raised
  <2>2. s \in Flags /\ (s = sup \/ (~s.ready /\ s.wake))
    BY FailureFlags
  <2>3. sup' = s /\ waiting' \in [Waiter -> Wait]
    BY <2>1, <2>2, TellFlags
  <2>4. /\ exchanging' = exchanging \ {"caller"} /\ cut' = exchanging'
        /\ UNCHANGED <<opening, identity, cpu, bound>>
        /\ state' \in {"CLOSED", "FAILED"}
    BY <1>8 DEF FailExchange, Fail, CutOff
  <2> QED
    BY <2>1, <2>2, <2>3, <2>4
<1>9. CASE SwapCpu
  BY <1>9 DEF SwapCpu
<1>10. CASE OwnerConfirmed
  <2>1. /\ "owner" \in exchanging /\ exchanging' = exchanging \ {"owner"}
        /\ state = "OPEN" /\ state' = "READY" /\ opening' = opening
        /\ identity' = cpu /\ bound' \in {bound, cpu}
        /\ cut = {} /\ cut' = {}
        /\ UNCHANGED <<cpu, attempt, previous>>
    BY <1>10 DEF OwnerConfirmed, Answered, Confirmed, Prove, Quiet
  <2>2. CASE watcher = "starting"
    <3>1. [sup EXCEPT !.ready = TRUE] \in Flags
      OBVIOUS
    <3>2. watcher' = "waiting" /\ sup' \in Flags /\ sup'.ready /\ waiting' \in [Waiter -> Wait]
      BY <1>10, <2>2, <3>1, TellFlags DEF OwnerConfirmed
    <3> QED
      BY <2>1, <2>2, <3>2
  <2>3. CASE watcher # "starting" /\ UNCHANGED <<watcher, sup, waiting>>
    <3>1. ~(watcher = "waiting" /\ ~sup.ready)
      BY <2>1
    <3> QED
      BY <2>1, <2>3, <3>1
  <2> QED
    BY <1>10, <2>2, <2>3 DEF OwnerConfirmed
<1> QED
  BY <1>1, <1>2, <1>3, <1>4, <1>5, <1>6, <1>7, <1>8, <1>9, <1>10

\* The watcher and the tasks in wait_ready().
LEMMA WatcherKeepsInv ==
    ASSUME SupInv, WatcherConfirmed \/ Wake \/ SleepEnds \/ Unwind
    PROVE  SupInv'
<1> USE SupervisorAssumption
        DEF SupInv, SupTypeOK, LifeTypeOK, State, NewIsUnused, Attended, CutIsDown, Exchanger, Usable,
            Flags, Where, Wait, cpuVars, watchVars, wireVars, lifeVars
<1>1. CASE WatcherConfirmed
  <2>1. /\ "watcher" \in exchanging /\ cut = {} /\ state = "OPEN"
        /\ identity' = cpu /\ bound' \in {bound, cpu} /\ opening' = opening
        /\ UNCHANGED <<cpu, attempt, previous>>
        /\ exchanging' = exchanging \ {"watcher"} /\ cut' \in {{}, exchanging'}
    BY <1>1 DEF WatcherConfirmed, Confirmed, Prove, CutOff, Quiet
  <2>2. CASE state' = "READY" /\ cut' = {}
    <3>1. [sup EXCEPT !.ready = TRUE] \in Flags
      OBVIOUS
    <3>2. /\ sup' \in Flags /\ waiting' \in [Waiter -> Wait]
          /\ watcher' = "waiting" => sup'.ready
          /\ watcher' \in {"returned", "died", "waiting"}
      BY <1>1, <2>2, <3>1, TellFlags DEF WatcherConfirmed
    <3> QED
      BY <2>1, <2>2, <3>2
  <2>3. CASE state' = "CLOSED" /\ cut' = exchanging' /\ watcher' = "returned"
    <3>1. PICK s \in AfterClose(sup) : Tell(GaveUp(s))
      BY <1>1, <2>3 DEF WatcherConfirmed, Confirmed, Prove
    <3>2. s \in Flags
      BY CloseFlags
    <3>3. GaveUp(s) \in Flags
      BY <3>2, GaveUpFlags
    <3>4. sup' \in Flags /\ waiting' \in [Waiter -> Wait]
      BY <3>1, <3>3, TellFlags
    <3> QED
      BY <2>1, <2>3, <3>4
  <2>4. \/ state' = "READY" /\ cut' = {}
        \/ state' = "CLOSED" /\ cut' = exchanging' /\ watcher' = "returned"
    BY <1>1, <2>1 DEF WatcherConfirmed, Confirmed, Prove, CutOff
  <2> QED
    BY <2>2, <2>3, <2>4
<1>2. CASE Wake
  <2> DEFINE s == [sup EXCEPT !.wake = FALSE]
  <2>1. /\ s \in Flags /\ s.ready = sup.ready
        /\ [s EXCEPT !.ready = FALSE] \in Flags
    OBVIOUS
  <2>2. /\ sup' \in Flags /\ waiting' \in [Waiter -> Wait]
        /\ watcher' \in {"returned", "sleeping", "died"}
           \/ (UNCHANGED watchVars /\ Usable /\ sup'.ready = sup.ready)
        /\ attempt' \in 1 .. MaxAttempts
        /\ previous' \in {previous, identity}
    <3>1. CASE Tell(s) /\ watcher' = "returned" /\ UNCHANGED <<attempt, previous>>
      BY <2>1, <3>1, TellFlags
    <3>2. CASE Tell(s) /\ UNCHANGED watchVars /\ Usable
      BY <2>1, <3>2, TellFlags
    <3>3. CASE /\ Tell([s EXCEPT !.ready = FALSE]) /\ previous' = identity /\ attempt' = 1
               /\ watcher' \in {"sleeping", "died"}
      <4>1. sup' \in Flags /\ waiting' \in [Waiter -> Wait]
        BY <2>1, <3>3, TellFlags
      <4> QED
        BY <3>3, <4>1
    <3> QED
      BY <1>2, <3>1, <3>2, <3>3 DEF Wake, UpAgain, Emit
  <2>3. watcher = "waiting" /\ sup.wake
    BY <1>2 DEF Wake
  <2>4. UNCHANGED <<state, opening, exchanging, cut, identity, cpu, bound>>
    BY <1>2 DEF Wake
  <2>5. SupTypeOK'
    BY <2>2, <2>3, <2>4
  <2> QED
    BY <2>2, <2>3, <2>4, <2>5
<1>3. CASE SleepEnds
  <2>1. CASE StoodDown /\ watcher' = "returned"
    <3>1. /\ UNCHANGED <<state, opening, exchanging, cut, sup, attempt, previous, waiting>>
          /\ UNCHANGED <<identity, cpu, bound>> /\ watcher = "sleeping"
      BY <1>3, <2>1 DEF SleepEnds
    <3> QED
      BY <2>1, <3>1
  <2>2. CASE AttemptFailed(sup) /\ UNCHANGED <<lifeVars, wireVars>>
    <3>1. HandshakeRaised("watcher", sup)
      BY <2>2 DEF HandshakeRaised, Raised
    <3> QED
      BY <1>3, <2>2, <3>1, RaisedEffect DEF SleepEnds
  <2>3. CASE Reopen("watcher") /\ CutOff(exchanging) /\ watcher' = "attempting"
    BY <1>3, <2>3 DEF SleepEnds, Reopen, BeginOpening, CutOff, StoodDown
  <2> QED
    BY <1>3, <2>1, <2>2, <2>3 DEF SleepEnds
<1>4. CASE Unwind
  <2>1. /\ watcher' = "none" /\ UNCHANGED <<sup, attempt, previous, identity, cpu, bound, waiting>>
        /\ "watcher" \notin opening' \cup exchanging'
        /\ opening' \subseteq opening /\ exchanging' \subseteq exchanging
    BY <1>4 DEF Unwind, NotOpened, CutOff, Fail
  <2>2. \/ UNCHANGED <<state, opening, exchanging, cut>>
        \/ state' \in {"CLOSED", "FAILED"} /\ cut' = exchanging'
    BY <1>4 DEF Unwind, NotOpened, CutOff, Fail
  <2> QED
    BY <2>1, <2>2
<1> QED
  BY <1>1, <1>2, <1>3, <1>4

LEMMA InvStep == SupInv /\ [Next]_vars => SupInv'
<1> SUFFICES ASSUME SupInv, [Next]_vars PROVE SupInv'
  OBVIOUS
<1>1. CASE UNCHANGED vars
  BY <1>1 DEF vars, lifeVars, wireVars, watchVars, cpuVars, SupInv, SupTypeOK, LifeTypeOK,
              NewIsUnused, Attended, CutIsDown, Usable
<1>2. ASSUME NEW w \in Waiter, WaitReady(w) \/ Return(w) PROVE SupInv'
  BY <1>2 DEF WaitReady, Return, lifeVars, wireVars, watchVars, cpuVars, SupInv, SupTypeOK,
              LifeTypeOK, NewIsUnused, Attended, CutIsDown, Usable
<1> QED
  BY <1>1, <1>2, EndsKeepInv, OthersKeepInv, WatcherKeepsInv DEF Next

\* The steps of the specification also leave `scope` alone.
LEMMA InvHolds == SupInv /\ [Next /\ UNCHANGED scope]_<<vars, scope>> => SupInv'
<1> SUFFICES ASSUME SupInv, [Next /\ UNCHANGED scope]_<<vars, scope>> PROVE SupInv'
  OBVIOUS
<1> QED
  BY InvStep

\* The types, and where an attempt is and what may be on the wire.
THEOREM SupervisorTypeCorrect == Spec => []SupTypeOK
<1>1. SupInv => SupTypeOK
  BY DEF SupInv
<1> QED
  BY <1>1, InvInit, InvHolds, PTL DEF Spec

\* No failure is slept through: a watcher that waits while `ready` is cleared has a
\* wake-up coming, whatever the environment does.
THEOREM EveryFailureWakes == Spec => []NoLostFailure
<1>1. SupInv => NoLostFailure
  BY DEF SupInv, Attended, NoLostFailure
<1> QED
  BY <1>1, InvInit, InvHolds, PTL DEF Spec

\* A supervisor that was stopped never opens the connection again.
THEOREM StoppedNeverReopens == Spec => NoReopenOnceStopped
<1>1. [Next /\ UNCHANGED scope]_<<vars, scope>> =>
        [sup.stopped /\ sup'.stopped =>
            ~("watcher" \notin opening /\ "watcher" \in opening')]_vars
  <2> SUFFICES ASSUME Next, sup.stopped, "watcher" \notin opening, "watcher" \in opening'
               PROVE  FALSE
    OBVIOUS
  <2> QED
    BY SupervisorAssumption
    DEF Next, Connect, ManualReconnect, CloseClient, Start, Stop, Call, Answer, Silence,
        FailExchange, SwapCpu, Ends, OpenSucceeds, OpenFails, Refused, NotConfirmed, Confirmed,
        OwnerConfirmed, WatcherConfirmed, Wake, SleepEnds, StoodDown, Unwind, WaitReady,
        Return, Open, Reopen, BeginOpening, Opened, NotOpened, Prove, Fail, Close, lifeVars
<1> QED
  BY <1>1, PTL DEF Spec, NoReopenOnceStopped

-----------------------------------------------------------------------------
(***************************************************************************)
(* A supervisor left to itself: nobody else reconnects or stops it, no     *)
(* listener raises, whatever handshakes are refused.  Then one task at a   *)
(* time opens, and what its attempt began with holds when it is over.      *)
(***************************************************************************)
ByItself == scope \subseteq {"refuse"}

Rebuilding == watcher \in {"sleeping", "attempting"}
Unwatched == watcher \in {"none", "starting"}
InCharge == sup.ready /\ ~sup.surrendered /\ ~sup.stopped

\* The owner opens once, before there is a task that watches, and binds the connection.
OwnerFirst ==
    /\ state = "NEW" \/ "owner" \in opening \cup exchanging => Unwatched /\ bound = NoCpu
    /\ Unwatched /\ state = "OPEN" => bound = NoCpu

\* Who is opening is alone, and a handshake has the connection OPEN until it is cut off.
OneAttempt ==
    /\ opening # {} => ~Usable
    /\ \A o \in Opener : o \in exchanging \ cut => state = "OPEN"

\* Whoever hears of readiness hears of its end.
Listening == (sup.ready => sup.listening) /\ (watcher # "none" => sup.listening)

\* While the watcher rebuilds, nobody is told that it is ready, and the CPU it means to find
\* again is the first that was confirmed; the identity is that CPU's until it begins, and
\* any CPU's once an attempt has failed.
Unready == Rebuilding => ~InCharge
Target ==
    /\ bound # NoCpu /\ Rebuilding => previous = bound
    /\ bound # NoCpu /\ (Unwatched \/ watcher = "waiting") => identity = bound

\* A supervisor that surrendered is not coming back, and an attempt of its watcher has
\* no connection left to bind.
Surrender ==
    /\ (Unwatched \/ watcher \in {"waiting", "sleeping"}) /\ sup.surrendered => sup.stopped
    /\ watcher = "attempting" /\ sup.surrendered =>
          state = "CLOSED" \/ (state = "FAILED" /\ "watcher" \in exchanging)

NotStale == InCharge => Usable

Home == bound # NoCpu /\ (state = "READY" \/ InCharge) => cpu = bound

Solo == /\ watcher # "cancelled"
        /\ OwnerFirst /\ OneAttempt /\ Listening /\ Unready /\ Target /\ Surrender
        /\ NotStale /\ Home

LEMMA SoloInit == SupInit => Solo
BY SupervisorAssumption
DEF SupInit, LifeInit, Solo, OwnerFirst, OneAttempt, Listening, Unready, Target, Rebuilding,
    Unwatched, InCharge, Surrender, NotStale, Home, Usable

\* An attempt of a watcher that nobody disturbs ends in these ways.
LEMMA RaisedAlone ==
    ASSUME ByItself, NEW o \in Opener, NEW s \in Flags, HandshakeRaised(o, s)
    PROVE  /\ previous' = previous
           /\ o = "owner" => sup' = s /\ watcher' = IF watcher = "starting" THEN "none" ELSE watcher
           /\ o = "watcher" =>
                 \/ watcher' = "returned" /\ sup'.surrendered /\ sup'.listening = s.listening
                 \/ watcher' = "sleeping" /\ sup' = s /\ ~s.surrendered
<1>1. /\ GaveUp(s).surrendered /\ GaveUp(s).listening = s.listening
      /\ "raise" \notin scope
  BY DEF GaveUp, Flags, ByItself
<1> QED
  BY <1>1, SupervisorAssumption DEF HandshakeRaised, Raised, AttemptFailed, Tell, Emit

LEMMA FailureAlone ==
    ASSUME ByItself, NEW s \in Flags, NEW r \in AfterFailure(s)
    PROVE  /\ r \in Flags /\ r.stopped = s.stopped /\ r.surrendered = s.surrendered
           /\ r.listening = s.listening
           /\ s.listening => ~r.ready \/ r.stopped
           /\ ~s.ready => ~r.ready
BY DEF Flags, AfterFailure, Unheard, Hears, ByItself

LEMMA CloseAlone ==
    ASSUME ByItself, NEW s \in Flags, NEW r \in AfterClose(s)
    PROVE  /\ r \in Flags /\ r.listening = s.listening
           /\ s.listening => r.stopped
           /\ ~s.listening => r = s
<1> DEFINE g == [GaveUp(s) EXCEPT !.stopped = TRUE, !.wake = TRUE]
<1>1. g \in Flags /\ g.stopped /\ g.listening = s.listening
  BY DEF Flags, GaveUp
<1>2. (r = s /\ ~Hears(s)) \/ (r = g /\ Hears(s))
  <2>1. "raise" \notin scope
    BY DEF ByItself
  <2>2. CASE Hears(s)
    <3>1. Unheard(s) = {}
      BY <2>1, <2>2, Zenon DEF Unheard
    <3>2. AfterClose(s) = {g}
      BY <3>1, <2>2 DEF AfterClose
    <3> QED
      BY <3>2, <2>2
  <2>3. CASE ~Hears(s)
    <3>1. Unheard(s) = {s}
      BY <2>3, Zenon DEF Unheard
    <3>2. AfterClose(s) = {s}
      BY <3>1, <2>3 DEF AfterClose
    <3> QED
      BY <3>2, <2>3
  <2> QED
    BY <2>2, <2>3
<1> HIDE DEF g
<1> QED
  BY <1>1, <1>2 DEF Hears, Flags

LEMMA EndsAlone ==
    ASSUME ByItself, SupInv, Solo, NEW o \in Opener, Ends(o)
    PROVE  Solo'
<1> USE SupervisorAssumption DEF SupTypeOK, LifeTypeOK, State, Flags, Usable, ByItself, Solo, OwnerFirst,
        OneAttempt, Listening, Unready, Target, Rebuilding, Unwatched, InCharge, Surrender, NotStale,
        Home, cpuVars, watchVars, wireVars, lifeVars
<1> SupTypeOK /\ NewIsUnused /\ CutIsDown
  BY DEF SupInv
<1> sup \in Flags
  OBVIOUS
<1>1. CASE OpenSucceeds(o)
  <2>1. /\ o \in opening /\ state # "CLOSED" /\ state' = "OPEN" /\ opening' = opening \ {o}
        /\ exchanging' = exchanging \cup {o} /\ cut = {} /\ cut' = {}
        /\ UNCHANGED <<sup, watcher, previous, identity, cpu, bound>>
    BY <1>1 DEF OpenSucceeds, Opened, Quiet
  <2>2. ~Usable
    BY <2>1
  <2>3. CASE o = "owner"
    <3>1. Unwatched /\ bound = NoCpu /\ "watcher" \notin opening
      BY <2>1, <2>3
    <3>2. opening' = {} /\ exchanging' \cap Opener = {"owner"}
      BY <2>1, <2>3, <3>1
    <3> QED
      BY <2>1, <2>2, <2>3, <3>1, <3>2
  <2>4. CASE o = "watcher"
    <3>1. /\ watcher = "attempting" /\ "owner" \notin opening \cup exchanging
          /\ "watcher" \notin exchanging
      BY <2>1, <2>4
    <3>2. ~sup.surrendered
      BY <2>1, <3>1
    <3>3. opening' = {} /\ exchanging' \cap Opener = {"watcher"}
      BY <2>1, <2>4, <3>1
    <3> QED
      BY <2>1, <2>2, <2>4, <3>1, <3>2, <3>3
  <2> QED
    BY <2>3, <2>4
<1>2. CASE OpenFails(o)
  <2>1. HandshakeRaised(o, sup)
    BY <1>2 DEF OpenFails, HandshakeRaised
  <2>2. /\ o \in opening /\ state' \in {"CLOSED", "FAILED"} /\ (state = "CLOSED" => state' = "CLOSED")
        /\ opening' = opening \ {o} /\ exchanging' = exchanging /\ cut' = exchanging
        /\ UNCHANGED <<identity, cpu, bound>>
    BY <1>2 DEF OpenFails, NotOpened, CutOff
  <2>3. CASE o = "owner"
    BY <2>1, <2>2, <2>3, RaisedAlone
  <2>4. CASE o = "watcher"
    BY <2>1, <2>2, <2>4, RaisedAlone
  <2> QED
    BY <2>3, <2>4
<1>3. CASE FailExchange(o)
  <2>1. PICK s \in IF state \in {"CLOSED", "FAILED"} THEN {sup} ELSE AfterFailure(sup) :
             HandshakeRaised(o, s)
    BY <1>3 DEF FailExchange
  <2>2. /\ s \in Flags /\ s.stopped = sup.stopped /\ s.surrendered = sup.surrendered
        /\ s.listening = sup.listening
        /\ ~sup.ready => ~s.ready
        /\ sup.listening /\ state \notin {"CLOSED", "FAILED"} => ~s.ready \/ s.stopped
        /\ state \in {"CLOSED", "FAILED"} => s = sup
    BY FailureAlone
  <2>3. /\ o \in exchanging /\ exchanging' = exchanging \ {o} /\ cut' = exchanging'
        /\ UNCHANGED <<opening, identity, cpu, bound>>
        /\ state' \in {"CLOSED", "FAILED"}
        /\ state \in {"CLOSED", "FAILED"} => state' = state
    BY <1>3 DEF FailExchange, Fail, CutOff
  <2>4. CASE o = "owner"
    BY <2>1, <2>2, <2>3, <2>4, RaisedAlone
  <2>5. CASE o = "watcher"
    <3>1. watcher = "attempting"
      BY <2>3, <2>5
    <3> QED
      BY <2>1, <2>2, <2>3, <2>5, <3>1, RaisedAlone
  <2> QED
    BY <2>4, <2>5
<1>4. CASE Refused(o)
  <2>1. /\ o \in exchanging /\ exchanging' = exchanging \ {o} /\ cut = {} /\ cut' = {}
        /\ HandshakeRaised(o, sup)
        /\ UNCHANGED <<state, opening, identity, cpu, bound>>
    BY <1>4 DEF Refused, Quiet
  <2>2. CASE o = "owner"
    BY <2>1, <2>2, RaisedAlone
  <2>3. CASE o = "watcher"
    BY <2>1, <2>3, RaisedAlone
  <2> QED
    BY <2>2, <2>3
<1>5. CASE NotConfirmed(o)
  <2>1. /\ o \in exchanging /\ exchanging' = exchanging \ {o} /\ cut' = cut \ {o}
        /\ o \in cut \/ cut = {}
        /\ state # "OPEN" /\ UNCHANGED <<state, opening, cpu, bound>> /\ identity' = cpu
    BY <1>5 DEF NotConfirmed, Answered, Quiet
  <2>2. ~Usable
    BY <2>1 DEF CutIsDown
  <2>3. HandshakeRaised(o, sup)
    BY <1>5 DEF NotConfirmed, HandshakeRaised
  <2>4. CASE o = "owner"
    BY <2>1, <2>2, <2>3, <2>4, RaisedAlone
  <2>5. CASE o = "watcher"
    BY <2>1, <2>2, <2>3, <2>5, RaisedAlone
  <2> QED
    BY <2>4, <2>5
<1> QED
  BY <1>1, <1>2, <1>3, <1>4, <1>5 DEF Ends

LEMMA OthersAlone ==
    ASSUME ByItself, SupInv, Solo,
           \/ Connect \/ ManualReconnect \/ CloseClient \/ Start \/ Stop
           \/ Call \/ Answer \/ Silence \/ FailExchange("caller") \/ SwapCpu
           \/ OwnerConfirmed
    PROVE  Solo'
<1> USE SupervisorAssumption DEF SupTypeOK, LifeTypeOK, State, Flags, Usable, ByItself, Solo, OwnerFirst,
        OneAttempt, Listening, Unready, Target, Rebuilding, Unwatched, InCharge, Surrender, NotStale,
        Home, cpuVars, watchVars, wireVars, lifeVars
<1> SupTypeOK /\ NewIsUnused /\ CutIsDown
  BY DEF SupInv
<1> sup \in Flags
  OBVIOUS
<1>1. CASE Connect
  BY <1>1 DEF Connect, Open, BeginOpening, NewIsUnused
<1>2. CASE ManualReconnect \/ Stop
  BY <1>2 DEF ManualReconnect, Stop
<1>3. CASE CloseClient \/ Silence
  <2>1. PICK s \in AfterClose(sup) : Tell(s)
    BY <1>3 DEF CloseClient, Silence
  <2>2. /\ sup' = s /\ s \in Flags /\ s.listening = sup.listening
        /\ sup.listening => s.stopped
        /\ ~sup.listening => s = sup
    BY <2>1, CloseAlone DEF Tell
  <2>3. /\ UNCHANGED <<opening, watcher, previous, identity, cpu, bound>>
        /\ exchanging' \subseteq exchanging /\ cut' = exchanging'
    BY <1>3 DEF CloseClient, Silence, Close, Fail, CutOff
  <2>4. CASE CloseClient
    <3>1. state' = "CLOSED"
      BY <2>4 DEF CloseClient, Close
    <3> QED
      BY <2>2, <2>3, <3>1
  <2>5. CASE Silence
    <3>1. Usable /\ state' = "FAILED" /\ exchanging' = exchanging \ {"caller"}
      BY <2>5 DEF Silence, Quiet, Fail, CutOff
    <3> QED
      BY <2>2, <2>3, <3>1
  <2> QED
    BY <1>3, <2>4, <2>5
<1>4. CASE Start
  <2>1. /\ watcher = "none" /\ "owner" \notin opening \cup exchanging /\ ~sup.surrendered
        /\ UNCHANGED <<exchanging, cut, previous, identity, cpu, bound>>
    BY <1>4 DEF Start
  <2>2. CASE Open("owner") /\ watcher' = "starting" /\ sup' = [Begin EXCEPT !.wake = FALSE]
    <3>1. state = "NEW" /\ state' = "CONNECTING" /\ opening' = opening \cup {"owner"}
      BY <2>2 DEF Open, BeginOpening
    <3>2. sup'.ready = Usable /\ sup'.surrendered = sup.surrendered /\ sup'.listening
      BY <2>2 DEF Begin
    <3> QED
      BY <2>1, <2>2, <3>1, <3>2 DEF NewIsUnused
  <2>3. CASE state # "NEW" /\ UNCHANGED lifeVars /\ watcher' = "waiting" /\ sup' = Begin
    <3>1. sup'.ready = Usable /\ sup'.surrendered = sup.surrendered /\ sup'.listening
      BY <2>3 DEF Begin
    <3> QED
      BY <2>1, <2>3, <3>1
  <2> QED
    BY <1>4, <2>2, <2>3 DEF Start
<1>5. CASE Call \/ Answer
  BY <1>5 DEF Call, Answer, Answered, Quiet
<1>6. CASE FailExchange("caller")
  <2>1. PICK s \in IF state \in {"CLOSED", "FAILED"} THEN {sup} ELSE AfterFailure(sup) :
             Tell(s) /\ UNCHANGED watchVars
    BY <1>6 DEF FailExchange, HandshakeRaised, Raised
  <2>2. /\ sup' = s /\ s \in Flags /\ s.stopped = sup.stopped /\ s.surrendered = sup.surrendered
        /\ s.listening = sup.listening
        /\ ~sup.ready => ~s.ready
        /\ sup.listening /\ state \notin {"CLOSED", "FAILED"} => ~s.ready \/ s.stopped
        /\ state \in {"CLOSED", "FAILED"} => s = sup
    BY <2>1, FailureAlone DEF Tell
  <2>3. /\ exchanging' = exchanging \ {"caller"} /\ cut' = exchanging'
        /\ UNCHANGED <<opening, identity, cpu, bound, watcher, previous>>
        /\ state' \in {"CLOSED", "FAILED"}
        /\ state \in {"CLOSED", "FAILED"} => state' = state
    BY <1>6, <2>1 DEF FailExchange, Fail, CutOff
  <2> QED
    BY <2>2, <2>3
<1>7. CASE SwapCpu
  BY <1>7 DEF SwapCpu
<1>8. CASE OwnerConfirmed
  <2>1. /\ "owner" \in exchanging /\ exchanging' = exchanging \ {"owner"}
        /\ state = "OPEN" /\ state' = "READY" /\ opening' = opening
        /\ identity' = cpu /\ bound' = (IF bound = NoCpu THEN cpu ELSE bound)
        /\ UNCHANGED <<cpu, previous>>
        /\ cut' \subseteq cut
    BY <1>8 DEF OwnerConfirmed, Answered, Confirmed, Prove
  <2>2. Unwatched /\ bound = NoCpu /\ "watcher" \notin exchanging
    BY <2>1
  <2>3. \/ watcher = "starting" /\ watcher' = "waiting" /\ sup' = [sup EXCEPT !.ready = TRUE]
        \/ UNCHANGED <<watcher, sup>>
    BY <1>8 DEF OwnerConfirmed, Tell
  <2> QED
    BY <2>1, <2>2, <2>3
<1> QED
  BY <1>1, <1>2, <1>3, <1>4, <1>5, <1>6, <1>7, <1>8

LEMMA WatcherAlone ==
    ASSUME ByItself, SupInv, Solo, WatcherConfirmed \/ Wake \/ SleepEnds \/ Unwind
    PROVE  Solo'
<1> USE SupervisorAssumption DEF SupTypeOK, LifeTypeOK, State, Flags, Usable, ByItself, Solo, OwnerFirst,
        OneAttempt, Listening, Unready, Target, Rebuilding, Unwatched, InCharge, Surrender, NotStale,
        Home, cpuVars, watchVars, wireVars, lifeVars
<1> SupTypeOK /\ NewIsUnused /\ CutIsDown
  BY DEF SupInv
<1> sup \in Flags
  OBVIOUS
<1>1. CASE WatcherConfirmed
  <2>1. /\ "watcher" \in exchanging /\ cut = {} /\ state = "OPEN" /\ watcher = "attempting"
        /\ ~sup.surrendered /\ "owner" \notin exchanging
        /\ identity' = cpu /\ UNCHANGED <<cpu, previous>>
    BY <1>1 DEF WatcherConfirmed, Quiet
  <2>2. CASE state' = "READY"
    <3>1. /\ watcher' = "waiting" /\ sup' = [sup EXCEPT !.ready = TRUE]
          /\ exchanging' = exchanging \ {"watcher"} /\ cut' = cut /\ opening' = opening
          /\ previous \in {NoCpu, cpu} /\ bound' = (IF bound = NoCpu THEN cpu ELSE bound)
      BY <1>1, <2>1, <2>2 DEF WatcherConfirmed, Confirmed, Prove, SameTarget, Tell
    <3>2. bound' = cpu
      BY <2>1, <3>1
    <3> QED
      BY <2>1, <2>2, <3>1, <3>2
  <2>3. CASE state' = "CLOSED"
    <3>1. PICK s \in AfterClose(sup) : Tell(GaveUp(s))
      BY <1>1, <2>3 DEF WatcherConfirmed, Confirmed, Prove
    <3>2. s \in Flags /\ s.listening = sup.listening /\ sup' = GaveUp(s)
      BY <3>1, CloseAlone DEF Tell
    <3>3. sup'.surrendered /\ sup'.listening = sup.listening
      BY <3>2 DEF GaveUp
    <3>4. /\ watcher' = "returned" /\ opening' = opening /\ bound' = bound
          /\ exchanging' = exchanging \ {"watcher"} /\ cut' = exchanging'
      BY <1>1, <2>3 DEF WatcherConfirmed, Confirmed, Prove, CutOff
    <3> QED
      BY <2>1, <2>3, <3>3, <3>4
  <2> QED
    BY <1>1, <2>2, <2>3 DEF WatcherConfirmed, Confirmed, Prove
<1>2. CASE Wake
  <2>1. /\ watcher = "waiting"
        /\ UNCHANGED <<state, opening, exchanging, cut, identity, cpu, bound>>
        /\ \/ /\ watcher' = "returned" /\ sup' = [sup EXCEPT !.wake = FALSE]
              /\ sup.stopped \/ state = "CLOSED"
           \/ watcher' = watcher /\ previous' = previous /\ sup' = [sup EXCEPT !.wake = FALSE]
           \/ /\ ~sup.stopped
              /\ watcher' = "sleeping" /\ previous' = identity
              /\ sup' = [[sup EXCEPT !.wake = FALSE] EXCEPT !.ready = FALSE]
    BY <1>2 DEF Wake, Tell, Emit
  <2> QED
    BY <2>1
<1>3. CASE SleepEnds
  <2>1. CASE StoodDown /\ watcher' = "returned"
    BY <1>3, <2>1 DEF SleepEnds, StoodDown
  <2>2. CASE AttemptFailed(sup) /\ UNCHANGED <<lifeVars, wireVars>>
    <3>1. HandshakeRaised("watcher", sup)
      BY <2>2 DEF HandshakeRaised, Raised
    <3>2. watcher = "sleeping" /\ UNCHANGED <<identity, cpu, bound>>
      BY <1>3 DEF SleepEnds
    <3> QED
      BY <2>2, <3>1, <3>2, RaisedAlone
  <2>3. CASE /\ ~StoodDown /\ Reopen("watcher") /\ CutOff(exchanging) /\ watcher' = "attempting"
             /\ UNCHANGED <<sup, attempt, previous, waiting>>
    <3>1. /\ watcher = "sleeping" /\ ~sup.stopped /\ ~sup.surrendered
          /\ UNCHANGED <<identity, cpu, bound>>
          /\ state' = "CONNECTING" /\ opening' = opening \cup {"watcher"}
          /\ exchanging' = exchanging /\ cut' = exchanging
      BY <1>3, <2>3 DEF SleepEnds, StoodDown, Reopen, BeginOpening, CutOff
    <3> QED
      BY <2>3, <3>1
  <2> QED
    BY <1>3, <2>1, <2>2, <2>3 DEF SleepEnds
<1>4. CASE Unwind
  BY <1>4 DEF Unwind
<1> QED
  BY <1>1, <1>2, <1>3, <1>4

LEMMA SoloStep ==
    ASSUME SupInv, ByItself => Solo, [Next /\ UNCHANGED scope]_<<vars, scope>>
    PROVE  ByItself' => Solo'
<1> SUFFICES ASSUME ByItself PROVE Solo'
  BY DEF ByItself
<1>1. CASE UNCHANGED vars
  BY <1>1 DEF vars, lifeVars, wireVars, watchVars, cpuVars, Solo, OwnerFirst, OneAttempt,
              Listening, Unready, Target, Rebuilding, Unwatched, InCharge, Surrender, NotStale, Home, Usable
<1>2. ASSUME NEW w \in Waiter, WaitReady(w) \/ Return(w) PROVE Solo'
  BY <1>2 DEF WaitReady, Return, lifeVars, wireVars, watchVars, cpuVars, Solo, OwnerFirst,
              OneAttempt, Listening, Unready, Target, Rebuilding, Unwatched, InCharge, Surrender, NotStale,
              Home, Usable
<1> QED
  BY <1>1, <1>2, EndsAlone, OthersAlone, WatcherAlone DEF Next

SoloInv == SupInv /\ (ByItself => Solo)

LEMMA SoloHolds == Spec => []SoloInv
<1>1. SupInit => SoloInv
  BY InvInit, SoloInit DEF SoloInv
<1>2. SoloInv /\ [Next /\ UNCHANGED scope]_<<vars, scope>> => SoloInv'
  <2>1. SoloInv /\ [Next /\ UNCHANGED scope]_<<vars, scope>> => SupInv'
    BY InvStep, SMTT(30) DEF SoloInv
  <2>2. SoloInv /\ [Next /\ UNCHANGED scope]_<<vars, scope>> => (ByItself' => Solo')
    BY SoloStep, SMTT(30) DEF SoloInv
  <2> QED
    BY <2>1, <2>2 DEF SoloInv
<1> QED
  BY <1>1, <1>2, PTL DEF Spec

\* Nobody is handed the readiness of a connection that has failed, whatever handshakes
\* are refused.
THEOREM ReadyIsNeverStale == Spec => []ReadyIsNotStale
<1>1. SoloInv => ReadyIsNotStale
  BY DEF SoloInv, ByItself, Solo, NotStale, InCharge, ReadyIsNotStale
<1> QED
  BY <1>1, SoloHolds, PTL

\* Whoever goes by READY or by wait_ready() is on the CPU that was confirmed first,
\* however many attempts failed or were refused in between and whoever answered them.
THEOREM AlwaysSameCpu == Spec => []SameCpu
<1>1. SoloInv => SameCpu
  BY DEF SoloInv, ByItself, Solo, Home, InCharge, SameCpu
<1> QED
  BY <1>1, SoloHolds, PTL
=============================================================================
