--------------------------- MODULE ConnectionProofs ---------------------------
(***************************************************************************)
(* What holds of a connection for any number of callers, any handshake and *)
(* any number of reconnects: it implements Lifecycle, it has a socket when *)
(* and only when it is usable, and, with one task that opens and reopens   *)
(* it, no exchange waits on a socket that is gone, READY is of the socket  *)
(* in service and no exchange finds the bytes of another on it.            *)
(***************************************************************************)
EXTENDS Connection, FiniteSetTheorems, TLAPS

Place == {"idle", "connecting", "acquire", "queued", "leased", "write", "read", "confirm"}

(***************************************************************************)
(* The one fact about reachable states that the mapping needs: nobody has  *)
(* anything of a connection that was never opened.  A task with a lease or *)
(* on the socket could otherwise move NEW to FAILED, which Lifecycle does  *)
(* not allow.                                                              *)
(***************************************************************************)
NewIsUntouched ==
    /\ pc \in [Task -> Place]
    /\ state = "NEW" => \A t \in Task : pc[t] \in {"idle", "acquire"}

LEMMA OpenersAreTasks == Opener \subseteq Task
BY ConnectionAssumption

LEMMA UntouchedInit == ConnInit => NewIsUntouched
BY DEF ConnInit, NewIsUntouched, Place

LEMMA UntouchedStep == NewIsUntouched /\ [Next]_vars => NewIsUntouched'
<1> SUFFICES ASSUME NewIsUntouched, [Next]_vars PROVE NewIsUntouched'
  OBVIOUS
<1> USE OpenersAreTasks DEF NewIsUntouched, Place
<1>1. CASE UNCHANGED vars
  BY <1>1 DEF vars, txnVars, connVars
<1>2. ASSUME NEW t \in Task, Runs(t) PROVE NewIsUntouched'
  <2>1. CASE Acquire(t)
    BY <2>1 DEF Acquire, Return, Suspend, Usable
  <2>2. CASE LeaveQueue(t) \/ AbandonQueue(t)
    BY <2>2 DEF LeaveQueue, AbandonQueue, Return, Suspend
  <2>3. CASE FindUnusable(t) \/ FindBusy(t)
    BY <2>3 DEF FindUnusable, FindBusy, Return, Suspend
  <2>4. CASE FailToSend(t)
    BY <2>4 DEF FailToSend, Return, Suspend, FailedState
  <2>5. CASE Send(t)
    BY <2>5 DEF Send, Park, Retire, Return, Suspend, FailedState, Usable
  <2>6. CASE GoOn(t)
    BY <2>6 DEF GoOn, Park, Suspend, Parked
  <2>7. CASE FinishSilent(t) \/ CancelSilent(t)
    BY <2>7 DEF FinishSilent, CancelSilent, Retire, Return, Suspend, FailedState
  <2>8. CASE Succeed(t)
    BY <2>8 DEF Succeed, Answered, Return, Suspend
  <2>9. CASE FailExchange(t)
    BY <2>9 DEF FailExchange, Return, Suspend, FailedState
  <2> QED
    BY <1>2, <2>1, <2>2, <2>3, <2>4, <2>5, <2>6, <2>7, <2>8, <2>9 DEF Runs
<1>3. ASSUME NEW t \in Task, SocketEvent(t) \/ Timeout(t) \/ CancelTask(t)
      PROVE  NewIsUntouched'
  BY <1>3 DEF SocketEvent, Timeout, CancelTask, txnVars
<1>4. ASSUME NEW u \in User, Call(u) PROVE NewIsUntouched'
  BY <1>4, ConnectionAssumption DEF Call
<1>5. ASSUME NEW o \in Opener, Connect(o) \/ Reconnect(o) PROVE NewIsUntouched'
  BY <1>5 DEF Connect, Reconnect, BeginOpen, Suspend
<1>6. ASSUME NEW o \in Opener, OpenSucceeds(o) \/ OpenFails(o) \/ Confirm(o)
      PROVE  NewIsUntouched'
  BY <1>6 DEF OpenSucceeds, OpenFails, Confirm, Return, Suspend
<1>7. CASE Aclose
  BY <1>7 DEF Aclose, txnVars
<1> QED
  BY <1>1, <1>2, <1>3, <1>4, <1>5, <1>6, <1>7 DEF Next

\* Nobody touches a connection that was never opened, in any reachable state.
THEOREM NeverOpenedNeverTouched == Spec => []NewIsUntouched
<1> QED
  BY UntouchedInit, UntouchedStep, PTL DEF Spec

-----------------------------------------------------------------------------
\* The refinement mapping.
opens == {o \in Opener : pc[o] = "connecting"}

\* A task that is not opening, and goes on to something else, leaves the set of opens
\* as it is.
LEMMA OpensKept ==
    ASSUME NEW t, NEW there, pc \in [Task -> Place],
           pc[t] # "connecting", there # "connecting",
           pc' = [pc EXCEPT ![t] = there]
    PROVE  opens' = opens
BY OpenersAreTasks DEF opens

\* The same for the failure of such a task, whatever its call returns.
LEMMA FailureRefines ==
    ASSUME NEW t \in Task, NewIsUntouched,
           pc[t] \notin {"idle", "acquire", "connecting"},
           state' = FailedState, opens' = opens
    PROVE  Life!Fail \/ UNCHANGED Life!lifeVars
BY DEF NewIsUntouched, FailedState, Life!Fail, Life!lifeVars, opens

LEMMA InitRefines == ConnInit => Life!LifeInit
BY OpenersAreTasks DEF ConnInit, Life!LifeInit

LEMMA StepRefines ==
    NewIsUntouched /\ [Next]_vars => [Life!LifeNext]_(Life!lifeVars)
<1> SUFFICES ASSUME NewIsUntouched, [Next]_vars
             PROVE  Life!LifeNext \/ UNCHANGED Life!lifeVars
  OBVIOUS
<1>a. pc \in [Task -> Place]
  BY DEF NewIsUntouched
<1>b. opens' = opens /\ UNCHANGED state => UNCHANGED Life!lifeVars
  BY DEF opens, Life!lifeVars
<1>c. Life!Fail => Life!LifeNext
  BY DEF Life!LifeNext
<1>1. CASE UNCHANGED vars
  BY <1>1 DEF vars, txnVars, connVars, Life!lifeVars
<1>2. ASSUME NEW t \in Task, Runs(t) PROVE Life!LifeNext \/ UNCHANGED Life!lifeVars
  <2>1. CASE Acquire(t)
    <3>1. opens' = opens
      BY <2>1, <1>a, OpensKept DEF Acquire, Return, Suspend
    <3> QED
      BY <2>1, <3>1, <1>b DEF Acquire
  <2>2. CASE LeaveQueue(t) \/ AbandonQueue(t) \/ FindUnusable(t) \/ FindBusy(t)
    <3>1. opens' = opens
      BY <2>2, <1>a, OpensKept
      DEF LeaveQueue, AbandonQueue, FindUnusable, FindBusy, Return, Suspend
    <3> QED
      BY <2>2, <3>1, <1>b DEF LeaveQueue, AbandonQueue, FindUnusable, FindBusy
  <2>3. CASE FailToSend(t)
    <3>1. opens' = opens
      BY <2>3, <1>a, OpensKept DEF FailToSend, Return, Suspend
    <3> QED
      BY <2>3, <3>1, FailureRefines, <1>c DEF FailToSend
  <2>4. CASE Send(t)
    <3>1. opens' = opens
      BY <2>4, <1>a, OpensKept DEF Send, Park, Retire, Return, Suspend
    <3>2. CASE UNCHANGED state
      BY <3>1, <3>2, <1>b
    <3>3. CASE state' = FailedState
      BY <2>4, <3>1, <3>3, FailureRefines, <1>c DEF Send
    <3> QED
      BY <2>4, <3>2, <3>3 DEF Send, Retire
  <2>5. CASE GoOn(t) \/ CancelSilent(t)
    <3>1. opens' = opens
      BY <2>5, <1>a, OpensKept DEF GoOn, CancelSilent, Park, Parked, Return, Suspend
    <3> QED
      BY <2>5, <3>1, <1>b DEF GoOn, CancelSilent
  <2>6. CASE FinishSilent(t)
    <3>1. opens' = opens
      BY <2>6, <1>a, OpensKept DEF FinishSilent, Retire, Return, Suspend
    <3> QED
      BY <2>6, <3>1, FailureRefines, <1>c DEF FinishSilent, Retire
  <2>7. CASE Succeed(t)
    <3>1. opens' = opens
      BY <2>7, <1>a, OpensKept DEF Succeed, Answered, Return, Suspend
    <3> QED
      BY <2>7, <3>1, <1>b DEF Succeed
  <2>8. CASE FailExchange(t)
    <3>1. opens' = opens
      BY <2>8, <1>a, OpensKept DEF FailExchange, Parked, Return, Suspend
    <3> QED
      BY <2>8, <3>1, FailureRefines, <1>c DEF FailExchange, Parked
  <2> QED
    BY <1>2, <2>1, <2>2, <2>3, <2>4, <2>5, <2>6, <2>7, <2>8 DEF Runs
<1>3. ASSUME NEW t \in Task, SocketEvent(t) \/ Timeout(t) \/ CancelTask(t)
      PROVE  UNCHANGED Life!lifeVars
  BY <1>3 DEF SocketEvent, Timeout, CancelTask, txnVars, Life!lifeVars
<1>4. ASSUME NEW u \in User, Call(u) PROVE UNCHANGED Life!lifeVars
  <2>1. opens' = opens
    BY <1>4, <1>a, OpensKept DEF Call
  <2> QED
    BY <1>4, <2>1, <1>b DEF Call
<1>5. ASSUME NEW o \in Opener, Connect(o) PROVE Life!LifeNext
  <2>1. opens' = opens \cup {o}
    BY <1>5, <1>a, OpenersAreTasks DEF Connect, BeginOpen, Suspend, opens
  <2>2. Life!Open(o)
    BY <1>5, <2>1 DEF Connect, BeginOpen, Life!Open, Life!BeginOpening, opens
  <2> QED
    BY <2>2 DEF Life!LifeNext
<1>6. ASSUME NEW o \in Opener, Reconnect(o) PROVE Life!LifeNext
  <2>1. opens' = opens \cup {o} /\ o \notin opens
    BY <1>6, <1>a, OpenersAreTasks DEF Reconnect, BeginOpen, Suspend, opens
  <2>2. Life!Reopen(o)
    BY <1>6, <2>1 DEF Reconnect, BeginOpen, Life!Reopen, Life!BeginOpening, opens
  <2> QED
    BY <2>2 DEF Life!LifeNext
<1>7. ASSUME NEW o \in Opener, OpenSucceeds(o) \/ OpenFails(o) PROVE Life!LifeNext
  <2>1. o \in opens /\ opens' = opens \ {o}
    BY <1>7, <1>a, OpenersAreTasks DEF OpenSucceeds, OpenFails, Return, Suspend, opens
  <2>2. Life!Opened(o) \/ Life!NotOpened(o)
    BY <1>7, <2>1
    DEF OpenSucceeds, OpenFails, ClosedMeanwhile, Life!Opened, Life!NotOpened, opens
  <2> QED
    BY <2>2 DEF Life!LifeNext
<1>8. ASSUME NEW o \in Opener, Confirm(o) PROVE Life!LifeNext \/ UNCHANGED Life!lifeVars
  <2>1. opens' = opens
    BY <1>8, <1>a, OpensKept DEF Confirm, Return, Suspend
  <2>2. CASE state = "OPEN"
    BY <1>8, <2>1, <2>2 DEF Confirm, Life!Prove, Life!LifeNext, opens
  <2>3. CASE state # "OPEN"
    BY <1>8, <2>1, <2>3, <1>b DEF Confirm
  <2> QED
    BY <2>2, <2>3
<1>9. CASE Aclose
  <2>1. Life!Close
    BY <1>9 DEF Aclose, txnVars, Life!Close
  <2> QED
    BY <2>1 DEF Life!LifeNext
<1> QED
  BY <1>1, <1>2, <1>3, <1>4, <1>5, <1>6, <1>7, <1>8, <1>9 DEF Next

\* Every behaviour of the connection is one of its abstract life cycle: whenever a
\* task of an exchange, an open or a close gets to run, it takes a step that
\* `ConnectionState` documents, or none.
THEOREM ConnectionRefinesLifecycle == Spec => Refines
<1> QED
  BY UntouchedInit, UntouchedStep, InitRefines, StepRefines, PTL
  DEF Spec, Refines, Life!LifeSpec

-----------------------------------------------------------------------------
(***************************************************************************)
(* The socket.  That a usable connection has one, and only that, needs     *)
(* little else: every step that takes the socket away moves the state, and *)
(* an open that succeeds has a socket of its own.                          *)
(***************************************************************************)
Numbered ==
    /\ generation \in Generation
    /\ sock \in Generation \cup {NoSocket}
    /\ at \in [Task -> Generation \cup {NoSocket}]
    /\ \A o \in Opener : pc[o] = "connecting" => at[o] \in Generation

LEMMA NumberedInit == ConnInit => Numbered
BY OpenersAreTasks, ConnectionAssumption DEF ConnInit, Numbered, Generation

LEMMA NumberedStep == NewIsUntouched /\ Numbered /\ [Next]_vars => Numbered'
<1> SUFFICES ASSUME NewIsUntouched, Numbered, [Next]_vars PROVE Numbered'
  OBVIOUS
<1> USE OpenersAreTasks DEF NewIsUntouched, Place, Numbered
<1>1. CASE UNCHANGED vars
  BY <1>1 DEF vars, txnVars, connVars
<1>2. ASSUME NEW t \in Task, Runs(t) PROVE Numbered'
  <2>1. CASE Acquire(t) \/ LeaveQueue(t) \/ AbandonQueue(t)
    BY <2>1 DEF Acquire, LeaveQueue, AbandonQueue, Return, Suspend, locals
  <2>2. CASE FindUnusable(t) \/ FindBusy(t) \/ FailToSend(t)
    BY <2>2 DEF FindUnusable, FindBusy, FailToSend, Return, Suspend, CloseTransport
  <2>3. CASE Send(t)
    BY <2>3 DEF Send, Park, Retire, Return, Suspend, CloseTransport
  <2>4. CASE GoOn(t) \/ CancelSilent(t) \/ FailExchange(t) \/ FinishSilent(t)
    BY <2>4 DEF GoOn, CancelSilent, FailExchange, FinishSilent, Retire, Park, Return, Suspend,
                CloseTransport
  <2>5. CASE Succeed(t)
    BY <2>5 DEF Succeed, Answered, Return, Suspend
  <2> QED
    BY <1>2, <2>1, <2>2, <2>3, <2>4, <2>5 DEF Runs
<1>3. ASSUME NEW t \in Task, SocketEvent(t) \/ Timeout(t) \/ CancelTask(t) PROVE Numbered'
  BY <1>3 DEF SocketEvent, Timeout, CancelTask, txnVars
<1>4. ASSUME NEW u \in User, Call(u) PROVE Numbered'
  BY <1>4, ConnectionAssumption DEF Call
<1>5. ASSUME NEW o \in Opener, Connect(o) \/ OpenFails(o) \/ Confirm(o) PROVE Numbered'
  BY <1>5 DEF Connect, OpenFails, Confirm, BeginOpen, Return, Suspend, CloseTransport
<1>6. ASSUME NEW o \in Opener, Reconnect(o) PROVE Numbered'
  <2>1. generation' \in Generation
    BY <1>6, ConnectionAssumption DEF Reconnect, Generation
  <2> QED
    BY <1>6, <2>1 DEF Reconnect, BeginOpen, Suspend, CloseTransport
<1>7. ASSUME NEW o \in Opener, OpenSucceeds(o) PROVE Numbered'
  BY <1>7 DEF OpenSucceeds, Return, Suspend, CloseTransport, locals
<1>8. CASE Aclose
  BY <1>8 DEF Aclose, CloseTransport, txnVars
<1> QED
  BY <1>1, <1>2, <1>3, <1>4, <1>5, <1>6, <1>7, <1>8 DEF Next

LEMMA SocketFollowsInit == ConnInit => SocketFollowsState
BY DEF ConnInit, SocketFollowsState, Usable

LEMMA SocketFollowsStep == Numbered /\ SocketFollowsState /\ [Next]_vars => SocketFollowsState'
<1> SUFFICES ASSUME Numbered, SocketFollowsState, [Next]_vars PROVE SocketFollowsState'
  OBVIOUS
<1> USE DEF SocketFollowsState, Usable
<1>0. UNCHANGED <<state, sock>> => SocketFollowsState'
  OBVIOUS
<1>1. CASE UNCHANGED vars
  BY <1>1 DEF vars, connVars
<1>2. ASSUME NEW t \in Task, Runs(t) PROVE SocketFollowsState'
  <2>1. CASE Acquire(t) \/ LeaveQueue(t) \/ AbandonQueue(t) \/ FindUnusable(t) \/ FindBusy(t)
    BY <2>1 DEF Acquire, LeaveQueue, AbandonQueue, FindUnusable, FindBusy
  <2>2. CASE FailToSend(t) \/ FinishSilent(t) \/ FailExchange(t)
    BY <2>2 DEF FailToSend, FinishSilent, FailExchange, Retire, FailedState, CloseTransport
  <2>3. CASE Send(t)
    BY <2>3 DEF Send, Retire, FailedState, CloseTransport
  <2>4. CASE GoOn(t) \/ Succeed(t) \/ CancelSilent(t)
    BY <2>4 DEF GoOn, Succeed, CancelSilent
  <2> QED
    BY <1>2, <2>1, <2>2, <2>3, <2>4 DEF Runs
<1>3. ASSUME NEW t \in Task, SocketEvent(t) \/ Timeout(t) \/ CancelTask(t) PROVE SocketFollowsState'
  BY <1>3 DEF SocketEvent, Timeout, CancelTask
<1>4. ASSUME NEW u \in User, Call(u) PROVE SocketFollowsState'
  BY <1>4 DEF Call
<1>5. ASSUME NEW o \in Opener, Connect(o) \/ Reconnect(o) \/ OpenFails(o) PROVE SocketFollowsState'
  BY <1>5 DEF Connect, Reconnect, OpenFails, BeginOpen, CloseTransport
<1>6. ASSUME NEW o \in Opener, Confirm(o) PROVE SocketFollowsState'
  BY <1>6 DEF Confirm
<1>7. ASSUME NEW o \in Opener, OpenSucceeds(o) PROVE SocketFollowsState'
  <2>1. at[o] # NoSocket
    BY <1>7, ConnectionAssumption DEF OpenSucceeds, Numbered, Generation, NoSocket
  <2> QED
    BY <1>7, <2>1 DEF OpenSucceeds, ClosedMeanwhile, CloseTransport
<1>8. CASE Aclose
  BY <1>8 DEF Aclose, CloseTransport
<1> QED
  BY <1>1, <1>2, <1>3, <1>4, <1>5, <1>6, <1>7, <1>8 DEF Next

\* A connection has a socket exactly when it is usable, whoever opens, closes, fails or
\* replaces it, in any number.
THEOREM SocketAlwaysFollowsState == Spec => []SocketFollowsState
<1> QED
  BY UntouchedInit, UntouchedStep, NumberedInit, NumberedStep, SocketFollowsInit,
     SocketFollowsStep, PTL DEF Spec

-----------------------------------------------------------------------------
(***************************************************************************)
(* With one task that connects and reconnects, which is how a client is    *)
(* used, more holds of the socket in service.  The argument: an exchange   *)
(* that got the socket has it alone until its task has run, since busy     *)
(* keeps every other out; and a new socket is installed only after the     *)
(* tasks that were due when its open began have run, so that no exchange   *)
(* of an old socket finds the new one in its place.                        *)
(***************************************************************************)
Lone == \A o, p \in Opener : o = p

Exchanging(t) == op[t] # "none"

\* Operations, and where their tasks are.
Operations ==
    /\ op \in [Task -> Ended \cup {"none", "parked"}]
    /\ ahead \in [Opener -> SUBSET Task]
    /\ \A t \in Task : Exchanging(t) <=> pc[t] \in Parked

\* The exchange on the socket in service, and none waits on one that is gone.
OneExchange ==
    /\ sock # NoSocket =>
          \A t \in Task : Exchanging(t) => at[t] = sock /\ busy /\ pending = {t}
    /\ sock = NoSocket => \A t \in Task : op[t] # "parked"

\* While a socket is opened there is no other, and who still has to do with the last
\* one runs before the new one is there.
OpensAfter ==
    /\ sock \in {generation, NoSocket}
    /\ \A o \in Opener :
          /\ pc[o] # "idle" => at[o] = generation
          /\ pc[o] = "connecting" =>
                sock = NoSocket /\ \A t \in Task : Exchanging(t) => t \in ahead[o]

ExchangeInv ==
    NewIsUntouched /\ Numbered /\ SocketFollowsState /\ Operations /\ OneExchange /\ OpensAfter

LEMMA ExchangeInit == ConnInit => Operations /\ OneExchange /\ OpensAfter
BY OpenersAreTasks DEF ConnInit, Operations, OneExchange, OpensAfter, Exchanging, Parked

LEMMA OperationsStep == NewIsUntouched /\ Operations /\ [Next]_vars => Operations'
<1> SUFFICES ASSUME NewIsUntouched, Operations, [Next]_vars PROVE Operations'
  OBVIOUS
<1> USE OpenersAreTasks DEF NewIsUntouched, Place, Operations, Exchanging, Parked, Ended
<1>1. CASE UNCHANGED vars
  BY <1>1 DEF vars, txnVars, connVars
<1>2. ASSUME NEW t \in Task, Runs(t) PROVE Operations'
  <2>1. CASE Acquire(t) \/ LeaveQueue(t) \/ AbandonQueue(t)
    BY <2>1 DEF Acquire, LeaveQueue, AbandonQueue, Return, Suspend, Ran
  <2>2. CASE FindUnusable(t) \/ FindBusy(t) \/ FailToSend(t)
    BY <2>2 DEF FindUnusable, FindBusy, FailToSend, Return, Suspend, CloseTransport
  <2>3. CASE Send(t)
    BY <2>3 DEF Send, Park, Retire, Return, Suspend, CloseTransport
  <2>4. CASE GoOn(t) \/ CancelSilent(t)
    BY <2>4 DEF GoOn, CancelSilent, Park, Return, Suspend, Ran
  <2>5. CASE FailExchange(t)
    BY <2>5 DEF FailExchange, Return, Suspend, CloseTransport, Ran
  <2>6. CASE FinishSilent(t)
    BY <2>6 DEF FinishSilent, Retire, Return, Suspend, CloseTransport, Ran
  <2>7. CASE Succeed(t)
    BY <2>7 DEF Succeed, Answered, Return, Suspend, Ran
  <2> QED
    BY <1>2, <2>1, <2>2, <2>3, <2>4, <2>5, <2>6, <2>7 DEF Runs
<1>3. ASSUME NEW t \in Task, SocketEvent(t) \/ Timeout(t) \/ CancelTask(t) PROVE Operations'
  BY <1>3 DEF SocketEvent, Timeout, CancelTask, txnVars
<1>4. ASSUME NEW u \in User, Call(u) PROVE Operations'
  BY <1>4, ConnectionAssumption DEF Call
<1>5. ASSUME NEW o \in Opener, Connect(o) \/ Reconnect(o) PROVE Operations'
  BY <1>5 DEF Connect, Reconnect, BeginOpen, Suspend, CloseTransport, Due
<1>6. ASSUME NEW o \in Opener, OpenSucceeds(o) \/ OpenFails(o) \/ Confirm(o) PROVE Operations'
  BY <1>6 DEF OpenSucceeds, OpenFails, Confirm, Return, Suspend, CloseTransport
<1>7. CASE Aclose
  BY <1>7 DEF Aclose, CloseTransport, txnVars
<1> QED
  BY <1>1, <1>2, <1>3, <1>4, <1>5, <1>6, <1>7 DEF Next

\* A close by somebody else leaves nobody parked, and the exchanges what they were.
LEMMA ClosingEndsAll ==
    ASSUME ExchangeInv, CloseTransport(pending, op)
    PROVE  /\ sock' = NoSocket
           /\ \A t \in Task : op'[t] # "parked" /\ (op'[t] = "none" <=> op[t] = "none")
BY DEF ExchangeInv, OneExchange, Exchanging, CloseTransport

LEMMA ExchangeStep ==
    ASSUME Lone, ExchangeInv, [Next]_vars
    PROVE  OneExchange' /\ OpensAfter'
<1> USE OpenersAreTasks DEF NewIsUntouched, Place, Numbered, Operations, OneExchange, OpensAfter,
                            Exchanging, Parked
<1> NewIsUntouched /\ Numbered /\ Operations /\ OneExchange /\ OpensAfter
  BY DEF ExchangeInv
<1> Operations'
  BY OperationsStep
<1>1. CASE UNCHANGED vars
  BY <1>1 DEF vars, txnVars, connVars
<1>2. ASSUME NEW t \in Task, Runs(t) PROVE OneExchange' /\ OpensAfter'
  <2>1. CASE Acquire(t) \/ LeaveQueue(t) \/ AbandonQueue(t)
    BY <2>1 DEF Acquire, LeaveQueue, AbandonQueue, Return, Suspend, Ran, locals
  <2>2. CASE FindUnusable(t) \/ FindBusy(t)
    BY <2>2 DEF FindUnusable, FindBusy, Return, Suspend
  <2>3. CASE FailToSend(t)
    <3>1. CloseTransport(pending, op)
      BY <2>3 DEF FailToSend
    <3> QED
      BY <2>3, <3>1, ClosingEndsAll DEF FailToSend, Return, Suspend
  <2>4. CASE Send(t)
    <3>1. \A u \in Task : op[u] = "none"
      BY <2>4 DEF Send, Unused
    <3> QED
      BY <2>4, <3>1 DEF Send, Park, Retire, Return, Suspend, CloseTransport
  <2>5. CASE GoOn(t)
    BY <2>5 DEF GoOn, Park, Suspend, Ran
  <2>6. CASE CancelSilent(t)
    BY <2>6 DEF CancelSilent, Return, Suspend, Ran
  <2>7. CASE FailExchange(t) \/ FinishSilent(t)
    <3>1. CloseTransport({}, [op EXCEPT ![t] = "none"])
      BY <2>7 DEF FailExchange, FinishSilent, Retire
    <3>2. sock' = NoSocket /\ op' = [op EXCEPT ![t] = "none"]
      BY <3>1 DEF CloseTransport
    <3>3. \A u \in Task : op'[u] # "parked"
      BY <2>7, <3>2 DEF FailExchange, FinishSilent
    <3> QED
      BY <2>7, <3>2, <3>3 DEF FailExchange, FinishSilent, Retire, Return, Suspend, Ran
  <2>8. CASE Succeed(t)
    <3>1. sock' = sock /\ generation' = generation /\ op' = [op EXCEPT ![t] = "none"]
      BY <2>8 DEF Succeed
    <3>2. \A u \in Task : u # t => at'[u] = at[u] /\ pc'[u] = pc[u]
      BY <2>8 DEF Succeed, Answered, Return, Suspend
    <3>3. pc'[t] # "connecting" /\ (pc'[t] # "idle" => at'[t] = at[t])
      BY <2>8 DEF Succeed, Answered, Return, Suspend
    <3>4. \A o \in Opener, u \in Task : u # t /\ u \in ahead[o] => u \in ahead'[o]
      BY <2>8 DEF Succeed, Ran
    <3>5. sock # NoSocket => \A u \in Task : op'[u] = "none"
      BY <2>8, <3>1 DEF Succeed
    <3>6. OneExchange'
      BY <3>1, <3>5
    <3>7. OpensAfter'
      BY <2>8, <3>1, <3>2, <3>3, <3>4 DEF Succeed
    <3> QED
      BY <3>6, <3>7
  <2> QED
    BY <1>2, <2>1, <2>2, <2>3, <2>4, <2>5, <2>6, <2>7, <2>8 DEF Runs
<1>3. ASSUME NEW t \in Task, SocketEvent(t) \/ Timeout(t) \/ CancelTask(t)
      PROVE  OneExchange' /\ OpensAfter'
  BY <1>3 DEF SocketEvent, Timeout, CancelTask, txnVars
<1>4. ASSUME NEW u \in User, Call(u) PROVE OneExchange' /\ OpensAfter'
  BY <1>4, ConnectionAssumption DEF Call
<1>5. ASSUME NEW o \in Opener, Connect(o) PROVE OneExchange' /\ OpensAfter'
  <2>1. sock = NoSocket /\ \A t \in Task : op[t] = "none"
    BY <1>5 DEF Connect, ExchangeInv, SocketFollowsState, Usable
  <2> QED
    BY <1>5, <2>1 DEF Connect, BeginOpen, Suspend, Lone
<1>6. ASSUME NEW o \in Opener, Reconnect(o) PROVE OneExchange' /\ OpensAfter'
  <2>1. CloseTransport(pending, op)
    BY <1>6 DEF Reconnect
  <2>2. \A t \in Task : op'[t] # "none" => t \in Due(op')
    BY <2>1, ClosingEndsAll DEF Due
  <2> QED
    BY <1>6, <2>1, <2>2, ClosingEndsAll DEF Reconnect, BeginOpen, Suspend, Lone
<1>7. ASSUME NEW o \in Opener, OpenSucceeds(o), ~ClosedMeanwhile PROVE OneExchange' /\ OpensAfter'
  <2>1. sock' = generation /\ \A t \in Task : op'[t] = "none"
    BY <1>7 DEF OpenSucceeds
  <2> QED
    BY <1>7, <2>1, ConnectionAssumption DEF OpenSucceeds, locals, Generation, NoSocket, Lone
<1>8. ASSUME NEW o \in Opener, OpenFails(o) \/ (OpenSucceeds(o) /\ ClosedMeanwhile)
      PROVE  OneExchange' /\ OpensAfter'
  <2>1. CloseTransport(pending, op)
    BY <1>8 DEF OpenFails, OpenSucceeds
  <2> QED
    BY <1>8, <2>1, ClosingEndsAll DEF OpenFails, OpenSucceeds, Return, Suspend, Lone
<1>9. ASSUME NEW o \in Opener, Confirm(o) PROVE OneExchange' /\ OpensAfter'
  BY <1>9 DEF Confirm, Return, Suspend
<1>10. CASE Aclose
  <2>1. CloseTransport(pending, op)
    BY <1>10 DEF Aclose
  <2> QED
    BY <1>10, <2>1, ClosingEndsAll DEF Aclose, txnVars
<1> QED
  BY <1>1, <1>2, <1>3, <1>4, <1>5, <1>6, <1>7, <1>8, <1>9, <1>10 DEF Next

LEMMA ExchangeInvStep == Lone /\ ExchangeInv /\ [Next]_vars => ExchangeInv'
<1> SUFFICES ASSUME Lone, ExchangeInv, [Next]_vars PROVE ExchangeInv'
  OBVIOUS
<1>1. NewIsUntouched' /\ Numbered' /\ SocketFollowsState' /\ Operations'
  BY UntouchedStep, NumberedStep, SocketFollowsStep, OperationsStep DEF ExchangeInv
<1>2. OneExchange' /\ OpensAfter'
  BY ExchangeStep
<1> QED
  BY <1>1, <1>2 DEF ExchangeInv

LEMMA ExchangeInvInit == ConnInit => ExchangeInv
BY UntouchedInit, NumberedInit, SocketFollowsInit, ExchangeInit DEF ExchangeInv

LEMMA NobodyWaits == ExchangeInv => NobodyWaitsOnAClosedSocket
BY DEF ExchangeInv, OneExchange, Exchanging, NobodyWaitsOnAClosedSocket

\* Nobody is left waiting on a socket that was closed or replaced under it, for any
\* number of callers, whoever closes, fails and reconnects.
THEOREM NobodyEverWaitsOnAClosedSocket ==
    ASSUME Lone
    PROVE  Spec => []NobodyWaitsOnAClosedSocket
<1>1. ExchangeInv /\ [Next]_vars => ExchangeInv'
  BY ExchangeInvStep
<1> QED
  BY ExchangeInvInit, <1>1, NobodyWaits, PTL DEF Spec

-----------------------------------------------------------------------------
(***************************************************************************)
(* READY: the handshake that was answered was that of this socket, because *)
(* who proves a socket is who opened it.                                   *)
(***************************************************************************)
Proof == HandshakeSteps > 0 => generation \in proven

ReadyInv ==
    /\ \A o \in Opener : pc[o] = "confirm" => Proof
    /\ state = "READY" => Proof

LEMMA ReadyInit == ConnInit => ReadyInv
BY OpenersAreTasks DEF ConnInit, ReadyInv

LEMMA ReadyStep ==
    ASSUME Lone, ExchangeInv, ReadyInv, [Next]_vars
    PROVE  ReadyInv'
<1> USE OpenersAreTasks DEF NewIsUntouched, Place, ReadyInv, Proof
<1> NewIsUntouched /\ OpensAfter
  BY DEF ExchangeInv
<1>1. CASE UNCHANGED vars
  BY <1>1 DEF vars, txnVars, connVars
<1>2. ASSUME NEW t \in Task, Runs(t) PROVE ReadyInv'
  <2>1. CASE Acquire(t) \/ LeaveQueue(t) \/ AbandonQueue(t)
    BY <2>1 DEF Acquire, LeaveQueue, AbandonQueue, Return, Suspend
  <2>2. CASE FindUnusable(t) \/ FindBusy(t) \/ FailToSend(t)
    BY <2>2 DEF FindUnusable, FindBusy, FailToSend, Return, Suspend, FailedState
  <2>3. CASE Send(t)
    BY <2>3 DEF Send, Park, Retire, Return, Suspend, FailedState
  <2>4. CASE GoOn(t) \/ CancelSilent(t)
    BY <2>4 DEF GoOn, CancelSilent, Park, Return, Suspend
  <2>5. CASE FailExchange(t) \/ FinishSilent(t)
    BY <2>5 DEF FailExchange, FinishSilent, Retire, Return, Suspend, FailedState
  <2>6. CASE Succeed(t)
    <3>1. proven \subseteq proven' /\ UNCHANGED <<state, generation>>
      BY <2>6 DEF Succeed, Answered
    <3>2. t \in Opener /\ pc'[t] = "confirm" => generation \in proven'
      BY <2>6 DEF Succeed, Answered, Return, Suspend, OpensAfter
    <3>3. \A o \in Opener \ {t} : pc'[o] = pc[o]
      BY <2>6 DEF Succeed, Answered, Return, Suspend
    <3> QED
      BY <3>1, <3>2, <3>3
  <2> QED
    BY <1>2, <2>1, <2>2, <2>3, <2>4, <2>5, <2>6 DEF Runs
<1>3. ASSUME NEW t \in Task, SocketEvent(t) \/ Timeout(t) \/ CancelTask(t) PROVE ReadyInv'
  BY <1>3 DEF SocketEvent, Timeout, CancelTask, txnVars
<1>4. ASSUME NEW u \in User, Call(u) PROVE ReadyInv'
  BY <1>4, ConnectionAssumption DEF Call
<1>5. ASSUME NEW o \in Opener, Connect(o) \/ Reconnect(o) PROVE ReadyInv'
  BY <1>5 DEF Connect, Reconnect, BeginOpen, Suspend, Lone
<1>6. ASSUME NEW o \in Opener, OpenSucceeds(o) PROVE ReadyInv'
  BY <1>6, ConnectionAssumption DEF OpenSucceeds, ClosedMeanwhile, Return, Suspend
<1>7. ASSUME NEW o \in Opener, OpenFails(o) \/ Confirm(o) PROVE ReadyInv'
  BY <1>7 DEF OpenFails, Confirm, Return, Suspend
<1>8. CASE Aclose
  BY <1>8 DEF Aclose, txnVars
<1> QED
  BY <1>1, <1>2, <1>3, <1>4, <1>5, <1>6, <1>7, <1>8 DEF Next

LEMMA ReadyHolds == ExchangeInv /\ ReadyInv => ReadyIsProven
BY DEF ExchangeInv, ReadyInv, Proof, OpensAfter, SocketFollowsState, Usable, ReadyIsProven

\* A connection that is READY has proven the socket it uses, however often it was
\* replaced and whatever its handshake consists of.
THEOREM ReadyIsAlwaysProven ==
    ASSUME Lone
    PROVE  Spec => []ReadyIsProven
<1>1. ExchangeInv /\ [Next]_vars => ExchangeInv'
  BY ExchangeInvStep
<1>2. ExchangeInv /\ ReadyInv /\ [Next]_vars => ReadyInv'
  BY ReadyStep
<1> QED
  BY ExchangeInvInit, ReadyInit, <1>1, <1>2, ReadyHolds, PTL DEF Spec

-----------------------------------------------------------------------------
(***************************************************************************)
(* The wire.  A socket is opened with nothing on it, and what is put there *)
(* is of the one exchange that has it; for as long as no silent exchange   *)
(* is cancelled, which leaves its bytes behind.                            *)
(***************************************************************************)
Uncancelled == "silent" \notin Cancellable

\* Who is cancelled on the socket may be.
CancelledMay ==
    /\ kind \in [Task -> Kind]
    /\ \A t \in Task : op[t] = "cancelled" => kind[t] \in Cancellable

\* A socket has nothing on it until it is opened.
TailFresh ==
    /\ tail \in [Generation -> SUBSET Task]
    /\ \A g \in Generation : g > generation => tail[g] = {}
    /\ state = "NEW" => tail[generation] = {}
    /\ \A o \in Opener : pc[o] = "connecting" => tail[generation] = {}

\* What is on the socket in service is of a task that exchanges.
TailRead == sock # NoSocket => \A t \in tail[sock] : op[t] # "none"

WireInv == CancelledMay /\ TailFresh /\ TailRead

LEMMA WireInit == ConnInit => WireInv
BY OpenersAreTasks, ConnectionAssumption
DEF ConnInit, WireInv, Kind, CancelledMay, TailFresh, TailRead, Generation, NoSocket

LEMMA CancelledStep ==
    ASSUME NewIsUntouched, Operations, CancelledMay, [Next]_vars
    PROVE  CancelledMay'
<1> USE DEF CancelledMay
<1>a. op \in [Task -> Ended \cup {"none", "parked"}]
  BY DEF Operations
<1>0. ASSUME NEW t, \A u \in Task : op'[u] = "cancelled" => u # t /\ op[u] = "cancelled",
             kind' \in [Task -> Kind], \A u \in Task : u # t => kind'[u] = kind[u]
      PROVE  CancelledMay'
  BY <1>0
<1>1. CASE UNCHANGED vars
  BY <1>1 DEF vars, txnVars, connVars
<1>2. ASSUME NEW t \in Task, Runs(t) PROVE CancelledMay'
  <2>1. CASE Acquire(t) \/ LeaveQueue(t) \/ AbandonQueue(t)
    <3>1. op' = op /\ kind' \in [Task -> Kind] /\ \A u \in Task : u # t => kind'[u] = kind[u]
      BY <2>1 DEF Acquire, LeaveQueue, AbandonQueue, Return, Kind, locals
    <3>2. op[t] = "none"
      BY <2>1 DEF Acquire, LeaveQueue, AbandonQueue, Operations, Exchanging, Parked
    <3> QED
      BY <3>1, <3>2, <1>0
  <2>2. CASE FindUnusable(t) \/ FindBusy(t) \/ FailToSend(t) \/ Send(t)
    <3>1. op[t] = "none"
      BY <2>2 DEF FindUnusable, FindBusy, FailToSend, Send, Operations, Exchanging, Parked
    <3>2. kind' \in [Task -> Kind] /\ \A u \in Task : u # t => kind'[u] = kind[u]
      BY <2>2 DEF FindUnusable, FindBusy, FailToSend, Send, Retire, Return, Kind
    <3>3. \A u \in Task : op'[u] = "cancelled" => op[u] = "cancelled"
      BY <2>2, <1>a
      DEF FindUnusable, FindBusy, FailToSend, Send, Park, Retire, CloseTransport
    <3> QED
      BY <3>1, <3>2, <3>3, <1>0
  <2>3. CASE GoOn(t) \/ FinishSilent(t) \/ Succeed(t) \/ FailExchange(t) \/ CancelSilent(t)
    <3>1. kind' \in [Task -> Kind] /\ \A u \in Task : u # t => kind'[u] = kind[u]
      BY <2>3 DEF Kind, GoOn, FinishSilent, Succeed, Answered, FailExchange, CancelSilent, Retire, Return
    <3>2. \A u \in Task : op'[u] = "cancelled" => u # t /\ op[u] = "cancelled"
      BY <2>3, <1>a
      DEF GoOn, FinishSilent, Succeed, FailExchange, CancelSilent, Park, Retire, CloseTransport
    <3> QED
      BY <3>1, <3>2, <1>0
  <2> QED
    BY <1>2, <2>1, <2>2, <2>3 DEF Runs
<1>3. ASSUME NEW t \in Task, SocketEvent(t) \/ Timeout(t) \/ CancelTask(t) PROVE CancelledMay'
  BY <1>3, <1>a DEF SocketEvent, Timeout, CancelTask, txnVars
<1>4. ASSUME NEW u \in User, Call(u) PROVE CancelledMay'
  <2>1. u \in Task /\ op[u] = "none"
    BY <1>4, ConnectionAssumption DEF Call, Operations, Exchanging, Parked
  <2>2. PICK k \in Kinds : kind' = [kind EXCEPT ![u] = k]
    BY <1>4 DEF Call
  <2>3. k \in Kind
    BY <2>2, ConnectionAssumption
  <2> QED
    BY <1>4, <2>1, <2>2, <2>3, <1>0 DEF Call
<1>5. ASSUME NEW o \in Opener,
             Connect(o) \/ Reconnect(o) \/ OpenSucceeds(o) \/ OpenFails(o) \/ Confirm(o)
      PROVE  CancelledMay'
  <2>1. op[o] = "none"
    BY <1>5, OpenersAreTasks
    DEF Connect, Reconnect, OpenSucceeds, OpenFails, Confirm, Operations, Exchanging, Parked
  <2>2. kind' \in [Task -> Kind] /\ \A u \in Task : u # o => kind'[u] = kind[u]
    BY <1>5 DEF Connect, Reconnect, OpenSucceeds, OpenFails, Confirm, Return, Kind, locals
  <2>3. \A u \in Task : op'[u] = "cancelled" => op[u] = "cancelled"
    BY <1>5, <1>a DEF Connect, Reconnect, OpenSucceeds, OpenFails, Confirm, CloseTransport
  <2> QED
    BY <2>1, <2>2, <2>3, <1>0
<1>6. CASE Aclose
  BY <1>6, <1>a DEF Aclose, CloseTransport, txnVars
<1> QED
  BY <1>1, <1>2, <1>3, <1>4, <1>5, <1>6 DEF Next

LEMMA FreshStep ==
    ASSUME Lone, ExchangeInv, TailFresh, [Next]_vars
    PROVE  TailFresh'
<1> USE OpenersAreTasks DEF TailFresh
<1> NewIsUntouched /\ Numbered /\ OpensAfter
  BY DEF ExchangeInv
<1>0. ASSUME tail' \in [Generation -> SUBSET Task],
             \A g \in Generation : tail'[g] \subseteq tail[g],
             generation' = generation, state' = "NEW" => state = "NEW",
             \A o \in Opener : pc'[o] = "connecting" => pc[o] = "connecting"
      PROVE  TailFresh'
  BY <1>0 DEF Numbered
<1>1. CASE UNCHANGED vars
  BY <1>1, <1>0 DEF vars, txnVars, connVars
<1>2. ASSUME NEW t \in Task, Runs(t) PROVE TailFresh'
  <2>a. generation' = generation /\ (state' = "NEW" => state = "NEW")
    BY <1>2 DEF Runs, Acquire, LeaveQueue, AbandonQueue, FindUnusable, FindBusy, FailToSend,
                Send, GoOn, FinishSilent, Succeed, FailExchange, CancelSilent, Retire, FailedState
  <2>b. \A o \in Opener : pc'[o] = "connecting" => pc[o] = "connecting"
    <3>1. CASE Acquire(t) \/ LeaveQueue(t) \/ AbandonQueue(t) \/ FindUnusable(t) \/ FindBusy(t)
               \/ FailToSend(t)
      BY <3>1 DEF Acquire, LeaveQueue, AbandonQueue, FindUnusable, FindBusy, FailToSend, Return,
                  Suspend, NewIsUntouched
    <3>2. CASE Send(t) \/ GoOn(t) \/ FinishSilent(t) \/ FailExchange(t) \/ CancelSilent(t)
      BY <3>2 DEF Send, GoOn, FinishSilent, FailExchange, CancelSilent, Park, Retire, Return,
                  Suspend, NewIsUntouched
    <3>3. CASE Succeed(t)
      BY <3>3 DEF Succeed, Answered, Return, Suspend, NewIsUntouched
    <3> QED
      BY <1>2, <3>1, <3>2, <3>3 DEF Runs
  <2>1. CASE tail' = tail
    BY <2>1, <2>a, <2>b, <1>0
  <2>2. CASE Succeed(t)
    <3>1. tail' = [tail EXCEPT ![at[t]] = @ \ {t}]
      BY <2>2 DEF Succeed
    <3> QED
      BY <3>1, <2>a, <2>b, <1>0
  <2>3. CASE Send(t)
    <3>1. sock = generation /\ state # "NEW" /\ sock \in Generation
      BY <2>3 DEF Send, Usable, OpensAfter, Numbered
    <3>2. \A o \in Opener : pc[o] # "connecting"
      BY <2>3 DEF Send, OpensAfter
    <3>3. tail' = [tail EXCEPT ![generation] = @ \cup {t}]
      BY <2>3, <3>1 DEF Send
    <3>4. tail' \in [Generation -> SUBSET Task]
      BY <3>3
    <3>5. \A g \in Generation : g > generation => tail'[g] = {}
      BY <3>1, <3>3, ConnectionAssumption DEF Generation
    <3> QED
      BY <3>1, <3>2, <3>4, <3>5, <2>a, <2>b
  <2>4. tail' = tail \/ Succeed(t) \/ Send(t)
    BY <1>2 DEF Runs, Acquire, LeaveQueue, AbandonQueue, FindUnusable, FindBusy, FailToSend,
                GoOn, FinishSilent, FailExchange, CancelSilent
  <2> QED
    BY <2>1, <2>2, <2>3, <2>4
<1>3. ASSUME NEW t \in Task, SocketEvent(t) \/ Timeout(t) \/ CancelTask(t) PROVE TailFresh'
  BY <1>3 DEF SocketEvent, Timeout, CancelTask, txnVars
<1>4. ASSUME NEW u \in User, Call(u) PROVE TailFresh'
  BY <1>4, <1>0 DEF Call, NewIsUntouched
<1>5. ASSUME NEW o \in Opener, Connect(o) PROVE TailFresh'
  BY <1>5 DEF Connect, BeginOpen
<1>6. ASSUME NEW o \in Opener, Reconnect(o) PROVE TailFresh'
  <2>1. generation' \in Generation /\ generation' > generation
    BY <1>6, ConnectionAssumption DEF Reconnect, Generation, Numbered
  <2>2. \A g \in Generation : g > generation' => g > generation
    BY <1>6, ConnectionAssumption DEF Reconnect, Generation, Numbered
  <2> QED
    BY <1>6, <2>1, <2>2 DEF Reconnect, BeginOpen
<1>7. ASSUME NEW o \in Opener, OpenSucceeds(o) \/ OpenFails(o) \/ Confirm(o) PROVE TailFresh'
  <2>1. /\ UNCHANGED <<generation, tail>>
        /\ state' = "NEW" => state = "NEW"
        /\ \A p \in Opener : pc'[p] = "connecting" => pc[p] = "connecting"
    BY <1>7 DEF OpenSucceeds, OpenFails, Confirm, Return, Suspend, NewIsUntouched
  <2> QED
    BY <2>1, <1>0
<1>8. CASE Aclose
  BY <1>8 DEF Aclose, txnVars
<1> QED
  BY <1>1, <1>2, <1>3, <1>4, <1>5, <1>6, <1>7, <1>8 DEF Next

LEMMA ReadStep ==
    ASSUME Lone, Uncancelled, ExchangeInv, CancelledMay, TailFresh, TailRead, [Next]_vars
    PROVE  TailRead'
<1> USE OpenersAreTasks DEF TailRead
<1> Numbered /\ Operations /\ OneExchange /\ OpensAfter
  BY DEF ExchangeInv
<1>0. CASE sock' = NoSocket
  BY <1>0
<1>1. CASE UNCHANGED vars
  BY <1>1 DEF vars, txnVars, connVars
<1>2. ASSUME NEW t \in Task, Runs(t) PROVE TailRead'
  <2>1. CASE Acquire(t) \/ LeaveQueue(t) \/ AbandonQueue(t) \/ FindUnusable(t) \/ FindBusy(t)
    BY <2>1 DEF Acquire, LeaveQueue, AbandonQueue, FindUnusable, FindBusy
  <2>2. CASE FailToSend(t) \/ FailExchange(t) \/ FinishSilent(t)
    BY <2>2, <1>0 DEF FailToSend, FailExchange, FinishSilent, Retire, CloseTransport
  <2>3. CASE Send(t)
    <3>1. sock \in Generation /\ tail' = [tail EXCEPT ![sock] = @ \cup {t}]
      BY <2>3 DEF Send, Numbered
    <3>2. CASE sock' = sock /\ op' = [op EXCEPT ![t] = "parked"]
      BY <3>1, <3>2, <2>3 DEF TailFresh, Operations, Send
    <3> QED
      BY <2>3, <3>2, <1>0 DEF Send, Park, Retire, CloseTransport
  <2>4. CASE GoOn(t)
    BY <2>4 DEF GoOn, Park, Operations
  <2>5. CASE Succeed(t)
    <3>1. sock' = sock /\ op' = [op EXCEPT ![t] = "none"]
          /\ tail' = [tail EXCEPT ![at[t]] = @ \ {t}]
      BY <2>5 DEF Succeed
    <3>2. sock # NoSocket => at[t] = sock /\ sock \in Generation
      BY <2>5 DEF Succeed, OneExchange, Exchanging, Numbered
    <3> QED
      BY <3>1, <3>2 DEF Operations, TailFresh
  <2>6. CASE CancelSilent(t)
    BY <2>6 DEF CancelSilent, Uncancelled, CancelledMay
  <2> QED
    BY <1>2, <2>1, <2>2, <2>3, <2>4, <2>5, <2>6 DEF Runs
<1>3. ASSUME NEW t \in Task, SocketEvent(t) \/ Timeout(t) \/ CancelTask(t) PROVE TailRead'
  BY <1>3 DEF SocketEvent, Timeout, CancelTask, TailFresh, Numbered, Operations
<1>4. ASSUME NEW u \in User, Call(u) PROVE TailRead'
  BY <1>4 DEF Call
<1>5. ASSUME NEW o \in Opener, Reconnect(o) \/ OpenFails(o) PROVE TailRead'
  BY <1>5, <1>0 DEF Reconnect, OpenFails, CloseTransport
<1>6. ASSUME NEW o \in Opener, Connect(o) \/ Confirm(o) PROVE TailRead'
  BY <1>6 DEF Connect, Confirm
<1>7. ASSUME NEW o \in Opener, OpenSucceeds(o) PROVE TailRead'
  <2>1. CASE ClosedMeanwhile
    BY <1>7, <2>1, <1>0 DEF OpenSucceeds, CloseTransport
  <2>2. CASE ~ClosedMeanwhile
    <3>1. sock' = generation /\ tail' = tail
      BY <1>7, <2>2 DEF OpenSucceeds, OpensAfter
    <3>2. tail[generation] = {}
      BY <1>7 DEF OpenSucceeds, TailFresh
    <3> QED
      BY <3>1, <3>2
  <2> QED
    BY <2>1, <2>2
<1>8. CASE Aclose
  BY <1>8, <1>0 DEF Aclose, CloseTransport
<1> QED
  BY <1>1, <1>2, <1>3, <1>4, <1>5, <1>6, <1>7, <1>8 DEF Next

LEMMA WireStep ==
    ASSUME Lone, Uncancelled, ExchangeInv, WireInv, [Next]_vars
    PROVE  WireInv'
<1>1. CancelledMay' /\ TailFresh' /\ TailRead'
  BY CancelledStep, FreshStep, ReadStep DEF ExchangeInv, WireInv
<1> QED
  BY <1>1 DEF WireInv

LEMMA TailIsRead == ExchangeInv /\ WireInv => NoUnreadTail
BY DEF ExchangeInv, WireInv, TailFresh, TailRead, Operations, OneExchange, Exchanging, Numbered,
       NoUnreadTail

LEMMA AtMostOne == ExchangeInv /\ WireInv => AloneOnTheWire
<1> SUFFICES ASSUME ExchangeInv, WireInv, sock # NoSocket PROVE Cardinality(tail[sock]) <= 1
  BY DEF AloneOnTheWire
<1>1. \A t, u \in tail[sock] : t = u
  BY DEF ExchangeInv, WireInv, TailFresh, TailRead, OneExchange, Exchanging, Numbered
<1>2. CASE tail[sock] = {}
  BY <1>2, FS_EmptySet
<1>3. ASSUME NEW t \in tail[sock] PROVE Cardinality(tail[sock]) <= 1
  <2>1. tail[sock] = {t}
    BY <1>1, <1>3
  <2>2. Cardinality(tail[sock]) = 1
    BY <2>1, FS_Singleton, Zenon
  <2> QED
    BY <2>2
<1> QED
  BY <1>2, <1>3

\* What is on the wire of the socket in service is of one task that still reads it: no
\* transaction reads the bytes of the one before, however many callers share a connection
\* and however often it is closed, failed and replaced.
THEOREM TheWireIsNeverShared ==
    ASSUME Lone, Uncancelled
    PROVE  Spec => [](NoUnreadTail /\ AloneOnTheWire)
<1>1. ExchangeInv /\ [Next]_vars => ExchangeInv'
  BY ExchangeInvStep
<1>2. ExchangeInv /\ WireInv /\ [Next]_vars => WireInv'
  BY WireStep
<1> QED
  BY ExchangeInvInit, WireInit, <1>1, <1>2, TailIsRead, AtMostOne, PTL DEF Spec

\* The same of the second half by itself: the socket in service never carries two requests.
THEOREM OneRequestAtATime ==
    ASSUME Lone, Uncancelled
    PROVE  Spec => []AloneOnTheWire
<1>1. NoUnreadTail /\ AloneOnTheWire => AloneOnTheWire
  OBVIOUS
<1> QED
  BY <1>1, TheWireIsNeverShared, PTL
=============================================================================
