----------------------------- MODULE SyncRuntime -----------------------------
(***************************************************************************)
(* The synchronous facade of src/aslmp/sync.py: threads that run           *)
(* coroutines of the client on one event loop, which has a thread of its   *)
(* own, and a thread that closes the facade.                               *)
(*                                                                         *)
(* The loop is modelled callback by callback, since what is lost at        *)
(* shutdown depends on it: an iteration runs the callbacks that were ready *)
(* when it began; what they schedule, and what other threads schedule      *)
(* meanwhile, is for the next one.                                         *)
(*                                                                         *)
(* Abstracted: what the coroutines do.  One suspends whenever it likes, but *)
(* not on a client that is closed, nor once it is cancelled.  One thread   *)
(* closes, and it waits for the loop as long as it takes.                  *)
(***************************************************************************)
EXTENDS Naturals, Sequences, FiniteSets
LOCAL INSTANCE SequencesExt     \* SetToSeq

CONSTANTS
    User,       \* threads that make calls
    Closer      \* the thread that closes

ASSUME SyncAssumption == IsFiniteSet(User) /\ Closer \notin User

Thread == User \cup {Closer}

VARIABLES
    closed,     \* _Runtime._closed
    client,     \* whether aclose() of the client ran
    pc,         \* where each thread is
    task,       \* the task of its coroutine, see Tasks
    answer,     \* whether the future its result() waits for is set
    loop,       \* what _serve is doing, see Phase
    ready,      \* the callbacks the loop has ready
    todo,       \* how many of them this iteration still runs
    stopping,   \* the loop ends after this iteration
    left        \* what the gather of _drain still waits for

threadVars == <<closed, pc>>
loopVars == <<loop, ready, todo, stopping, left>>
syncVars == <<threadVars, client, task, answer, loopVars>>

\* run_forever; the gather of _drain; shutdown_asyncgens; the loop is closed.
Phase == {"running", "gathering", "ending", "dead"}

\* "due" is scheduled, "cancelled" is scheduled and will be thrown the cancellation.
Tasks == {"none", "due", "waiting", "cancelled", "done"}
Live(t) == task[t] \in {"due", "waiting", "cancelled"}

\* The callbacks: create the task of t's coroutine, run it, set its result, count it
\* off the gather; stop the loop; close the generators; end run_until_complete.
Callback == [do : {"create", "step", "tell", "count"}, of : Thread]
            \cup {[do |-> d, of |-> Closer] : d \in {"stop", "generators", "finish"}}

Do(d, t) == [do |-> d, of |-> t]
Plain(d) == Do(d, Closer)

SyncInit ==
    /\ closed = FALSE /\ client = "open"
    /\ pc = [t \in Thread |-> "idle"]
    /\ task = [t \in Thread |-> "none"]
    /\ answer = [t \in Thread |-> FALSE]
    /\ loop = "running" /\ ready = <<>> /\ todo = 0
    /\ stopping = FALSE /\ left = {}

-----------------------------------------------------------------------------
(***************************************************************************)
(* The threads.                                                            *)
(***************************************************************************)
\* submit() looks at `_closed`; on a closed runtime it raises.  For the closer
\* this is close(), which submits aclose().
Submit(t) ==
    /\ pc[t] = "idle" /\ ~closed
    /\ pc' = [pc EXCEPT ![t] = "checked"]
    /\ UNCHANGED <<closed, client, task, answer, loopVars>>

\* run_coroutine_threadsafe(): it looks whether the loop is closed, raises if it is,
\* and schedules.  The loop may be closed in between.
Schedule(t) ==
    /\ pc[t] = "checked"
    /\ \/ /\ loop = "dead"
          /\ pc' = [pc EXCEPT ![t] = "idle"]
          /\ UNCHANGED ready
       \/ /\ pc' = [pc EXCEPT ![t] = "blocked"]
          /\ ready' = Append(ready, Do("create", t))
    /\ UNCHANGED <<closed, client, task, answer, loop, todo, stopping, left>>

\* result() returns, or raises what the coroutine raised.
Return(t) ==
    /\ pc[t] = "blocked" /\ answer[t]
    /\ pc' = [pc EXCEPT ![t] = IF t = Closer THEN "acloseDone" ELSE "idle"]
    /\ task' = [task EXCEPT ![t] = "none"]
    /\ answer' = [answer EXCEPT ![t] = FALSE]
    /\ UNCHANGED <<closed, client, loopVars>>

\* shutdown() of the runtime, from close() or from the module's shutdown().
Shutdown ==
    /\ pc[Closer] \in {"idle", "acloseDone"} /\ ~closed
    /\ closed' = TRUE
    /\ ready' = Append(ready, Plain("stop"))
    /\ pc' = [pc EXCEPT ![Closer] = "joining"]
    /\ UNCHANGED <<client, task, answer, loop, todo, stopping, left>>

\* Its join() returns.
Joined ==
    /\ pc[Closer] = "joining" /\ loop = "dead"
    /\ pc' = [pc EXCEPT ![Closer] = "joined"]
    /\ UNCHANGED <<closed, client, task, answer, loopVars>>

-----------------------------------------------------------------------------
(***************************************************************************)
(* The thread of the loop.                                                 *)
(***************************************************************************)
\* What a coroutine waits for happens, or its deadline passes: the loop finds it
\* when it looks at sockets and timers, before an iteration.
Wakeup(t) ==
    /\ loop # "dead" /\ todo = 0 /\ ~stopping
    /\ task[t] = "waiting"
    /\ task' = [task EXCEPT ![t] = "due"]
    /\ ready' = Append(ready, Do("step", t))
    /\ UNCHANGED <<threadVars, client, answer, loop, todo, stopping, left>>

Iterate ==
    /\ loop # "dead" /\ todo = 0 /\ ~stopping
    /\ ready # <<>>
    /\ todo' = Len(ready)
    /\ UNCHANGED <<threadVars, client, task, answer, loop, ready, stopping, left>>

\* The next callback of this iteration is d; it schedules more.
Runs(d, more) ==
    /\ todo > 0 /\ Head(ready).do = d
    /\ todo' = todo - 1
    /\ ready' = Tail(ready) \o more

Subject == Head(ready).of

\* The callback of run_coroutine_threadsafe makes the task.
Create ==
    /\ todo > 0
    /\ Runs("create", <<Do("step", Subject)>>)
    /\ task' = [task EXCEPT ![Subject] = "due"]
    /\ UNCHANGED <<threadVars, client, answer, loop, stopping, left>>

\* The coroutine runs to its next await ...
Suspend ==
    /\ Runs("step", <<>>)
    /\ task[Subject] = "due" /\ client = "open" /\ Subject # Closer
    /\ task' = [task EXCEPT ![Subject] = "waiting"]
    /\ UNCHANGED <<threadVars, client, answer, loop, stopping, left>>

\* ... or to its end, and what waits for the task is told.
Finish ==
    /\ todo > 0
    /\ Runs("step", <<Do("tell", Subject)>>
                    \o IF Subject \in left THEN <<Do("count", Subject)>> ELSE <<>>)
    /\ task' = [task EXCEPT ![Subject] = "done"]
    /\ client' = IF Subject = Closer /\ task[Closer] = "due" THEN "closed" ELSE client
    /\ UNCHANGED <<threadVars, answer, loop, stopping, left>>

Tell ==
    /\ Runs("tell", <<>>)
    /\ answer' = [answer EXCEPT ![Subject] = TRUE]
    /\ UNCHANGED <<threadVars, client, task, loop, stopping, left>>

Count ==
    /\ todo > 0
    /\ Runs("count", IF left = {Subject} THEN <<Plain("finish")>> ELSE <<>>)
    /\ left' = left \ {Subject}
    /\ UNCHANGED <<threadVars, client, task, answer, loop, stopping>>

Generators ==
    /\ Runs("generators", <<Plain("finish")>>)
    /\ UNCHANGED <<threadVars, client, task, answer, loop, stopping, left>>

Stop ==
    /\ Runs("stop", <<>>) \/ Runs("finish", <<>>)
    /\ stopping' = TRUE
    /\ UNCHANGED <<threadVars, client, task, answer, loop, left>>

-----------------------------------------------------------------------------
\* The last thing of _drain.
EndGenerators ==
    /\ loop' = "ending"
    /\ ready' = Append(ready, Plain("generators"))

\* Faults for Drain: the loop is closed without it; the tasks are awaited, but not
\* cancelled.
NoDrain ==
    /\ loop' = "dead"
    /\ ready' = <<>>
    /\ UNCHANGED <<task, left>>

DrainWithoutCancel ==
    LET pending == {t \in Thread : Live(t)} IN
    \/ /\ pending = {}
       /\ EndGenerators
       /\ UNCHANGED <<task, left>>
    \/ /\ pending # {}
       /\ loop' = "gathering" /\ left' = pending
       /\ UNCHANGED <<task, ready>>

\* _drain: cancel the tasks there are and wait for them.
Drain ==
    LET pending == {t \in Thread : Live(t)}
        parked == SetToSeq({t \in pending : task[t] = "waiting"})
    IN
    \/ /\ pending = {}
       /\ EndGenerators
       /\ UNCHANGED <<task, left>>
    \/ /\ pending # {}
       /\ loop' = "gathering" /\ left' = pending
       /\ task' = [t \in Thread |-> IF t \in pending THEN "cancelled" ELSE task[t]]
       /\ ready' = ready \o [i \in DOMAIN parked |-> Do("step", parked[i])]

\* An iteration after which the loop ends: _serve goes on.
Leave ==
    /\ loop # "dead" /\ todo = 0 /\ stopping
    /\ stopping' = FALSE
    /\ \/ loop = "running" /\ Drain
       \/ loop = "gathering" /\ EndGenerators /\ UNCHANGED <<task, left>>
       \/ loop = "ending" /\ loop' = "dead" /\ ready' = <<>> /\ UNCHANGED <<task, left>>
    /\ UNCHANGED <<threadVars, client, answer, todo>>

LoopStep ==
    \/ Iterate \/ Create \/ Suspend \/ Finish \/ Tell \/ Count \/ Generators \/ Stop \/ Leave

SyncNext ==
    \/ \E t \in Thread : Submit(t) \/ Schedule(t) \/ Return(t)
    \/ \E u \in User : Wakeup(u)
    \/ Shutdown \/ Joined \/ LoopStep

\* Threads that are not blocked run on.  Nothing is assumed of the network: whatever
\* a coroutine waits for may never happen, and no thread has to call or close.
SyncFairness ==
    /\ WF_syncVars(LoopStep) /\ WF_syncVars(Joined)
    /\ \A t \in Thread : WF_syncVars(Schedule(t)) /\ WF_syncVars(Return(t))

SyncSpec == SyncInit /\ [][SyncNext]_syncVars /\ SyncFairness

-----------------------------------------------------------------------------
\* A call that reached the loop before the stop did: its task exists, or its
\* callback is ahead of the one that stops.
Early(t) ==
    /\ pc[t] = "blocked" /\ closed /\ loop = "running"
    /\ \/ task[t] # "none"
       \/ \E i, j \in DOMAIN ready :
            i < j /\ ready[i] = Do("create", t) /\ ready[j] = Plain("stop")

\* A caller that was in time gets its result, or the cancellation, whatever its
\* coroutine was waiting for when the loop was stopped.
EarlyCallReturns == \A t \in User : Early(t) ~> pc[t] # "blocked"

\* The loop ends once it was told to: the thread "does not outlive the process's own
\* idea of shutdown" (`shutdown`), whatever the network does.
ShutdownEnds == closed ~> pc[Closer] = "joined"

\* "Cancel what is left and let it finish, rather than closing over live tasks"
\* (`_drain`).  It does not hold: a call that looked at `_closed` in time and reached
\* the loop during its last iteration is made a task by the drain itself.
NoLiveTaskLeft == loop = "dead" => \A t \in Thread : ~Live(t)
=============================================================================
