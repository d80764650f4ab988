------------------------------ MODULE Session ------------------------------
(***************************************************************************)
(* Clients that call one CPU over TCP: the calls of src/aslmp/client.py,   *)
(* each one or more requests, and what the caller is told when a request   *)
(* or its answer is lost, late or refused.                                 *)
(*                                                                         *)
(* A connection is up, down (FAILED) or closed; how it comes to be so is   *)
(* the subject of Connection.  A client here is one task at a time.        *)
(*                                                                         *)
(* Abstracted: validation before anything is sent, typed values, records   *)
(* and observers.  A request is written whole.  Requests are not repeated  *)
(* by the network, but one that its sender has given up may be served much *)
(* later.                                                                  *)
(***************************************************************************)
EXTENDS Cpu

CONSTANTS
    Client,
    Calls,      \* the calls that may be made
    Ceiling,    \* how many points one 0403 takes
    Twin,       \* registers that every call writes together, with one value
    MaxCalls,   \* bound: the calls of a behaviour
    MaxPolls    \* bound: the polls of SD203 before the settle deadline

CallId == 1..MaxCalls

Call ==
         [op : {"write"}, put : Puts, verify : BOOLEAN]
    \cup [op : {"read"}, of : Points, split : BOOLEAN]
    \cup [op : {"remote"}, to : RunState, verify : BOOLEAN]
    \cup [op : {"register"}, of : Points]
    \cup [op : {"lock", "unlock"}, right : BOOLEAN]
    \cup [op : {"monitor", "latch", "reset", "test", "clear"}]

\* The values a call leaves in register d, if it writes it.
ValuesAt(call, d) ==
    {call.put[i].value : i \in {j \in DOMAIN call.put : call.put[j].device = d}}

ASSUME SessionAssumption ==
    /\ Calls \subseteq Call
    /\ Ceiling \in Nat \ {0} /\ MaxCalls \in Nat \ {0} /\ MaxPolls \in Nat \ {0}
    /\ Twin \subseteq Device \ Absent
    /\ \A call \in Calls : call.op = "read" /\ ~call.split => Len(call.of) <= Ceiling

ASSUME TwinAssumption ==
    \A call \in Calls : call.op = "write" =>
        \/ \A i \in DOMAIN call.put : call.put[i].device \notin Twin
        \/ /\ \A i \in DOMAIN call.put : call.put[i].device \notin Absent
           /\ \E v \in Value : \A d \in Twin : ValuesAt(call, d) = {v}

VARIABLES
    cpu,
    wire,       \* requests on their way
    conn,       \* the state of each client's connection
    pc,         \* "asking" is about to send, "waiting" has sent
    now,        \* the call each client is in
    reply,      \* the answer that has arrived for it
    reg,        \* the MonitorRegistration a client holds, <<>> for none
    made,       \* how many calls were made
    log,        \* the calls
    performed,  \* how often the command of each was carried out
    reached     \* whether the CPU has since been as the call wants it

cpuVars == <<cpu, wire, performed, reached>>
callVars == <<conn, pc, now, reply, reg, made, log>>
sessionVars == <<cpuVars, callVars>>

\* What a caller is told.  "notSent" is SlmpNotSentError or SlmpNotConnectedError,
\* "failed" any other SlmpTransportError, "unknown" SlmpOutcomeUnknownError, "mismatch"
\* an answer that does not say what it should, "reset" a ResetOutcome.
Told == {"ok", "refused", "mismatch", "failed", "unknown", "notSent", "cancelled", "reset"}

Entry == [by : Client, call : Calls, step : Nat \ {0}, told : Told \cup {"nothing"}, got : Data]
NotMade == [told |-> "unmade"]
NoReply == [end |-> "none"]

Packet == [id : CallId, step : Nat \ {0}, by : Client, req : Request]

SessionInit ==
    /\ \E lies \in BOOLEAN : cpu = NewCpu(lies)
    /\ wire = {}
    /\ conn = [c \in Client |-> "up"]
    /\ pc = [c \in Client |-> "idle"]
    /\ now = [c \in Client |-> 0]
    /\ reply = [c \in Client |-> NoReply]
    /\ reg = [c \in Client |-> <<>>]
    /\ made = 0
    /\ log = [i \in CallId |-> NotMade]
    /\ performed = [i \in CallId |-> 0]
    /\ reached = [i \in CallId |-> FALSE]

-----------------------------------------------------------------------------
(***************************************************************************)
(* The requests of a call.                                                 *)
(***************************************************************************)
Entered(c) == log[now[c]]

\* What Command.mutates says of the command; the requests that follow it only read.
Mutates(e) ==
    /\ e.step = 1
    /\ e.call.op \notin {"read", "monitor", "test"}

\* A fault for Chunk: an access point per request.
SinglePoint(e) == SubSeq(e.call.of, e.step, e.step)

\* The points this step of a read asks for: all, or a ceiling full of them.
Chunk(e) ==
    LET first == (e.step - 1) * Ceiling + 1
        last == e.step * Ceiling
    IN  SubSeq(e.call.of, first, IF last < Len(e.call.of) THEN last ELSE Len(e.call.of))

RequestOf(e) ==
    CASE e.call.op = "read" -> [do |-> "read", of |-> Chunk(e)]
      [] e.call.op = "write" /\ e.step = 1 -> [do |-> "write", put |-> e.call.put]
      [] e.call.op = "write" /\ e.step > 1 ->
            [do |-> "read", of |-> [i \in DOMAIN e.call.put |-> e.call.put[i].device]]
      [] e.call.op = "remote" /\ e.step = 1 -> [do |-> "remote", to |-> e.call.to]
      [] e.call.op = "remote" /\ e.step > 1 -> [do |-> "status"]
      [] e.call.op = "register" -> [do |-> "register", of |-> e.call.of]
      [] e.call.op \in {"lock", "unlock"} -> [do |-> e.call.op, right |-> e.call.right]
      [] e.call.op \in {"monitor", "latch", "reset", "test", "clear"} -> [do |-> e.call.op]

\* The call returns, or raises.
Tell(c, told) ==
    /\ pc' = [pc EXCEPT ![c] = "idle"]
    /\ reply' = [reply EXCEPT ![c] = NoReply]
    /\ log' = [log EXCEPT ![now[c]].told = told]
    /\ UNCHANGED <<now, made>>

\* It goes on with its next request.
Continue(c) ==
    /\ pc' = [pc EXCEPT ![c] = "asking"]
    /\ reply' = [reply EXCEPT ![c] = NoReply]
    /\ log' = [log EXCEPT ![now[c]].step = @ + 1]
    /\ UNCHANGED <<now, made>>

Begin(c, call) ==
    /\ pc[c] = "idle" /\ made < MaxCalls
    /\ call.op = "monitor" => reg[c] # <<>>
    /\ made' = made + 1
    /\ now' = [now EXCEPT ![c] = made + 1]
    /\ pc' = [pc EXCEPT ![c] = "asking"]
    /\ log' = [log EXCEPT ![made + 1] =
                 [by |-> c, call |-> call, step |-> 1, told |-> "nothing", got |-> <<>>]]
    /\ UNCHANGED <<cpuVars, conn, reply, reg>>

-----------------------------------------------------------------------------
(***************************************************************************)
(* A request goes out, or does not.                                        *)
(***************************************************************************)
Post(c) ==
    LET e == Entered(c)
    IN  wire' = wire \cup {[id |-> now[c], step |-> e.step, by |-> c, req |-> RequestOf(e)]}

Send(c) ==
    /\ pc[c] = "asking" /\ conn[c] = "up" /\ Entered(c).call.op # "reset"
    /\ Post(c)
    /\ pc' = [pc EXCEPT ![c] = "waiting"]
    /\ UNCHANGED <<cpu, performed, reached, conn, now, reply, reg, made, log>>

\* Remote Reset: nothing is awaited, and the client closes itself.
SendReset(c) ==
    /\ pc[c] = "asking" /\ conn[c] = "up" /\ Entered(c).call.op = "reset"
    /\ Post(c)
    /\ conn' = [conn EXCEPT ![c] = "closed"]
    /\ Tell(c, "reset")
    /\ UNCHANGED <<cpu, performed, reached, reg>>

\* require_usable() refuses, or the socket takes not one byte.  reset() takes both for
\* the silence it expects.
NotSent(c) ==
    /\ pc[c] = "asking"
    /\ IF Entered(c).call.op = "reset"
       THEN Tell(c, "reset") /\ conn' = [conn EXCEPT ![c] = "closed"]
       ELSE Tell(c, "notSent") /\ conn' = [conn EXCEPT ![c] = IF @ = "up" THEN "down" ELSE @]
    /\ UNCHANGED <<cpuVars, reg>>

\* A fault for Doubt: `mutates` is not looked at.
NoDoubt(e) == "failed"

\* Txn._fail: what a failure after the request went out is called.
Doubt(e) == IF Mutates(e) THEN "unknown" ELSE "failed"

\* The deadline, a lost peer, a close by somebody else.
Fail(c) ==
    /\ pc[c] = "waiting"
    /\ conn' = [conn EXCEPT ![c] = "down"]
    /\ Tell(c, Doubt(Entered(c)))
    /\ UNCHANGED <<cpuVars, reg>>

\* The task is cancelled, waiting for an answer or between two requests.
Cancel(c) ==
    /\ pc[c] # "idle"
    /\ conn' = [conn EXCEPT ![c] = IF pc[c] = "waiting" THEN "down" ELSE @]
    /\ Tell(c, "cancelled")
    /\ UNCHANGED <<cpuVars, reg>>

Reconnect(c) ==
    /\ pc[c] = "idle" /\ conn[c] = "down"
    /\ conn' = [conn EXCEPT ![c] = "up"]
    /\ UNCHANGED <<cpuVars, pc, now, reply, reg, made, log>>

-----------------------------------------------------------------------------
(***************************************************************************)
(* The answer.                                                             *)
(***************************************************************************)
Answered(c, ops) ==
    /\ pc[c] = "waiting" /\ reply[c].end = "ok"
    /\ Entered(c).call.op \in ops

\* An end code is raised, always.
Refused(c) ==
    /\ pc[c] = "waiting" /\ reply[c].end = "refused"
    /\ Tell(c, "refused")
    /\ UNCHANGED <<cpuVars, conn, reg>>

\* A write, and the read-back of a verified one.
AfterWrite(c) ==
    LET e == Entered(c)
        asIs == [i \in DOMAIN e.call.put |-> e.call.put[i].value] = reply[c].data
    IN  /\ Answered(c, {"write"})
        /\ \/ e.step = 1 /\ ~e.call.verify /\ Tell(c, "ok")
           \/ e.step = 1 /\ e.call.verify /\ Continue(c)
           \/ e.step > 1 /\ asIs /\ Tell(c, "ok")
           \/ e.step > 1 /\ ~asIs /\ Tell(c, "mismatch")
        /\ UNCHANGED <<cpuVars, conn, reg>>

\* A 0403, or one of those of a split read: the call keeps what it got.
AfterRead(c) ==
    LET e == Entered(c)
        got == e.got \o reply[c].data
        complete == Len(got) = Len(e.call.of)
    IN  /\ Answered(c, {"read"})
        /\ pc' = [pc EXCEPT ![c] = IF complete THEN "idle" ELSE "asking"]
        /\ reply' = [reply EXCEPT ![c] = NoReply]
        /\ log' = [log EXCEPT ![now[c]] =
                     [e EXCEPT !.got = got,
                               !.told = IF complete THEN "ok" ELSE @,
                               !.step = IF complete THEN @ ELSE @ + 1]]
        /\ UNCHANGED <<cpuVars, conn, now, reg, made>>

\* A fault for Settled: the end code is believed.
EndCodeIsEnough(c) == TRUE

\* SD203 agrees.
Settled(c) == reply[c].data = <<Entered(c).call.to>>

\* RemoteControl._apply: the command once, then SD203 until it agrees or the settle
\* deadline has passed, which may be at any poll.
AfterRemote(c) ==
    LET e == Entered(c)
    IN  /\ Answered(c, {"remote"})
        /\ \/ e.step = 1 /\ ~e.call.verify /\ Tell(c, "ok")
           \/ e.step = 1 /\ e.call.verify /\ Continue(c)
           \/ e.step > 1 /\ Settled(c) /\ Tell(c, "ok")
           \/ e.step \in 2..MaxPolls /\ ~Settled(c) /\ Continue(c)
           \/ e.step > 1 /\ ~Settled(c) /\ Tell(c, "mismatch")
        /\ UNCHANGED <<cpuVars, conn, reg>>

\* The registration is what the client asked for; it takes the place of the one before.
AfterRegister(c) ==
    /\ Answered(c, {"register"})
    /\ reg' = [reg EXCEPT ![c] = Entered(c).call.of]
    /\ Tell(c, "ok")
    /\ UNCHANGED <<cpuVars, conn>>

\* The answer of 0802 has no framing of its own: it is decoded by the registration.
AfterMonitor(c) ==
    LET e == Entered(c)
        fits == Len(reply[c].data) = Len(reg[c])
    IN  /\ Answered(c, {"monitor"})
        /\ pc' = [pc EXCEPT ![c] = "idle"]
        /\ reply' = [reply EXCEPT ![c] = NoReply]
        /\ log' = [log EXCEPT ![now[c]] =
                     [e EXCEPT !.got = IF fits THEN reply[c].data ELSE @,
                               !.told = IF fits THEN "ok" ELSE "mismatch"]]
        /\ UNCHANGED <<cpuVars, conn, now, reg, made>>

AfterPlain(c) ==
    /\ Answered(c, {"latch", "test", "clear", "lock", "unlock"})
    /\ Tell(c, "ok")
    /\ UNCHANGED <<cpuVars, conn, reg>>

-----------------------------------------------------------------------------
(***************************************************************************)
(* The CPU.                                                                *)
(***************************************************************************)

\* The socket a request came by is closed when its sender has stopped waiting for it.
Awaited(p) == pc[p.by] = "waiting" /\ now[p.by] = p.id /\ Entered(p.by).step = p.step

\* Whether the CPU is as the call wants it.
AsWanted(call, c) ==
    \/ /\ call.op = "write"
       /\ \A i \in DOMAIN call.put :
             /\ call.put[i].device \in DOMAIN c.words
             /\ c.words[call.put[i].device] = call.put[i].value
    \/ call.op = "remote" /\ c.sd203 = call.to

Serve(p) ==
    LET done == Handle(cpu, p.req)
    IN  /\ cpu' = done.cpu
        /\ wire' = wire \ {p}
        /\ reply' = IF Awaited(p) /\ done.end # "silent"
                    THEN [reply EXCEPT ![p.by] = [end |-> done.end, data |-> done.data]]
                    ELSE reply
        /\ performed' = IF p.step = 1 /\ done.end # "refused"
                        THEN [performed EXCEPT ![p.id] = @ + 1] ELSE performed
        /\ reached' = [i \in CallId |->
                         \/ reached[i]
                         \/ performed'[i] > 0 /\ AsWanted(log[i].call, cpu')]
        /\ UNCHANGED <<conn, pc, now, reg, made, log>>

\* Somebody turns the key switch.
TurnSwitch ==
    /\ cpu' = [cpu EXCEPT !.switch = IF @ = "RUN" THEN "STOP" ELSE "RUN"]
    /\ UNCHANGED <<wire, performed, reached, callVars>>

-----------------------------------------------------------------------------
Advance(c) ==
    \/ Send(c) \/ SendReset(c) \/ NotSent(c) \/ Fail(c)
    \/ Refused(c) \/ AfterWrite(c) \/ AfterRead(c) \/ AfterRemote(c)
    \/ AfterRegister(c) \/ AfterMonitor(c) \/ AfterPlain(c)

SessionNext ==
    \/ \E c \in Client : Advance(c) \/ Cancel(c) \/ Reconnect(c)
    \/ \E c \in Client, call \in Calls : Begin(c, call)
    \/ \E p \in wire : Serve(p)
    \/ TurnSwitch

SessionSpec == SessionInit /\ [][SessionNext]_sessionVars

-----------------------------------------------------------------------------
Writes(e) == e.call.op \notin {"read", "monitor", "test"}
CommandOnTheWay(i) == \E p \in wire : p.id = i /\ p.step = 1

(***************************************************************************)
(* A call that is under way belongs to its client; a client that waits has *)
(* either its own request on the way or its own answer, never that of a    *)
(* request it gave up.                                                     *)
(***************************************************************************)
SessionTypeOK ==
    /\ cpu \in CpuState
    /\ wire \subseteq Packet
    /\ conn \in [Client -> {"up", "down", "closed"}]
    /\ pc \in [Client -> {"idle", "asking", "waiting"}]
    /\ now \in [Client -> 0..MaxCalls]
    /\ reply \in [Client -> [end : {"ok", "refused"}, data : Data] \cup {NoReply}]
    /\ reg \in [Client -> Points]
    /\ made \in 0..MaxCalls
    /\ log \in [CallId -> Entry \cup {NotMade}]
    /\ performed \in [CallId -> Nat]
    /\ reached \in [CallId -> BOOLEAN]
    /\ \A i \in CallId : log[i] = NotMade <=> i > made
    /\ \A c \in Client :
         /\ pc[c] # "idle" =>
               now[c] \in 1..made /\ Entered(c).by = c /\ Entered(c).told = "nothing"
         /\ pc[c] # "waiting" => reply[c] = NoReply
         /\ pc[c] = "waiting" =>
               (reply[c] = NoReply <=> \E p \in wire : p.by = c /\ Awaited(p))

(***************************************************************************)
(* The command of a call is carried out at most once, and a caller is told *)
(* so when that is not known: one that returned was carried out, and one   *)
(* that failed before its first request was answered, with anything but    *)
(* "unknown", was not and never will be (Txn._fail, "driven by             *)
(* Command.mutates").  Nor was one that was refused, though a write that   *)
(* is refused may leave its first points behind.                           *)
(***************************************************************************)
DoubtIsTold ==
    \A i \in 1..made :
        /\ performed[i] <= 1
        /\ Writes(log[i]) /\ log[i].told = "ok" => performed[i] = 1
        /\ Writes(log[i]) /\ log[i].step = 1 /\ log[i].told \in {"refused", "failed", "notSent"}
              => performed[i] = 0 /\ ~CommandOnTheWay(i)

(***************************************************************************)
(* A write or a remote command that was verified, and returned, was        *)
(* reached: since the command was carried out there was a moment when the  *)
(* registers held what was written, or the CPU was in the state asked for, *)
(* whatever the key switch and the other clients did.  An end code alone   *)
(* says no such thing (RemoteControl._apply, Plc._check).                  *)
(***************************************************************************)
VerifiedWasReached ==
    \A i \in 1..made :
        /\ log[i].told = "ok" /\ log[i].call.op \in {"write", "remote"}
        /\ log[i].call.verify
        => reached[i]

(***************************************************************************)
(* Registers that are only ever written together are read alike by one     *)
(* 0403, which is a snapshot, whoever writes meanwhile (Plc.read_random).  *)
(* A split read promises nothing.                                          *)
(***************************************************************************)
TwinsReadAlike ==
    \A i \in 1..made :
        log[i].told = "ok" /\ log[i].call.op = "read" /\ Len(log[i].call.of) <= Ceiling =>
            \A j, k \in DOMAIN log[i].call.of :
                log[i].call.of[j] \in Twin /\ log[i].call.of[k] \in Twin =>
                    log[i].got[j] = log[i].got[k]

(***************************************************************************)
(* What SlmpNotSentError says of a call: "Nothing was sent, so nothing     *)
(* happened on the PLC."                                                   *)
(***************************************************************************)
NotSentMeansNotDone ==
    \A i \in 1..made : Writes(log[i]) /\ log[i].told = "notSent" => performed[i] = 0
=============================================================================
