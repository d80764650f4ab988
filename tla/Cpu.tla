-------------------------------- MODULE Cpu --------------------------------
(***************************************************************************)
(* The simulated CPU of src/aslmp/testing/dispatch.py: one memory, one     *)
(* operating state, one monitor registration and one password lock for     *)
(* everybody who is connected.  A request is served in one step, since     *)
(* `handle` never awaits.                                                  *)
(*                                                                         *)
(* Abstracted: codings and lengths, the limits on points, the devices a    *)
(* command does not take, scripted answers and the scan counter.           *)
(***************************************************************************)
EXTENDS Naturals, Sequences

CONSTANTS
    Device,     \* word devices the protocol can name
    Absent,     \* those this CPU does not have
    Value,      \* what a register holds
    Zero,       \* what it holds at first
    Served      \* the commands this CPU serves

RunState == {"RUN", "STOP", "PAUSE"}

\* 0401/0403/0406, 1401/1402/1406, SD203, 1001-1003, 0801, 0802, 1005, 1006,
\* 0619/0101, 1617, 1631, 1630.
Command == {"read", "write", "status", "remote", "register", "monitor", "latch",
            "reset", "test", "clear", "lock", "unlock"}

ASSUME CpuAssumption ==
    /\ Absent \subseteq Device
    /\ Zero \in Value
    /\ Served \subseteq Command

Points == Seq(Device)
Puts == Seq([device : Device, value : Value])
Data == Seq(Value \cup RunState)

Request ==
         [do : {"read", "register"}, of : Points]
    \cup [do : {"write"}, put : Puts]
    \cup [do : {"remote"}, to : RunState]
    \cup [do : {"lock", "unlock"}, right : BOOLEAN]
    \cup [do : {"status", "monitor", "latch", "reset", "test", "clear"}]

(***************************************************************************)
(* DeviceMemory and SessionState.  `monitor` is <<>> before a              *)
(* registration; nobody can register an empty list.  `lies` is the         *)
(* pathology of a CPU that answers remote commands and ignores them.       *)
(***************************************************************************)
CpuState ==
    [words : [Device \ Absent -> Value], sd203 : RunState,
     switch : {"RUN", "STOP"}, request : RunState,
     monitor : Points, locked : BOOLEAN, lies : BOOLEAN]

\* The key switch first, then the last remote request.
Effective(c) == IF c.switch = "STOP" THEN "STOP" ELSE c.request

Publish(c) == [c EXCEPT !.sd203 = Effective(c)]

NewCpu(lies) ==
    [words |-> [d \in Device \ Absent |-> Zero], sd203 |-> "RUN", switch |-> "RUN",
     request |-> "RUN", monitor |-> <<>>, locked |-> FALSE, lies |-> lies]

-----------------------------------------------------------------------------
(***************************************************************************)
(* What a handler comes to: the CPU after it, and the answer.              *)
(***************************************************************************)
Reply(c, data) == [cpu |-> c, end |-> "ok", data |-> data]
Refuse(c) == [cpu |-> c, end |-> "refused", data |-> <<>>]
Silence(c) == [cpu |-> c, end |-> "silent", data |-> <<>>]

HandleRead(c, points) ==
    IF \E i \in DOMAIN points : points[i] \in Absent
    THEN Refuse(c)
    ELSE Reply(c, [i \in DOMAIN points |-> c.words[points[i]]])

\* Points are written one after the other; the first this memory does not have ends it,
\* and what was written before stays.
Stored(put) == {i \in DOMAIN put : \A j \in 1..i : put[j].device \notin Absent}

\* The last of them at d.
LastAt(put, d) ==
    {i \in Stored(put) : /\ put[i].device = d
                         /\ \A j \in Stored(put) : put[j].device = d => j <= i}

Written(words, put) ==
    [d \in DOMAIN words |->
        IF LastAt(put, d) = {} THEN words[d]
        ELSE put[CHOOSE i \in LastAt(put, d) : TRUE].value]

HandleWrite(c, put) ==
    LET after == [c EXCEPT !.words = Written(@, put)]
    IN  IF Stored(put) = DOMAIN put THEN Reply(after, <<>>) ELSE Refuse(after)

HandleRegister(c, points) ==
    IF points = <<>> THEN Refuse(c) ELSE Reply([c EXCEPT !.monitor = points], <<>>)

\* The list the CPU holds, whoever registered it.
HandleMonitor(c) ==
    IF c.monitor = <<>> THEN Refuse(c) ELSE HandleRead(c, c.monitor)

HandleRemote(c, to) ==
    Reply(IF c.lies THEN c ELSE Publish([c EXCEPT !.request = to]), <<>>)

HandleLatchClear(c) == IF Effective(c) = "STOP" THEN Reply(c, <<>>) ELSE Refuse(c)

HandlePassword(c, lock, right) ==
    IF right THEN Reply([c EXCEPT !.locked = lock], <<>>) ELSE Refuse(c)

\* A locked CPU serves 1630 and nothing else.
Admitted(c, r) == r.do \in Served /\ (c.locked => r.do = "unlock")

\* HANDLERS.
Handler(c, r) ==
    CASE r.do = "read"     -> HandleRead(c, r.of)
      [] r.do = "write"    -> HandleWrite(c, r.put)
      [] r.do = "status"   -> Reply(c, <<c.sd203>>)
      [] r.do = "remote"   -> HandleRemote(c, r.to)
      [] r.do = "register" -> HandleRegister(c, r.of)
      [] r.do = "monitor"  -> HandleMonitor(c)
      [] r.do = "latch"    -> HandleLatchClear(c)
      [] r.do = "reset"    -> Silence(c)
      [] r.do \in {"test", "clear"} -> Reply(c, <<>>)
      [] r.do \in {"lock", "unlock"} -> HandlePassword(c, r.do = "lock", r.right)

\* Dispatcher.handle: SD203 is published whatever becomes of the request.
Handle(before, r) ==
    LET c == Publish(before)
    IN  IF Admitted(c, r) THEN Handler(c, r) ELSE Refuse(c)
=============================================================================
