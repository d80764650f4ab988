---------------------------- MODULE SessionProofs ----------------------------
(***************************************************************************)
(* Proofs about Session, for any number of clients, calls, registers and   *)
(* values, and for a CPU that serves any of its commands.                  *)
(***************************************************************************)
EXTENDS Session, SequenceTheorems, WellFoundedInduction, TLAPS

-----------------------------------------------------------------------------
(***************************************************************************)
(* The CPU.                                                                *)
(***************************************************************************)
Outcome == [cpu : CpuState, end : {"ok", "refused", "silent"}, data : Data]

LEMMA EmptyIsASeq == \A S : <<>> \in Seq(S)
BY EmptySeq

LEMMA SeqOver ==
    ASSUME NEW S, NEW n \in Nat, NEW f, f \in [1..n -> S]
    PROVE  f \in Seq(S)
BY SeqDef

LEMMA ReplyTyped ==
    ASSUME NEW c \in CpuState, NEW d \in Data
    PROVE  Reply(c, d) \in Outcome /\ Refuse(c) \in Outcome /\ Silence(c) \in Outcome
<1>1. <<>> \in Data
  BY EmptyIsASeq DEF Data
<1> QED
  BY <1>1 DEF Reply, Refuse, Silence, Outcome

LEMMA EffectiveTyped ==
    ASSUME NEW c \in CpuState
    PROVE  Effective(c) \in RunState /\ Publish(c) \in CpuState
<1>1. Effective(c) \in RunState
  BY DEF Effective, CpuState, RunState
<1> QED
  BY <1>1 DEF Publish, CpuState

LEMMA ReadTyped ==
    ASSUME NEW c \in CpuState, NEW points \in Points
    PROVE  HandleRead(c, points) \in Outcome /\ HandleRead(c, points).end # "silent"
<1>1. CASE \E i \in DOMAIN points : points[i] \in Absent
  <2>1. <<>> \in Data
    BY EmptyIsASeq DEF Data
  <2> QED
    BY <1>1, <2>1, ReplyTyped DEF HandleRead, Refuse
<1>2. CASE ~ \E i \in DOMAIN points : points[i] \in Absent
  <2> DEFINE got == [i \in DOMAIN points |-> c.words[points[i]]]
  <2>1. Len(points) \in Nat /\ DOMAIN points = 1 .. Len(points)
    BY LenProperties DEF Points
  <2>2. \A i \in DOMAIN points : points[i] \in Device \ Absent
    BY <1>2, <2>1, ElementOfSeq DEF Points
  <2>3. \A i \in DOMAIN points : c.words[points[i]] \in Value
    BY <2>2 DEF CpuState
  <2>4. got \in [1 .. Len(points) -> Value \cup RunState]
    BY <2>1, <2>3
  <2> HIDE DEF got
  <2>5. got \in Data
    BY <2>1, <2>4, SeqOver DEF Data
  <2>6. HandleRead(c, points) = Reply(c, got)
    BY <1>2 DEF HandleRead, got
  <2> QED
    BY <2>5, <2>6, ReplyTyped DEF Reply
<1> QED
  BY <1>1, <1>2

LEMMA WriteTyped ==
    ASSUME NEW c \in CpuState, NEW put \in Puts
    PROVE  HandleWrite(c, put) \in Outcome /\ HandleWrite(c, put).end # "silent"
<1>1. Len(put) \in Nat /\ DOMAIN put = 1 .. Len(put)
      /\ \A i \in DOMAIN put : put[i] \in [device : Device, value : Value]
  BY LenProperties, ElementOfSeq DEF Puts
<1>2. c.words \in [Device \ Absent -> Value]
  BY DEF CpuState
<1>3. ASSUME NEW d \in Device \ Absent
      PROVE  IF LastAt(put, d) = {} THEN c.words[d] \in Value
             ELSE put[CHOOSE i \in LastAt(put, d) : TRUE].value \in Value
  <2>1. LastAt(put, d) \subseteq DOMAIN put
    BY DEF LastAt, Stored
  <2>2. CASE LastAt(put, d) # {}
    <3>1. (CHOOSE i \in LastAt(put, d) : TRUE) \in DOMAIN put
      BY <2>1, <2>2
    <3> QED
      BY <1>1, <2>2, <3>1
  <2> QED
    BY <1>2, <2>2
<1>4. Written(c.words, put) \in [Device \ Absent -> Value]
  BY <1>2, <1>3 DEF Written
<1>5. [c EXCEPT !.words = Written(@, put)] \in CpuState
  BY <1>4 DEF CpuState
<1>6. <<>> \in Data
  BY EmptyIsASeq DEF Data
<1> QED
  BY <1>5, <1>6, ReplyTyped DEF HandleWrite, Reply, Refuse

\* Serving a request leaves a CPU and gives an answer, or, to Remote Reset, none.
LEMMA HandleTyped ==
    ASSUME NEW c \in CpuState, NEW r \in Request
    PROVE  /\ Handle(c, r) \in Outcome
           /\ r.do # "reset" => Handle(c, r).end # "silent"
<1> DEFINE p == Publish(c)
<1>1. p \in CpuState /\ Effective(p) \in RunState /\ p.sd203 \in RunState
  BY EffectiveTyped DEF CpuState
<1>2. <<>> \in Data
  BY EmptyIsASeq DEF Data
<1>3. <<p.sd203>> \in Data
  BY <1>1 DEF Data
<1> HIDE DEF p
<1>4. Refuse(p) \in Outcome /\ Reply(p, <<>>) \in Outcome /\ Reply(p, <<p.sd203>>) \in Outcome
      /\ Silence(p) \in Outcome
  BY <1>1, <1>2, <1>3, ReplyTyped
<1>5. r.do \in {"read", "register"} => r.of \in Points
  BY DEF Request
<1>6. r.do = "write" => r.put \in Puts
  BY DEF Request
<1>7. r.do = "remote" => r.to \in RunState
  BY DEF Request
<1>8. r.do \in {"lock", "unlock"} => r.right \in BOOLEAN
  BY DEF Request
<1>9. r.do \in Command
  BY DEF Request, Command
<1>10. CASE ~Admitted(p, r)
  <2>1. Handle(c, r) = Refuse(p)
    BY <1>10 DEF Handle, Handler, p
  <2> QED
    BY <1>4, <2>1 DEF Refuse
<1>11. CASE Admitted(p, r) /\ r.do = "read"
  <2>1. Handle(c, r) = HandleRead(p, r.of)
    BY <1>11 DEF Handle, Handler, p
  <2> QED
    BY <1>1, <1>5, <1>11, <2>1, ReadTyped
<1>12. CASE Admitted(p, r) /\ r.do = "write"
  <2>1. Handle(c, r) = HandleWrite(p, r.put)
    BY <1>12 DEF Handle, Handler, p
  <2> QED
    BY <1>1, <1>6, <1>12, <2>1, WriteTyped
<1>13. CASE Admitted(p, r) /\ r.do = "status"
  BY <1>4, <1>13 DEF Handle, Handler, p, Reply
<1>14. CASE Admitted(p, r) /\ r.do = "remote"
  <2>1. [p EXCEPT !.request = r.to] \in CpuState
    BY <1>1, <1>7, <1>14 DEF CpuState
  <2>2. Publish([p EXCEPT !.request = r.to]) \in CpuState
    BY <2>1, EffectiveTyped
  <2>3. HandleRemote(p, r.to) \in Outcome
    BY <1>1, <1>2, <2>2, ReplyTyped DEF HandleRemote
  <2>4. Handle(c, r) = HandleRemote(p, r.to)
    BY <1>14 DEF Handle, Handler, p
  <2> QED
    BY <2>3, <2>4 DEF HandleRemote, Reply
<1>15. CASE Admitted(p, r) /\ r.do = "register"
  <2>1. [p EXCEPT !.monitor = r.of] \in CpuState
    BY <1>1, <1>5, <1>15 DEF CpuState
  <2>2. HandleRegister(p, r.of) \in Outcome
    BY <1>1, <1>2, <2>1, ReplyTyped DEF HandleRegister
  <2>3. Handle(c, r) = HandleRegister(p, r.of)
    BY <1>15 DEF Handle, Handler, p
  <2> QED
    BY <2>2, <2>3 DEF HandleRegister, Reply, Refuse
<1>16. CASE Admitted(p, r) /\ r.do = "monitor"
  <2>1. p.monitor \in Points
    BY <1>1 DEF CpuState
  <2>2. HandleMonitor(p) \in Outcome /\ HandleMonitor(p).end # "silent"
    BY <1>1, <1>4, <2>1, ReadTyped DEF HandleMonitor, Refuse
  <2>3. Handle(c, r) = HandleMonitor(p)
    BY <1>16 DEF Handle, Handler, p
  <2> QED
    BY <2>2, <2>3 
<1>17. CASE Admitted(p, r) /\ r.do = "latch"
  <2>1. Handle(c, r) = HandleLatchClear(p)
    BY <1>17 DEF Handle, Handler, p
  <2> QED
    BY <1>4, <2>1 DEF HandleLatchClear, Reply, Refuse
<1>18. CASE Admitted(p, r) /\ r.do = "reset"
  BY <1>4, <1>18 DEF Handle, Handler, p
<1>19. CASE Admitted(p, r) /\ r.do \in {"test", "clear"}
  <2>1. Handle(c, r) = Reply(p, <<>>)
    BY <1>19 DEF Handle, Handler, p
  <2> QED
    BY <1>4, <2>1 DEF Reply
<1>20. CASE Admitted(p, r) /\ r.do \in {"lock", "unlock"}
  <2>1. Handle(c, r) = HandlePassword(p, r.do = "lock", r.right)
    BY <1>20 DEF Handle, Handler, p
  <2>2. [p EXCEPT !.locked = (r.do = "lock")] \in CpuState
    BY <1>1 DEF CpuState
  <2>3. Reply([p EXCEPT !.locked = (r.do = "lock")], <<>>) \in Outcome
    BY <1>2, <2>2, ReplyTyped
  <2> QED
    BY <1>4, <2>1, <2>3 DEF HandlePassword, Reply, Refuse
<1> QED
  BY <1>9, <1>10, <1>11, <1>12, <1>13, <1>14, <1>15, <1>16, <1>17, <1>18, <1>19, <1>20
     DEF Command

-----------------------------------------------------------------------------
(***************************************************************************)
(* The requests of a call.                                                 *)
(***************************************************************************)
LEMMA CallTyped ==
    ASSUME NEW call \in Calls
    PROVE  /\ call.op \in {"write", "read", "remote", "register", "lock", "unlock",
                           "monitor", "latch", "reset", "test", "clear"}
           /\ call.op = "write" => call.put \in Puts /\ call.verify \in BOOLEAN
           /\ call.op \in {"read", "register"} => call.of \in Points
           /\ call.op = "remote" => call.to \in RunState /\ call.verify \in BOOLEAN
           /\ call.op \in {"lock", "unlock"} => call.right \in BOOLEAN
BY SessionAssumption DEF Call

LEMMA ChunkTyped ==
    ASSUME NEW e \in Entry, e.call.op = "read"
    PROVE  Chunk(e) \in Points
<1> DEFINE first == (e.step - 1) * Ceiling + 1
           last == e.step * Ceiling
           end == IF last < Len(e.call.of) THEN last ELSE Len(e.call.of)
<1>1. e.call.of \in Seq(Device)
  BY CallTyped DEF Entry, Points
<1>2. Len(e.call.of) \in Nat /\ \A i \in 1 .. Len(e.call.of) : e.call.of[i] \in Device
  BY <1>1, LenProperties, ElementOfSeq
<1>3. e.step \in Nat \ {0} /\ Ceiling \in Nat \ {0}
  BY SessionAssumption DEF Entry
<1>4. (e.step - 1) * Ceiling \in Nat /\ e.step * Ceiling \in Nat
  BY <1>3
<1>5. first \in Nat /\ first >= 1 /\ end \in Nat /\ end <= Len(e.call.of)
  BY <1>2, <1>4
<1>6. Chunk(e) = SubSeq(e.call.of, first, end)
  BY DEF Chunk
<1> HIDE DEF first, last, end
<1>7. first \in Int /\ end \in Int /\ \A i \in first .. end : e.call.of[i] \in Device
  BY <1>2, <1>5
<1> QED
  BY <1>6, <1>7, SubSeqProperties DEF Points

LEMMA RequestTyped ==
    ASSUME NEW e \in Entry
    PROVE  /\ RequestOf(e) \in Request
           /\ RequestOf(e).do = "reset" => e.call.op = "reset"
<1>1. e.call \in Calls /\ e.step \in Nat \ {0}
  BY DEF Entry
<1> DEFINE op == e.call.op
<1>2. CASE op = "read"
  <2>1. RequestOf(e) = [do |-> "read", of |-> Chunk(e)]
    BY <1>2 DEF RequestOf
  <2> QED
    BY <1>2, <2>1, ChunkTyped DEF Request
<1>3. CASE op = "write" /\ e.step = 1
  <2>1. RequestOf(e) = [do |-> "write", put |-> e.call.put]
    BY <1>3 DEF RequestOf
  <2> QED
    BY <1>1, <1>3, <2>1, CallTyped DEF Request
<1>4. CASE op = "write" /\ e.step > 1
  <2> DEFINE of == [i \in DOMAIN e.call.put |-> e.call.put[i].device]
  <2>1. RequestOf(e) = [do |-> "read", of |-> of]
    BY <1>1, <1>4 DEF RequestOf
  <2>2. e.call.put \in Seq([device : Device, value : Value])
    BY <1>1, <1>4, CallTyped DEF Puts
  <2>3. /\ Len(e.call.put) \in Nat /\ DOMAIN e.call.put = 1 .. Len(e.call.put)
        /\ \A i \in 1 .. Len(e.call.put) : e.call.put[i].device \in Device
    <3>1. \A i \in 1 .. Len(e.call.put) : e.call.put[i] \in [device : Device, value : Value]
      BY <2>2, ElementOfSeq
    <3> QED
      BY <2>2, <3>1, LenProperties
  <2>4. of \in [1 .. Len(e.call.put) -> Device]
    BY <2>3
  <2> HIDE DEF of
  <2>5. of \in Points
    BY <2>3, <2>4, SeqOver DEF Points
  <2> QED
    BY <2>1, <2>5 DEF Request
<1>5. CASE op = "remote" /\ e.step = 1
  <2>1. RequestOf(e) = [do |-> "remote", to |-> e.call.to]
    BY <1>5 DEF RequestOf
  <2> QED
    BY <1>1, <1>5, <2>1, CallTyped DEF Request
<1>6. CASE op = "remote" /\ e.step > 1
  <2>1. RequestOf(e) = [do |-> "status"]
    BY <1>1, <1>6 DEF RequestOf
  <2> QED
    BY <2>1 DEF Request
<1>7. CASE op = "register"
  <2>1. RequestOf(e) = [do |-> "register", of |-> e.call.of]
    BY <1>7 DEF RequestOf
  <2> QED
    BY <1>1, <1>7, <2>1, CallTyped DEF Request
<1>8. CASE op \in {"lock", "unlock"}
  <2>1. RequestOf(e) = [do |-> op, right |-> e.call.right]
    BY <1>8 DEF RequestOf
  <2> QED
    BY <1>1, <1>8, <2>1, CallTyped DEF Request
<1>9. CASE op \in {"monitor", "latch", "reset", "test", "clear"}
  <2>1. RequestOf(e) = [do |-> op]
    BY <1>9 DEF RequestOf
  <2> QED
    BY <1>9, <2>1 DEF Request
<1>10. e.step = 1 \/ e.step > 1
  BY <1>1
<1> QED
  BY <1>1, <1>2, <1>3, <1>4, <1>5, <1>6, <1>7, <1>8, <1>9, <1>10, CallTyped

-----------------------------------------------------------------------------
(***************************************************************************)
(* The invariant.                                                          *)
(***************************************************************************)
\* A request on its way is of a call that was made, is not ahead of it, and is the only
\* one of its step; nobody waits for a reset.
Posted ==
    /\ \A p \in wire :
         /\ p.id \in 1..made
         /\ p.step <= log[p.id].step
         /\ p.req.do = "reset" => log[p.id].call.op = "reset"
    /\ \A p, q \in wire : p.id = q.id /\ p.step = q.step => p = q

\* A command is on its way, was carried out once, or neither; a call goes on after its
\* first request only when that was carried out.
Ledger ==
    /\ performed \in [CallId -> {0, 1}]
    /\ \A i \in CallId : i > made => performed[i] = 0
    /\ \A p \in wire : p.step = 1 => performed[p.id] = 0
    /\ \A i \in 1..made : log[i].step > 1 => performed[i] = 1

\* What the client of a call that is under way may conclude.
Underway ==
    \A c \in Client :
        /\ pc[c] = "asking" =>
              /\ \A p \in wire : p.id = now[c] => p.step < Entered(c).step
              /\ Entered(c).step = 1 => performed[now[c]] = 0
        /\ pc[c] = "waiting" => Entered(c).call.op # "reset"
        /\ pc[c] = "waiting" /\ Entered(c).step = 1 =>
              /\ reply[c].end = "ok" => performed[now[c]] = 1
              /\ reply[c].end = "refused" =>
                    performed[now[c]] = 0 /\ ~CommandOnTheWay(now[c])

SessionInv == SessionTypeOK /\ Posted /\ Ledger /\ Underway /\ DoubtIsTold

LEMMA InitInv == SessionInit => SessionInv
<1> SUFFICES ASSUME SessionInit PROVE SessionInv
  OBVIOUS
<1>1. cpu \in CpuState
  BY CpuAssumption, EmptyIsASeq DEF SessionInit, NewCpu, CpuState, RunState, Points
<1>2. SessionTypeOK
  <2>1. reg \in [Client -> Points]
    BY EmptyIsASeq DEF SessionInit, Points
  <2>2. MaxCalls \in Nat
    BY SessionAssumption
  <2> QED
    BY <1>1, <2>1, <2>2 DEF SessionInit, SessionTypeOK, CallId, Entered, Awaited
<1>3. Posted /\ Ledger /\ Underway /\ DoubtIsTold
  BY SessionAssumption DEF SessionInit, Posted, Ledger, Underway, DoubtIsTold, CallId
<1> QED
  BY <1>2, <1>3 DEF SessionInv

\* What every step uses of it.
LEMMA CallUnderWay ==
    ASSUME SessionInv, NEW c \in Client, pc[c] # "idle"
    PROVE  /\ now[c] \in 1..made /\ now[c] \in CallId
           /\ Entered(c) \in Entry
           /\ Entered(c).by = c /\ Entered(c).told = "nothing"
           /\ \A d \in Client : pc[d] # "idle" /\ d # c => now[d] # now[c]
<1>1. now[c] \in 1..made /\ Entered(c).by = c /\ Entered(c).told = "nothing"
  BY DEF SessionInv, SessionTypeOK
<1>2. made \in 0..MaxCalls /\ MaxCalls \in Nat
  BY SessionAssumption DEF SessionInv, SessionTypeOK
<1>3. now[c] \in CallId /\ ~(now[c] > made)
  BY <1>1, <1>2 DEF CallId
<1>4. log[now[c]] \in Entry
  BY <1>3 DEF SessionInv, SessionTypeOK
<1>5. ASSUME NEW d \in Client, pc[d] # "idle", d # c PROVE now[d] # now[c]
  BY <1>1, <1>5 DEF SessionInv, SessionTypeOK, Entered
<1> QED
  BY <1>1, <1>3, <1>4, <1>5 DEF Entered

-----------------------------------------------------------------------------
(***************************************************************************)
(* A step in which a client's call gets its answer, fails or ends, and the *)
(* CPU and the wire stay as they are.                                      *)
(***************************************************************************)
Settles(c, new, where) ==
    /\ pc[c] # "idle"
    /\ new \in Entry /\ new.by = c /\ new.call = Entered(c).call
    /\ \/ where = "idle" /\ new.step = Entered(c).step /\ new.told # "nothing"
       \/ /\ where = "asking" /\ new.step = Entered(c).step + 1 /\ new.told = "nothing"
          /\ pc[c] = "waiting" /\ reply[c].end = "ok"
    /\ Writes(new) /\ new.told = "ok" => performed[now[c]] = 1
    /\ Writes(new) /\ new.step = 1 /\ new.told \in {"refused", "failed", "notSent"} =>
          performed[now[c]] = 0 /\ ~CommandOnTheWay(now[c])
    /\ log' = [log EXCEPT ![now[c]] = new]
    /\ pc' = [pc EXCEPT ![c] = where]
    /\ reply' = [reply EXCEPT ![c] = NoReply]
    /\ conn' \in [Client -> {"up", "down", "closed"}]
    /\ reg' \in [Client -> Points]
    /\ UNCHANGED <<cpuVars, now, made>>

LEMMA SettleStep ==
    ASSUME SessionInv, NEW c \in Client, NEW new, NEW where, Settles(c, new, where)
    PROVE  SessionInv'
<1> DEFINE i == now[c]
           old == Entered(c)
<1>1. /\ i \in 1..made /\ i \in CallId /\ old \in Entry /\ old.by = c
      /\ \A d \in Client : pc[d] # "idle" /\ d # c => now[d] # i
  BY CallUnderWay DEF Settles
<1>2. /\ log \in [CallId -> Entry \cup {NotMade}]
      /\ pc \in [Client -> {"idle", "asking", "waiting"}]
      /\ reply \in [Client -> [end : {"ok", "refused"}, data : Data] \cup {NoReply}]
  BY DEF SessionInv, SessionTypeOK
<1>3. /\ log'[i] = new /\ \A j \in CallId : j # i => log'[j] = log[j]
      /\ pc'[c] = where /\ \A d \in Client : d # c => pc'[d] = pc[d]
      /\ reply'[c] = NoReply /\ \A d \in Client : d # c => reply'[d] = reply[d]
  BY <1>1, <1>2 DEF Settles
<1>4. /\ wire' = wire /\ performed' = performed /\ made' = made /\ now' = now
      /\ cpu' = cpu /\ reached' = reached
  BY DEF Settles, cpuVars
<1>5. /\ new \in Entry /\ new.by = c /\ new.call = old.call
      /\ where \in {"idle", "asking"}
      /\ where = "asking" => new.told = "nothing"
      /\ old.step \in Nat \ {0} /\ new.step \in {old.step, old.step + 1}
  BY <1>1 DEF Settles, Entry
<1>6. \A d \in Client : pc'[d] # "idle" /\ d # c =>
         /\ now[d] # i /\ Entered(d)' = Entered(d)
         /\ pc'[d] = pc[d] /\ reply'[d] = reply[d]
  <2> SUFFICES ASSUME NEW d \in Client, pc'[d] # "idle", d # c
               PROVE  /\ now[d] # i /\ Entered(d)' = Entered(d)
                      /\ pc'[d] = pc[d] /\ reply'[d] = reply[d]
    OBVIOUS
  <2>1. pc[d] # "idle" /\ pc'[d] = pc[d] /\ reply'[d] = reply[d]
    BY <1>3
  <2>2. now[d] # i /\ now[d] \in CallId
    BY <1>1, <2>1, CallUnderWay
  <2> QED
    BY <1>3, <1>4, <2>1, <2>2 DEF Entered
<1>7. Entered(c)' = new
  BY <1>3, <1>4 DEF Entered
<1>8. SessionTypeOK'
  <2>1. log' \in [CallId -> Entry \cup {NotMade}]
    BY <1>1, <1>2, <1>5 DEF Settles
  <2>2. pc' \in [Client -> {"idle", "asking", "waiting"}]
    BY <1>2, <1>5 DEF Settles
  <2>3. reply' \in [Client -> [end : {"ok", "refused"}, data : Data] \cup {NoReply}]
    BY <1>2 DEF Settles
  <2>4. \A j \in CallId : log'[j] = NotMade <=> j > made'
    <3>1. new # NotMade /\ log[i] # NotMade
      <4>1. log[i] = old
        BY DEF Entered
      <4>2. NotMade.told = "unmade"
        BY DEF NotMade
      <4>3. new.told # "unmade"
        BY <1>5 DEF Entry, Told
      <4>4. old.told # "unmade"
        BY <1>1 DEF Entry, Told
      <4> QED
        BY <4>1, <4>2, <4>3, <4>4
    <3> QED
      BY <1>1, <1>3, <1>4, <3>1 DEF SessionInv, SessionTypeOK
  <2>5. ASSUME NEW d \in Client
        PROVE  /\ pc'[d] # "idle" => /\ now'[d] \in 1..made' /\ Entered(d)'.by = d
                                     /\ Entered(d)'.told = "nothing"
               /\ pc'[d] # "waiting" => reply'[d] = NoReply
               /\ pc'[d] = "waiting" =>
                     (reply'[d] = NoReply <=> \E p \in wire' : p.by = d /\ Awaited(p)')
    <3>1. CASE d = c
      BY <1>1, <1>3, <1>4, <1>5, <1>7, <3>1
    <3>2. CASE d # c
      <4>1. pc'[d] = pc[d] /\ reply'[d] = reply[d] /\ now'[d] = now[d]
        BY <1>3, <1>4, <3>2
      <4>2. pc[d] # "idle" => Entered(d)' = Entered(d)
        BY <1>6, <3>2, <4>1
      <4>3. pc[d] = "waiting" => \A p : p.by = d => (Awaited(p)' <=> Awaited(p))
        BY <4>1, <4>2 DEF Awaited
      <4> QED
        BY <1>4, <4>1, <4>2, <4>3 DEF SessionInv, SessionTypeOK
    <3> QED
      BY <3>1, <3>2
  <2>6. /\ cpu' \in CpuState /\ wire' \subseteq Packet /\ now' \in [Client -> 0..MaxCalls]
        /\ made' \in 0..MaxCalls /\ performed' \in [CallId -> Nat]
        /\ reached' \in [CallId -> BOOLEAN]
    BY <1>4 DEF SessionInv, SessionTypeOK
  <2>7. conn' \in [Client -> {"up", "down", "closed"}] /\ reg' \in [Client -> Points]
    BY DEF Settles
  <2> QED
    BY <2>1, <2>2, <2>3, <2>4, <2>5, <2>6, <2>7 DEF SessionTypeOK
<1>9. Posted'
  <2>1. ASSUME NEW p \in wire
        PROVE  /\ p.id \in 1..made
               /\ p.step <= log'[p.id].step
               /\ p.req.do = "reset" => log'[p.id].call.op = "reset"
    <3>1. /\ p.id \in 1..made /\ p.step <= log[p.id].step
          /\ p.req.do = "reset" => log[p.id].call.op = "reset"
      BY DEF SessionInv, Posted
    <3>2. p.id \in CallId /\ p.step \in Nat
      BY DEF SessionInv, SessionTypeOK, Packet
    <3>3. CASE p.id = i
      <4>1. log[i] = old
        BY DEF Entered
      <4> QED
        BY <1>3, <1>5, <3>1, <3>2, <3>3, <4>1
    <3>4. CASE p.id # i
      BY <1>3, <3>1, <3>2, <3>4
    <3> QED
      BY <3>3, <3>4
  <2> QED
    BY <1>4, <2>1 DEF SessionInv, Posted
<1>10. Ledger'
  <2>1. ASSUME NEW j \in 1..made, log'[j].step > 1 PROVE performed[j] = 1
    <3>1. j \in CallId
      BY SessionAssumption DEF CallId, SessionInv, SessionTypeOK
    <3>2. CASE j # i
      BY <1>3, <2>1, <3>1, <3>2 DEF SessionInv, Ledger
    <3>3. CASE j = i /\ old.step > 1
      BY <3>3 DEF SessionInv, Ledger, Entered
    <3>4. CASE j = i /\ ~(old.step > 1)
      <4>1. old.step = 1 /\ log'[i].step = new.step
        BY <1>3, <1>5, <3>4
      <4>2. pc[c] = "waiting" /\ reply[c].end = "ok"
        BY <1>5, <2>1, <3>4, <4>1 DEF Settles
      <4> QED
        BY <3>4, <4>1, <4>2 DEF SessionInv, Underway
    <3> QED
      BY <3>2, <3>3, <3>4
  <2> QED
    BY <1>4, <2>1 DEF SessionInv, Ledger
<1>11. Underway'
  <2> SUFFICES ASSUME NEW d \in Client
               PROVE  /\ pc'[d] = "asking" =>
                           /\ \A p \in wire : p.id = now[d] => p.step < Entered(d)'.step
                           /\ Entered(d)'.step = 1 => performed[now[d]] = 0
                      /\ pc'[d] = "waiting" => Entered(d)'.call.op # "reset"
                      /\ pc'[d] = "waiting" /\ Entered(d)'.step = 1 =>
                           /\ reply'[d].end = "ok" => performed[now[d]] = 1
                           /\ reply'[d].end = "refused" =>
                                 performed[now[d]] = 0 /\ ~CommandOnTheWay(now[d])
    BY <1>4 DEF Underway, CommandOnTheWay
  <2>1. CASE d # c
    BY <1>3, <1>6, <2>1 DEF SessionInv, Underway
  <2>2. CASE d = c /\ where = "idle"
    BY <1>3, <2>2
  <2>3. CASE d = c /\ where = "asking"
    <3>1. new.step = old.step + 1
      BY <1>5, <2>3 DEF Settles
    <3>2. ASSUME NEW p \in wire, p.id = i PROVE p.step < new.step
      <4>1. p.step <= old.step /\ p.step \in Nat
        BY <3>2 DEF SessionInv, Posted, Entered, SessionTypeOK, Packet
      <4> QED
        BY <1>5, <3>1, <4>1
    <3> QED
      BY <1>3, <1>5, <1>7, <2>3, <3>1, <3>2
  <2> QED
    BY <1>5, <2>1, <2>2, <2>3
<1>12. DoubtIsTold'
  <2> SUFFICES ASSUME NEW j \in 1..made
               PROVE  /\ performed[j] <= 1
                      /\ Writes(log'[j]) /\ log'[j].told = "ok" => performed[j] = 1
                      /\ (/\ Writes(log'[j]) /\ log'[j].step = 1
                          /\ log'[j].told \in {"refused", "failed", "notSent"})
                           => performed[j] = 0 /\ ~CommandOnTheWay(j)
    BY <1>4 DEF DoubtIsTold, CommandOnTheWay, Writes
  <2>1. j \in CallId
    BY SessionAssumption DEF CallId, SessionInv, SessionTypeOK
  <2>2. CASE j = i
    BY <1>1, <1>3, <2>2 DEF Settles, SessionInv, DoubtIsTold
  <2>3. CASE j # i
    BY <1>3, <2>1, <2>3 DEF SessionInv, DoubtIsTold
  <2> QED
    BY <2>2, <2>3
<1> QED
  BY <1>8, <1>9, <1>10, <1>11, <1>12 DEF SessionInv

\* A call that returns or raises.
LEMMA TellStep ==
    ASSUME SessionInv, NEW c \in Client, NEW told \in Told, pc[c] # "idle", Tell(c, told),
           conn' \in [Client -> {"up", "down", "closed"}], reg' \in [Client -> Points],
           UNCHANGED cpuVars,
           Writes(Entered(c)) /\ told = "ok" => performed[now[c]] = 1,
           Writes(Entered(c)) /\ Entered(c).step = 1 /\ told \in {"refused", "failed", "notSent"} =>
               performed[now[c]] = 0 /\ ~CommandOnTheWay(now[c])
    PROVE  SessionInv'
<1> DEFINE old == Entered(c)
           new == [old EXCEPT !.told = told]
<1>1. now[c] \in CallId /\ old \in Entry /\ old.by = c
  BY CallUnderWay
<1>2. /\ new \in Entry /\ new.by = c /\ new.call = old.call /\ new.step = old.step
      /\ new.told = told /\ told # "nothing"
  BY <1>1 DEF Entry, Told
<1>3. log' = [log EXCEPT ![now[c]] = new]
  BY DEF Tell, Entered
<1>4. Writes(new) <=> Writes(old)
  BY <1>2 DEF Writes
<1> HIDE DEF old, new
<1>5. Settles(c, new, "idle")
  BY <1>2, <1>3, <1>4 DEF Settles, Tell, old
<1> QED
  BY <1>5, SettleStep

\* A call that goes on with its next request.
LEMMA ContinueStep ==
    ASSUME SessionInv, NEW c \in Client, pc[c] = "waiting", reply[c].end = "ok", Continue(c),
           UNCHANGED <<cpuVars, conn, reg>>
    PROVE  SessionInv'
<1> DEFINE old == Entered(c)
           new == [old EXCEPT !.step = @ + 1]
<1>1. now[c] \in CallId /\ old \in Entry /\ old.by = c /\ old.told = "nothing"
  BY CallUnderWay
<1>2. /\ new \in Entry /\ new.by = c /\ new.call = old.call /\ new.step = old.step + 1
      /\ new.told = "nothing"
  BY <1>1 DEF Entry
<1>3. log' = [log EXCEPT ![now[c]] = new]
  BY DEF Continue, Entered
<1>4. conn' \in [Client -> {"up", "down", "closed"}] /\ reg' \in [Client -> Points]
  BY DEF SessionInv, SessionTypeOK
<1> HIDE DEF old, new
<1>5. Settles(c, new, "asking")
  BY <1>2, <1>3, <1>4 DEF Settles, Continue, old
<1> QED
  BY <1>5, SettleStep

\* The same for a read or 0802, which keep what they got; neither is a write.
LEMMA GotStep ==
    ASSUME SessionInv, NEW c \in Client, pc[c] = "waiting", reply[c].end = "ok",
           NEW new \in Entry, new.by = c, new.call = Entered(c).call, ~Writes(new),
           NEW where,
           \/ where = "idle" /\ new.step = Entered(c).step /\ new.told # "nothing"
           \/ where = "asking" /\ new.step = Entered(c).step + 1 /\ new.told = "nothing",
           log' = [log EXCEPT ![now[c]] = new],
           pc' = [pc EXCEPT ![c] = where],
           reply' = [reply EXCEPT ![c] = NoReply],
           UNCHANGED <<cpuVars, conn, now, reg, made>>
    PROVE  SessionInv'
<1>1. conn' \in [Client -> {"up", "down", "closed"}] /\ reg' \in [Client -> Points]
  BY DEF SessionInv, SessionTypeOK
<1>2. Settles(c, new, where)
  BY <1>1 DEF Settles
<1> QED
  BY <1>2, SettleStep

\* What the client of a call knows when it is told that it failed at its first request.
LEMMA NothingSent ==
    ASSUME SessionInv, NEW c \in Client, pc[c] = "asking", Entered(c).step = 1
    PROVE  performed[now[c]] = 0 /\ ~CommandOnTheWay(now[c])
<1>1. \A p \in wire : p.id = now[c] => p.step < 1
  BY DEF SessionInv, Underway
<1>2. \A p \in wire : p.step \in Nat \ {0}
  BY DEF SessionInv, SessionTypeOK, Packet
<1> QED
  BY <1>1, <1>2 DEF SessionInv, Underway, CommandOnTheWay

\* Steps that only move a connection, the key switch, or nothing.
LEMMA QuietStep ==
    ASSUME SessionInv, cpu' \in CpuState, conn' \in [Client -> {"up", "down", "closed"}],
           UNCHANGED <<wire, performed, reached, pc, now, reply, reg, made, log>>
    PROVE  SessionInv'
<1>1. \A c : Entered(c)' = Entered(c)
  BY DEF Entered
<1>2. \A p : Awaited(p)' <=> Awaited(p)
  BY <1>1 DEF Awaited
<1>3. SessionTypeOK'
  BY <1>1, <1>2 DEF SessionInv, SessionTypeOK
<1>4. Posted' /\ Ledger'
  BY DEF SessionInv, Posted, Ledger
<1>5. Underway'
  BY <1>1 DEF SessionInv, Underway, CommandOnTheWay
<1>6. DoubtIsTold'
  BY DEF SessionInv, DoubtIsTold, CommandOnTheWay
<1> QED
  BY <1>3, <1>4, <1>5, <1>6 DEF SessionInv

-----------------------------------------------------------------------------
(***************************************************************************)
(* The steps of a client.                                                  *)
(***************************************************************************)
LEMMA StayTyped ==
    ASSUME SessionInv
    PROVE  /\ conn \in [Client -> {"up", "down", "closed"}] /\ reg \in [Client -> Points]
           /\ \A c \in Client, s \in {"up", "down", "closed"} :
                 [conn EXCEPT ![c] = s] \in [Client -> {"up", "down", "closed"}]
BY DEF SessionInv, SessionTypeOK

LEMMA NotSentStep ==
    ASSUME SessionInv, NEW c \in Client, NotSent(c)
    PROVE  SessionInv'
<1>1. pc[c] = "asking" /\ UNCHANGED cpuVars /\ reg' = reg
  BY DEF NotSent
<1>2. reg' \in [Client -> Points]
  BY <1>1, StayTyped
<1>3. CASE Entered(c).call.op = "reset"
  <2>1. Tell(c, "reset") /\ conn' = [conn EXCEPT ![c] = "closed"]
    BY <1>3 DEF NotSent
  <2>2. conn' \in [Client -> {"up", "down", "closed"}]
    BY <2>1, StayTyped
  <2> QED
    BY <1>1, <1>2, <2>1, <2>2, TellStep DEF Told
<1>4. CASE Entered(c).call.op # "reset"
  <2>1. /\ Tell(c, "notSent")
        /\ conn' = [conn EXCEPT ![c] = IF conn[c] = "up" THEN "down" ELSE conn[c]]
    BY <1>4 DEF NotSent
  <2>2. conn' \in [Client -> {"up", "down", "closed"}]
    BY <2>1, StayTyped
  <2> QED
    BY <1>1, <1>2, <2>1, <2>2, NothingSent, TellStep DEF Told
<1> QED
  BY <1>3, <1>4

LEMMA FailStep ==
    ASSUME SessionInv, NEW c \in Client, Fail(c)
    PROVE  SessionInv'
<1>1. /\ pc[c] = "waiting" /\ UNCHANGED cpuVars /\ reg' = reg
      /\ conn' = [conn EXCEPT ![c] = "down"] /\ Tell(c, Doubt(Entered(c)))
  BY DEF Fail
<1>2. Doubt(Entered(c)) \in Told /\ Doubt(Entered(c)) \in {"unknown", "failed"}
  BY DEF Doubt, Told
<1>3. Writes(Entered(c)) /\ Entered(c).step = 1 => Doubt(Entered(c)) = "unknown"
  BY DEF Doubt, Writes, Mutates
<1>4. conn' \in [Client -> {"up", "down", "closed"}] /\ reg' \in [Client -> Points]
  BY <1>1, StayTyped
<1> QED
  BY <1>1, <1>2, <1>3, <1>4, TellStep

LEMMA CancelStep ==
    ASSUME SessionInv, NEW c \in Client, Cancel(c)
    PROVE  SessionInv'
<1>1. /\ pc[c] # "idle" /\ UNCHANGED cpuVars /\ reg' = reg /\ Tell(c, "cancelled")
      /\ conn' = [conn EXCEPT ![c] = IF pc[c] = "waiting" THEN "down" ELSE conn[c]]
  BY DEF Cancel
<1>2. conn' \in [Client -> {"up", "down", "closed"}] /\ reg' \in [Client -> Points]
  BY <1>1, StayTyped
<1> QED
  BY <1>1, <1>2, TellStep DEF Told

LEMMA RefusedStep ==
    ASSUME SessionInv, NEW c \in Client, Refused(c)
    PROVE  SessionInv'
<1>1. /\ pc[c] = "waiting" /\ reply[c].end = "refused" /\ Tell(c, "refused")
      /\ UNCHANGED <<cpuVars, conn, reg>>
  BY DEF Refused
<1>2. Entered(c).step = 1 => performed[now[c]] = 0 /\ ~CommandOnTheWay(now[c])
  BY <1>1 DEF SessionInv, Underway
<1>3. conn' \in [Client -> {"up", "down", "closed"}] /\ reg' \in [Client -> Points]
  BY <1>1, StayTyped
<1> QED
  BY <1>1, <1>2, <1>3, TellStep DEF Told

\* An answer "ok", at any step, says that the command was carried out.
LEMMA AnswerIsEvidence ==
    ASSUME SessionInv, NEW c \in Client, pc[c] = "waiting", reply[c].end = "ok"
    PROVE  performed[now[c]] = 1
<1>1. Entered(c).step \in Nat \ {0} /\ now[c] \in 1..made
  BY CallUnderWay DEF Entry
<1>2. CASE Entered(c).step = 1
  BY <1>2 DEF SessionInv, Underway
<1>3. CASE Entered(c).step > 1
  BY <1>1, <1>3 DEF SessionInv, Ledger, Entered
<1> QED
  BY <1>1, <1>2, <1>3

\* So a call may return, or find a mismatch, after it.
LEMMA ReturnStep ==
    ASSUME SessionInv, NEW c \in Client, NEW told \in {"ok", "mismatch"},
           pc[c] = "waiting", reply[c].end = "ok", Tell(c, told),
           conn' = conn, reg' \in [Client -> Points], UNCHANGED cpuVars
    PROVE  SessionInv'
<1>1. performed[now[c]] = 1
  BY AnswerIsEvidence
<1>2. conn' \in [Client -> {"up", "down", "closed"}]
  BY StayTyped
<1> QED
  BY <1>1, <1>2, TellStep DEF Told

LEMMA AfterWriteStep ==
    ASSUME SessionInv, NEW c \in Client, AfterWrite(c)
    PROVE  SessionInv'
<1>1. /\ pc[c] = "waiting" /\ reply[c].end = "ok" /\ UNCHANGED <<cpuVars, conn, reg>>
      /\ Tell(c, "ok") \/ Tell(c, "mismatch") \/ Continue(c)
  BY DEF AfterWrite, Answered
<1>2. reg' \in [Client -> Points]
  BY <1>1, StayTyped
<1> QED
  BY <1>1, <1>2, ReturnStep, ContinueStep

LEMMA AfterRemoteStep ==
    ASSUME SessionInv, NEW c \in Client, AfterRemote(c)
    PROVE  SessionInv'
<1>1. /\ pc[c] = "waiting" /\ reply[c].end = "ok" /\ UNCHANGED <<cpuVars, conn, reg>>
      /\ Tell(c, "ok") \/ Tell(c, "mismatch") \/ Continue(c)
  BY DEF AfterRemote, Answered
<1>2. reg' \in [Client -> Points]
  BY <1>1, StayTyped
<1> QED
  BY <1>1, <1>2, ReturnStep, ContinueStep

LEMMA AfterPlainStep ==
    ASSUME SessionInv, NEW c \in Client, AfterPlain(c)
    PROVE  SessionInv'
<1>1. /\ pc[c] = "waiting" /\ reply[c].end = "ok" /\ UNCHANGED <<cpuVars, conn, reg>>
      /\ Tell(c, "ok")
  BY DEF AfterPlain, Answered
<1>2. reg' \in [Client -> Points]
  BY <1>1, StayTyped
<1> QED
  BY <1>1, <1>2, ReturnStep

LEMMA AfterRegisterStep ==
    ASSUME SessionInv, NEW c \in Client, AfterRegister(c)
    PROVE  SessionInv'
<1>1. /\ pc[c] = "waiting" /\ reply[c].end = "ok" /\ Entered(c).call.op = "register"
      /\ reg' = [reg EXCEPT ![c] = Entered(c).call.of] /\ UNCHANGED <<cpuVars, conn>>
      /\ Tell(c, "ok")
  BY DEF AfterRegister, Answered
<1>2. Entered(c).call \in Calls
  BY <1>1, CallUnderWay DEF Entry
<1>3. Entered(c).call.of \in Points
  BY <1>1, <1>2, CallTyped
<1>4. reg' \in [Client -> Points]
  BY <1>1, <1>3, StayTyped
<1> QED
  BY <1>1, <1>4, ReturnStep

LEMMA AfterReadStep ==
    ASSUME SessionInv, NEW c \in Client, AfterRead(c)
    PROVE  SessionInv'
<1> DEFINE old == Entered(c)
           got == old.got \o reply[c].data
           complete == Len(got) = Len(old.call.of)
           new == [old EXCEPT !.got = got,
                              !.told = IF complete THEN "ok" ELSE old.told,
                              !.step = IF complete THEN old.step ELSE old.step + 1]
           where == IF complete THEN "idle" ELSE "asking"
<1>1. /\ pc[c] = "waiting" /\ reply[c].end = "ok" /\ old.call.op = "read"
      /\ pc' = [pc EXCEPT ![c] = where] /\ reply' = [reply EXCEPT ![c] = NoReply]
      /\ log' = [log EXCEPT ![now[c]] = new]
      /\ UNCHANGED <<cpuVars, conn, now, reg, made>>
  BY DEF AfterRead, Answered
<1>2. old \in Entry /\ old.by = c /\ old.told = "nothing"
  BY <1>1, CallUnderWay
<1>3. reply[c] # NoReply /\ reply[c].data \in Data
  <2>1. NoReply.end = "none"
    BY DEF NoReply
  <2> QED
    BY <1>1, <2>1 DEF SessionInv, SessionTypeOK
<1>4. got \in Data
  BY <1>2, <1>3, ConcatProperties DEF Entry, Data
<1> HIDE DEF old, got, complete
<1>5. new \in Entry /\ new.by = c /\ new.call = old.call
  <2>1. CASE complete
    BY <1>2, <1>4, <2>1 DEF Entry, Told
  <2>2. CASE ~complete
    <3>1. old.step + 1 \in Nat \ {0}
      BY <1>2 DEF Entry
    <3>2. new = [old EXCEPT !.got = got, !.told = old.told, !.step = old.step + 1]
      BY <2>2
    <3> QED
      BY <1>2, <1>4, <3>1, <3>2 DEF Entry, Told
  <2> QED
    BY <2>1, <2>2
<1>6. ~Writes(new)
  BY <1>1, <1>5 DEF Writes
<1>7. \/ where = "idle" /\ new.step = old.step /\ new.told # "nothing"
      \/ where = "asking" /\ new.step = old.step + 1 /\ new.told = "nothing"
  BY <1>2 DEF Entry
<1> HIDE DEF new, where
<1> QED
  BY <1>1, <1>5, <1>6, <1>7, GotStep DEF old

LEMMA AfterMonitorStep ==
    ASSUME SessionInv, NEW c \in Client, AfterMonitor(c)
    PROVE  SessionInv'
<1> DEFINE old == Entered(c)
           fits == Len(reply[c].data) = Len(reg[c])
           new == [old EXCEPT !.got = IF fits THEN reply[c].data ELSE old.got,
                              !.told = IF fits THEN "ok" ELSE "mismatch"]
<1>1. /\ pc[c] = "waiting" /\ reply[c].end = "ok" /\ old.call.op = "monitor"
      /\ pc' = [pc EXCEPT ![c] = "idle"] /\ reply' = [reply EXCEPT ![c] = NoReply]
      /\ log' = [log EXCEPT ![now[c]] = new]
      /\ UNCHANGED <<cpuVars, conn, now, reg, made>>
  BY DEF AfterMonitor, Answered
<1>2. old \in Entry /\ old.by = c /\ old.told = "nothing"
  BY <1>1, CallUnderWay
<1>3. reply[c].data \in Data
  <2>1. NoReply.end = "none"
    BY DEF NoReply
  <2> QED
    BY <1>1, <2>1 DEF SessionInv, SessionTypeOK
<1> HIDE DEF old, fits
<1>4. /\ new \in Entry /\ new.by = c /\ new.call = old.call /\ new.step = old.step
      /\ new.told # "nothing"
  BY <1>2, <1>3 DEF Entry, Told
<1>5. ~Writes(new)
  BY <1>1, <1>4 DEF Writes
<1> HIDE DEF new
<1> QED
  BY <1>1, <1>4, <1>5, GotStep DEF old

LEMMA BeginStep ==
    ASSUME SessionInv, NEW c \in Client, NEW call \in Calls, Begin(c, call)
    PROVE  SessionInv'
<1> DEFINE i == made + 1
           new == [by |-> c, call |-> call, step |-> 1, told |-> "nothing", got |-> <<>>]
<1>1. /\ pc[c] = "idle" /\ made < MaxCalls /\ made' = i
      /\ now' = [now EXCEPT ![c] = i] /\ pc' = [pc EXCEPT ![c] = "asking"]
      /\ log' = [log EXCEPT ![i] = new]
      /\ UNCHANGED <<cpuVars, conn, reply, reg>>
  BY DEF Begin
<1>2. /\ made \in Nat /\ MaxCalls \in Nat /\ i \in CallId /\ i > made /\ i <= MaxCalls
      /\ 1..made \subseteq CallId /\ i \notin 1..made /\ 1..i = 1..made \cup {i}
  BY <1>1, SessionAssumption DEF SessionInv, SessionTypeOK, CallId
<1>3. new \in Entry /\ new # NotMade
  <2>1. <<>> \in Data
    BY EmptyIsASeq DEF Data
  <2>2. NotMade.told = "unmade"
    BY DEF NotMade
  <2> QED
    BY <2>1, <2>2 DEF Entry
<1>4. new.by = c /\ new.told = "nothing" /\ new.step = 1
  OBVIOUS
<1> HIDE DEF new
<1>5. /\ log'[i] = new /\ \A j \in CallId : j # i => log'[j] = log[j]
      /\ now'[c] = i /\ pc'[c] = "asking" /\ reply'[c] = NoReply
      /\ \A d \in Client : d # c => now'[d] = now[d] /\ pc'[d] = pc[d] /\ reply'[d] = reply[d]
  BY <1>1, <1>2 DEF SessionInv, SessionTypeOK
<1>6. Entered(c)' = new
  BY <1>5 DEF Entered
<1>7. \A d \in Client : pc'[d] # "idle" /\ d # c =>
         pc[d] # "idle" /\ now[d] \in 1..made /\ Entered(d)' = Entered(d)
  <2> SUFFICES ASSUME NEW d \in Client, pc'[d] # "idle", d # c
               PROVE  pc[d] # "idle" /\ now[d] \in 1..made /\ Entered(d)' = Entered(d)
    OBVIOUS
  <2>1. pc[d] # "idle" /\ now'[d] = now[d]
    BY <1>5
  <2>2. now[d] \in 1..made /\ now[d] \in CallId
    BY <2>1, CallUnderWay
  <2> QED
    BY <1>2, <1>5, <2>1, <2>2 DEF Entered
<1>8. SessionTypeOK'
  <2>1. log' \in [CallId -> Entry \cup {NotMade}] /\ made' \in 0..MaxCalls
        /\ now' \in [Client -> 0..MaxCalls] /\ pc' \in [Client -> {"idle", "asking", "waiting"}]
    BY <1>1, <1>2, <1>3 DEF SessionInv, SessionTypeOK
  <2>2. ASSUME NEW j \in CallId PROVE log'[j] = NotMade <=> j > made'
    <3>1. j \in Nat
      BY <1>2 DEF CallId
    <3>2. CASE j = i
      BY <1>1, <1>2, <1>3, <1>5, <3>2
    <3>3. CASE j # i
      <4>1. log[j] = NotMade <=> j > made
        BY DEF SessionInv, SessionTypeOK
      <4> QED
        BY <1>1, <1>2, <1>5, <3>1, <3>3, <4>1
    <3> QED
      BY <3>2, <3>3
  <2>3. ASSUME NEW d \in Client
        PROVE  /\ pc'[d] # "idle" => /\ now'[d] \in 1..made' /\ Entered(d)'.by = d
                                     /\ Entered(d)'.told = "nothing"
               /\ pc'[d] # "waiting" => reply'[d] = NoReply
               /\ pc'[d] = "waiting" =>
                     (reply'[d] = NoReply <=> \E p \in wire' : p.by = d /\ Awaited(p)')
    <3>1. CASE d = c
      BY <1>1, <1>2, <1>4, <1>5, <1>6, <3>1
    <3>2. CASE d # c
      <4>1. pc'[d] = pc[d] /\ reply'[d] = reply[d] /\ now'[d] = now[d]
        BY <1>5, <3>2
      <4>2. pc[d] # "idle" => Entered(d)' = Entered(d) /\ now[d] \in 1..made'
        BY <1>1, <1>2, <1>7, <3>2, <4>1
      <4>3. pc[d] = "waiting" => \A p : p.by = d => (Awaited(p)' <=> Awaited(p))
        BY <4>1, <4>2 DEF Awaited
      <4>4. wire' = wire
        BY <1>1 DEF cpuVars
      <4> QED
        BY <4>1, <4>2, <4>3, <4>4 DEF SessionInv, SessionTypeOK
    <3> QED
      BY <3>1, <3>2
  <2> QED
    BY <1>1, <2>1, <2>2, <2>3 DEF SessionInv, SessionTypeOK, cpuVars
<1>9. Posted'
  BY <1>1, <1>2, <1>5 DEF SessionInv, Posted, cpuVars
<1>10. Ledger'
  <2>1. wire' = wire /\ performed' = performed
    BY <1>1 DEF cpuVars
  <2>2. \A j \in CallId : j > i => j > made
    BY <1>2 DEF CallId
  <2>3. ASSUME NEW j \in 1..i, log'[j].step > 1 PROVE performed[j] = 1
    <3>1. j # i
      BY <1>4, <1>5, <2>3
    <3> QED
      BY <1>2, <1>5, <2>3, <3>1 DEF SessionInv, Ledger
  <2> QED
    BY <1>1, <2>1, <2>2, <2>3 DEF SessionInv, Ledger
<1>11. Underway'
  <2>1. wire' = wire /\ performed' = performed
    BY <1>1 DEF cpuVars
  <2>2. performed[i] = 0 /\ \A p \in wire : p.id # i
    BY <1>2 DEF SessionInv, Ledger, Posted
  <2>3. ASSUME NEW d \in Client
        PROVE  /\ pc'[d] = "asking" =>
                    /\ \A p \in wire : p.id = now'[d] => p.step < Entered(d)'.step
                    /\ Entered(d)'.step = 1 => performed[now'[d]] = 0
               /\ pc'[d] = "waiting" => Entered(d)'.call.op # "reset"
               /\ pc'[d] = "waiting" /\ Entered(d)'.step = 1 =>
                    /\ reply'[d].end = "ok" => performed[now'[d]] = 1
                    /\ reply'[d].end = "refused" =>
                          performed[now'[d]] = 0 /\ ~CommandOnTheWay(now'[d])
    <3>1. CASE d = c
      BY <1>5, <2>2, <3>1
    <3>2. CASE d # c
      BY <1>5, <1>7, <3>2 DEF SessionInv, Underway
    <3> QED
      BY <3>1, <3>2
  <2> QED
    BY <2>1, <2>3 DEF Underway, CommandOnTheWay
<1>12. DoubtIsTold'
  <2>1. wire' = wire /\ performed' = performed
    BY <1>1 DEF cpuVars
  <2>2. ASSUME NEW j \in 1..i
        PROVE  /\ performed[j] <= 1
               /\ Writes(log'[j]) /\ log'[j].told = "ok" => performed[j] = 1
               /\ (/\ Writes(log'[j]) /\ log'[j].step = 1
                   /\ log'[j].told \in {"refused", "failed", "notSent"})
                    => performed[j] = 0 /\ ~CommandOnTheWay(j)
    <3>1. CASE j = i
      BY <1>2, <1>4, <1>5, <3>1 DEF SessionInv, Ledger
    <3>2. CASE j # i
      BY <1>2, <1>5, <3>2 DEF SessionInv, DoubtIsTold
    <3> QED
      BY <3>1, <3>2
  <2> QED
    BY <1>1, <2>1, <2>2 DEF DoubtIsTold, CommandOnTheWay, Writes
<1> QED
  BY <1>8, <1>9, <1>10, <1>11, <1>12 DEF SessionInv

(***************************************************************************)
(* A step in which a request goes out; its call waits, or is told "reset". *)
(***************************************************************************)
Packeted(c) ==
    [id |-> now[c], step |-> Entered(c).step, by |-> c, req |-> RequestOf(Entered(c))]

Posts(c, new, where) ==
    /\ pc[c] = "asking" /\ Post(c)
    /\ new \in Entry /\ new.by = c /\ new.call = Entered(c).call /\ new.step = Entered(c).step
    /\ \/ where = "waiting" /\ new.told = "nothing" /\ new.call.op # "reset"
       \/ where = "idle" /\ new.told = "reset"
    /\ log' = [log EXCEPT ![now[c]] = new]
    /\ pc' = [pc EXCEPT ![c] = where]
    /\ reply' = reply
    /\ conn' \in [Client -> {"up", "down", "closed"}]
    /\ UNCHANGED <<cpu, performed, reached, reg, now, made>>

\* The new request is the only one of its step, and no command was carried out before it.
LEMMA PacketedFits ==
    ASSUME SessionInv, NEW c \in Client, pc[c] = "asking"
    PROVE  /\ Packeted(c) \in Packet
           /\ Packeted(c).req.do = "reset" => Entered(c).call.op = "reset"
           /\ \A p \in wire : p.id = now[c] => p.step # Entered(c).step
           /\ Entered(c).step = 1 => performed[now[c]] = 0
<1>1. now[c] \in CallId /\ Entered(c) \in Entry
  BY CallUnderWay
<1>2. RequestOf(Entered(c)) \in Request
      /\ (RequestOf(Entered(c)).do = "reset" => Entered(c).call.op = "reset")
  BY <1>1, RequestTyped
<1>3. Entered(c).step \in Nat \ {0}
  BY <1>1 DEF Entry
<1>4. \A p \in wire : p.step \in Nat
  BY DEF SessionInv, SessionTypeOK, Packet
<1>5. \A p \in wire : p.id = now[c] => p.step < Entered(c).step
  BY DEF SessionInv, Underway
<1>6. Entered(c).step = 1 => performed[now[c]] = 0
  BY DEF SessionInv, Underway
<1> QED
  BY <1>1, <1>2, <1>3, <1>4, <1>5, <1>6 DEF Packeted, Packet

LEMMA PostStep ==
    ASSUME SessionInv, NEW c \in Client, NEW new, NEW where, Posts(c, new, where)
    PROVE  SessionInv'
<1> DEFINE i == now[c]
           old == Entered(c)
<1>0. PICK m : m = Packeted(c)
  OBVIOUS
<1>1. /\ i \in 1..made /\ i \in CallId /\ old \in Entry /\ old.by = c /\ old.told = "nothing"
      /\ \A d \in Client : pc[d] # "idle" /\ d # c => now[d] # i
  BY CallUnderWay DEF Posts
<1>2. /\ log \in [CallId -> Entry \cup {NotMade}]
      /\ pc \in [Client -> {"idle", "asking", "waiting"}]
      /\ reply[c] = NoReply /\ log[i] = old /\ old.step \in Nat \ {0}
  BY <1>1 DEF SessionInv, SessionTypeOK, Posts, Entered, Entry
<1>3. /\ log'[i] = new /\ \A j \in CallId : j # i => log'[j] = log[j]
      /\ pc'[c] = where /\ \A d \in Client : d # c => pc'[d] = pc[d]
      /\ reply' = reply
  BY <1>1, <1>2 DEF Posts
<1>4. /\ performed' = performed /\ made' = made /\ now' = now /\ cpu' = cpu
      /\ reached' = reached /\ reg' = reg /\ wire' = wire \cup {m}
  BY <1>0 DEF Posts, Post, Packeted
<1>5. /\ new \in Entry /\ new.by = c /\ new.call = old.call /\ new.step = old.step
      /\ where \in {"waiting", "idle"}
      /\ where = "waiting" => new.told = "nothing" /\ new.call.op # "reset"
      /\ new.told \in {"nothing", "reset"}
  BY DEF Posts
<1>6. /\ m \in Packet /\ m.id = i /\ m.step = old.step /\ m.by = c
      /\ m.req.do = "reset" => old.call.op = "reset"
      /\ \A p \in wire : p.id = i => p.step # old.step
      /\ m.step = 1 => performed[i] = 0
  BY <1>0, PacketedFits DEF Posts, Packeted
<1>7. \A d \in Client : pc'[d] # "idle" /\ d # c =>
         now[d] # i /\ Entered(d)' = Entered(d) /\ pc'[d] = pc[d]
  <2> SUFFICES ASSUME NEW d \in Client, pc'[d] # "idle", d # c
               PROVE  now[d] # i /\ Entered(d)' = Entered(d) /\ pc'[d] = pc[d]
    OBVIOUS
  <2>1. pc[d] # "idle" /\ pc'[d] = pc[d]
    BY <1>3
  <2>2. now[d] # i /\ now[d] \in CallId
    BY <1>1, <2>1, CallUnderWay
  <2> QED
    BY <1>3, <1>4, <2>1, <2>2 DEF Entered
<1>8. Entered(c)' = new
  BY <1>3, <1>4 DEF Entered
<1>9. SessionTypeOK'
  <2>1. log' \in [CallId -> Entry \cup {NotMade}]
    BY <1>1, <1>2, <1>5 DEF Posts
  <2>2. pc' \in [Client -> {"idle", "asking", "waiting"}]
    BY <1>2, <1>5 DEF Posts
  <2>3. \A j \in CallId : log'[j] = NotMade <=> j > made'
    <3>1. new # NotMade /\ log[i] # NotMade
      <4>1. NotMade.told = "unmade"
        BY DEF NotMade
      <4> QED
        BY <1>1, <1>2, <1>5, <4>1
    <3> QED
      BY <1>1, <1>3, <1>4, <3>1 DEF SessionInv, SessionTypeOK
  <2>4. ASSUME NEW d \in Client
        PROVE  /\ pc'[d] # "idle" => /\ now'[d] \in 1..made' /\ Entered(d)'.by = d
                                     /\ Entered(d)'.told = "nothing"
               /\ pc'[d] # "waiting" => reply'[d] = NoReply
               /\ pc'[d] = "waiting" =>
                     (reply'[d] = NoReply <=> \E p \in wire' : p.by = d /\ Awaited(p)')
    <3>1. CASE d = c
      <4>1. pc'[c] = "waiting" => Awaited(m)'
        BY <1>3, <1>4, <1>5, <1>6, <1>8 DEF Awaited
      <4>2. m \in wire'
        BY <1>4
      <4> QED
        BY <1>1, <1>2, <1>3, <1>4, <1>5, <1>6, <1>8, <3>1, <4>1, <4>2
    <3>2. CASE d # c
      <4>1. pc'[d] = pc[d] /\ reply'[d] = reply[d] /\ now'[d] = now[d]
        BY <1>3, <1>4, <3>2
      <4>2. pc[d] # "idle" => Entered(d)' = Entered(d)
        BY <1>7, <3>2, <4>1
      <4>3. pc[d] = "waiting" => \A p : p.by = d => (Awaited(p)' <=> Awaited(p))
        BY <4>1, <4>2 DEF Awaited
      <4>4. \A p \in wire' : p.by = d => p \in wire
        BY <1>4, <1>6, <3>2
      <4>5. wire \subseteq wire'
        BY <1>4
      <4> QED
        BY <1>4, <4>1, <4>2, <4>3, <4>4, <4>5 DEF SessionInv, SessionTypeOK
    <3> QED
      BY <3>1, <3>2
  <2>5. /\ cpu' \in CpuState /\ wire' \subseteq Packet /\ now' \in [Client -> 0..MaxCalls]
        /\ made' \in 0..MaxCalls /\ performed' \in [CallId -> Nat]
        /\ reached' \in [CallId -> BOOLEAN] /\ reg' \in [Client -> Points]
        /\ reply' \in [Client -> [end : {"ok", "refused"}, data : Data] \cup {NoReply}]
    BY <1>3, <1>4, <1>6 DEF SessionInv, SessionTypeOK
  <2>6. conn' \in [Client -> {"up", "down", "closed"}]
    BY DEF Posts
  <2> QED
    BY <2>1, <2>2, <2>3, <2>4, <2>5, <2>6 DEF SessionTypeOK
<1>10. Posted'
  <2>1. ASSUME NEW p \in wire'
        PROVE  /\ p.id \in 1..made
               /\ p.step <= log'[p.id].step
               /\ p.req.do = "reset" => log'[p.id].call.op = "reset"
    <3>1. CASE p = m
      BY <1>1, <1>2, <1>3, <1>5, <1>6, <3>1
    <3>2. CASE p \in wire
      <4>1. /\ p.id \in 1..made /\ p.step <= log[p.id].step /\ p.id \in CallId
            /\ p.req.do = "reset" => log[p.id].call.op = "reset"
        BY <3>2 DEF SessionInv, Posted, SessionTypeOK, Packet
      <4>2. CASE p.id = i
        BY <1>2, <1>3, <1>5, <4>1, <4>2
      <4>3. CASE p.id # i
        BY <1>3, <4>1, <4>3
      <4> QED
        BY <4>2, <4>3
    <3> QED
      BY <1>4, <3>1, <3>2
  <2>2. \A p, q \in wire' : p.id = q.id /\ p.step = q.step => p = q
    BY <1>4, <1>6 DEF SessionInv, Posted
  <2> QED
    BY <1>4, <2>1, <2>2 DEF Posted
<1>11. Ledger'
  <2>1. \A p \in wire' : p.step = 1 => performed[p.id] = 0
    BY <1>4, <1>6 DEF SessionInv, Ledger
  <2>2. ASSUME NEW j \in 1..made, log'[j].step > 1 PROVE performed[j] = 1
    <3>1. j \in CallId
      BY SessionAssumption DEF CallId, SessionInv, SessionTypeOK
    <3>2. log'[j].step = log[j].step
      BY <1>2, <1>3, <1>5, <3>1
    <3> QED
      BY <2>2, <3>2 DEF SessionInv, Ledger
  <2> QED
    BY <1>4, <2>1, <2>2 DEF SessionInv, Ledger
<1>12. Underway'
  <2> SUFFICES ASSUME NEW d \in Client
               PROVE  /\ pc'[d] = "asking" =>
                           /\ \A p \in wire' : p.id = now[d] => p.step < Entered(d)'.step
                           /\ Entered(d)'.step = 1 => performed[now[d]] = 0
                      /\ pc'[d] = "waiting" => Entered(d)'.call.op # "reset"
                      /\ pc'[d] = "waiting" /\ Entered(d)'.step = 1 =>
                           /\ reply[d].end = "ok" => performed[now[d]] = 1
                           /\ reply[d].end = "refused" =>
                                 performed[now[d]] = 0 /\ ~CommandOnTheWay(now[d])'
    BY <1>3, <1>4 DEF Underway, CommandOnTheWay
  <2>1. CASE d = c
    <3>1. reply[c].end = "none"
      BY <1>2 DEF NoReply
    <3> QED
      BY <1>3, <1>5, <1>8, <2>1, <3>1
  <2>2. CASE d # c
    <3>1. pc'[d] # "idle" => \A p \in wire' : p.id = now[d] => p \in wire
      BY <1>4, <1>6, <1>7, <2>2
    <3>2. pc'[d] # "idle" => (CommandOnTheWay(now[d])' => CommandOnTheWay(now[d]))
      BY <1>4, <3>1 DEF CommandOnTheWay
    <3> QED
      BY <1>3, <1>7, <2>2, <3>1, <3>2 DEF SessionInv, Underway
  <2> QED
    BY <2>1, <2>2
<1>13. DoubtIsTold'
  <2> SUFFICES ASSUME NEW j \in 1..made
               PROVE  /\ performed[j] <= 1
                      /\ Writes(log'[j]) /\ log'[j].told = "ok" => performed[j] = 1
                      /\ (/\ Writes(log'[j]) /\ log'[j].step = 1
                          /\ log'[j].told \in {"refused", "failed", "notSent"})
                           => performed[j] = 0 /\ \A p \in wire' : ~(p.id = j /\ p.step = 1)
    BY <1>4 DEF DoubtIsTold, CommandOnTheWay, Writes
  <2>1. j \in CallId /\ performed[j] <= 1
    BY SessionAssumption DEF CallId, SessionInv, SessionTypeOK, DoubtIsTold
  <2>2. CASE j = i
    BY <1>3, <1>5, <2>1, <2>2
  <2>3. CASE j # i
    BY <1>3, <1>4, <1>6, <2>1, <2>3 DEF SessionInv, DoubtIsTold, CommandOnTheWay
  <2> QED
    BY <2>2, <2>3
<1> QED
  BY <1>9, <1>10, <1>11, <1>12, <1>13 DEF SessionInv

LEMMA SendStep ==
    ASSUME SessionInv, NEW c \in Client, Send(c)
    PROVE  SessionInv'
<1>1. now[c] \in CallId /\ Entered(c) \in Entry /\ Entered(c).by = c
      /\ Entered(c).told = "nothing"
  BY CallUnderWay DEF Send
<1>2. log' = [log EXCEPT ![now[c]] = Entered(c)]
  BY <1>1 DEF Send, SessionInv, SessionTypeOK, Entered
<1>3. conn' \in [Client -> {"up", "down", "closed"}]
  BY DEF Send, SessionInv, SessionTypeOK
<1>4. Posts(c, Entered(c), "waiting")
  BY <1>1, <1>2, <1>3 DEF Posts, Send
<1> QED
  BY <1>4, PostStep

LEMMA SendResetStep ==
    ASSUME SessionInv, NEW c \in Client, SendReset(c)
    PROVE  SessionInv'
<1> DEFINE old == Entered(c)
           new == [old EXCEPT !.told = "reset"]
<1>1. now[c] \in CallId /\ old \in Entry /\ old.by = c
  BY CallUnderWay DEF SendReset
<1>2. /\ new \in Entry /\ new.by = c /\ new.call = old.call /\ new.step = old.step
      /\ new.told = "reset"
  BY <1>1 DEF Entry, Told
<1>3. log' = [log EXCEPT ![now[c]] = new]
  BY DEF SendReset, Tell, Entered
<1>4. reply' = reply
  <2>1. reply[c] = NoReply /\ reply' = [reply EXCEPT ![c] = NoReply]
    BY DEF SessionInv, SessionTypeOK, SendReset, Tell
  <2>2. reply \in [Client -> [end : {"ok", "refused"}, data : Data] \cup {NoReply}]
    BY DEF SessionInv, SessionTypeOK
  <2> QED
    BY <2>1, <2>2
<1>5. conn' \in [Client -> {"up", "down", "closed"}]
  BY StayTyped DEF SendReset
<1> HIDE DEF old, new
<1>6. Posts(c, new, "idle")
  BY <1>2, <1>3, <1>4, <1>5 DEF Posts, SendReset, Tell, old
<1> QED
  BY <1>6, PostStep

-----------------------------------------------------------------------------
(***************************************************************************)
(* A request is served.                                                    *)
(***************************************************************************)
LEMMA ServeStep ==
    ASSUME SessionInv, NEW p \in wire, Serve(p)
    PROVE  SessionInv'
<1>0. PICK done : done = Handle(cpu, p.req)
  OBVIOUS
<1>1. p \in Packet /\ cpu \in CpuState /\ p.id \in CallId /\ p.by \in Client
  BY DEF SessionInv, SessionTypeOK, Packet
<1>2. /\ done.cpu \in CpuState /\ done.end \in {"ok", "refused", "silent"} /\ done.data \in Data
      /\ p.req.do # "reset" => done.end # "silent"
  BY <1>0, <1>1, HandleTyped DEF Packet, Outcome
<1>3. /\ cpu' = done.cpu /\ wire' = wire \ {p}
      /\ reply' = IF Awaited(p) /\ done.end # "silent"
                  THEN [reply EXCEPT ![p.by] = [end |-> done.end, data |-> done.data]]
                  ELSE reply
      /\ performed' = IF p.step = 1 /\ done.end # "refused"
                      THEN [performed EXCEPT ![p.id] = performed[p.id] + 1] ELSE performed
      /\ UNCHANGED <<conn, pc, now, reg, made, log>>
  BY <1>0 DEF Serve
<1>4. /\ p.id \in 1..made
      /\ p.step = 1 => performed[p.id] = 0
      /\ p.req.do = "reset" => log[p.id].call.op = "reset"
      /\ \A q \in wire' : q \in wire /\ ~(q.id = p.id /\ q.step = p.step)
  BY <1>3 DEF SessionInv, Posted, Ledger
<1>5. /\ performed \in [CallId -> {0, 1}]
      /\ performed' \in [CallId -> {0, 1}]
      /\ \A j \in CallId : performed'[j] = IF j = p.id /\ p.step = 1 /\ done.end # "refused"
                                           THEN 1 ELSE performed[j]
  BY <1>1, <1>3, <1>4 DEF SessionInv, Ledger
<1>6. /\ \A c : Entered(c)' = Entered(c)
      /\ \A q : Awaited(q)' <=> Awaited(q)
  BY <1>3 DEF Entered, Awaited
<1>7. Awaited(p) => /\ pc[p.by] = "waiting" /\ now[p.by] = p.id /\ Entered(p.by).step = p.step
                    /\ done.end \in {"ok", "refused"}
                    /\ reply'[p.by] = [end |-> done.end, data |-> done.data]
  <2> SUFFICES ASSUME Awaited(p)
               PROVE  /\ pc[p.by] = "waiting" /\ now[p.by] = p.id /\ Entered(p.by).step = p.step
                      /\ done.end \in {"ok", "refused"}
                      /\ reply'[p.by] = [end |-> done.end, data |-> done.data]
    OBVIOUS
  <2>1. pc[p.by] = "waiting" /\ now[p.by] = p.id /\ Entered(p.by).step = p.step
    BY DEF Awaited
  <2>2. Entered(p.by).call.op # "reset"
    BY <1>1, <2>1 DEF SessionInv, Underway
  <2>3. done.end # "silent"
    BY <1>2, <1>4, <2>1, <2>2 DEF Entered
  <2>4. reply'[p.by] = [end |-> done.end, data |-> done.data]
    BY <1>1, <1>3, <2>3 DEF SessionInv, SessionTypeOK
  <2> QED
    BY <1>2, <2>1, <2>3, <2>4
<1>8. \A c \in Client : c # p.by \/ ~Awaited(p) => reply'[c] = reply[c]
  BY <1>3 DEF SessionInv, SessionTypeOK
<1>9. SessionTypeOK'
  <2>1. reply' \in [Client -> [end : {"ok", "refused"}, data : Data] \cup {NoReply}]
    <3>1. reply \in [Client -> [end : {"ok", "refused"}, data : Data] \cup {NoReply}]
      BY DEF SessionInv, SessionTypeOK
    <3> QED
      BY <1>2, <1>3, <3>1
  <2>2. performed' \in [CallId -> Nat]
    BY <1>5
  <2>3. reached' \in [CallId -> BOOLEAN]
    <3>1. reached' = [j \in CallId |->
                        reached[j] \/ (performed'[j] > 0 /\ AsWanted(log[j].call, cpu'))]
      BY DEF Serve
    <3> QED
      BY <3>1, Zenon
  <2>4. ASSUME NEW c \in Client
        PROVE  /\ pc[c] # "waiting" => reply'[c] = NoReply
               /\ pc[c] = "waiting" =>
                     (reply'[c] = NoReply <=> \E q \in wire' : q.by = c /\ Awaited(q))
    <3>1. CASE c = p.by /\ Awaited(p)
      <4>1. reply'[c] # NoReply
        <5>1. reply'[c].end # "none"
          BY <1>2, <1>7, <3>1
        <5> QED
          BY <5>1 DEF NoReply
      <4>2. ~ \E q \in wire' : q.by = c /\ Awaited(q)
        BY <1>4, <3>1 DEF Awaited
      <4> QED
        BY <1>7, <3>1, <4>1, <4>2
    <3>2. CASE ~(c = p.by /\ Awaited(p))
      <4>1. reply'[c] = reply[c]
        BY <1>8, <3>2
      <4>2. \A q : q.by = c /\ Awaited(q) => (q \in wire' <=> q \in wire)
        BY <1>3, <3>2
      <4> QED
        BY <4>1, <4>2 DEF SessionInv, SessionTypeOK
    <3> QED
      BY <3>1, <3>2
  <2>5. \A c \in Client : pc[c] # "idle" =>
           now[c] \in 1..made /\ Entered(c).by = c /\ Entered(c).told = "nothing"
    BY DEF SessionInv, SessionTypeOK
  <2>6. wire' \subseteq Packet
    BY <1>3 DEF SessionInv, SessionTypeOK
  <2>7. cpu' \in CpuState
    BY <1>2, <1>3
  <2>8. /\ conn' \in [Client -> {"up", "down", "closed"}]
        /\ pc' \in [Client -> {"idle", "asking", "waiting"}]
        /\ now' \in [Client -> 0..MaxCalls]
        /\ reg' \in [Client -> Points]
        /\ made' \in 0..MaxCalls
        /\ log' \in [CallId -> Entry \cup {NotMade}]
        /\ \A j \in CallId : log'[j] = NotMade <=> j > made'
    BY <1>3 DEF SessionInv, SessionTypeOK
  <2> QED
    BY <1>3, <1>6, <2>1, <2>2, <2>3, <2>4, <2>5, <2>6, <2>7, <2>8 DEF SessionTypeOK
<1>10. Posted'
  BY <1>3, <1>4 DEF SessionInv, Posted
<1>11. Ledger'
  <2>1. \A j \in CallId : j > made => j # p.id
    BY <1>4, SessionAssumption DEF SessionInv, SessionTypeOK, CallId
  <2>2. \A q \in wire' : q.step = 1 => performed'[q.id] = 0
    <3> SUFFICES ASSUME NEW q \in wire', q.step = 1 PROVE performed'[q.id] = 0
      OBVIOUS
    <3>1. q \in wire /\ q.id \in CallId /\ performed[q.id] = 0
      BY <1>4 DEF SessionInv, SessionTypeOK, Packet, Ledger
    <3> QED
      BY <1>4, <1>5, <3>1
  <2>3. ASSUME NEW j \in 1..made, log[j].step > 1 PROVE performed'[j] = 1
    <3>1. j \in CallId
      BY SessionAssumption DEF CallId, SessionInv, SessionTypeOK
    <3> QED
      BY <1>5, <2>3, <3>1 DEF SessionInv, Ledger
  <2> QED
    BY <1>3, <1>5, <2>1, <2>2, <2>3 DEF SessionInv, Ledger
<1>12. Underway'
  <2> SUFFICES ASSUME NEW c \in Client
               PROVE  /\ pc[c] = "asking" =>
                           /\ \A q \in wire' : q.id = now[c] => q.step < Entered(c).step
                           /\ Entered(c).step = 1 => performed'[now[c]] = 0
                      /\ pc[c] = "waiting" => Entered(c).call.op # "reset"
                      /\ pc[c] = "waiting" /\ Entered(c).step = 1 =>
                           /\ reply'[c].end = "ok" => performed'[now[c]] = 1
                           /\ reply'[c].end = "refused" =>
                                 performed'[now[c]] = 0 /\ ~CommandOnTheWay(now[c])'
    BY <1>3, <1>6 DEF Underway, CommandOnTheWay
  <2>1. pc[c] # "idle" => now[c] \in CallId
    BY CallUnderWay
  <2>2. CommandOnTheWay(now[c])' => CommandOnTheWay(now[c])
    BY <1>3 DEF CommandOnTheWay
  <2>3. CASE pc[c] = "asking"
    <3>1. \A q \in wire : q.id = now[c] => q.step < Entered(c).step
      BY <2>3 DEF SessionInv, Underway
    <3>2. Entered(c).step = 1 => ~(now[c] = p.id /\ p.step = 1)
      BY <3>1
    <3> QED
      BY <1>4, <1>5, <2>1, <2>3, <3>1, <3>2 DEF SessionInv, Underway
  <2>4. CASE pc[c] = "waiting" /\ c = p.by /\ Awaited(p)
    <3>1. /\ now[c] = p.id /\ Entered(c).step = p.step
          /\ done.end \in {"ok", "refused"} /\ reply'[c].end = done.end
      BY <1>7, <2>4
    <3>2. p.step = 1 => ~CommandOnTheWay(now[c])'
      BY <1>3, <1>4, <3>1 DEF CommandOnTheWay
    <3>3. Entered(c).call.op # "reset"
      BY <2>4 DEF SessionInv, Underway
    <3>4. p.step = 1 => performed'[now[c]] = IF done.end = "ok" THEN 1 ELSE 0
      BY <1>1, <1>4, <1>5, <3>1
    <3> QED
      BY <2>4, <3>1, <3>2, <3>3, <3>4
  <2>5. CASE pc[c] = "waiting" /\ ~(c = p.by /\ Awaited(p))
    <3>1. reply'[c] = reply[c]
      BY <1>8, <2>5
    <3>2. CASE Entered(c).step = 1
      <4>1. reply[c].end = "ok" => performed'[now[c]] = 1
        BY <1>5, <2>1, <2>5, <3>2 DEF SessionInv, Underway
      <4>2. reply[c].end = "refused" =>
               performed'[now[c]] = 0 /\ ~CommandOnTheWay(now[c])'
        BY <1>5, <2>1, <2>2, <2>5, <3>2 DEF SessionInv, Underway, CommandOnTheWay
      <4> QED
        BY <2>5, <3>1, <4>1, <4>2 DEF SessionInv, Underway
    <3>3. CASE Entered(c).step # 1
      BY <2>5, <3>3 DEF SessionInv, Underway
    <3> QED
      BY <3>2, <3>3
  <2> QED
    BY <2>3, <2>4, <2>5
<1>13. DoubtIsTold'
  <2> SUFFICES ASSUME NEW j \in 1..made
               PROVE  /\ performed'[j] <= 1
                      /\ Writes(log[j]) /\ log[j].told = "ok" => performed'[j] = 1
                      /\ (/\ Writes(log[j]) /\ log[j].step = 1
                          /\ log[j].told \in {"refused", "failed", "notSent"})
                           => performed'[j] = 0 /\ \A q \in wire' : ~(q.id = j /\ q.step = 1)
    BY <1>3 DEF DoubtIsTold, CommandOnTheWay, Writes
  <2>1. j \in CallId
    BY SessionAssumption DEF CallId, SessionInv, SessionTypeOK
  <2>2. performed'[j] <= 1
    BY <1>5, <2>1
  <2>3. Writes(log[j]) /\ log[j].told = "ok" => performed'[j] = 1
    BY <1>5, <2>1 DEF SessionInv, DoubtIsTold
  <2>4. (/\ Writes(log[j]) /\ log[j].step = 1
         /\ log[j].told \in {"refused", "failed", "notSent"})
          => performed'[j] = 0 /\ \A q \in wire' : ~(q.id = j /\ q.step = 1)
    BY <1>4, <1>5, <2>1 DEF SessionInv, DoubtIsTold, CommandOnTheWay
  <2> QED
    BY <2>2, <2>3, <2>4
<1> QED
  BY <1>9, <1>10, <1>11, <1>12, <1>13 DEF SessionInv

-----------------------------------------------------------------------------
LEMMA NextInv == SessionInv /\ [SessionNext]_sessionVars => SessionInv'
<1> SUFFICES ASSUME SessionInv, [SessionNext]_sessionVars PROVE SessionInv'
  OBVIOUS
<1>1. ASSUME NEW c \in Client, Advance(c) PROVE SessionInv'
  BY <1>1, SendStep, SendResetStep, NotSentStep, FailStep, RefusedStep, AfterWriteStep,
     AfterReadStep, AfterRemoteStep, AfterRegisterStep, AfterMonitorStep, AfterPlainStep
     DEF Advance
<1>2. ASSUME NEW c \in Client, Cancel(c) PROVE SessionInv'
  BY <1>2, CancelStep
<1>3. ASSUME NEW c \in Client, Reconnect(c) PROVE SessionInv'
  <2>1. cpu' \in CpuState /\ conn' \in [Client -> {"up", "down", "closed"}]
    BY <1>3, StayTyped DEF Reconnect, cpuVars, SessionInv, SessionTypeOK
  <2> QED
    BY <1>3, <2>1, QuietStep DEF Reconnect, cpuVars
<1>4. ASSUME NEW c \in Client, NEW call \in Calls, Begin(c, call) PROVE SessionInv'
  BY <1>4, BeginStep
<1>5. ASSUME NEW p \in wire, Serve(p) PROVE SessionInv'
  BY <1>5, ServeStep
<1>6. CASE TurnSwitch
  <2>1. cpu' \in CpuState
    <3>1. cpu \in CpuState
      BY DEF SessionInv, SessionTypeOK
    <3> QED
      BY <1>6, <3>1 DEF TurnSwitch, CpuState
  <2>2. conn' \in [Client -> {"up", "down", "closed"}]
    BY <1>6, StayTyped DEF TurnSwitch, callVars
  <2> QED
    BY <1>6, <2>1, <2>2, QuietStep DEF TurnSwitch, callVars
<1>7. CASE UNCHANGED sessionVars
  <2>1. cpu' \in CpuState /\ conn' \in [Client -> {"up", "down", "closed"}]
    BY <1>7 DEF sessionVars, cpuVars, callVars, SessionInv, SessionTypeOK
  <2> QED
    BY <1>7, <2>1, QuietStep DEF sessionVars, cpuVars, callVars
<1> QED
  BY <1>1, <1>2, <1>3, <1>4, <1>5, <1>6, <1>7 DEF SessionNext

(***************************************************************************)
(* The state of the clients, the wire and the CPU is what SessionTypeOK    *)
(* says: a client that waits has its own request on the way or its own     *)
(* answer, never that of a request it gave up (Plc._run).           *)
(***************************************************************************)
THEOREM SessionTypeCorrect == SessionSpec => []SessionTypeOK
<1>1. SessionInv => SessionTypeOK
  BY DEF SessionInv
<1> QED
  BY InitInv, NextInv, <1>1, PTL DEF SessionSpec

(***************************************************************************)
(* No command is carried out twice, and what a caller is told of one that  *)
(* changes the CPU is never more than is known (Txn._fail).                *)
(***************************************************************************)
THEOREM DoubtIsAlwaysTold == SessionSpec => []DoubtIsTold
<1>1. SessionInv => DoubtIsTold
  BY DEF SessionInv
<1> QED
  BY InitInv, NextInv, <1>1, PTL DEF SessionSpec

-----------------------------------------------------------------------------
(***************************************************************************)
(* What a verified call knows: the answer to the request that asks after   *)
(* its command is evidence that the CPU was as it wanted.                  *)
(***************************************************************************)
Verified(e) == e.call.op \in {"write", "remote"} /\ e.call.verify

\* The request on its way is one of the call it is for.
Asked ==
    \A p \in wire : \E e \in Entry :
        e.call = log[p.id].call /\ e.step = p.step /\ p.req = RequestOf(e)

\* The data says what AfterWrite, or Settled, looks for.
Says(call, data) ==
    \/ call.op = "write" /\ [i \in DOMAIN call.put |-> call.put[i].value] = data
    \/ call.op = "remote" /\ data = <<call.to>>

Evidence ==
    \A c \in Client :
        pc[c] = "waiting" /\ Entered(c).step > 1 /\ reply[c].end = "ok"
            /\ Says(Entered(c).call, reply[c].data) => reached[now[c]]

ReachInv == SessionInv /\ Asked /\ Evidence /\ VerifiedWasReached

LEMMA ReachInit == SessionInit => ReachInv
<1> SUFFICES ASSUME SessionInit PROVE ReachInv
  OBVIOUS
<1>1. SessionInv
  BY InitInv
<1>2. Asked /\ Evidence
  BY DEF SessionInit, Asked, Evidence
<1>3. VerifiedWasReached
  BY DEF SessionInit, VerifiedWasReached
<1> QED
  BY <1>1, <1>2, <1>3 DEF ReachInv

\* A step of a client, which leaves what was reached as it is.
Goes(c, new, where) ==
    /\ pc[c] # "idle"
    /\ new.call = Entered(c).call
    /\ new.told = "ok" /\ Verified(new) => reached[now[c]]
    /\ log' = [log EXCEPT ![now[c]] = new]
    /\ pc' = [pc EXCEPT ![c] = where]
    /\ reply' = [reply EXCEPT ![c] = NoReply]
    /\ UNCHANGED wire \/ Post(c)
    /\ UNCHANGED <<reached, now, made>>

LEMMA GoesStep ==
    ASSUME ReachInv, SessionInv', NEW c \in Client, NEW new, NEW where, Goes(c, new, where)
    PROVE  ReachInv'
<1>1. /\ now[c] \in 1..made /\ now[c] \in CallId /\ Entered(c) \in Entry
      /\ \A d \in Client : pc[d] # "idle" /\ d # c => now[d] # now[c]
  BY CallUnderWay DEF Goes, ReachInv
<1>2. /\ log \in [CallId -> Entry \cup {NotMade}]
      /\ pc \in [Client -> {"idle", "asking", "waiting"}]
      /\ reply \in [Client -> [end : {"ok", "refused"}, data : Data] \cup {NoReply}]
      /\ wire \subseteq Packet /\ \A j \in 1..made : j \in CallId
  BY SessionAssumption DEF ReachInv, SessionInv, SessionTypeOK, CallId
<1>3. /\ log'[now[c]] = new /\ \A j \in CallId : j # now[c] => log'[j] = log[j]
      /\ \A j \in CallId : log'[j].call = log[j].call
  BY <1>1, <1>2 DEF Goes, Entered
<1>4. reply'[c] = NoReply /\ \A d \in Client : d # c => reply'[d] = reply[d] /\ pc'[d] = pc[d]
  BY <1>2 DEF Goes
<1>5. Asked'
  <2> SUFFICES ASSUME NEW p \in wire'
               PROVE  \E e \in Entry :
                        e.call = log'[p.id].call /\ e.step = p.step /\ p.req = RequestOf(e)
    BY DEF Asked, RequestOf, Chunk
  <2>1. CASE p \in wire
    <3>1. p.id \in CallId
      BY <1>2, <2>1 DEF Packet
    <3> QED
      BY <1>3, <2>1, <3>1 DEF ReachInv, Asked
  <2>2. CASE p \notin wire
    <3>1. p = [id |-> now[c], step |-> Entered(c).step, by |-> c, req |-> RequestOf(Entered(c))]
      BY <2>2 DEF Goes, Post
    <3>2. p.id = now[c] /\ p.step = Entered(c).step /\ p.req = RequestOf(Entered(c))
      BY <3>1
    <3> QED
      BY <1>1, <1>3, <3>2 DEF Entered
  <2> QED
    BY <2>1, <2>2
<1>6. Evidence'
  <2> SUFFICES ASSUME NEW d \in Client, (pc[d] = "waiting")', (Entered(d).step > 1)',
                      reply'[d].end = "ok", Says(Entered(d).call, reply[d].data)'
               PROVE  reached'[now'[d]]
    BY DEF Evidence
  <2>1. d # c
    BY <1>4 DEF NoReply
  <2>2. pc[d] = "waiting" /\ reply'[d] = reply[d] /\ now'[d] = now[d] /\ reached' = reached
    BY <1>4, <2>1 DEF Goes
  <2>3. now[d] \in CallId /\ now[d] # now[c]
    BY <1>1, <2>1, <2>2, CallUnderWay DEF ReachInv
  <2>4. Entered(d)' = Entered(d)
    BY <1>3, <2>2, <2>3 DEF Entered
  <2>5. Says(Entered(d).call, reply[d].data)
    BY <2>2, <2>4 DEF Says
  <2> QED
    BY <2>2, <2>4, <2>5 DEF ReachInv, Evidence
<1>7. VerifiedWasReached'
  <2> SUFFICES ASSUME NEW j \in 1..made, log'[j].told = "ok",
                      log'[j].call.op \in {"write", "remote"}, log'[j].call.verify
               PROVE  reached[j]
    BY DEF Goes, VerifiedWasReached
  <2>1. CASE j = now[c]
    BY <1>3, <2>1 DEF Goes, Verified
  <2>2. CASE j # now[c]
    BY <1>2, <1>3, <2>2 DEF ReachInv, VerifiedWasReached
  <2> QED
    BY <2>1, <2>2
<1> QED
  BY <1>5, <1>6, <1>7 DEF ReachInv

\* A call that returns, with the evidence for it, or raises.
LEMMA TellReaches ==
    ASSUME ReachInv, SessionInv', NEW c \in Client, NEW told, pc[c] # "idle", Tell(c, told),
           told = "ok" /\ Verified(Entered(c)) => reached[now[c]],
           UNCHANGED wire \/ Post(c), reached' = reached
    PROVE  ReachInv'
<1> DEFINE new == [Entered(c) EXCEPT !.told = told]
<1>1. Entered(c) \in Entry
  BY CallUnderWay DEF ReachInv
<1>2. new.call = Entered(c).call /\ new.told = told
  BY <1>1 DEF Entry
<1>3. log' = [log EXCEPT ![now[c]] = new]
  BY DEF Tell, Entered
<1>4. Verified(new) <=> Verified(Entered(c))
  BY <1>2 DEF Verified
<1> HIDE DEF new
<1>5. Goes(c, new, "idle")
  BY <1>2, <1>3, <1>4 DEF Goes, Tell
<1> QED
  BY <1>5, GoesStep

LEMMA ContinueReaches ==
    ASSUME ReachInv, SessionInv', NEW c \in Client, pc[c] # "idle", Continue(c),
           UNCHANGED cpuVars
    PROVE  ReachInv'
<1> DEFINE new == [Entered(c) EXCEPT !.step = @ + 1]
<1>1. Entered(c) \in Entry /\ Entered(c).told = "nothing"
  BY CallUnderWay DEF ReachInv
<1>2. new.call = Entered(c).call /\ new.told = "nothing"
  BY <1>1 DEF Entry
<1>3. log' = [log EXCEPT ![now[c]] = new]
  BY DEF Continue, Entered
<1> HIDE DEF new
<1>4. Goes(c, new, "asking")
  BY <1>2, <1>3 DEF Goes, Continue, cpuVars
<1> QED
  BY <1>4, GoesStep

\* A verified call goes on after its command, and returns on evidence only.
LEMMA VerifiedReturns ==
    ASSUME ReachInv, SessionInv', NEW c \in Client, AfterWrite(c) \/ AfterRemote(c)
    PROVE  ReachInv'
<1>1. /\ pc[c] = "waiting" /\ reply[c].end = "ok" /\ UNCHANGED cpuVars
      /\ \/ Continue(c) \/ Tell(c, "mismatch")
         \/ /\ Tell(c, "ok")
            /\ Verified(Entered(c)) =>
                  Entered(c).step > 1 /\ Says(Entered(c).call, reply[c].data)
  BY DEF AfterWrite, AfterRemote, Answered, Settled, Says, Verified
<1>2. Verified(Entered(c)) /\ Entered(c).step > 1 /\ Says(Entered(c).call, reply[c].data)
        => reached[now[c]]
  BY <1>1 DEF ReachInv, Evidence
<1> QED
  BY <1>1, <1>2, TellReaches, ContinueReaches DEF cpuVars

LEMMA ReplyParts ==
    ASSUME NEW c, NEW data
    PROVE  Reply(c, data).cpu = c /\ Reply(c, data).data = data
BY DEF Reply

\* What an answer that says so shows of the CPU that gave it.
LEMMA AnswerShows ==
    ASSUME NEW c \in CpuState, NEW e \in Entry, e.step > 1,
           Handle(c, RequestOf(e)).end = "ok",
           Says(e.call, Handle(c, RequestOf(e)).data)
    PROVE  AsWanted(e.call, Handle(c, RequestOf(e)).cpu)
<1> DEFINE r == RequestOf(e)
           now1 == Publish(c)
<1>1. e.call \in Calls /\ e.step # 1
  BY DEF Entry
<1>2. now1 \in CpuState
  BY DEF CpuState, Publish, Effective, RunState
<1>3. Refuse(now1).end = "refused"
  BY DEF Refuse
<1>4. Admitted(now1, r) /\ Handle(c, r) = Handler(now1, r)
  BY <1>3 DEF Handle
<1>5. CASE e.call.op = "write"
  <2> DEFINE points == [i \in DOMAIN e.call.put |-> e.call.put[i].device]
             data == [i \in DOMAIN points |-> now1.words[points[i]]]
  <2>1. r = [do |-> "read", of |-> points]
    BY <1>1, <1>5 DEF RequestOf
  <2>2. Handle(c, r) = HandleRead(now1, points)
    BY <1>4, <2>1 DEF Handler
  <2>3. /\ \A i \in DOMAIN points : points[i] \notin Absent
        /\ Handle(c, r) = Reply(now1, data)
    BY <1>3, <2>2 DEF HandleRead
  <2>4. Handle(c, r).cpu = now1 /\ Handle(c, r).data = data
    <3>1. Handle(c, r) = Reply(now1, data)
      BY <2>3
    <3> HIDE DEF r, now1, data
    <3> QED
      BY <3>1, ReplyParts
  <2>5. [i \in DOMAIN e.call.put |-> e.call.put[i].value] = data
    BY <1>5, <2>4 DEF Says
  <2>6. e.call.put \in Puts
    BY <1>1, <1>5, CallTyped
  <2>7. ASSUME NEW i \in DOMAIN e.call.put
        PROVE  /\ e.call.put[i].device \in DOMAIN now1.words
               /\ now1.words[e.call.put[i].device] = e.call.put[i].value
    <3>1. e.call.put[i].device \in Device
      <4>1. i \in 1 .. Len(e.call.put)
        BY <2>6, LenProperties DEF Puts
      <4>2. e.call.put[i] \in [device : Device, value : Value]
        BY <2>6, <4>1, ElementOfSeq DEF Puts
      <4> QED
        BY <4>2
    <3>2. e.call.put[i].device \notin Absent
      BY <2>3
    <3>3. DOMAIN now1.words = Device \ Absent
      BY <1>2 DEF CpuState
    <3>4. data[i] = now1.words[e.call.put[i].device]
      OBVIOUS
    <3>5. data[i] = e.call.put[i].value
      BY <2>5
    <3> QED
      BY <3>1, <3>2, <3>3, <3>4, <3>5
  <2> QED
    BY <1>5, <2>4, <2>7 DEF AsWanted
<1>6. CASE e.call.op = "remote"
  <2>1. r = [do |-> "status"]
    BY <1>1, <1>6 DEF RequestOf
  <2>2. Handle(c, r) = Reply(now1, <<now1.sd203>>)
    BY <1>4, <2>1 DEF Handler
  <2>3. Handle(c, r).cpu = now1 /\ Handle(c, r).data = <<now1.sd203>>
    BY <2>2 DEF Reply
  <2>4. now1.sd203 = e.call.to
    BY <1>6, <2>3 DEF Says
  <2> QED
    BY <1>6, <2>3, <2>4 DEF AsWanted
<1> QED
  BY <1>5, <1>6 DEF Says

LEMMA ServeReaches ==
    ASSUME ReachInv, SessionInv', NEW p \in wire, Serve(p)
    PROVE  ReachInv'
<1> DEFINE done == Handle(cpu, p.req)
<1>1. /\ cpu' = done.cpu /\ wire' = wire \ {p}
      /\ reply' = IF Awaited(p) /\ done.end # "silent"
                  THEN [reply EXCEPT ![p.by] = [end |-> done.end, data |-> done.data]]
                  ELSE reply
      /\ reached' = [j \in CallId |->
                       reached[j] \/ (performed'[j] > 0 /\ AsWanted(log[j].call, cpu'))]
      /\ UNCHANGED <<pc, now, made, log>>
  BY DEF Serve
<1>2. /\ p.id \in CallId /\ p.by \in Client /\ cpu \in CpuState
      /\ \A j \in 1..made : j \in CallId
      /\ reply \in [Client -> [end : {"ok", "refused"}, data : Data] \cup {NoReply}]
  BY SessionAssumption DEF ReachInv, SessionInv, SessionTypeOK, Packet, CallId
<1>3. /\ \A j \in CallId : reached[j] => reached'[j]
      /\ \A j \in CallId : performed'[j] > 0 /\ AsWanted(log[j].call, cpu') => reached'[j]
  BY <1>1, Zenon
<1> HIDE DEF done
<1>4. Asked'
  BY <1>1 DEF ReachInv, Asked, RequestOf, Chunk
<1>5. VerifiedWasReached'
  BY <1>1, <1>2, <1>3 DEF ReachInv, VerifiedWasReached
<1>6. Evidence'
  <2> SUFFICES ASSUME NEW c \in Client, pc[c] = "waiting", Entered(c).step > 1,
                      reply'[c].end = "ok", Says(Entered(c).call, reply'[c].data)
               PROVE  reached'[now[c]]
    BY <1>1 DEF Evidence, Entered, Says
  <2>1. now[c] \in CallId /\ now[c] \in 1..made /\ Entered(c) = log[now[c]]
    BY CallUnderWay DEF ReachInv, Entered
  <2>2. CASE reply'[c] = reply[c]
    BY <1>3, <2>1, <2>2 DEF ReachInv, Evidence
  <2>3. CASE reply'[c] # reply[c]
    <3>1. /\ c = p.by /\ Awaited(p)
          /\ reply'[c] = [end |-> done.end, data |-> done.data]
      BY <1>1, <1>2, <2>3
    <3>2. now[c] = p.id /\ Entered(c).step = p.step
      BY <3>1 DEF Awaited
    <3>3. PICK e \in Entry : e.call = log[p.id].call /\ e.step = p.step /\ p.req = RequestOf(e)
      BY DEF ReachInv, Asked
    <3>4. done.end = "ok" /\ Says(e.call, done.data) /\ e.step > 1
      BY <2>1, <3>1, <3>2, <3>3
    <3>5. AsWanted(log[p.id].call, cpu')
      BY <1>1, <1>2, <3>3, <3>4, AnswerShows DEF done
    <3>6. performed'[p.id] = 1
      BY <1>1, <2>1, <3>2 DEF SessionInv, Ledger
    <3> QED
      BY <1>2, <1>3, <3>2, <3>5, <3>6
  <2> QED
    BY <2>2, <2>3
<1> QED
  BY <1>4, <1>5, <1>6 DEF ReachInv

LEMMA BeginReaches ==
    ASSUME ReachInv, SessionInv', NEW c \in Client, NEW call \in Calls, Begin(c, call)
    PROVE  ReachInv'
<1>1. /\ made < MaxCalls /\ made' = made + 1
      /\ now' = [now EXCEPT ![c] = made + 1] /\ pc' = [pc EXCEPT ![c] = "asking"]
      /\ log' = [log EXCEPT ![made + 1] =
                   [by |-> c, call |-> call, step |-> 1, told |-> "nothing", got |-> <<>>]]
      /\ UNCHANGED <<wire, reached, reply>>
  BY DEF Begin, cpuVars
<1>2. /\ made \in Nat /\ MaxCalls \in Nat /\ made + 1 \in CallId /\ made + 1 \notin 1..made
      /\ 1..(made + 1) = 1..made \cup {made + 1} /\ \A j \in 1..made : j \in CallId
  BY <1>1, SessionAssumption DEF ReachInv, SessionInv, SessionTypeOK, CallId
<1>3. /\ \A j \in 1..made : log'[j] = log[j]
      /\ log'[made + 1].told = "nothing"
      /\ \A d \in Client : pc'[d] = "waiting" => d # c /\ pc[d] = "waiting" /\ now'[d] = now[d]
  BY <1>1, <1>2 DEF ReachInv, SessionInv, SessionTypeOK
<1>4. Asked'
  <2> SUFFICES ASSUME NEW p \in wire
               PROVE  \E e \in Entry :
                        e.call = log'[p.id].call /\ e.step = p.step /\ p.req = RequestOf(e)
    BY <1>1 DEF Asked, RequestOf, Chunk
  <2>1. log'[p.id] = log[p.id]
    BY <1>3 DEF ReachInv, SessionInv, Posted
  <2> QED
    BY <2>1 DEF ReachInv, Asked
<1>5. VerifiedWasReached'
  <2> SUFFICES ASSUME NEW j \in 1..made', log'[j].told = "ok",
                      log'[j].call.op \in {"write", "remote"}, log'[j].call.verify
               PROVE  reached'[j]
    BY DEF VerifiedWasReached
  <2>1. j \in 1..made
    <3>1. j \in 1..made \cup {made + 1}
      BY <1>1, <1>2
    <3>2. j # made + 1
      BY <1>3
    <3> QED
      BY <3>1, <3>2
  <2> QED
    BY <1>1, <1>3, <2>1 DEF ReachInv, VerifiedWasReached
<1>6. Evidence'
  <2> SUFFICES ASSUME NEW d \in Client, (pc[d] = "waiting")', (Entered(d).step > 1)',
                      reply'[d].end = "ok", Says(Entered(d).call, reply[d].data)'
               PROVE  reached'[now'[d]]
    BY DEF Evidence
  <2>1. pc[d] = "waiting" /\ now'[d] = now[d] /\ now[d] \in 1..made
    BY <1>3, CallUnderWay DEF ReachInv
  <2>2. Entered(d)' = Entered(d) /\ reply' = reply /\ reached' = reached
    BY <1>1, <1>3, <2>1 DEF Entered
  <2>3. Says(Entered(d).call, reply[d].data)
    BY <2>2 DEF Says
  <2> QED
    BY <2>1, <2>2, <2>3 DEF ReachInv, Evidence
<1> QED
  BY <1>4, <1>5, <1>6 DEF ReachInv

LEMMA ReachStep == ReachInv /\ [SessionNext]_sessionVars => ReachInv'
<1> SUFFICES ASSUME ReachInv, [SessionNext]_sessionVars PROVE ReachInv'
  OBVIOUS
<1>1. SessionInv'
  BY NextInv DEF ReachInv
<1>2. ASSUME NEW c \in Client, Advance(c) \/ Cancel(c) PROVE ReachInv'
  <2>1. CASE Send(c)
    <3>1. /\ pc[c] = "asking" /\ Post(c) /\ pc' = [pc EXCEPT ![c] = "waiting"]
          /\ UNCHANGED <<reached, now, reply, made, log>>
      BY <2>1 DEF Send
    <3>2. /\ Entered(c).told = "nothing" /\ now[c] \in CallId
          /\ log \in [CallId -> Entry \cup {NotMade}] /\ reply[c] = NoReply
          /\ reply \in [Client -> [end : {"ok", "refused"}, data : Data] \cup {NoReply}]
      BY <3>1, CallUnderWay DEF ReachInv, SessionInv, SessionTypeOK
    <3>3. log' = [log EXCEPT ![now[c]] = Entered(c)] /\ reply' = [reply EXCEPT ![c] = NoReply]
      BY <3>1, <3>2 DEF Entered
    <3>4. Goes(c, Entered(c), "waiting")
      BY <3>1, <3>2, <3>3 DEF Goes
    <3> QED
      BY <1>1, <3>4, GoesStep
  <2>2. CASE SendReset(c)
    BY <1>1, <2>2, TellReaches DEF SendReset
  <2>3. CASE NotSent(c) \/ Fail(c) \/ Refused(c) \/ Cancel(c)
    <3>1. PICK told \in {"reset", "notSent", "unknown", "failed", "refused", "cancelled"} :
            pc[c] # "idle" /\ Tell(c, told) /\ UNCHANGED cpuVars
      BY <2>3 DEF NotSent, Fail, Doubt, Refused, Cancel
    <3> QED
      BY <1>1, <3>1, TellReaches DEF cpuVars
  <2>4. CASE AfterWrite(c) \/ AfterRemote(c)
    BY <1>1, <2>4, VerifiedReturns
  <2>5. CASE AfterRegister(c) \/ AfterPlain(c)
    <3>1. /\ pc[c] # "idle" /\ Tell(c, "ok") /\ UNCHANGED cpuVars
          /\ Entered(c).call.op \notin {"write", "remote"}
      BY <2>5 DEF AfterRegister, AfterPlain, Answered
    <3> QED
      BY <1>1, <3>1, TellReaches DEF cpuVars, Verified
  <2>6. CASE AfterRead(c) \/ AfterMonitor(c)
    <3>1. PICK new, where :
            /\ pc[c] # "idle" /\ new.call = Entered(c).call
            /\ Entered(c).call.op \notin {"write", "remote"}
            /\ log' = [log EXCEPT ![now[c]] = new] /\ pc' = [pc EXCEPT ![c] = where]
            /\ reply' = [reply EXCEPT ![c] = NoReply]
            /\ UNCHANGED <<cpuVars, now, made>>
      <4>1. pc[c] # "idle"
        BY <2>6 DEF AfterRead, AfterMonitor, Answered
      <4>2. Entered(c) \in Entry
        BY <4>1, CallUnderWay DEF ReachInv
      <4>3. CASE AfterRead(c)
        <5> DEFINE e == Entered(c)
                   got == e.got \o reply[c].data
                   complete == Len(got) = Len(e.call.of)
                   new == [e EXCEPT !.got = got,
                                    !.told = IF complete THEN "ok" ELSE e.told,
                                    !.step = IF complete THEN e.step ELSE e.step + 1]
                   where == IF complete THEN "idle" ELSE "asking"
        <5>1. /\ e.call.op = "read"
              /\ log' = [log EXCEPT ![now[c]] = new] /\ pc' = [pc EXCEPT ![c] = where]
              /\ reply' = [reply EXCEPT ![c] = NoReply]
              /\ UNCHANGED <<cpuVars, now, made>>
          BY <4>3 DEF AfterRead, Answered
        <5>2. new.call = e.call
          BY <4>2 DEF Entry
        <5> HIDE DEF new, where
        <5> QED
          BY <4>1, <5>1, <5>2
      <4>4. CASE AfterMonitor(c)
        <5> DEFINE e == Entered(c)
                   fits == Len(reply[c].data) = Len(reg[c])
                   new == [e EXCEPT !.got = IF fits THEN reply[c].data ELSE e.got,
                                    !.told = IF fits THEN "ok" ELSE "mismatch"]
        <5>1. /\ e.call.op = "monitor"
              /\ log' = [log EXCEPT ![now[c]] = new] /\ pc' = [pc EXCEPT ![c] = "idle"]
              /\ reply' = [reply EXCEPT ![c] = NoReply]
              /\ UNCHANGED <<cpuVars, now, made>>
          BY <4>4 DEF AfterMonitor, Answered
        <5>2. new.call = e.call
          BY <4>2 DEF Entry
        <5> HIDE DEF new
        <5> QED
          BY <4>1, <5>1, <5>2
      <4> QED
        BY <2>6, <4>3, <4>4
    <3>2. Goes(c, new, where)
      BY <3>1 DEF Goes, Verified, cpuVars
    <3> QED
      BY <1>1, <3>2, GoesStep
  <2> QED
    BY <1>2, <2>1, <2>2, <2>3, <2>4, <2>5, <2>6 DEF Advance
<1>3. ASSUME UNCHANGED <<wire, reached, pc, now, reply, made, log>> PROVE ReachInv'
  <2>1. Asked'
    BY <1>3 DEF ReachInv, Asked, RequestOf, Chunk
  <2>2. Evidence'
    BY <1>3 DEF ReachInv, Evidence, Entered, Says
  <2>3. VerifiedWasReached'
    BY <1>3 DEF ReachInv, VerifiedWasReached
  <2> QED
    BY <1>1, <2>1, <2>2, <2>3 DEF ReachInv
<1>4. ASSUME NEW c \in Client, Reconnect(c) PROVE ReachInv'
  BY <1>3, <1>4 DEF Reconnect, cpuVars
<1>5. ASSUME NEW c \in Client, NEW call \in Calls, Begin(c, call) PROVE ReachInv'
  BY <1>1, <1>5, BeginReaches
<1>6. ASSUME NEW p \in wire, Serve(p) PROVE ReachInv'
  BY <1>1, <1>6, ServeReaches
<1>7. CASE TurnSwitch \/ UNCHANGED sessionVars
  BY <1>3, <1>7 DEF TurnSwitch, sessionVars, cpuVars, callVars
<1> QED
  BY <1>2, <1>4, <1>5, <1>6, <1>7 DEF SessionNext

(***************************************************************************)
(* A verified call that returned was reached, whatever the key switch and  *)
(* the other clients did (RemoteControl._apply, Plc._check).               *)
(***************************************************************************)
THEOREM VerifiedIsAlwaysReached == SessionSpec => []VerifiedWasReached
<1>1. ReachInv => VerifiedWasReached
  BY DEF ReachInv
<1> QED
  BY ReachInit, ReachStep, <1>1, PTL DEF SessionSpec

-----------------------------------------------------------------------------
(***************************************************************************)
(* Registers that are written together.                                    *)
(***************************************************************************)
LEMMA Least ==
    ASSUME NEW T, T \subseteq Nat, T # {}
    PROVE  \E x \in T : \A y \in T : x <= y
<1> DEFINE R == {ss \in Nat \X Nat : ss[1] < ss[2]}
<1>1. IsWellFoundedOn(R, Nat)
  BY NatLessThanWellFounded DEF OpToRel
<1>2. PICK x \in T : \A y \in T : ~(<<y, x>> \in R)
  BY <1>1, WFMin
<1>3. ASSUME NEW y \in T PROVE x <= y
  <2>1. ~(y < x)
    BY <1>2
  <2> QED
    BY <2>1
<1> QED
  BY <1>3

LEMMA Greatest ==
    ASSUME NEW T, NEW n \in Nat, T \subseteq 1 .. n, T # {}
    PROVE  \E x \in T : \A y \in T : y <= x
<1> DEFINE U == {n - y : y \in T}
<1>1. \A y \in T : n - y \in Nat
  OBVIOUS
<1>2. U \subseteq Nat /\ U # {}
  BY <1>1
<1> HIDE DEF U
<1>3. PICK u \in U : \A v \in U : u <= v
  BY <1>2, Least
<1>4. PICK x \in T : u = n - x
  BY DEF U
<1>5. ASSUME NEW y \in T PROVE y <= x
  <2>1. n - x <= n - y
    BY <1>3, <1>4 DEF U
  <2> QED
    BY <2>1
<1> QED
  BY <1>5

\* A write that goes through leaves the last of its values in a register.
LEMMA WriteLeaves ==
    ASSUME NEW put \in Puts, NEW words, NEW d \in DOMAIN words, NEW v,
           \A i \in DOMAIN put : put[i].device \notin Absent,
           \E i \in DOMAIN put : put[i].device = d,
           \A i \in DOMAIN put : put[i].device = d => put[i].value = v
    PROVE  Written(words, put)[d] = v
<1> DEFINE Here == {j \in DOMAIN put : put[j].device = d}
<1>1. Len(put) \in Nat /\ DOMAIN put = 1 .. Len(put)
  BY LenProperties DEF Puts
<1>2. Stored(put) = DOMAIN put
  BY <1>1 DEF Stored
<1>3. Here \subseteq 1 .. Len(put) /\ Here # {}
  BY <1>1
<1>4. PICK x \in Here : \A y \in Here : y <= x
  BY <1>1, <1>3, Greatest
<1>5. x \in LastAt(put, d)
  BY <1>2, <1>4 DEF LastAt
<1>6. \A i \in LastAt(put, d) : put[i].value = v
  BY <1>2 DEF LastAt
<1> QED
  BY <1>5, <1>6 DEF Written

LEMMA WriteSpares ==
    ASSUME NEW put, NEW words, NEW d \in DOMAIN words,
           \A i \in DOMAIN put : put[i].device # d
    PROVE  Written(words, put)[d] = words[d]
<1>1. LastAt(put, d) = {}
  BY DEF LastAt, Stored
<1> QED
  BY <1>1 DEF Written

SameTwins(c) == \E v : \A d \in Twin : c.words[d] = v

LEMMA OnlyWritesWrite ==
    ASSUME NEW c \in CpuState, NEW r \in Request, r.do # "write"
    PROVE  Handle(c, r).cpu.words = c.words
<1> DEFINE p == Publish(c)
<1>1. p \in CpuState /\ p.words = c.words
  BY EffectiveTyped DEF Publish, CpuState
<1> HIDE DEF p
<1>2. /\ \A data : Reply(p, data).cpu = p
      /\ Refuse(p).cpu = p /\ Silence(p).cpu = p
  BY DEF Reply, Refuse, Silence
<1>3. \A points : HandleRead(p, points).cpu = p
  BY <1>2 DEF HandleRead
<1>4. ASSUME Admitted(p, r) PROVE Handler(p, r).cpu.words = p.words
  <2>1. CASE r.do = "read"
    BY <1>3, <2>1 DEF Handler
  <2>2. CASE r.do = "status"
    BY <1>2, <2>2 DEF Handler
  <2>3. CASE r.do = "remote"
    <3> DEFINE q == IF p.lies THEN p ELSE Publish([p EXCEPT !.request = r.to])
    <3>1. q.words = p.words
      BY <1>1 DEF Publish, CpuState
    <3>2. Handler(p, r) = Reply(q, <<>>)
      BY <2>3 DEF Handler, HandleRemote
    <3> HIDE DEF q
    <3> QED
      BY <3>1, <3>2, ReplyParts
  <2>4. CASE r.do = "register"
    <3> DEFINE q == [p EXCEPT !.monitor = r.of]
    <3>1. q.words = p.words
      BY <1>1 DEF CpuState
    <3>2. Handler(p, r) = Refuse(p) \/ Handler(p, r) = Reply(q, <<>>)
      BY <2>4 DEF Handler, HandleRegister
    <3> HIDE DEF q
    <3> QED
      BY <1>2, <3>1, <3>2, ReplyParts
  <2>5. CASE r.do = "monitor"
    BY <1>2, <1>3, <2>5 DEF Handler, HandleMonitor
  <2>6. CASE r.do = "latch"
    BY <1>2, <2>6 DEF Handler, HandleLatchClear
  <2>7. CASE r.do = "reset"
    BY <1>2, <2>7 DEF Handler
  <2>8. CASE r.do \in {"test", "clear"}
    BY <1>2, <2>8 DEF Handler
  <2>9. CASE r.do \in {"lock", "unlock"}
    <3> DEFINE q == [p EXCEPT !.locked = (r.do = "lock")]
    <3>1. q.words = p.words
      BY <1>1 DEF CpuState
    <3>2. Handler(p, r) = Refuse(p) \/ Handler(p, r) = Reply(q, <<>>)
      BY <2>9 DEF Handler, HandlePassword
    <3> HIDE DEF q
    <3> QED
      BY <1>2, <3>1, <3>2, ReplyParts
  <2> QED
    BY <2>1, <2>2, <2>3, <2>4, <2>5, <2>6, <2>7, <2>8, <2>9 DEF Request
<1> QED
  BY <1>1, <1>2, <1>4 DEF Handle, p

LEMMA TwinsStaySame ==
    ASSUME NEW c \in CpuState, NEW e \in Entry, SameTwins(c)
    PROVE  SameTwins(Handle(c, RequestOf(e)).cpu)
<1> DEFINE r == RequestOf(e)
           p == Publish(c)
<1>1. r \in Request
  BY RequestTyped
<1>2. CASE r.do # "write"
  <2>1. Handle(c, r).cpu.words = c.words
    BY <1>1, <1>2, OnlyWritesWrite
  <2> QED
    BY <2>1 DEF SameTwins
<1>3. CASE r.do = "write"
  <2> DEFINE put == e.call.put
  <2>1. e.call \in Calls /\ e.call.op = "write" /\ r.put = put /\ put \in Puts
    <3>1. e.call \in Calls
      BY DEF Entry
    <3>2. e.call.op = "write" /\ e.step = 1
      <4>1. e.call.op = "write" /\ ~(e.step = 1) => r.do = "read"
        <5>1. e.step \in Nat \ {0}
          BY DEF Entry
        <5>2. e.call.op = "write" /\ ~(e.step = 1) =>
                r = [do |-> "read", of |-> [i \in DOMAIN e.call.put |-> e.call.put[i].device]]
          BY <5>1 DEF RequestOf
        <5> QED
          BY <5>2
      <4>2. e.call.op = "read" => r.do = "read"
        BY DEF RequestOf
      <4>3. e.call.op = "remote" => r.do \in {"remote", "status"}
        <5>1. e.step = 1 \/ e.step > 1
          BY DEF Entry
        <5>2. e.call.op = "remote" /\ e.step = 1 => r = [do |-> "remote", to |-> e.call.to]
          BY DEF RequestOf
        <5>3. e.call.op = "remote" /\ e.step > 1 => r = [do |-> "status"]
          BY DEF RequestOf
        <5> QED
          BY <5>1, <5>2, <5>3
      <4>4. e.call.op = "register" => r.do = "register"
        BY DEF RequestOf
      <4>5. e.call.op \in {"lock", "unlock"} => r.do = e.call.op
        BY DEF RequestOf
      <4>6. e.call.op \in {"monitor", "latch", "reset", "test", "clear"} => r.do = e.call.op
        BY DEF RequestOf
      <4> QED
        BY <1>3, <3>1, <4>1, <4>2, <4>3, <4>4, <4>5, <4>6, CallTyped
    <3>3. r = [do |-> "write", put |-> put]
      BY <3>2 DEF RequestOf
    <3> QED
      BY <3>1, <3>2, <3>3, CallTyped
  <2>2. p \in CpuState /\ p.words = c.words /\ DOMAIN p.words = Device \ Absent
    BY EffectiveTyped DEF Publish, CpuState
  <2> HIDE DEF p, r
  <2>3. Refuse(p).cpu = p
    BY DEF Refuse
  <2>4. CASE ~Admitted(p, r)
    <3>1. Handle(c, r).cpu = p
      BY <2>3, <2>4 DEF Handle, p
    <3> QED
      BY <2>2, <3>1 DEF SameTwins, r
  <2>5. CASE Admitted(p, r)
    <3> DEFINE after == [p EXCEPT !.words = Written(p.words, put)]
    <3>1. Handle(c, r) = HandleWrite(p, put)
      BY <1>3, <2>1, <2>5 DEF Handle, Handler, p
    <3>2. HandleWrite(p, put).cpu = after
      BY DEF HandleWrite, Reply, Refuse
    <3>3. after.words = Written(p.words, put)
      BY <2>2 DEF CpuState
    <3>4. Handle(c, r).cpu.words = Written(p.words, put)
      BY <3>1, <3>2, <3>3
    <3>5. Twin \subseteq DOMAIN p.words
      BY <2>2, SessionAssumption
    <3>6. CASE \A i \in DOMAIN put : put[i].device \notin Twin
      <4>1. \A d \in Twin : Written(p.words, put)[d] = p.words[d]
        BY <3>5, <3>6, WriteSpares
      <4> QED
        BY <2>2, <3>4, <4>1 DEF SameTwins, r
    <3>7. CASE /\ \A i \in DOMAIN put : put[i].device \notin Absent
               /\ \E v \in Value : \A d \in Twin : ValuesAt(e.call, d) = {v}
      <4>1. PICK v \in Value : \A d \in Twin : ValuesAt(e.call, d) = {v}
        BY <3>7
      <4>2. \A d \in Twin : Written(p.words, put)[d] = v
        <5> SUFFICES ASSUME NEW d \in Twin PROVE Written(p.words, put)[d] = v
          OBVIOUS
        <5>1. ValuesAt(e.call, d) = {v}
          BY <4>1
        <5>2. /\ \E i \in DOMAIN put : put[i].device = d
              /\ \A i \in DOMAIN put : put[i].device = d => put[i].value = v
          BY <5>1 DEF ValuesAt
        <5>3. put \in Puts /\ \A i \in DOMAIN put : put[i].device \notin Absent
          BY <2>1, <3>7
        <5>4. d \in DOMAIN p.words
          BY <3>5
        <5> HIDE DEF put, after
        <5> QED
          BY <5>2, <5>3, <5>4, WriteLeaves
      <4> QED
        BY <3>4, <4>2 DEF SameTwins, r
    <3> QED
      BY <2>1, <3>6, <3>7, TwinAssumption
  <2> QED
    BY <2>4, <2>5
<1> QED
  BY <1>2, <1>3

\* The read fits one request, which is then a snapshot.
Short(call) == call.op = "read" /\ Len(call.of) <= Ceiling

Alike(of, got) ==
    \A j, k \in DOMAIN of : of[j] \in Twin /\ of[k] \in Twin => got[j] = got[k]

LEMMA ShortIsWhole ==
    ASSUME NEW e \in Entry, Short(e.call), e.step = 1
    PROVE  RequestOf(e) = [do |-> "read", of |-> e.call.of]
<1>1. e.call.of \in Seq(Device) /\ Len(e.call.of) \in Nat
  BY CallTyped, LenProperties DEF Short, Entry, Points
<1>2. Ceiling \in Nat
  BY SessionAssumption
<1>3. /\ (e.step - 1) * Ceiling + 1 = 1 /\ e.step * Ceiling = Ceiling
  BY <1>2
<1>4. ~(Ceiling < Len(e.call.of))
  BY <1>1, <1>2 DEF Short
<1>5. Chunk(e) = SubSeq(e.call.of, 1, Len(e.call.of))
  BY <1>3, <1>4, Zenon DEF Chunk
<1> QED
  BY <1>1, <1>5, SubSeqFull DEF RequestOf, Short

LEMMA SnapshotAlike ==
    ASSUME NEW c \in CpuState, SameTwins(c), NEW of \in Points,
           Handle(c, [do |-> "read", of |-> of]).end = "ok"
    PROVE  LET data == Handle(c, [do |-> "read", of |-> of]).data
           IN  Len(data) = Len(of) /\ Alike(of, data)
<1> DEFINE r == [do |-> "read", of |-> of]
           p == Publish(c)
           data == [i \in DOMAIN of |-> p.words[of[i]]]
<1>1. p.words = c.words
  BY DEF Publish, CpuState
<1>2. \A x : Refuse(x).end = "refused"
  BY DEF Refuse
<1>3. Handle(c, r) = HandleRead(p, of)
  BY <1>2 DEF Handle, Handler
<1>4. Handle(c, r) = Reply(p, data)
  BY <1>2, <1>3 DEF HandleRead
<1>5. Handle(c, r).data = data
  <2> HIDE DEF r, p, data
  <2> QED
    BY <1>4, ReplyParts
<1>6. Len(of) \in Nat /\ DOMAIN of = 1 .. Len(of)
  BY LenProperties DEF Points
<1>7. Len(data) = Len(of)
  <2>1. DOMAIN data = 1 .. Len(of)
    BY <1>6
  <2>2. data \in Seq({p.words[of[i]] : i \in DOMAIN of})
    BY <1>6, SeqOver
  <2> HIDE DEF data
  <2> QED
    BY <1>6, <2>1, <2>2, LenProperties
<1>8. Alike(of, data)
  BY <1>1 DEF Alike, SameTwins
<1> QED
  BY <1>5, <1>7, <1>8

\* A short read that is under way has got nothing yet; what has arrived for it is one
\* moment of the CPU.
Snapshots ==
    \A c \in Client :
        /\ pc[c] # "idle" /\ Short(Entered(c).call) =>
              Entered(c).step = 1 /\ Entered(c).got = <<>>
        /\ pc[c] = "waiting" /\ reply[c].end = "ok" /\ Short(Entered(c).call) =>
              /\ Len(reply[c].data) = Len(Entered(c).call.of)
              /\ Alike(Entered(c).call.of, reply[c].data)

TwinInv == ReachInv /\ SameTwins(cpu) /\ Snapshots /\ TwinsReadAlike

LEMMA TwinInit == SessionInit => TwinInv
<1> SUFFICES ASSUME SessionInit PROVE TwinInv
  OBVIOUS
<1>1. SameTwins(cpu)
  <2>1. PICK lies \in BOOLEAN : cpu = NewCpu(lies)
    BY DEF SessionInit
  <2>2. cpu.words = [d \in Device \ Absent |-> Zero]
    BY <2>1 DEF NewCpu
  <2>3. \A d \in Twin : cpu.words[d] = Zero
    BY <2>2, SessionAssumption
  <2> QED
    BY <2>3 DEF SameTwins
<1>2. Snapshots /\ TwinsReadAlike
  BY DEF SessionInit, Snapshots, TwinsReadAlike
<1> QED
  BY <1>1, <1>2, ReachInit DEF TwinInv

\* A step of a client.
Takes(c, new, where) ==
    /\ pc[c] # "idle"
    /\ new.call = Entered(c).call
    /\ Short(new.call) /\ where # "idle" => new.step = 1 /\ new.got = <<>>
    /\ Short(new.call) /\ new.told = "ok" => Alike(new.call.of, new.got)
    /\ log' = [log EXCEPT ![now[c]] = new]
    /\ pc' = [pc EXCEPT ![c] = where]
    /\ reply' = [reply EXCEPT ![c] = NoReply]
    /\ UNCHANGED <<cpu, now, made>>

LEMMA TakesStep ==
    ASSUME TwinInv, ReachInv', NEW c \in Client, NEW new, NEW where, Takes(c, new, where)
    PROVE  TwinInv'
<1>1. /\ now[c] \in 1..made /\ now[c] \in CallId
      /\ \A d \in Client : pc[d] # "idle" /\ d # c => now[d] # now[c]
  BY CallUnderWay DEF Takes, TwinInv, ReachInv
<1>2. /\ log \in [CallId -> Entry \cup {NotMade}]
      /\ pc \in [Client -> {"idle", "asking", "waiting"}]
      /\ reply \in [Client -> [end : {"ok", "refused"}, data : Data] \cup {NoReply}]
      /\ \A j \in 1..made : j \in CallId
  BY SessionAssumption DEF TwinInv, ReachInv, SessionInv, SessionTypeOK, CallId
<1>3. log'[now[c]] = new /\ \A j \in CallId : j # now[c] => log'[j] = log[j]
  BY <1>1, <1>2 DEF Takes
<1>4. /\ reply'[c] = NoReply /\ pc'[c] = where
      /\ \A d \in Client : d # c => reply'[d] = reply[d] /\ pc'[d] = pc[d]
  BY <1>2 DEF Takes
<1>5. SameTwins(cpu)'
  BY DEF TwinInv, Takes, SameTwins
<1>6. Snapshots'
  <2> SUFFICES ASSUME NEW d \in Client, pc'[d] # "idle", Short(Entered(d)'.call)
               PROVE  /\ Entered(d)'.step = 1 /\ Entered(d)'.got = <<>>
                      /\ pc'[d] = "waiting" /\ reply'[d].end = "ok" =>
                            /\ Len(reply'[d].data) = Len(Entered(d)'.call.of)
                            /\ Alike(Entered(d)'.call.of, reply'[d].data)
    BY DEF Snapshots, Short, Alike
  <2>1. now' = now
    BY DEF Takes
  <2>2. CASE d = c
    <3>1. Entered(d)' = new
      BY <1>3, <2>1, <2>2 DEF Entered
    <3>2. reply'[d].end # "ok"
      BY <1>4, <2>2 DEF NoReply
    <3> QED
      BY <1>4, <2>2, <3>1, <3>2 DEF Takes
  <2>3. CASE d # c
    <3>1. pc'[d] = pc[d] /\ reply'[d] = reply[d]
      BY <1>4, <2>3
    <3>2. now[d] \in CallId /\ now[d] # now[c]
      BY <1>1, <2>3, <3>1, CallUnderWay DEF TwinInv, ReachInv
    <3>3. Entered(d)' = Entered(d)
      BY <1>3, <2>1, <3>2 DEF Entered
    <3> QED
      BY <3>1, <3>3 DEF TwinInv, Snapshots
  <2> QED
    BY <2>2, <2>3
<1>7. TwinsReadAlike'
  <2> SUFFICES ASSUME NEW j \in 1..made, log'[j].told = "ok", Short(log'[j].call)
               PROVE  Alike(log'[j].call.of, log'[j].got)
    BY DEF Takes, TwinsReadAlike, Short, Alike
  <2>1. CASE j = now[c]
    BY <1>3, <2>1 DEF Takes
  <2>2. CASE j # now[c]
    <3>1. log'[j] = log[j]
      BY <1>2, <1>3, <2>2
    <3> QED
      BY <3>1 DEF TwinInv, TwinsReadAlike, Short, Alike
  <2> QED
    BY <2>1, <2>2
<1> QED
  BY <1>5, <1>6, <1>7 DEF TwinInv

LEMMA TellTakes ==
    ASSUME TwinInv, ReachInv', NEW c \in Client, NEW told, pc[c] # "idle", Tell(c, told),
           told = "ok" => Entered(c).call.op # "read", cpu' = cpu
    PROVE  TwinInv'
<1> DEFINE new == [Entered(c) EXCEPT !.told = told]
<1>1. Entered(c) \in Entry
  BY CallUnderWay DEF TwinInv, ReachInv
<1>2. new.call = Entered(c).call /\ new.told = told
  BY <1>1 DEF Entry
<1>3. log' = [log EXCEPT ![now[c]] = new]
  BY DEF Tell, Entered
<1> HIDE DEF new
<1>4. Takes(c, new, "idle")
  BY <1>2, <1>3 DEF Takes, Tell, Short
<1> QED
  BY <1>4, TakesStep

LEMMA ContinueTakes ==
    ASSUME TwinInv, ReachInv', NEW c \in Client, pc[c] # "idle", Continue(c),
           Entered(c).call.op # "read", cpu' = cpu
    PROVE  TwinInv'
<1> DEFINE new == [Entered(c) EXCEPT !.step = @ + 1]
<1>1. Entered(c) \in Entry
  BY CallUnderWay DEF TwinInv, ReachInv
<1>2. new.call = Entered(c).call
  BY <1>1 DEF Entry
<1>3. log' = [log EXCEPT ![now[c]] = new]
  BY DEF Continue, Entered
<1> HIDE DEF new
<1>4. Takes(c, new, "asking")
  BY <1>2, <1>3 DEF Takes, Continue, Short
<1> QED
  BY <1>4, TakesStep

\* A short read returns what arrived, at once.
LEMMA ReadTakes ==
    ASSUME TwinInv, ReachInv', NEW c \in Client, AfterRead(c)
    PROVE  TwinInv'
<1> DEFINE e == Entered(c)
           got == e.got \o reply[c].data
           complete == Len(got) = Len(e.call.of)
           new == [e EXCEPT !.got = got,
                            !.told = IF complete THEN "ok" ELSE e.told,
                            !.step = IF complete THEN e.step ELSE e.step + 1]
           where == IF complete THEN "idle" ELSE "asking"
<1>1. /\ pc[c] = "waiting" /\ reply[c].end = "ok"
      /\ log' = [log EXCEPT ![now[c]] = new] /\ pc' = [pc EXCEPT ![c] = where]
      /\ reply' = [reply EXCEPT ![c] = NoReply]
      /\ UNCHANGED <<cpu, now, made>>
  BY DEF AfterRead, Answered, cpuVars
<1>2. e \in Entry
  BY <1>1, CallUnderWay DEF TwinInv, ReachInv
<1>3. new.call = e.call /\ new.got = got
  BY <1>2 DEF Entry
<1>4. ASSUME Short(e.call) PROVE got = reply[c].data /\ where = "idle" /\ Alike(e.call.of, got)
  <2>1. /\ e.got = <<>> /\ Len(reply[c].data) = Len(e.call.of)
        /\ Alike(e.call.of, reply[c].data)
    BY <1>1, <1>4 DEF TwinInv, Snapshots
  <2>2. reply[c].data \in Data
    <3>1. reply[c] # NoReply
      BY <1>1 DEF NoReply
    <3> QED
      BY <3>1 DEF TwinInv, ReachInv, SessionInv, SessionTypeOK
  <2>3. got = reply[c].data
    BY <2>1, <2>2, ConcatEmptySeq DEF Data
  <2> QED
    BY <2>1, <2>3
<1> HIDE DEF new, where, got
<1>5. Takes(c, new, where)
  BY <1>1, <1>3, <1>4 DEF Takes
<1> QED
  BY <1>5, TakesStep

LEMMA MonitorTakes ==
    ASSUME TwinInv, ReachInv', NEW c \in Client, AfterMonitor(c)
    PROVE  TwinInv'
<1> DEFINE e == Entered(c)
           fits == Len(reply[c].data) = Len(reg[c])
           new == [e EXCEPT !.got = IF fits THEN reply[c].data ELSE e.got,
                            !.told = IF fits THEN "ok" ELSE "mismatch"]
<1>1. /\ pc[c] # "idle" /\ e.call.op = "monitor"
      /\ log' = [log EXCEPT ![now[c]] = new] /\ pc' = [pc EXCEPT ![c] = "idle"]
      /\ reply' = [reply EXCEPT ![c] = NoReply]
      /\ UNCHANGED <<cpu, now, made>>
  BY DEF AfterMonitor, Answered, cpuVars
<1>2. e \in Entry
  BY <1>1, CallUnderWay DEF TwinInv, ReachInv
<1>3. new.call = e.call
  BY <1>2 DEF Entry
<1> HIDE DEF new
<1>4. Takes(c, new, "idle")
  BY <1>1, <1>3 DEF Takes, Short
<1> QED
  BY <1>4, TakesStep

LEMMA SendTakes ==
    ASSUME TwinInv, ReachInv', NEW c \in Client, Send(c)
    PROVE  TwinInv'
<1>1. /\ pc[c] = "asking" /\ pc' = [pc EXCEPT ![c] = "waiting"]
      /\ UNCHANGED <<cpu, now, reply, made, log>>
  BY DEF Send
<1>2. /\ Entered(c).told = "nothing" /\ now[c] \in CallId
      /\ log \in [CallId -> Entry \cup {NotMade}] /\ reply[c] = NoReply
      /\ reply \in [Client -> [end : {"ok", "refused"}, data : Data] \cup {NoReply}]
  BY <1>1, CallUnderWay DEF TwinInv, ReachInv, SessionInv, SessionTypeOK
<1>3. log' = [log EXCEPT ![now[c]] = Entered(c)] /\ reply' = [reply EXCEPT ![c] = NoReply]
  BY <1>1, <1>2 DEF Entered
<1>4. Short(Entered(c).call) => Entered(c).step = 1 /\ Entered(c).got = <<>>
  BY <1>1 DEF TwinInv, Snapshots
<1>5. Takes(c, Entered(c), "waiting")
  BY <1>1, <1>2, <1>3, <1>4 DEF Takes
<1> QED
  BY <1>5, TakesStep

LEMMA ServeTakes ==
    ASSUME TwinInv, ReachInv', NEW p \in wire, Serve(p)
    PROVE  TwinInv'
<1> DEFINE done == Handle(cpu, p.req)
<1>1. /\ cpu' = done.cpu
      /\ reply' = IF Awaited(p) /\ done.end # "silent"
                  THEN [reply EXCEPT ![p.by] = [end |-> done.end, data |-> done.data]]
                  ELSE reply
      /\ UNCHANGED <<pc, now, made, log>>
  BY DEF Serve
<1>2. /\ p.by \in Client /\ cpu \in CpuState
      /\ reply \in [Client -> [end : {"ok", "refused"}, data : Data] \cup {NoReply}]
  BY DEF TwinInv, ReachInv, SessionInv, SessionTypeOK, Packet
<1>3. PICK e \in Entry : e.call = log[p.id].call /\ e.step = p.step /\ p.req = RequestOf(e)
  BY DEF TwinInv, ReachInv, Asked
<1>4. SameTwins(cpu)'
  <2>1. SameTwins(done.cpu)
    BY <1>2, <1>3, TwinsStaySame DEF TwinInv
  <2> QED
    BY <1>1, <2>1 DEF SameTwins
<1> HIDE DEF done
<1>5. TwinsReadAlike'
  BY <1>1 DEF TwinInv, TwinsReadAlike
<1>6. Snapshots'
  <2> SUFFICES ASSUME NEW c \in Client, pc[c] # "idle", Short(Entered(c).call)
               PROVE  /\ Entered(c).step = 1 /\ Entered(c).got = <<>>
                      /\ pc[c] = "waiting" /\ reply'[c].end = "ok" =>
                            /\ Len(reply'[c].data) = Len(Entered(c).call.of)
                            /\ Alike(Entered(c).call.of, reply'[c].data)
    BY <1>1 DEF Snapshots, Short, Alike, Entered
  <2>1. Entered(c).step = 1 /\ Entered(c).got = <<>>
    BY DEF TwinInv, Snapshots
  <2>2. CASE reply'[c] = reply[c]
    BY <2>1, <2>2 DEF TwinInv, Snapshots
  <2>3. CASE reply'[c] # reply[c]
    <3>1. /\ c = p.by /\ Awaited(p)
          /\ reply'[c] = [end |-> done.end, data |-> done.data]
      BY <1>1, <1>2, <2>3
    <3>2. e.call = Entered(c).call /\ e.step = 1
      BY <1>3, <2>1, <3>1 DEF Awaited, Entered
    <3>3. p.req = [do |-> "read", of |-> e.call.of] /\ e.call.of \in Points
      BY <1>3, <3>2, ShortIsWhole, CallTyped DEF Short, Entry
    <3>4. done.end = "ok" =>
            Len(done.data) = Len(e.call.of) /\ Alike(e.call.of, done.data)
      BY <1>2, <3>3, SnapshotAlike DEF done, TwinInv
    <3> QED
      BY <2>1, <3>1, <3>2, <3>4
  <2> QED
    BY <2>2, <2>3
<1> QED
  BY <1>4, <1>5, <1>6 DEF TwinInv

LEMMA BeginTakes ==
    ASSUME TwinInv, ReachInv', NEW c \in Client, NEW call \in Calls, Begin(c, call)
    PROVE  TwinInv'
<1> DEFINE new == [by |-> c, call |-> call, step |-> 1, told |-> "nothing", got |-> <<>>]
<1>1. /\ made < MaxCalls /\ made' = made + 1
      /\ now' = [now EXCEPT ![c] = made + 1] /\ pc' = [pc EXCEPT ![c] = "asking"]
      /\ log' = [log EXCEPT ![made + 1] = new]
      /\ UNCHANGED <<cpu, reply>>
  BY DEF Begin, cpuVars
<1>2. /\ made + 1 \in CallId /\ made + 1 \notin 1..made
      /\ 1..(made + 1) = 1..made \cup {made + 1} /\ \A j \in 1..made : j \in CallId
  BY <1>1, SessionAssumption DEF TwinInv, ReachInv, SessionInv, SessionTypeOK, CallId
<1>3. /\ \A j \in 1..made : log'[j] = log[j]
      /\ log'[made + 1] = new
      /\ pc'[c] = "asking" /\ now'[c] = made + 1
      /\ \A d \in Client : d # c => pc'[d] = pc[d] /\ now'[d] = now[d]
  BY <1>1, <1>2 DEF TwinInv, ReachInv, SessionInv, SessionTypeOK
<1>4. new.told = "nothing" /\ new.step = 1 /\ new.got = <<>>
  OBVIOUS
<1> HIDE DEF new
<1>5. SameTwins(cpu)'
  BY <1>1 DEF TwinInv, SameTwins
<1>6. Snapshots'
  <2> SUFFICES ASSUME NEW d \in Client, pc'[d] # "idle", Short(Entered(d)'.call)
               PROVE  /\ Entered(d)'.step = 1 /\ Entered(d)'.got = <<>>
                      /\ pc'[d] = "waiting" /\ reply'[d].end = "ok" =>
                            /\ Len(reply'[d].data) = Len(Entered(d)'.call.of)
                            /\ Alike(Entered(d)'.call.of, reply'[d].data)
    BY DEF Snapshots, Short, Alike
  <2>1. CASE d = c
    <3>1. Entered(d)' = new
      BY <1>3, <2>1 DEF Entered
    <3> QED
      BY <1>3, <1>4, <2>1, <3>1
  <2>2. CASE d # c
    <3>1. pc'[d] = pc[d] /\ reply'[d] = reply[d] /\ now'[d] = now[d] /\ now[d] \in 1..made
      BY <1>1, <1>3, <2>2, CallUnderWay DEF TwinInv, ReachInv
    <3>2. Entered(d)' = Entered(d)
      BY <1>3, <3>1 DEF Entered
    <3> QED
      BY <3>1, <3>2 DEF TwinInv, Snapshots
  <2> QED
    BY <2>1, <2>2
<1>7. TwinsReadAlike'
  <2> SUFFICES ASSUME NEW j \in 1..made', log'[j].told = "ok", Short(log'[j].call)
               PROVE  Alike(log'[j].call.of, log'[j].got)
    BY DEF TwinsReadAlike, Short, Alike
  <2>1. j \in 1..made
    <3>1. j \in 1..made \cup {made + 1}
      BY <1>1, <1>2
    <3>2. j # made + 1
      BY <1>3, <1>4
    <3> QED
      BY <3>1, <3>2
  <2>2. log'[j] = log[j]
    BY <1>3, <2>1
  <2> QED
    BY <2>1, <2>2 DEF TwinInv, TwinsReadAlike, Short, Alike
<1> QED
  BY <1>5, <1>6, <1>7 DEF TwinInv

LEMMA TwinStep == TwinInv /\ [SessionNext]_sessionVars => TwinInv'
<1> SUFFICES ASSUME TwinInv, [SessionNext]_sessionVars PROVE TwinInv'
  OBVIOUS
<1>1. ReachInv'
  BY ReachStep DEF TwinInv
<1>2. ASSUME NEW c \in Client, Advance(c) \/ Cancel(c) PROVE TwinInv'
  <2>1. CASE Send(c)
    BY <1>1, <2>1, SendTakes
  <2>2. CASE SendReset(c)
    BY <1>1, <2>2, TellTakes DEF SendReset
  <2>3. CASE NotSent(c) \/ Fail(c) \/ Refused(c) \/ Cancel(c)
    <3>1. PICK told \in {"reset", "notSent", "unknown", "failed", "refused", "cancelled"} :
            pc[c] # "idle" /\ Tell(c, told) /\ cpu' = cpu
      BY <2>3 DEF NotSent, Fail, Doubt, Refused, Cancel, cpuVars
    <3> QED
      BY <1>1, <3>1, TellTakes
  <2>4. CASE AfterWrite(c) \/ AfterRemote(c) \/ AfterRegister(c) \/ AfterPlain(c)
    <3>1. /\ pc[c] # "idle" /\ cpu' = cpu /\ Entered(c).call.op # "read"
          /\ Tell(c, "ok") \/ Tell(c, "mismatch") \/ Continue(c)
      BY <2>4 DEF AfterWrite, AfterRemote, AfterRegister, AfterPlain, Answered, cpuVars
    <3> QED
      BY <1>1, <3>1, TellTakes, ContinueTakes
  <2>5. CASE AfterRead(c)
    BY <1>1, <2>5, ReadTakes
  <2>6. CASE AfterMonitor(c)
    BY <1>1, <2>6, MonitorTakes
  <2> QED
    BY <1>2, <2>1, <2>2, <2>3, <2>4, <2>5, <2>6 DEF Advance
<1>3. ASSUME cpu'.words = cpu.words, UNCHANGED <<pc, now, reply, made, log>> PROVE TwinInv'
  <2>1. SameTwins(cpu)'
    BY <1>3 DEF TwinInv, SameTwins
  <2>2. Snapshots'
    BY <1>3 DEF TwinInv, Snapshots, Entered, Short, Alike
  <2>3. TwinsReadAlike'
    BY <1>3 DEF TwinInv, TwinsReadAlike
  <2> QED
    BY <1>1, <2>1, <2>2, <2>3 DEF TwinInv
<1>4. ASSUME NEW c \in Client, Reconnect(c) PROVE TwinInv'
  BY <1>3, <1>4 DEF Reconnect, cpuVars
<1>5. ASSUME NEW c \in Client, NEW call \in Calls, Begin(c, call) PROVE TwinInv'
  BY <1>1, <1>5, BeginTakes
<1>6. ASSUME NEW p \in wire, Serve(p) PROVE TwinInv'
  BY <1>1, <1>6, ServeTakes
<1>7. CASE TurnSwitch
  <2>1. cpu'.words = cpu.words
    BY <1>7 DEF TurnSwitch, TwinInv, ReachInv, SessionInv, SessionTypeOK, CpuState
  <2> QED
    BY <1>3, <1>7, <2>1 DEF TurnSwitch, callVars
<1>8. CASE UNCHANGED sessionVars
  BY <1>3, <1>8 DEF sessionVars, cpuVars, callVars
<1> QED
  BY <1>2, <1>4, <1>5, <1>6, <1>7, <1>8 DEF SessionNext

(***************************************************************************)
(* Registers that are only ever written together are read alike by one     *)
(* 0403, whoever writes meanwhile (Plc.read_random).                       *)
(***************************************************************************)
THEOREM TwinsAreAlwaysAlike == SessionSpec => []TwinsReadAlike
<1>1. TwinInv => TwinsReadAlike
  BY DEF TwinInv
<1> QED
  BY TwinInit, TwinStep, <1>1, PTL DEF SessionSpec
=============================================================================
