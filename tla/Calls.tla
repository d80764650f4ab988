------------------------------- MODULE Calls -------------------------------
(***************************************************************************)
(* The methods of Plc (src/aslmp/client.py), each as the sequence of       *)
(* requests that Verbs says it makes, over Wire; and the exception that    *)
(* leaves a call (Errors).                                                 *)
(*                                                                         *)
(* Bound: a verb is the only call of its behaviour, however many requests  *)
(* it takes; the calls of Wire and BlockPlan follow one another.           *)
(***************************************************************************)
EXTENDS BlockPlan, Verbs, Errors

CONSTANT VerbsOf(_)   \* the verbs a call may be, by the entry it comes to

\* A remote verb is of a remote command, and who sends with his own hands says of a
\* command of the table that it mutates if it does: client.py takes his word for it.
ASSUME VerbsAssumption ==
    \A p \in Range(Plants) : \A e \in Range(p.entries) : \A v \in VerbsOf(e) :
        /\ v.verb \in {"read", "write", "read_f32_array", "write_f32_array", "read_random",
                       "write_random", "read_cpu_status", "remote", "read_diagnostics", "raw_command"}
        /\ v.verb = "remote" => v.cmd.name \in Remotes
        /\ v.verb = "write" =>
              /\ {"spec", "address"} \subseteq DOMAIN v
              /\ {"form", "words", "bounds"} \subseteq DOMAIN v.spec
        /\ v.verb = "raw_command" =>
              /\ v.cmd.name = "Raw"
              /\ \A row \in COMMANDS : row.code = v.cmd.command /\ row.mutates => v.cmd.mutates

VARIABLE task   \* the verb at hand: [entry, verb, got, before, at], at is where it is

callVars == <<task, planVars>>

NoTask == [at |-> "none"]

\* "next": it decides what to do; "waiting": for its request to end; "over".
Is(at) == task.at = at

CallsInit == BlockInit /\ task = NoTask

\* The arguments of a verb are looked at before anything is sent.
Enter(e, v) ==
    LET Task(at) == [at |-> at, entry |-> e, verb |-> v, got |-> <<>>, before |-> memory] IN
    /\ phase = "idle" /\ ~Reading
    /\ \E fault \in {VerbFault(v, ThePlant.entries[e].ctx)} :
          IF fault = "none" THEN task' = Task("next") /\ UNCHANGED vars
          ELSE task' = Task("over") /\ RefuseToSend(e, NoCommand, fault)
    /\ UNCHANGED plan

Steps == NextSteps(task.verb, ThePlant.entries[task.entry].ctx, task.got)

\* `_run` or `_run_silent`.
Request(step) ==
    /\ step.do = "ask"
    /\ Ask(task.entry, step.cmd)
    /\ task' = [task EXCEPT !.at = "waiting"]

\* What the caller is told.
Tell(step) ==
    /\ step.do # "ask"
    /\ End(IF step.do = "return" THEN Outcome("value", "none", step.value)
                                 ELSE Outcome("raised", step.why, <<>>))
    /\ task' = [task EXCEPT !.at = "over"]
    /\ UNCHANGED <<plant, memory, state, calls, call, last>>

Decide == Is("next") /\ UNCHANGED plan /\ \E step \in Steps : Request(step) \/ Tell(step)

\* The request of a verb travels as any other.
Await == Is("waiting") /\ UNCHANGED <<task, plan>> /\ (Travel \/ Conclude)

\* An answer is used or, where the request failed, its exception is the verb's.
Proceed ==
    /\ Is("waiting") /\ phase = "idle"
    /\ task' = IF outcome.kind \in {"returned", "silent"}
               THEN [task EXCEPT !.at = "next", !.got = Append(@, outcome.values)]
               ELSE [task EXCEPT !.at = "over"]
    /\ UNCHANGED planVars

CallsNext ==
    \/ Is("none") /\ BlockNext /\ UNCHANGED task
    \/ /\ Is("none") /\ calls = 0
       /\ \E e \in DOMAIN ThePlant.entries : \E v \in VerbsOf(ThePlant.entries[e]) : Enter(e, v)
    \/ Decide
    \/ Await
    \/ Proceed
    \/ Is("over") /\ UNCHANGED callVars

CallsSpec == CallsInit /\ [][CallsNext]_callVars

-----------------------------------------------------------------------------
(***************************************************************************)
(* What the values of a verb are, of the CPU's memory, in the reading of   *)
(* BlockPlan.                                                              *)
(***************************************************************************)

AsBlock(base, address, specs, order) ==
    [PlcBlock(base, [k \in DOMAIN specs |-> FieldPlan(<<"value", k>>, specs[k], address)])
        EXCEPT !.word_order = order]

OneValue(v) == AsBlock(RunningBase, v.address, <<v.spec>>, v.order)
Array(v, count) == AsBlock(v.address, RunningBase, [k \in 1 .. count |-> F32], v.order)

SameBut(cells) ==
    \A cell \in (DOMAIN memory \cup DOMAIN task.before) \ cells :
        Held(memory, cell) = Held(task.before, cell)

\* What the caller of read_diagnostics could look up himself.
Register(digits) == MemoryWords(memory, Device_SD, FromDigits(digits, 10), 1)
Moment(from) == {<<>>, [k \in 1 .. 6 |-> ReadCell(memory, Device_SD, from + k - 1)]}

ToldWell(v, value) ==
    CASE v.verb = "read" -> value = ValueThere(memory, OneValue(v), 1)
      [] v.verb = "write" -> /\ ValueThere(memory, OneValue(v), 1) = v.value \/ ~v.verify
                             /\ SameBut(CellsOf(OneValue(v), 1))
      [] v.verb = "read_f32_array"
            -> value = [k \in 1 .. v.count |-> ValueThere(memory, Array(v, v.count), k)[1]]
      [] v.verb = "write_f32_array"
            -> \A k \in DOMAIN v.values :
                  ValueThere(memory, Array(v, Len(v.values)), k) = <<v.values[k]>>
      [] v.verb = "read_random" -> value = There(ReadRandomOf(v.points))
      [] v.verb = "write_random" -> IsAsked(memory, WriteRandomOf(v.writes))
      [] v.verb = "read_cpu_status" -> value = <<EffectiveState(state)>>
      [] v.verb = "remote" -> v.verify => EffectiveState(state) = v.wanted
      [] v.verb = "read_diagnostics"
            -> /\ value[1].status = EffectiveState(state)
               /\ value[1].error = ReadCell(memory, Device_SM, 0)
               /\ value[1].error_code = Register(<<"0">>)[1]
               /\ value[1].error_at \in Moment(1) /\ value[1].clock \in Moment(210)
      [] v.verb = "raw_command" -> TRUE

-----------------------------------------------------------------------------
(***************************************************************************)
(* The exception.                                                          *)
(***************************************************************************)

\* Of a failed exchange, what its command says of itself counts too.  An error of the
\* wire layer that was not translated is none that `_fail` sees.
AfterSending(class) ==
    IF IsA(class, "SlmpError") THEN FailedExchange(class, Mutates(call.cmd)) ELSE class

Raised ==
    CASE outcome.kind = "refused"  -> UsageClass(outcome.why)
      [] outcome.kind = "timeout"  -> AfterSending("SlmpTimeoutError")
      [] outcome.kind = "protocol" -> AfterSending(ProtocolClass(outcome.why))
      [] outcome.kind = "end_code" -> EndCodeClass(outcome.values[1])
      [] OTHER -> MeaningClass(outcome.why)

Failed == phase = "idle" /\ outcome.kind \in {"refused", "timeout", "protocol", "end_code", "decode", "raised"}

\* What the memory was when the caller called.
AtFirst == IF Is("none") THEN call.before ELSE task.before

\* On a 3E frame nothing tells an answer from the one before it.
Deceived == ThePlant.stale /\ ~Client(call).frame.carries_serial

\* What a caller should be told of a refusal by the CPU.
Causes ==
    {<<"password_incorrect", "SlmpRemotePasswordError">>, <<"password_locked", "SlmpRemotePasswordLockedError">>,
     <<"monitor_not_registered", "SlmpMonitorNotRegisteredError">>, <<"latch_clear_refused", "SlmpCpuRunningError">>,
     <<"unsupported_command", "SlmpUnsupportedCommandError">>, <<"batch_word_limit", "SlmpWordPointCountError">>}

\* A CPU whose end codes have the classes of their causes.
CodesTellTheCause ==
    \A p \in Range(Plants) : \A cause \in Causes :
        IsA(EndCodeClass(p.target.end_codes[cause[1]]), cause[2])

\* What a client lets a verb write or command, it lets it look at afterwards.
LooksBack(ctx, cmd, look) == Refused(cmd, ctx) = "none" => Refused(look, ctx) = "none"
WrittenMayBeRead ==
    \A p \in Range(Plants) : \A e \in Range(p.entries) : \A v \in VerbsOf(e) :
        /\ v.verb = "write" /\ v.verify => LooksBack(e.ctx, WriteCommand(v), ReadCommand(v))
        /\ v.verb = "remote" /\ v.verify => LooksBack(e.ctx, v.cmd, CpuStatusCommand)

\* SD203 is where the CPUs show what they do.
StatusIsMeant ==
    \A p \in Range(Plants) : MeantOn(p.target.profile, SD203) = Address(Device_SD, CPU_STATUS_INDEX)

-----------------------------------------------------------------------------
(***************************************************************************)
(* Properties.                                                             *)
(***************************************************************************)

\* A verb that returns has told the truth of the CPU and left it as it was told to: a
\* value read is what a person who looks at its registers would say, in the word order,
\* the sign and the text window of the caller and over however many requests; a verified
\* write is there and only there; a verified remote command was obeyed (client.py).
TypedIsWhatIsThere ==
    phase = "idle" /\ outcome.kind = "value" /\ ~Deceived => ToldWell(task.verb, outcome.values)

\* The class of the exception says what the caller may do next: after a usage error the
\* call has changed nothing, after a transport or a protocol error its last request has
\* not, so that it may be sent again; what is in doubt is an SlmpOutcomeUnknownError; a
\* refusal by the CPU is told by its cause; and every one is an SlmpError, but for a
\* number too big for its field and a route that is none (errors/__init__.py, Txn._fail).
ErrorTellsWhatHappened ==
    Failed /\ ~Deceived =>
        /\ IsA(Raised, "SlmpUsageError") => memory = AtFirst
        /\ IsA(Raised, "SlmpTransportError") \/ IsA(Raised, "SlmpProtocolError") => memory = call.before
        /\ IsA(Raised, "SlmpError") \/ outcome.why \in {"codec", "route"}
        /\ outcome.kind = "end_code" =>
              \A cause \in Causes :
                  Target.end_codes[cause[1]] = outcome.values[1] => IsA(Raised, cause[2])
=============================================================================
