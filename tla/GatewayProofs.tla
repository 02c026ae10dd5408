---------------------------- MODULE GatewayProofs ----------------------------
(***************************************************************************)
(* Proofs about Gateway, for every set of calls, environments and session  *)
(* IDs, every width of a duration and any number of faults.                *)
(***************************************************************************)
EXTENDS Gateway, RemoteSpecProofs, QuotingProofs

-----------------------------------------------------------------------------
(***************************************************************************)
(* Durations.                                                              *)
(***************************************************************************)
\* What wraps around is a duration.
LEMMA WrapTyped ==
    ASSUME NEW n \in Int
    PROVE  Wrap(n) \in Durations
<1> DEFINE M == MaxDuration
<1>1. M \in Nat
  BY DurationAssumption
<1>2. (n + M + 1) % (2 * (M + 1)) \in 0..2 * (M + 1) - 1
  BY <1>1
<1>3. n - (-M - 1) = n + M + 1
  BY <1>1
<1> QED
  BY <1>1, <1>2, <1>3 DEF Wrap, Durations, MinDuration

\* A number of nanoseconds that fits does not wrap around.
LEMMA WrapFits ==
    ASSUME NEW n \in 0..MaxDuration
    PROVE  Wrap(n) = n
<1> DEFINE M == MaxDuration
<1>1. M \in Nat
  BY DurationAssumption
<1>2. n + M + 1 \in 0..2 * (M + 1) - 1
  BY <1>1
<1>3. (n + M + 1) % (2 * (M + 1)) = n + M + 1
  BY <1>1, <1>2
<1>4. n - (-M - 1) = n + M + 1
  BY <1>1
<1> QED
  BY <1>1, <1>3, <1>4 DEF Wrap, MinDuration

\* A float becomes an integer.
LEMMA TruncatedTyped ==
    ASSUME NEW halves \in Int
    PROVE  Truncated(halves) \subseteq Int
BY DurationAssumption DEF Truncated, MinDuration

\* Whatever a call asks for, its timeout is a duration.
LEMMA TimeoutsTyped ==
    ASSUME NEW arg, IsNumber(arg), config.timeout \in Durations
    PROVE  Timeouts(arg) \subseteq Durations
<1>1. CASE arg = Missing \/ arg <= 0
  BY <1>1 DEF Timeouts
<1>2. CASE ~(arg = Missing \/ arg <= 0)
  <2>1. arg \in Int
    BY <1>2 DEF IsNumber
  <2>2. \A n \in Truncated(arg) : n * Second \in Int
    BY <2>1, TruncatedTyped, DurationAssumption
  <2> QED
    BY <1>2, <2>2, WrapTyped DEF Timeouts, Duration
<1> QED
  BY <1>1, <1>2

\* What can be represented is neither cut off nor taken for something else.
LEMMA TimeoutsAsAsked ==
    ASSUME NEW arg, IsNumber(arg), NEW t \in Timeouts(arg)
    PROVE  IF arg = Missing \/ arg <= 0 THEN t = config.timeout
           ELSE arg >= 2 /\ arg * (Second \div 2) <= MaxDuration =>
                    /\ t <= arg * (Second \div 2)
                    /\ t + Second > arg * (Second \div 2)
<1> DEFINE H == Second \div 2
           n == arg \div 2
<1>1. MaxDuration \in Nat /\ H \in Nat \ {0} /\ Second = 2 * H
  BY DurationAssumption
<1> HIDE DEF H
<1>2. CASE arg = Missing \/ arg <= 0
  BY <1>2 DEF Timeouts
<1>3. ASSUME ~(arg = Missing \/ arg <= 0), arg >= 2, arg * H <= MaxDuration
      PROVE  t <= arg * H /\ t + Second > arg * H
  <2>1. arg \in Nat /\ n \in Nat /\ (arg = 2 * n \/ arg = 2 * n + 1)
    BY <1>3 DEF IsNumber
  <2> HIDE DEF n
  <2>2. arg <= arg * H
    BY <1>1, <2>1
  <2>3. n <= MaxDuration
    BY <1>1, <1>3, <2>1, <2>2
  <2>4. t = Duration(n)
    BY <1>3, <2>3 DEF Timeouts, Truncated, n
  <2>5. n * Second = 2 * (n * H) /\ arg * H \in {2 * (n * H), 2 * (n * H) + H}
    <3>1. n * (2 * H) = 2 * (n * H) /\ (2 * n) * H = 2 * (n * H)
          /\ (2 * n + 1) * H = 2 * (n * H) + H
      BY <1>1, <2>1
    <3> QED
      BY <1>1, <2>1, <3>1
  <2>6. n * H \in Nat
    BY <1>1, <2>1
  <2>7. n * Second \in 0..MaxDuration
    BY <1>1, <1>3, <2>5, <2>6
  <2>8. t = n * Second
    BY <2>4, <2>7, WrapFits DEF Duration
  <2> QED
    BY <1>1, <2>5, <2>6, <2>8
<1> QED
  BY <1>2, <1>3 DEF H

-----------------------------------------------------------------------------
(***************************************************************************)
(* Remotes, processes and results.                                         *)
(***************************************************************************)
\* What is known of every call's arguments.
LEMMA Requested ==
    ASSUME NEW r \in Requests
    PROVE  /\ r.tool \in Tools
           /\ Text(r.remote) \in Chars
           /\ IsNumber(r.timeout)
           /\ ~NoText(r.session_id) => r.session_id \in SessionIDs
           /\ r.shell \in Shells
BY RequestsAssumption, EmptySeq DEF Tools, Text, NoText, Shells, Chars

\* A default is taken or left.
LEMMA GivenTyped ==
    ASSUME NEW value, NEW default
    PROVE  Given(value, default) \in {value, default}
BY DEF Given

\* The arguments of ssh end with the target; a local shell has none.
LEMMA ProgramTold ==
    ASSUME NEW shell \in Shells, NEW spec \in SpecState
    PROVE  /\ Program(shell, spec) \in ProgramState
           /\ spec.raw = <<>> => /\ Program(shell, spec).program = shell
                                 /\ Program(shell, spec).args = <<>>
           /\ spec.raw # <<>> => /\ Program(shell, spec).program = "ssh"
                                 /\ Program(shell, spec).args # <<>>
                                 /\ Last(Program(shell, spec).args) = spec.target
<1> DEFINE flag == IF spec.port = <<>> THEN <<>> ELSE << <<"-", "p">>, spec.port >>
           args == SSHArgs(spec)
<1>1. spec.port \in Chars /\ spec.target \in Chars
  BY DEF SpecState
<1>2. <<"-", "p">> \in Chars
  <2>1. "-" \in Character /\ "p" \in Character
    BY CharacterAssumption
  <2> QED
    BY <2>1 DEF Chars
<1>3. flag \in Seq(Chars) /\ Len(flag) \in Nat
  BY <1>1, <1>2
<1>4. args = flag \o <<spec.target>>
  BY DEF SSHArgs
<1> HIDE DEF flag, args
<1>5. /\ args \in Seq(Chars) /\ Len(args) = Len(flag) + 1
      /\ args[Len(flag) + 1] = spec.target
  BY <1>1, <1>3, <1>4
<1>6. args # <<>> /\ Last(args) = spec.target
  BY <1>3, <1>5 DEF Last
<1>7. <<>> \in Seq(Chars)
  OBVIOUS
<1>8. CASE spec.raw = <<>>
  BY <1>7, <1>8 DEF Program, ProgramState
<1>9. CASE spec.raw # <<>>
  <2>1. Program(shell, spec) = [program |-> "ssh", args |-> args]
    BY <1>9 DEF Program, args
  <2> QED
    BY <1>5, <1>6, <1>9, <2>1 DEF ProgramState
<1> QED
  BY <1>8, <1>9

\* What a command's result tells, for either tool.
LEMMA CommandTold ==
    ASSUME NEW shell, NEW spec, NEW timeout, NEW correlated,
           request.tool \in {"execute_command", "persistent_shell"}
    PROVE  LET told == CommandResult(shell, spec, timeout, correlated)
           IN  /\ OutputRequired[request.tool] \subseteq DOMAIN told
               /\ "action" \notin DOMAIN told
               /\ told.execution_mode = Mode(spec)
               /\ told.shell = shell
               /\ told.target = spec.target
               /\ told.resolved_target = spec.target
               /\ told.remote_path = spec.path
               /\ told.timeout_seconds = timeout
               /\ told.requested_remote = Text(request.remote)
<1> DEFINE known == [shell |-> shell, timeout_seconds |-> timeout,
                     execution_mode |-> Mode(spec), target |-> spec.target,
                     resolved_target |-> spec.target, remote_path |-> spec.path,
                     correlated |-> correlated]
           told == CommandResult(shell, spec, timeout, correlated)
           fields == IF request.tool = "execute_command" THEN ExecutorFields
                     ELSE ShellFields
<1>1. told = Result(fields, known)
  BY DEF CommandResult
<1>2. DOMAIN known = {"shell", "timeout_seconds", "execution_mode", "target",
                      "resolved_target", "remote_path", "correlated"}
  OBVIOUS
<1>3. known.execution_mode = Mode(spec) /\ known.shell = shell
      /\ known.target = spec.target /\ known.resolved_target = spec.target
      /\ known.remote_path = spec.path /\ known.timeout_seconds = timeout
  OBVIOUS
<1> HIDE DEF known
<1>4. /\ DOMAIN told = fields
      /\ \A field \in fields : field \in DOMAIN known => told[field] = known[field]
      /\ "requested_remote" \in fields => told["requested_remote"] = Text(request.remote)
  BY <1>1, <1>2 DEF Result
<1> HIDE DEF told
<1>5. {"shell", "timeout_seconds", "execution_mode", "target", "resolved_target",
       "remote_path", "requested_remote"} \subseteq fields /\ "action" \notin fields
  BY DEF ExecutorFields, ShellFields
<1>6. OutputRequired[request.tool] \subseteq fields
  <2>1. CASE request.tool = "execute_command"
    BY <2>1 DEF OutputRequired, CommandRequired, ExecutorFields
  <2>2. CASE request.tool = "persistent_shell"
    BY <2>2 DEF OutputRequired, CommandRequired, ShellFields
  <2> QED
    BY <2>1, <2>2
<1> HIDE DEF fields
<1> QED
  BY <1>2, <1>3, <1>4, <1>5, <1>6 DEF told

-----------------------------------------------------------------------------
(***************************************************************************)
(* The inductive invariant.                                                *)
(***************************************************************************)
Called == request \in Requests \cup {Nil}

\* A session's remote is what its text is read as, and its program follows from
\* its shell and its remote: calls that give the same text mean the same.
SessionsRead ==
    \A id \in SessionIDs : sessions[id] # Nil =>
        LET session == sessions[id]
        IN  /\ session.remote = Divide(session.remote.raw, FirstOf(session.remote.raw, "/"))
            /\ session.program = Program(session.shell, session.remote)

RunsAs(program) ==
    process.program = program.program /\ process.args = program.args

\* The program a command was given to, as long as it has not answered.
RunsAsAsked ==
    \/ /\ request.tool = "execute_command"
       /\ RunsAs(Program(Given(request.shell, config.shell), Parse(Text(request.remote))))
    \/ /\ request.tool = "persistent_shell"
       /\ sessions[request.session_id] # Nil
       /\ sessions[request.session_id].remote = Parse(Text(request.remote))
       /\ RunsAs(sessions[request.session_id].program)

\* A call whose command runs has passed the handler's checks.
Checked ==
    /\ request.tool \in {"execute_command", "persistent_shell"}
    /\ ~NoText(request.command)
    /\ request.tool = "persistent_shell" => ~NoText(request.session_id)
    /\ Parse(Text(request.remote)) # Malformed

\* A command runs in the directory of its own call's remote, in a session too.
InDirectory == process.directory = Directory(Parse(Text(request.remote)))

Working ==
    process # Nil =>
        /\ Checked
        /\ InDirectory
        /\ process.timeout \in Timeouts(request.timeout)
        /\ reply = Nil => RunsAsAsked

IInv == TypeOK /\ Called /\ SessionsRead /\ Working /\ SchemasKept /\ ResultNamesProcess

\* What is known while a call is served.
LEMMA Serving ==
    ASSUME IInv, request # Nil
    PROVE  /\ request \in Requests /\ config # Nil
           /\ request.tool \in Tools /\ Text(request.remote) \in Chars
           /\ IsNumber(request.timeout)
           /\ ~NoText(request.session_id) => request.session_id \in SessionIDs
           /\ Given(request.shell, config.shell) \in Shells
           /\ Timeouts(request.timeout) \subseteq Durations
           /\ Parse(Text(request.remote)) \in SpecState
           /\ Parse(Text(request.remote)).raw = <<>> =>
                 Parse(Text(request.remote)).target = <<>>
<1>1. request \in Requests /\ config # Nil /\ config.timeout \in Durations
      /\ config.shell \in Shells
  BY DEF IInv, TypeOK, Called
<1>2. /\ request.tool \in Tools /\ Text(request.remote) \in Chars
      /\ IsNumber(request.timeout) /\ request.shell \in Shells
      /\ ~NoText(request.session_id) => request.session_id \in SessionIDs
  BY <1>1, Requested
<1>3. NoRemote.target = <<>>
  BY DEF NoRemote, Remote
<1> QED
  BY <1>1, <1>2, <1>3, GivenTyped, TimeoutsTyped, ParseTyped

\* What is known of an open session: a call that gives the same text means the
\* same remote.
LEMMA OpenSession ==
    ASSUME IInv, NEW id \in SessionIDs, sessions[id] # Nil
    PROVE  /\ sessions[id] \in SessionState
           /\ sessions[id].program = Program(sessions[id].shell, sessions[id].remote)
           /\ \A arg \in Chars :
                 /\ Parse(arg) # Malformed
                 /\ sessions[id].remote.raw = Parse(arg).raw
                 => sessions[id].remote = Parse(arg)
<1>1. sessions[id] \in SessionState
  BY DEF IInv, TypeOK
<1>2. /\ sessions[id].program = Program(sessions[id].shell, sessions[id].remote)
      /\ sessions[id].remote = Divide(sessions[id].remote.raw,
                                      FirstOf(sessions[id].remote.raw, "/"))
  BY DEF IInv, SessionsRead
<1>3. ASSUME NEW arg \in Chars, Parse(arg) # Malformed,
             sessions[id].remote.raw = Parse(arg).raw
      PROVE  sessions[id].remote = Parse(arg)
  BY <1>2, <1>3, ParseAgain
<1> QED
  BY <1>1, <1>2, <1>3

\* The invariant holds before anything has started.
LEMMA InvInit ==
    ASSUME Init
    PROVE  IInv
<1>1. EntrypointTypeOK
  <2>1. tailscaled \in BOOLEAN
    BY DEF Init, EntrypointInit
  <2>2. polls \in 0..MaxPolls /\ faults \in 0..MaxFaults
    BY MaxFaultsAssumption, MaxPollsAssumption DEF Init, EntrypointInit
  <2> QED
    BY <2>1, <2>2 DEF Init, EntrypointInit, EntrypointTypeOK
<1>2. config = Nil /\ request = Nil /\ process = Nil /\ reply = Nil
      /\ sessions = [id \in SessionIDs |-> Nil]
  BY DEF Init, ServerInit
<1> QED
  BY <1>1, <1>2 DEF IInv, TypeOK, Called, SessionsRead, Working, SchemasKept,
                    ResultNamesProcess

-----------------------------------------------------------------------------
(***************************************************************************)
(* The container's steps.                                                  *)
(***************************************************************************)
\* The container ends.
LEMMA DownTyped ==
    ASSUME EntrypointTypeOK, Down
    PROVE  /\ phase' = "down" /\ polls' \in 0..MaxPolls /\ tailscaled' \in BOOLEAN
           /\ configured' \in BOOLEAN
<1>1. tailscaled' \in BOOLEAN
  BY DEF Down
<1>2. polls' \in 0..MaxPolls
  BY MaxPollsAssumption DEF Down
<1> QED
  BY <1>1, <1>2 DEF Down, EntrypointTypeOK

\* Faults are counted up to their bound.
LEMMA FaultTyped ==
    ASSUME EntrypointTypeOK, Fault
    PROVE  faults' \in 0..MaxFaults
BY MaxFaultsAssumption DEF EntrypointTypeOK, Fault

\* The container's variables keep their types.
LEMMA ContainerTyped ==
    ASSUME EntrypointTypeOK, EntrypointNext
    PROVE  EntrypointTypeOK'
<1> USE MaxPollsAssumption DEF EntrypointTypeOK
<1>1. ASSUME Script PROVE EntrypointTypeOK'
  <2>1. CASE Boot
    BY <2>1 DEF Boot
  <2>2. CASE Unconfigured
    BY <2>2, DownTyped DEF Unconfigured
  <2>3. CASE StartTailscaled
    BY <2>3 DEF StartTailscaled
  <2>4. CASE PollSucceeds
    BY <2>4 DEF PollSucceeds
  <2>5. CASE PollFails
    BY <2>5 DEF PollFails
  <2>6. CASE Up
    BY <2>6 DEF Up, Joined
  <2>7. CASE UpRefused
    BY <2>7, DownTyped DEF UpRefused
  <2> QED
    BY <1>1, <2>1, <2>2, <2>3, <2>4, <2>5, <2>6, <2>7 DEF Script
<1>2. CASE UpFails
  BY <1>2, DownTyped, FaultTyped DEF UpFails, Joined
<1>3. CASE TailscaledDies
  <2>1. tailscaled' \in BOOLEAN
    BY <1>3 DEF TailscaledDies
  <2> QED
    BY <1>3, <2>1, FaultTyped DEF TailscaledDies
<1>4. CASE ContainerEnds
  BY <1>4, DownTyped, FaultTyped DEF ContainerEnds
<1> QED
  BY <1>1, <1>2, <1>3, <1>4 DEF EntrypointNext

\* The server's part of the invariant holds where there is no server.
LEMMA NoServerInv ==
    ASSUME EntrypointTypeOK', NoServer
    PROVE  IInv'
BY DEF NoServer, IInv, TypeOK, Called, SessionsRead, Working, SchemasKept,
       ResultNamesProcess

\* The server's part depends on the server's variables only.
LEMMA SameServerInv ==
    ASSUME IInv, EntrypointTypeOK', phase' # "serving" => config = Nil,
           UNCHANGED serverVars
    PROVE  IInv'
<1>1. UNCHANGED <<config, sessions, request, process, reply>>
  BY DEF serverVars
<1> QED
  BY <1>1 DEF IInv, TypeOK, Called, SessionsRead, Working, Checked, InDirectory, RunsAsAsked,
              RunsAs, Timeouts, SchemasKept, ResultNamesProcess

\* The container's steps keep the invariant.
LEMMA ContainerInv ==
    ASSUME IInv, ContainerStep
    PROVE  IInv'
<1>1. EntrypointTypeOK'
  BY ContainerTyped DEF ContainerStep, IInv, TypeOK
<1>2. CASE phase = "serving" /\ phase' # "serving"
  BY <1>1, <1>2, NoServerInv DEF ContainerStep
<1>3. CASE ~(phase = "serving" /\ phase' # "serving")
  BY <1>1, <1>3, SameServerInv DEF ContainerStep, IInv, TypeOK
<1> QED
  BY <1>2, <1>3

-----------------------------------------------------------------------------
(***************************************************************************)
(* The server's steps.                                                     *)
(***************************************************************************)
\* The server's steps leave the container as it is.
LEMMA SameContainer ==
    ASSUME IInv, UNCHANGED entrypointVars
    PROVE  EntrypointTypeOK'
BY DEF IInv, TypeOK, EntrypointTypeOK, entrypointVars

\* Sessions are kept or closed.
LEMMA SessionsKept ==
    ASSUME IInv, NEW id,
           UNCHANGED sessions \/ sessions' = [sessions EXCEPT ![id] = Nil]
    PROVE  /\ sessions' \in [SessionIDs -> SessionState \cup {Nil}]
           /\ SessionsRead'
<1>1. sessions \in [SessionIDs -> SessionState \cup {Nil}] /\ SessionsRead
  BY DEF IInv, TypeOK
<1>2. /\ sessions' \in [SessionIDs -> SessionState \cup {Nil}]
      /\ \A i \in SessionIDs : sessions'[i] \in {sessions[i], Nil}
  BY <1>1
<1> QED
  BY <1>1, <1>2 DEF SessionsRead

\* A call is answered.
LEMMA AnswerInv ==
    ASSUME IInv, phase = "serving", UNCHANGED entrypointVars,
           NEW result, Answer(result), result.isError \in BOOLEAN,
           sessions' \in [SessionIDs -> SessionState \cup {Nil}], SessionsRead',
           UNCHANGED sessions \/ process = Nil \/ result # Nil,
           SchemasKept', ResultNamesProcess'
    PROVE  IInv'
<1>1. /\ request # Nil /\ reply = Nil /\ reply' = result
      /\ config' = config /\ request' = request /\ process' = process
  BY DEF Answer
<1>2. EntrypointTypeOK' /\ phase' = "serving"
  BY SameContainer DEF entrypointVars
<1>3. TypeOK' /\ Called'
  BY <1>1, <1>2 DEF IInv, TypeOK, Called
<1>4. Working'
  <2> SUFFICES ASSUME process # Nil
               PROVE  /\ Checked' /\ InDirectory' /\ process.timeout \in Timeouts(request.timeout)'
                      /\ reply' = Nil => RunsAsAsked'
    BY <1>1 DEF Working
  <2>1. Checked /\ InDirectory /\ process.timeout \in Timeouts(request.timeout) /\ RunsAsAsked
    BY <1>1 DEF IInv, Working
  <2>2. Checked' /\ InDirectory'
    BY <1>1, <2>1 DEF Checked, InDirectory
  <2>3. process.timeout \in Timeouts(request.timeout)'
    BY <1>1, <2>1 DEF Timeouts
  <2>4. ASSUME reply' = Nil PROVE RunsAsAsked'
    <3>1. UNCHANGED sessions
      BY <1>1, <2>4
    <3> QED
      BY <1>1, <2>1, <3>1 DEF RunsAsAsked, RunsAs
  <2> QED
    BY <2>2, <2>3, <2>4
<1> QED
  BY <1>3, <1>4 DEF IInv

\* An error without a structured result.
LEMMA TextErrorInv ==
    ASSUME IInv, phase = "serving", UNCHANGED entrypointVars, Answer(TextError),
           NEW id, UNCHANGED sessions \/ sessions' = [sessions EXCEPT ![id] = Nil]
    PROVE  IInv'
<1>1. TextError # Nil /\ TextError.isError = TRUE /\ TextError.structured = Nil
  BY NilAssumption DEF TextError
<1>2. reply' = TextError
  BY DEF Answer
<1>3. SchemasKept' /\ ResultNamesProcess'
  BY <1>1, <1>2 DEF SchemasKept, ResultNamesProcess
<1>4. TextError.isError \in BOOLEAN
  BY <1>1
<1> QED
  BY <1>1, <1>3, <1>4, SessionsKept, AnswerInv

\* A command is given to a process.
LEMMA RunInv ==
    ASSUME IInv, phase = "serving", UNCHANGED entrypointVars,
           NEW program, NEW spec, spec = Parse(Text(request.remote)), NEW timeout \in Timeouts(request.timeout),
           Run(program, spec, timeout), Checked, RunsAsAsked',
           sessions' \in [SessionIDs -> SessionState \cup {Nil}], SessionsRead'
    PROVE  IInv'
<1>1. /\ request # Nil /\ reply = Nil /\ reply' = Nil
      /\ config' = config /\ request' = request /\ process'.timeout = timeout
      /\ process'.directory = Directory(spec)
  BY DEF Run
<1>2. EntrypointTypeOK' /\ phase' = "serving"
  BY SameContainer DEF entrypointVars
<1>3. timeout \in Durations /\ config # Nil
  BY <1>1, Serving
<1>4. TypeOK' /\ Called'
  BY <1>1, <1>2, <1>3 DEF IInv, TypeOK, Called
<1>5. Working'
  BY <1>1 DEF Working, Checked, InDirectory, Timeouts
<1>6. SchemasKept' /\ ResultNamesProcess'
  BY <1>1 DEF SchemasKept, ResultNamesProcess
<1> QED
  BY <1>4, <1>5, <1>6 DEF IInv

-----------------------------------------------------------------------------
\* The server starts, with no session and no call.
LEMMA StartServerInv ==
    ASSUME IInv, phase = "serving", UNCHANGED entrypointVars, StartServer
    PROVE  IInv'
<1>1. PICK env \in Environments : config' = ParseFlags(env)
  BY DEF StartServer
<1>2. request = Nil /\ process = Nil /\ reply = Nil
      /\ UNCHANGED <<sessions, request, process, reply>>
      /\ sessions = [id \in SessionIDs |-> Nil]
  BY DEF StartServer, IInv, TypeOK
<1>3. ParseFlags(env).timeout \in Durations
  <2>1. IsNumber(env.timeout)
    BY EnvironmentsAssumption
  <2>2. DefaultSeconds * Second \in Int
    BY DurationAssumption
  <2>3. env.timeout # Missing => env.timeout * Second \in Int
    BY <2>1, DurationAssumption DEF IsNumber
  <2> QED
    BY <2>2, <2>3, WrapTyped DEF ParseFlags, Duration
<1>4. ParseFlags(env).shell \in Shells
  BY GivenTyped DEF ParseFlags, Shells
<1>5. EntrypointTypeOK' /\ phase' = "serving"
  BY SameContainer DEF entrypointVars
<1> QED
  BY <1>1, <1>2, <1>3, <1>4, <1>5
     DEF IInv, TypeOK, Called, SessionsRead, Working, SchemasKept, ResultNamesProcess

\* A call is received.
LEMMA ReceiveInv ==
    ASSUME IInv, phase = "serving", UNCHANGED entrypointVars,
           NEW r \in Requests, Receive(r)
    PROVE  IInv'
<1>1. /\ config # Nil /\ request = Nil /\ request' = r /\ process = Nil /\ reply = Nil
      /\ UNCHANGED <<config, sessions, process, reply>>
  BY DEF Receive, IInv, TypeOK
<1>2. r.tool \in Tools
  BY Requested
<1>3. EntrypointTypeOK' /\ phase' = "serving"
  BY SameContainer DEF entrypointVars
<1> QED
  BY <1>1, <1>2, <1>3
     DEF IInv, TypeOK, Called, SessionsRead, Working, SchemasKept, ResultNamesProcess

\* A result is sent.
LEMMA RespondInv ==
    ASSUME IInv, phase = "serving", UNCHANGED entrypointVars, Respond
    PROVE  IInv'
<1>1. /\ request' = Nil /\ process' = Nil /\ reply' = Nil
      /\ UNCHANGED <<config, sessions>>
  BY DEF Respond
<1>2. EntrypointTypeOK' /\ phase' = "serving"
  BY SameContainer DEF entrypointVars
<1> QED
  BY <1>1, <1>2
     DEF IInv, TypeOK, Called, SessionsRead, Working, SchemasKept, ResultNamesProcess

\* An idle session is closed.
LEMMA SweepInv ==
    ASSUME IInv, phase = "serving", UNCHANGED entrypointVars,
           NEW id \in SessionIDs, SweepSession(id)
    PROVE  IInv'
<1>1. /\ request = Nil /\ process = Nil /\ reply = Nil
      /\ UNCHANGED <<config, request, process, reply>>
      /\ sessions' = [sessions EXCEPT ![id] = Nil] /\ sessions[id] # Nil
  BY DEF SweepSession, Open, IInv, TypeOK
<1>2. sessions' \in [SessionIDs -> SessionState \cup {Nil}] /\ SessionsRead'
  BY <1>1, SessionsKept
<1>3. EntrypointTypeOK' /\ phase' = "serving"
  BY SameContainer DEF entrypointVars
<1>4. config # Nil
  BY <1>1 DEF IInv, TypeOK
<1> QED
  BY <1>1, <1>2, <1>3, <1>4
     DEF IInv, TypeOK, Called, Working, SchemasKept, ResultNamesProcess

-----------------------------------------------------------------------------
\* execute_command: a validation error has all fields, too.
LEMMA RejectCommandInv ==
    ASSUME IInv, phase = "serving", UNCHANGED entrypointVars, RejectCommand
    PROVE  IInv'
<1>1. /\ request # Nil /\ request.tool = "execute_command" /\ process = Nil
      /\ Answer(MetadataError) /\ UNCHANGED sessions
  BY DEF RejectCommand, Is
<1>2. reply' = MetadataError /\ request' = request /\ process' = process
  BY <1>1 DEF Answer
<1>3. MetadataError.isError = TRUE /\ DOMAIN MetadataError.structured = ErrorFields
  BY <1>1 DEF MetadataError, Result
<1>4. MetadataError.isError \in BOOLEAN
  BY <1>3
<1>5. OutputRequired["execute_command"] \subseteq ErrorFields
  BY DEF OutputRequired, CommandRequired, ErrorFields
<1>6. SchemasKept'
  BY <1>1, <1>2, <1>3, <1>5 DEF SchemasKept
<1>7. ResultNamesProcess'
  BY <1>1, <1>2 DEF ResultNamesProcess
<1> QED
  BY <1>1, <1>4, <1>6, <1>7, SessionsKept, AnswerInv

\* execute_command: the command runs as its call asks.
LEMMA StartCommandInv ==
    ASSUME IInv, phase = "serving", UNCHANGED entrypointVars, StartCommand
    PROVE  IInv'
<1> DEFINE spec    == Parse(Text(request.remote))
           program == Program(Given(request.shell, config.shell), spec)
<1>1. /\ request.tool = "execute_command" /\ ~NoText(request.command)
      /\ spec # Malformed /\ UNCHANGED sessions
  BY DEF StartCommand, Is
<1>2. PICK timeout \in Timeouts(request.timeout) : Run(program, spec, timeout)
  BY DEF StartCommand
<1>3. /\ process'.program = program.program /\ process'.args = program.args
      /\ request' = request /\ config' = config
  BY <1>2 DEF Run
<1>4. Checked
  BY <1>1 DEF Checked
<1>5. RunsAsAsked'
  BY <1>1, <1>3 DEF RunsAsAsked, RunsAs
<1> QED
  BY <1>1, <1>2, <1>4, <1>5, SessionsKept, RunInv

\* persistent_shell: the session's text is the call's, so its remote is.
LEMMA UseSessionInv ==
    ASSUME IInv, phase = "serving", UNCHANGED entrypointVars, UseSession
    PROVE  IInv'
<1> DEFINE spec == Parse(Text(request.remote))
           id   == request.session_id
<1>1. /\ request # Nil /\ request.tool = "persistent_shell" /\ ~NoText(request.command)
      /\ ~NoText(id) /\ spec # Malformed /\ id \in SessionIDs /\ sessions[id] # Nil
      /\ sessions[id].remote.raw = spec.raw /\ UNCHANGED sessions
  BY DEF UseSession, Is, Open
<1>2. PICK timeout \in Timeouts(request.timeout) :
        Run(sessions[id].program, sessions[id].remote, timeout)
  BY DEF UseSession
<1>3. /\ process'.program = sessions[id].program.program
      /\ process'.args = sessions[id].program.args /\ request' = request
  BY <1>2 DEF Run
<1>4. Checked
  BY <1>1 DEF Checked
<1>5. sessions[id].remote = spec
  BY <1>1, Serving, OpenSession
<1>6. RunsAsAsked'
  BY <1>1, <1>3, <1>5 DEF RunsAsAsked, RunsAs
<1> QED
  BY <1>1, <1>2, <1>4, <1>5, <1>6, SessionsKept, RunInv

\* persistent_shell: the new session is what its call asks for.
LEMMA CreateSessionInv ==
    ASSUME IInv, phase = "serving", UNCHANGED entrypointVars, CreateSession
    PROVE  IInv'
<1> DEFINE spec    == Parse(Text(request.remote))
           id      == request.session_id
           shell   == Given(request.shell, config.shell)
           session == [shell |-> shell, remote |-> spec, program |-> Program(shell, spec)]
<1>1. /\ request # Nil /\ request.tool = "persistent_shell" /\ ~NoText(request.command)
      /\ ~NoText(id) /\ spec # Malformed /\ sessions' = [sessions EXCEPT ![id] = session]
  BY DEF CreateSession, Is
<1>2. PICK timeout \in Timeouts(request.timeout) : Run(Program(shell, spec), spec, timeout)
  BY DEF CreateSession
<1>3. /\ process'.program = Program(shell, spec).program
      /\ process'.args = Program(shell, spec).args /\ request' = request
  BY <1>2 DEF Run
<1>4. Checked
  BY <1>1 DEF Checked
<1>5. /\ id \in SessionIDs /\ shell \in Shells /\ spec \in SpecState
      /\ Text(request.remote) \in Chars
  BY <1>1, Serving
<1>6. spec = Divide(spec.raw, FirstOf(spec.raw, "/"))
  BY <1>1, <1>5, ParseAgain
<1>7. Program(shell, spec) \in ProgramState
  BY <1>5, ProgramTold
<1>8. session \in SessionState /\ session # Nil
  BY <1>5, <1>7, NilAssumption DEF SessionState
<1>9. /\ session.remote = spec /\ session.program = Program(shell, spec)
      /\ session.shell = shell
  OBVIOUS
<1> HIDE DEF session, shell, spec
<1>10. sessions \in [SessionIDs -> SessionState \cup {Nil}] /\ SessionsRead
  BY DEF IInv, TypeOK
<1>11. /\ sessions' \in [SessionIDs -> SessionState \cup {Nil}]
       /\ sessions'[id] = session
       /\ \A i \in SessionIDs : i # id => sessions'[i] = sessions[i]
  BY <1>1, <1>5, <1>8, <1>10
<1>12. SessionsRead'
  BY <1>6, <1>9, <1>10, <1>11 DEF SessionsRead
<1>13. RunsAsAsked'
  BY <1>1, <1>3, <1>5, <1>8, <1>9, <1>11 DEF RunsAsAsked, RunsAs, spec
<1>14. spec = Parse(Text(request.remote))
  BY DEF spec
<1> QED
  BY <1>2, <1>4, <1>11, <1>12, <1>13, <1>14, RunInv

-----------------------------------------------------------------------------
\* A command's result tells what ran it.
LEMMA ResultTold ==
    ASSUME IInv, process # Nil, reply = Nil,
           NEW shell \in Shells, NEW correlated, NEW isError, NEW result,
           LET spec == Parse(Text(request.remote))
           IN  /\ RunsAs(Program(shell, spec))
               /\ result = [isError |-> isError, structured |->
                     CommandResult(shell, spec, process.timeout, correlated)],
           Answer(result)
    PROVE  SchemasKept' /\ ResultNamesProcess'
<1> DEFINE spec    == Parse(Text(request.remote))
           program == Program(shell, spec)
           told    == CommandResult(shell, spec, process.timeout, correlated)
<1>1. /\ request # Nil /\ reply' = result /\ request' = request /\ process' = process
      /\ config' = config
  BY DEF Answer
<1>2. result.structured = told
  OBVIOUS
<1>3. Checked
  BY DEF IInv, Working
<1>4. /\ OutputRequired[request.tool] \subseteq DOMAIN told
      /\ "action" \notin DOMAIN told
      /\ told.execution_mode = Mode(spec)
      /\ told.shell = shell
      /\ told.target = spec.target
      /\ told.resolved_target = spec.target
      /\ told.remote_path = spec.path
      /\ told.timeout_seconds = process.timeout
      /\ told.requested_remote = Text(request.remote)
  BY <1>3, CommandTold DEF Checked
<1>5. spec \in SpecState /\ (spec.raw = <<>> => spec.target = <<>>)
  BY <1>1, Serving
<1>6. /\ process.program = program.program /\ process.args = program.args
      /\ spec.raw = <<>> => program.program = shell /\ program.args = <<>>
      /\ spec.raw # <<>> => /\ program.program = "ssh" /\ program.args # <<>>
                            /\ Last(program.args) = spec.target
  BY <1>5, ProgramTold DEF RunsAs
<1>7. told.execution_mode = IF process.args = <<>> THEN "local" ELSE "remote"
  BY <1>4, <1>6 DEF Mode
<1> HIDE DEF told, program
<1>8. ResultNamesProcess'
  <2>1. /\ process.args = <<>> => told.shell = process.program /\ told.target = <<>>
        /\ process.args # <<>> => /\ process.program = "ssh"
                                  /\ told.target = Last(process.args)
    BY <1>4, <1>5, <1>6
  <2>2. told.remote_path = Parse(told.requested_remote).path
    BY <1>4
  <2> QED
    BY <1>1, <1>2, <1>4, <1>7, <2>1, <2>2 DEF ResultNamesProcess
<1>9. SchemasKept'
  <2>1. \A name \in InputRequired[request.tool] : ~NoText(request[name])
    BY <1>3 DEF Checked, InputRequired
  <2>2. \A name \in DOMAIN OutputEnum \cap DOMAIN told : told[name] \in OutputEnum[name]
    <3>1. DOMAIN OutputEnum = {"execution_mode", "action"}
          /\ OutputEnum["execution_mode"] = {"local", "remote"}
      BY DEF OutputEnum
    <3> QED
      BY <1>4, <1>7, <3>1
  <2>3. request.tool # "session_manager"
    BY <1>3 DEF Checked
  <2> QED
    BY <1>1, <1>2, <1>4, <2>1, <2>2, <2>3 DEF SchemasKept
<1> QED
  BY <1>8, <1>9

\* execute_command: the result is read from the call's arguments again.
LEMMA ReportCommandInv ==
    ASSUME IInv, phase = "serving", UNCHANGED entrypointVars, ReportCommand
    PROVE  IInv'
<1> DEFINE spec  == Parse(Text(request.remote))
           shell == Given(request.shell, config.shell)
           Told(correlated) ==
              [isError |-> ~correlated,
               structured |-> CommandResult(shell, spec, process.timeout, correlated)]
<1>1. /\ request # Nil /\ request.tool = "execute_command" /\ process # Nil
      /\ UNCHANGED sessions
  BY DEF ReportCommand
<1>2. PICK correlated \in BOOLEAN : Answer(Told(correlated))
  BY DEF ReportCommand
<1>3. reply = Nil
  BY <1>2 DEF Answer
<1>4. RunsAs(Program(shell, spec)) /\ shell \in Shells
  BY <1>1, <1>3, Serving DEF IInv, Working, RunsAsAsked
<1>5. SchemasKept' /\ ResultNamesProcess'
  BY <1>1, <1>2, <1>3, <1>4, ResultTold
<1>6. Told(correlated).isError \in BOOLEAN
  OBVIOUS
<1> HIDE DEF Told
<1> QED
  BY <1>1, <1>2, <1>5, <1>6, SessionsKept, AnswerInv

\* persistent_shell: the result is read from the session.
LEMMA ReportShellInv ==
    ASSUME IInv, phase = "serving", UNCHANGED entrypointVars, ReportShell
    PROVE  IInv'
<1> DEFINE id      == request.session_id
           session == sessions[id]
           result  == Structured(CommandResult(session.shell, session.remote,
                                               process.timeout, TRUE))
<1>1. /\ request # Nil /\ request.tool = "persistent_shell" /\ process # Nil
      /\ Answer(result) /\ UNCHANGED sessions
  BY DEF ReportShell
<1>2. reply = Nil
  BY <1>1 DEF Answer
<1>3. /\ Checked /\ session # Nil /\ session.remote = Parse(Text(request.remote))
      /\ RunsAs(session.program)
  BY <1>1, <1>2 DEF IInv, Working, RunsAsAsked
<1>4. id \in SessionIDs
  BY <1>1, <1>3, Serving DEF Checked
<1>5. session.shell \in Shells /\ session.program = Program(session.shell, session.remote)
  BY <1>3, <1>4, OpenSession DEF SessionState
<1>6. result = [isError |-> FALSE, structured |->
                   CommandResult(session.shell, Parse(Text(request.remote)),
                                 process.timeout, TRUE)]
  BY <1>3 DEF Structured
<1>7. RunsAs(Program(session.shell, Parse(Text(request.remote))))
  BY <1>3, <1>5
<1> HIDE DEF session, result
<1>8. SchemasKept' /\ ResultNamesProcess'
  BY <1>1, <1>2, <1>5, <1>6, <1>7, ResultTold
<1>9. result.isError \in BOOLEAN
  BY <1>6
<1> QED
  BY <1>1, <1>8, <1>9, SessionsKept, AnswerInv

-----------------------------------------------------------------------------
\* session_manager: a result has the fields and the values of the schema.
LEMMA ManagerInv ==
    ASSUME IInv, phase = "serving", UNCHANGED entrypointVars, Is("session_manager"),
           request.action \in Actions, NEW listed, NEW closed,
           \A info \in listed : SessionFields \subseteq DOMAIN info,
           Answer(ManagerResult(listed, closed)),
           NEW id, UNCHANGED sessions \/ sessions' = [sessions EXCEPT ![id] = Nil]
    PROVE  IInv'
<1> DEFINE result == ManagerResult(listed, closed)
           told   == result.structured
<1>1. /\ request # Nil /\ request.tool = "session_manager" /\ process = Nil
      /\ reply' = result /\ request' = request /\ process' = process
  BY DEF Is, Answer
<1>2. /\ result.isError = FALSE /\ told.action = request.action
      /\ DOMAIN told = {"action", "message", "sessions", "closed_session_id"}
      /\ told.sessions = listed
  BY DEF ManagerResult, Structured
<1> HIDE DEF result
<1>3. SchemasKept'
  <2>1. OutputRequired["session_manager"] \subseteq DOMAIN told
    BY <1>2 DEF OutputRequired
  <2>2. \A name \in InputRequired["session_manager"] : ~NoText(request[name])
    BY MissingAssumption DEF InputRequired, NoText, Actions
  <2>3. \A name \in DOMAIN OutputEnum \cap DOMAIN told : told[name] \in OutputEnum[name]
    BY <1>2 DEF OutputEnum
  <2> QED
    BY <1>1, <1>2, <2>1, <2>2, <2>3 DEF SchemasKept
<1>4. ResultNamesProcess'
  BY <1>1 DEF ResultNamesProcess
<1>5. result.isError \in BOOLEAN
  BY <1>2
<1> QED
  BY <1>1, <1>3, <1>4, <1>5, SessionsKept, AnswerInv DEF result

\* session_manager: sessions are listed with the fields of the schema.
LEMMA ListSessionsInv ==
    ASSUME IInv, phase = "serving", UNCHANGED entrypointVars, ListSessions
    PROVE  IInv'
<1> DEFINE Info(id) == [id |-> id, shell |-> sessions[id].shell,
                        remote |-> sessions[id].remote.target,
                        remote_path |-> sessions[id].remote.path,
                        pid |-> "some", created |-> "some", last_used |-> "some",
                        alive |-> "some"]
           listed == {Info(id) : id \in {id \in SessionIDs : Open(id)}}
<1>1. /\ Is("session_manager") /\ request.action \in Actions
      /\ Answer(ManagerResult(listed, "")) /\ UNCHANGED sessions
  BY DEF ListSessions, Actions
<1>2. \A info \in listed : SessionFields \subseteq DOMAIN info
  BY DEF SessionFields
<1>3. UNCHANGED sessions \/ sessions' = [sessions EXCEPT ![""] = Nil]
  BY <1>1
<1> HIDE DEF listed
<1> QED
  BY <1>1, <1>2, <1>3, ManagerInv

\* session_manager: a session is closed.
LEMMA CloseSessionInv ==
    ASSUME IInv, phase = "serving", UNCHANGED entrypointVars, CloseSession
    PROVE  IInv'
<1> DEFINE listed == {}
<1>1. /\ Is("session_manager") /\ request.action \in Actions
      /\ Answer(ManagerResult(listed, request.session_id))
      /\ sessions' = [sessions EXCEPT ![request.session_id] = Nil]
  BY DEF CloseSession, Actions
<1>2. \A info \in listed : SessionFields \subseteq DOMAIN info
  OBVIOUS
<1> HIDE DEF listed
<1> QED
  BY <1>1, <1>2, ManagerInv

\* The server's steps keep the invariant.
LEMMA ServerInv ==
    ASSUME IInv, ServerStep
    PROVE  IInv'
<1> USE DEF ServerStep
<1>1. CASE StartServer
  BY <1>1, StartServerInv
<1>2. CASE \E r \in Requests : Receive(r)
  BY <1>2, ReceiveInv
<1>3. CASE Respond
  BY <1>3, RespondInv
<1>4. CASE RejectCommand
  BY <1>4, RejectCommandInv
<1>5. CASE StartCommand
  BY <1>5, StartCommandInv
<1>6. CASE ReportCommand
  BY <1>6, ReportCommandInv
<1>7. CASE RejectShell
  BY <1>7, TextErrorInv DEF RejectShell
<1>8. CASE FailStart
  BY <1>8, TextErrorInv DEF FailStart
<1>9. CASE UseSession
  BY <1>9, UseSessionInv
<1>10. CASE CreateSession
  BY <1>10, CreateSessionInv
<1>11. CASE ReportShell
  BY <1>11, ReportShellInv
<1>12. CASE FailShell
  BY <1>12, TextErrorInv DEF FailShell
<1>13. CASE RejectAction
  BY <1>13, TextErrorInv DEF RejectAction
<1>14. CASE ListSessions
  BY <1>14, ListSessionsInv
<1>15. CASE CloseSession
  BY <1>15, CloseSessionInv
<1>16. CASE \E id \in SessionIDs : SweepSession(id)
  BY <1>16, SweepInv
<1> QED
  BY <1>1, <1>2, <1>3, <1>4, <1>5, <1>6, <1>7, <1>8, <1>9, <1>10, <1>11, <1>12,
     <1>13, <1>14, <1>15, <1>16 DEF ServerNext

-----------------------------------------------------------------------------
(***************************************************************************)
(* What holds in every behaviour.                                          *)
(***************************************************************************)
\* The inductive invariant holds in every reachable state.
THEOREM Invariance == FairSpec => []IInv
<1>1. Init => IInv
  BY InvInit
<1>2. IInv /\ [Next]_vars => IInv'
  <2> SUFFICES ASSUME IInv, [Next]_vars
               PROVE  IInv'
    OBVIOUS
  <2>1. CASE ContainerStep
    BY <2>1, ContainerInv
  <2>2. CASE ServerStep
    BY <2>2, ServerInv
  <2>3. CASE UNCHANGED vars
    <3>1. UNCHANGED entrypointVars /\ UNCHANGED serverVars
      BY <2>3 DEF vars
    <3>2. phase' = phase
      BY <3>1 DEF entrypointVars
    <3> QED
      BY <3>1, <3>2, SameContainer, SameServerInv DEF IInv, TypeOK
  <2> QED
    BY <2>1, <2>2, <2>3 DEF Next
<1> QED
  BY <1>1, <1>2, PTL DEF FairSpec

\* The variables keep their types: durations fit, whatever is asked for
\* (config.go:31, executor.go:67, tools.go:134).
THEOREM TypeCorrect == FairSpec => []TypeOK
<1>1. IInv => TypeOK
  BY DEF IInv
<1> QED
  BY <1>1, Invariance, PTL

\* Every remote argument that has the documented form, of whatever length and
\* characters, is divided as documented (remote.go:9).
THEOREM GrammarRead == FairSpec => []GrammarParsed
<1>1. IInv => GrammarParsed
  <2> SUFFICES ASSUME IInv, request # Nil
               PROVE  ParsesAsDocumented(TrimSpace(Text(request.remote)))
    BY DEF GrammarParsed
  <2>1. Text(request.remote) \in Chars
    BY Serving
  <2> QED
    BY <2>1, Grammar
<1> QED
  BY <1>1, Invariance, PTL

\* Both tools give a command the time that was asked for, for every width of a
\* duration and every number that it can hold (executor.go:67, tools.go:134).
THEOREM Deadlines == FairSpec => []DeadlineAsAsked
<1>1. IInv => DeadlineAsAsked
  <2> SUFFICES ASSUME IInv, process # Nil
               PROVE  IF request.timeout = Missing \/ request.timeout <= 0
                      THEN process.timeout = config.timeout
                      ELSE request.timeout >= 2
                             /\ request.timeout * (Second \div 2) <= MaxDuration =>
                           /\ process.timeout <= request.timeout * (Second \div 2)
                           /\ process.timeout + Second > request.timeout * (Second \div 2)
    BY DEF DeadlineAsAsked
  <2>1. process.timeout \in Timeouts(request.timeout) /\ request # Nil
    BY DEF IInv, Working, TypeOK
  <2>2. IsNumber(request.timeout)
    BY <2>1, Serving
  <2> QED
    BY <2>1, <2>2, TimeoutsAsAsked
<1> QED
  BY <1>1, Invariance, PTL

\* The remote shell changes to the path that was given, of whatever length and
\* characters but those it reads otherwise (remote.go:84 and 99).
THEOREM PathKept == FairSpec => []CdGoesToPath
<1>1. IInv => CdGoesToPath
  <2> DEFINE path == Parse(Text(request.remote)).path
  <2> SUFFICES ASSUME IInv, process # Nil, Range(path) \cap (Expanding \cup Unprinted) = {}
               PROVE  process.directory = path
    BY DEF CdGoesToPath
  <2>1. request # Nil /\ process.directory = Directory(Parse(Text(request.remote)))
    BY DEF IInv, TypeOK, Working, InDirectory
  <2>2. path \in Seq(Character)
    BY <2>1, Serving DEF SpecState, Chars
  <2>3. ShellWord(shellQuote(path)) = path
    BY <2>2, QuotedPath
  <2> QED
    BY <2>1, <2>3 DEF Directory
<1> QED
  BY <1>1, Invariance, PTL

\* Structured results have what the output schemas require, for every call that
\* can be made (output_schema.go:9, tools.go:36-92).
THEOREM Schemas == FairSpec => []SchemasKept
<1>1. IInv => SchemasKept
  BY DEF IInv
<1> QED
  BY <1>1, Invariance, PTL

\* A result names the process that ran the command (executor.go:213-253,
\* session.go:258-287).
THEOREM ResultsTrue == FairSpec => []ResultNamesProcess
<1>1. IInv => ResultNamesProcess
  BY DEF IInv
<1> QED
  BY <1>1, Invariance, PTL

\* Sessions stay where they are, and a command runs where its call asked for,
\* whatever text of the remote earlier calls gave (session.go:71-77).
THEOREM NeverMoves == FairSpec => SessionNeverMoves
<1> DEFINE Moves(id) ==
             sessions'[id] # Nil =>
               /\ sessions[id] # Nil => sessions'[id] = sessions[id]
               /\ (process' # process /\ process' # Nil
                     /\ request.tool = "persistent_shell" /\ request.session_id = id) =>
                     /\ sessions'[id].remote = Parse(Text(request.remote))
                     /\ process'.program = sessions'[id].program.program
<1>1. ASSUME IInv, [Next]_vars, NEW id \in SessionIDs PROVE Moves(id)
  <2>1. sessions \in [SessionIDs -> SessionState \cup {Nil}]
    BY <1>1 DEF IInv, TypeOK
  <2>2. ASSUME UNCHANGED sessions, process' = process \/ process' = Nil PROVE Moves(id)
    BY <2>2
  <2>3. ASSUME NEW other, sessions' = [sessions EXCEPT ![other] = Nil],
               process' = process \/ process' = Nil
        PROVE  Moves(id)
    <3>1. sessions'[id] \in {sessions[id], Nil}
      BY <2>1, <2>3
    <3> QED
      BY <2>3, <3>1
  <2>4. CASE UNCHANGED vars
    BY <2>2, <2>4 DEF vars, serverVars
  <2>5. CASE ContainerStep
    <3>1. CASE NoServer
      BY <3>1, <1>1 DEF NoServer
    <3>2. CASE UNCHANGED serverVars
      BY <2>2, <3>2 DEF serverVars
    <3> QED
      BY <2>5, <3>1, <3>2 DEF ContainerStep
  <2>6. CASE UseSession
    <3> DEFINE spec == Parse(Text(request.remote))
    <3>1. /\ request # Nil /\ spec # Malformed /\ UNCHANGED sessions
          /\ request.session_id \in SessionIDs /\ sessions[request.session_id] # Nil
          /\ sessions[request.session_id].remote.raw = spec.raw
          /\ process'.program = sessions[request.session_id].program.program
      BY <2>6 DEF UseSession, Is, Open, Run
    <3>2. sessions[request.session_id].remote = spec
      BY <1>1, <3>1, Serving, OpenSession
    <3> QED
      BY <3>1, <3>2
  <2>7. CASE CreateSession
    <3> DEFINE spec    == Parse(Text(request.remote))
               shell   == Given(request.shell, config.shell)
               session == [shell |-> shell, remote |-> spec,
                           program |-> Program(shell, spec)]
    <3>1. /\ request # Nil /\ ~NoText(request.session_id)
          /\ ~Open(request.session_id)
          /\ sessions' = [sessions EXCEPT ![request.session_id] = session]
          /\ process'.program = Program(shell, spec).program
      BY <2>7 DEF CreateSession, Is, Run
    <3>2. request.session_id \in SessionIDs
      BY <1>1, <3>1, Serving
    <3>3. session.remote = spec /\ session.program = Program(shell, spec)
      OBVIOUS
    <3> HIDE DEF session, spec, shell
    <3>4. CASE id = request.session_id
      <4>1. sessions'[id] = session /\ sessions[id] = Nil
        BY <2>1, <3>1, <3>2, <3>4 DEF Open
      <4> QED
        BY <3>1, <3>3, <4>1 DEF spec
    <3>5. CASE id # request.session_id
      <4>1. sessions'[id] = sessions[id]
        BY <2>1, <3>1, <3>2, <3>5
      <4> QED
        BY <3>5, <4>1
    <3> QED
      BY <3>4, <3>5
  <2>8. CASE StartCommand
    BY <2>8 DEF StartCommand, Is
  <2>9. CASE StartServer \/ \E r \in Requests : Receive(r)
    BY <2>2, <2>9 DEF StartServer, Receive
  <2>10. CASE Respond
    BY <2>2, <2>10 DEF Respond
  <2>11. CASE \/ RejectCommand \/ ReportCommand \/ RejectShell \/ FailStart
              \/ ReportShell \/ RejectAction \/ ListSessions
    BY <2>2, <2>11 DEF RejectCommand, ReportCommand, RejectShell, FailStart,
                       ReportShell, RejectAction, ListSessions, Answer
  <2>12. CASE FailShell
    BY <2>2, <2>3, <2>12 DEF FailShell, Answer
  <2>13. CASE CloseSession
    BY <2>3, <2>13 DEF CloseSession, Answer
  <2>14. CASE \E other \in SessionIDs : SweepSession(other)
    BY <2>3, <2>14 DEF SweepSession
  <2> HIDE DEF Moves
  <2> QED
    BY <1>1, <2>4, <2>5, <2>6, <2>7, <2>8, <2>9, <2>10, <2>11, <2>12, <2>13, <2>14
       DEF Next, ServerStep, ServerNext
<1>2. IInv /\ [Next]_vars =>
        [\A id \in SessionIDs : sessions'[id] # Nil =>
          /\ sessions[id] # Nil => sessions'[id] = sessions[id]
          /\ (process' # process /\ process' # Nil /\ request.tool = "persistent_shell"
                /\ request.session_id = id) =>
                /\ sessions'[id].remote = Parse(Text(request.remote))
                /\ process'.program = sessions'[id].program.program
        ]_vars
  BY <1>1
<1> QED
  BY <1>2, Invariance, PTL DEF FairSpec, SessionNeverMoves

\* Every step of the script brings a gateway that can join nearer to serving,
\* however often it polls, until the next fault (entrypoint.sh:10-47).
THEOREM Nearer == FairSpec => EachStepNearer
<1>1. ASSUME IInv, [Next]_vars, configured, identity \/ authkey
      PROVE  /\ configured' /\ (identity' \/ authkey')
             /\ entrypointVars' # entrypointVars /\ faults' = faults =>
                   Distance' < Distance
  <2>1. /\ MaxPolls \in Nat /\ polls \in 0..MaxPolls /\ faults \in Nat
    BY <1>1, MaxPollsAssumption, MaxFaultsAssumption DEF IInv, TypeOK, EntrypointTypeOK
  <2> USE DEF Distance
  <2>2. CASE UNCHANGED entrypointVars
    BY <1>1, <2>2 DEF entrypointVars
  <2>3. CASE Boot \/ StartTailscaled \/ PollSucceeds
    <3>1. CASE Boot
      BY <1>1, <2>1, <3>1 DEF Boot
    <3>2. CASE StartTailscaled
      BY <1>1, <2>1, <3>2 DEF StartTailscaled
    <3>3. CASE PollSucceeds
      BY <1>1, <2>1, <3>3 DEF PollSucceeds
    <3> QED
      BY <2>3, <3>1, <3>2, <3>3
  <2>4. CASE PollFails
    BY <1>1, <2>1, <2>4 DEF PollFails
  <2>5. CASE Up
    BY <1>1, <2>1, <2>5 DEF Up, Joined
  <2>6. CASE UpRefused
    BY <1>1, <2>1, <2>6 DEF UpRefused, Down
  <2>7. CASE UpFails \/ TailscaledDies \/ ContainerEnds
    <3> HIDE DEF Distance
    <3>1. faults' # faults
      BY <2>1, <2>7 DEF UpFails, TailscaledDies, ContainerEnds, Fault
    <3>2. configured' = configured
      BY <2>7 DEF UpFails, TailscaledDies, ContainerEnds, Down
    <3>3. identity' \/ authkey'
      BY <1>1, <2>7 DEF UpFails, TailscaledDies, ContainerEnds, Joined
    <3> QED
      BY <1>1, <3>1, <3>2, <3>3
  <2>8. ~Unconfigured
    BY <1>1 DEF Unconfigured
  <2> QED
    BY <1>1, <2>2, <2>3, <2>4, <2>5, <2>6, <2>7, <2>8
       DEF Next, ContainerStep, ServerStep, EntrypointNext, Script, vars
<1>2. IInv /\ [Next]_vars =>
        [configured /\ (identity \/ authkey) =>
          /\ configured' /\ (identity' \/ authkey')
          /\ entrypointVars' # entrypointVars /\ faults' = faults =>
                Distance' < Distance
        ]_vars
  BY <1>1
<1> QED
  BY <1>2, Invariance, PTL DEF FairSpec, EachStepNearer
=============================================================================
