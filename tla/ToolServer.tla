------------------------------ MODULE ToolServer ------------------------------
(***************************************************************************)
(* The MCP server from the outside: what main.go and config.go set up, how *)
(* the handlers of tools.go read a call's arguments, which process runs    *)
(* the command, for how long, and what the result says of it               *)
(* (executor.go, session.go, trace.go), against the schemas the tools are  *)
(* registered with (tools.go, output_schema.go).                           *)
(*                                                                         *)
(* One call is served at a time here: what concurrent calls do to each     *)
(* other is in SessionManager, what can happen to a running command in     *)
(* Executor and CommandStream.  Durations wrap around after MaxDuration;   *)
(* Second is one second; a call's timeout is asked for in half seconds.    *)
(* Texts of messages and values no property is about are left out, and so  *)
(* are other platforms than the image's, Linux.                            *)
(***************************************************************************)
EXTENDS RemoteSpec, Integers

CONSTANTS
    Requests,       \* the calls clients make
    Environments,   \* the environments the server is started in
    SessionIDs,     \* the session IDs in Requests
    MaxDuration,    \* the greatest time.Duration; 2^63 - 1 in the code
    Second,         \* time.Second; 10^9 in the code
    DefaultSeconds, \* 30 in the code
    Missing,        \* an argument or variable that is absent, or of another
                    \* type, which a Go type assertion does not tell apart
    Nil             \* nothing

ASSUME DurationAssumption ==
    /\ MaxDuration \in Nat /\ Second \in Nat \ {0} /\ Second % 2 = 0
    /\ DefaultSeconds \in Nat /\ DefaultSeconds * Second <= MaxDuration

IsNumber(value) == value = Missing \/ value \in Int

\* mcp-go lets only calls of registered tools through.
ASSUME RequestsAssumption ==
    \A r \in Requests :
        /\ r.tool \in {"execute_command", "persistent_shell", "session_manager"}
        /\ r.remote = Missing \/ r.remote \in Chars
        /\ IsNumber(r.timeout)
        /\ r.session_id \in {Missing, ""} \cup SessionIDs

ASSUME EnvironmentsAssumption ==
    \A env \in Environments : IsNumber(env.timeout)

\* A process, and what the map of sessions holds.
Shells == {"/bin/bash"} \cup {x.shell : x \in Requests \cup Environments}
ProgramState == [program : Shells \cup {"ssh"}, args : Seq(Chars)]
SessionState == [shell : Shells, remote : SpecState, program : ProgramState]

ASSUME NilAssumption ==
    Nil \notin SessionState /\ Nil # [isError |-> TRUE, structured |-> Nil]

ASSUME MissingAssumption == Missing \notin {"list", "close"}

VARIABLES
    config,     \* Nil as long as the server does not run
    sessions,   \* Manager.sessions, Nil where there is none
    request,    \* the call being served, Nil if there is none
    process,    \* the process its command was given to, Nil before
    reply       \* its result, Nil before

serverVars == <<config, sessions, request, process, reply>>

-----------------------------------------------------------------------------
(***************************************************************************)
(* Durations.                                                              *)
(***************************************************************************)
MinDuration == -MaxDuration - 1
Durations   == MinDuration..MaxDuration

\* Two's complement: there are 2 * (MaxDuration + 1) durations.
Wrap(n) == ((n - MinDuration) % (2 * (MaxDuration + 1))) + MinDuration

\* time.Duration(n) * time.Second
Duration(n) == Wrap(n * Second)

\* time.Duration of a float: what becomes of one that is too large depends on
\* the processor.
Truncated(halves) ==
    IF halves \div 2 <= MaxDuration THEN {halves \div 2}
    ELSE {MinDuration, MaxDuration}

\* Mutant of Timeouts: the number is taken for nanoseconds.
TimeoutsUnscaled(arg) ==
    IF arg = Missing \/ arg <= 0 THEN {config.timeout}
    ELSE Truncated(arg)

\* The timeout of a call: the default unless a positive one is asked for.
Timeouts(arg) ==
    IF arg = Missing \/ arg <= 0 THEN {config.timeout}
    ELSE {Duration(n) : n \in Truncated(arg)}

-----------------------------------------------------------------------------
(***************************************************************************)
(* The schemas.                                                            *)
(***************************************************************************)
Tools == {"execute_command", "persistent_shell", "session_manager"}

\* The required arguments, and the values of those that have an enum.
InputRequired ==
    [execute_command  |-> {"command"},
     persistent_shell |-> {"command", "session_id"},
     session_manager  |-> {"action"}]

Actions == {"list", "close"}

\* The fields both tools that run a command must report.
CommandRequired ==
    {"stdout", "exit_code", "timed_out", "shell", "timeout_seconds",
     "invocation_id", "execution_mode", "target", "remote_path", "correlated",
     "request_id", "tool_name", "requested_remote", "resolved_target",
     "command_hash", "started_at", "finished_at"}

OutputRequired ==
    [execute_command  |-> CommandRequired \cup {"stderr", "error", "platform"},
     persistent_shell |-> CommandRequired \cup {"session_id", "pid"},
     session_manager  |-> {"action", "message", "sessions", "closed_session_id"}]

OutputEnum == [execution_mode |-> {"local", "remote"}, action |-> Actions]

SessionFields == {"id", "shell", "pid", "created", "last_used", "alive", "remote",
                  "remote_path"}

-----------------------------------------------------------------------------
(***************************************************************************)
(* The server starts: flags and environment, then the registry.            *)
(***************************************************************************)
Given(value, default) == IF value \in {Missing, ""} THEN default ELSE value

\* A timeout of the environment is taken over whatever its sign.
ParseFlags(env) ==
    [timeout |-> IF env.timeout = Missing THEN Duration(DefaultSeconds)
                 ELSE Duration(env.timeout),
     shell   |-> Given(env.shell, "/bin/bash")]

NoServer ==
    /\ config' = Nil
    /\ sessions' = [id \in SessionIDs |-> Nil]
    /\ request' = Nil
    /\ process' = Nil
    /\ reply' = Nil

ServerInit ==
    /\ config = Nil
    /\ sessions = [id \in SessionIDs |-> Nil]
    /\ request = Nil
    /\ process = Nil
    /\ reply = Nil

StartServer ==
    /\ config = Nil
    /\ \E env \in Environments : config' = ParseFlags(env)
    /\ UNCHANGED <<sessions, request, process, reply>>

Receive(r) ==
    /\ config # Nil
    /\ request = Nil
    /\ request' = r
    /\ UNCHANGED <<config, sessions, process, reply>>

\* The result goes back to the client.
Respond ==
    /\ reply # Nil
    /\ request' = Nil
    /\ process' = Nil
    /\ reply' = Nil
    /\ UNCHANGED <<config, sessions>>

-----------------------------------------------------------------------------
(***************************************************************************)
(* Results.                                                                *)
(***************************************************************************)

\* The keys of the executor's map.
ExecutorFields ==
    {"stdout", "stderr", "exit_code", "error", "timed_out", "platform", "shell",
     "timeout_seconds", "invocation_id", "execution_mode", "target", "remote_path",
     "correlated", "request_id", "tool_name", "requested_remote",
     "resolved_target", "command_hash", "started_at", "finished_at"}

\* Mutant of ErrorFields: nothing has been timed out.
ErrorFieldsUntimed ==
    {"stdout", "stderr", "exit_code", "error", "platform", "shell",
     "timeout_seconds", "invocation_id", "execution_mode", "target", "remote_path",
     "correlated", "request_id", "tool_name", "requested_remote",
     "resolved_target", "command_hash", "started_at", "finished_at"}

\* The keys of the map for calls that are refused, a list of its own.
ErrorFields ==
    {"stdout", "stderr", "exit_code", "error", "timed_out", "platform", "shell",
     "timeout_seconds", "invocation_id", "execution_mode", "target", "remote_path",
     "correlated", "request_id", "tool_name", "requested_remote",
     "resolved_target", "command_hash", "started_at", "finished_at"}

\* The keys of the session manager's map.
ShellFields ==
    {"stdout", "session_id", "shell", "pid", "timeout_seconds", "timed_out",
     "exit_code", "correlated", "invocation_id", "execution_mode", "target",
     "remote_path", "request_id", "tool_name", "requested_remote",
     "resolved_target", "command_hash", "started_at", "finished_at"}

Text(arg) == IF arg = Missing THEN <<>> ELSE arg    \* a remote argument

\* The request's metadata, with the values below for the fields they name and
\* values that do not matter for the others.
Result(fields, known) ==
    [field \in fields |->
        CASE field \in DOMAIN known -> known[field]
          [] field = "tool_name" -> request.tool
          [] field = "requested_remote" -> Text(request.remote)
          [] field = "command_hash" -> request.command
          [] OTHER -> "some"]

Structured(value) == [isError |-> FALSE, structured |-> value]
TextError == [isError |-> TRUE, structured |-> Nil]

\* metadataToolError
MetadataError ==
    [isError |-> TRUE,
     structured |->
        Result(ErrorFields,
               [execution_mode |-> "", shell |-> "", timeout_seconds |-> 0,
                target |-> <<>>, remote_path |-> <<>>, resolved_target |-> <<>>,
                correlated |-> FALSE])]

Mode(spec) == IF spec.raw = <<>> THEN "local" ELSE "remote"

\* The result of a command, whichever tool ran it.
CommandResult(shell, spec, timeout, correlated) ==
    Result(IF request.tool = "execute_command" THEN ExecutorFields ELSE ShellFields,
           [shell |-> shell, timeout_seconds |-> timeout,
            execution_mode |-> Mode(spec), target |-> spec.target,
            resolved_target |-> spec.target, remote_path |-> spec.path,
            correlated |-> correlated])

Answer(result) ==
    /\ request # Nil /\ reply = Nil
    /\ reply' = result
    /\ UNCHANGED <<config, request, process>>

-----------------------------------------------------------------------------
(***************************************************************************)
(* Processes.                                                              *)
(***************************************************************************)
Program(shell, spec) ==
    [program |-> IF spec.raw = <<>> THEN shell ELSE "ssh",
     args    |-> IF spec.raw = <<>> THEN <<>> ELSE SSHArgs(spec)]

\* The command is given to a process, with the directory it changes to first.
Run(program, spec, timeout) ==
    /\ request # Nil /\ reply = Nil /\ process = Nil
    /\ process' = [program   |-> program.program, args    |-> program.args,
                   directory |-> Directory(spec),  timeout |-> timeout]
    /\ UNCHANGED <<config, request, reply>>

Is(tool) == request # Nil /\ request.tool = tool /\ reply = Nil /\ process = Nil

NoText(arg) == arg \in {Missing, ""}

Open(id) == id \in SessionIDs /\ sessions[id] # Nil

-----------------------------------------------------------------------------
(***************************************************************************)
(* execute_command.                                                        *)
(***************************************************************************)
RejectCommand ==
    /\ Is("execute_command")
    /\ \/ NoText(request.command)
       \/ Parse(Text(request.remote)) = Malformed
    /\ Answer(MetadataError)
    /\ UNCHANGED sessions

StartCommand ==
    LET spec == Parse(Text(request.remote))
    IN  /\ Is("execute_command")
        /\ ~NoText(request.command)
        /\ spec # Malformed
        /\ \E timeout \in Timeouts(request.timeout) :
              Run(Program(Given(request.shell, config.shell), spec), spec, timeout)
        /\ UNCHANGED sessions

\* The result is an error if the markers were not found, as when the deadline
\* had passed before the command started.
ReportCommand ==
    /\ request # Nil /\ request.tool = "execute_command" /\ process # Nil
    /\ \E correlated \in IF process.timeout > 0 THEN BOOLEAN ELSE {FALSE} :
          Answer([isError    |-> ~correlated,
                  structured |->
                     CommandResult(Given(request.shell, config.shell),
                                   Parse(Text(request.remote)), process.timeout,
                                   correlated)])
    /\ UNCHANGED sessions

-----------------------------------------------------------------------------
(***************************************************************************)
(* persistent_shell.                                                       *)
(***************************************************************************)
\* The session exists with another remote target.
Elsewhere(id) ==
    /\ Open(id)
    /\ sessions[id].remote.raw # Parse(Text(request.remote)).raw

RejectShell ==
    /\ Is("persistent_shell")
    /\ \/ NoText(request.command)
       \/ NoText(request.session_id)
       \/ Parse(Text(request.remote)) = Malformed
       \/ Elsewhere(request.session_id)
    /\ Answer(TextError)
    /\ UNCHANGED sessions

\* The shell or ssh cannot be started.
FailStart ==
    /\ Is("persistent_shell")
    /\ ~NoText(request.command) /\ ~NoText(request.session_id)
    /\ Parse(Text(request.remote)) # Malformed
    /\ ~Open(request.session_id)
    /\ Answer(TextError)
    /\ UNCHANGED sessions

\* Mutant of UseSession: a session with another target is replaced.
UseSessionMoved ==
    LET id   == request.session_id
        spec == Parse(Text(request.remote))
    IN  /\ Is("persistent_shell")
        /\ ~NoText(request.command) /\ ~NoText(id)
        /\ Open(id)
        /\ sessions' = [sessions EXCEPT ![id].remote = spec,
                                        ![id].program = Program(sessions[id].shell, spec)]
        /\ \E timeout \in Timeouts(request.timeout) :
              Run(Program(sessions[id].shell, spec), spec, timeout)

\* The session keeps the shell it was created with; the one asked for now is
\* not looked at.
UseSession ==
    LET id   == request.session_id
        spec == Parse(Text(request.remote))
    IN  /\ Is("persistent_shell")
        /\ ~NoText(request.command) /\ ~NoText(id)
        /\ spec # Malformed
        /\ Open(id)
        /\ sessions[id].remote.raw = spec.raw
        /\ \E timeout \in Timeouts(request.timeout) :
              Run(sessions[id].program, sessions[id].remote, timeout)
        /\ UNCHANGED sessions

CreateSession ==
    LET id    == request.session_id
        spec  == Parse(Text(request.remote))
        shell == Given(request.shell, config.shell)
    IN  /\ Is("persistent_shell")
        /\ ~NoText(request.command) /\ ~NoText(id)
        /\ spec # Malformed
        /\ ~Open(id)
        /\ sessions' = [sessions EXCEPT ![id] =
              [shell |-> shell, remote |-> spec, program |-> Program(shell, spec)]]
        /\ \E timeout \in Timeouts(request.timeout) :
              Run(Program(shell, spec), spec, timeout)

\* Mutant of ReportShell: the result names the shell that was asked for.
ReportShellAsked ==
    /\ request # Nil /\ request.tool = "persistent_shell" /\ process # Nil
    /\ Answer(Structured(
          CommandResult(Given(request.shell, config.shell),
                        sessions[request.session_id].remote, process.timeout, TRUE)))
    /\ UNCHANGED sessions

\* The markers were found.
ReportShell ==
    LET session == sessions[request.session_id]
    IN  /\ request # Nil /\ request.tool = "persistent_shell" /\ process # Nil
        /\ Answer(Structured(
              CommandResult(session.shell, session.remote, process.timeout, TRUE)))
        /\ UNCHANGED sessions

\* The session is closed, unless the command could not even be written.
FailShell ==
    /\ request # Nil /\ request.tool = "persistent_shell" /\ process # Nil
    /\ Answer(TextError)
    /\ \/ sessions' = [sessions EXCEPT ![request.session_id] = Nil]
       \/ UNCHANGED sessions

-----------------------------------------------------------------------------
(***************************************************************************)
(* session_manager, and the idle sweep.                                    *)
(***************************************************************************)
ManagerResult(listed, closed) ==
    Structured([action |-> request.action, message |-> "some",
                sessions |-> listed, closed_session_id |-> closed])

RejectAction ==
    /\ Is("session_manager")
    /\ \/ request.action \notin Actions
       \/ /\ request.action = "close"
          /\ \/ NoText(request.session_id)
             \/ ~Open(request.session_id)
    /\ Answer(TextError)
    /\ UNCHANGED sessions

ListSessions ==
    /\ Is("session_manager")
    /\ request.action = "list"
    /\ LET open == {id \in SessionIDs : Open(id)}
           Info(id) == [id |-> id, shell |-> sessions[id].shell,
                        remote |-> sessions[id].remote.target,
                        remote_path |-> sessions[id].remote.path,
                        pid |-> "some", created |-> "some", last_used |-> "some",
                        alive |-> "some"]
       IN  Answer(ManagerResult({Info(id) : id \in open}, ""))
    /\ UNCHANGED sessions

CloseSession ==
    /\ Is("session_manager")
    /\ request.action = "close"
    /\ ~NoText(request.session_id)
    /\ Open(request.session_id)
    /\ Answer(ManagerResult({}, request.session_id))
    /\ sessions' = [sessions EXCEPT ![request.session_id] = Nil]

\* A session has been idle for half an hour; no call is served meanwhile.
SweepSession(id) ==
    /\ request = Nil
    /\ Open(id)
    /\ sessions' = [sessions EXCEPT ![id] = Nil]
    /\ UNCHANGED <<config, request, process, reply>>

-----------------------------------------------------------------------------
ServerNext ==
    \/ StartServer
    \/ \E r \in Requests : Receive(r)
    \/ Respond
    \/ RejectCommand \/ StartCommand \/ ReportCommand
    \/ RejectShell \/ FailStart \/ UseSession \/ CreateSession \/ ReportShell
    \/ FailShell
    \/ RejectAction \/ ListSessions \/ CloseSession
    \/ \E id \in SessionIDs : SweepSession(id)
=============================================================================
