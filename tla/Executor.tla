------------------------------- MODULE Executor -------------------------------
(***************************************************************************)
(* One run of the execute_command tool                                     *)
(* (src/terminal_mcp/executor/executor.go): the process the gateway starts *)
(* (a local shell, or ssh), the wrapper script that prints a marker before *)
(* and after the command, the command and what it leaves running, the      *)
(* timeout that kills the process and only the process, and the result put *)
(* together from the exit status and the markers found in the output.      *)
(*                                                                         *)
(* Runs share nothing but a counter for invocation IDs, so one is enough.  *)
(* Output is a sequence of pieces: a marker, a piece of text the command   *)
(* prints, or noise from elsewhere (ssh's warnings, a failed cd).          *)
(*                                                                         *)
(* The process runs under os/exec: Run starts it, a watcher kills it when  *)
(* the context expires, Wait reaps it and then waits, without limit since  *)
(* WaitDelay is 0, until nobody holds the output pipe any more.            *)
(***************************************************************************)
EXTENDS Integers, Sequences, SequencesExt

CONSTANTS
    Status,     \* exit statuses of commands; 0 is success
    MaxText     \* a bound on the pieces of text a command prints

ASSUME StatusAssumption == Status \subseteq 0..255 /\ 0 \in Status
ASSUME MaxTextAssumption == MaxText \in Nat

VARIABLES
    mode,        \* the remote argument: none, a host, a host with a path
    capture,     \* capture_stderr
    call,        \* where ExecuteWithMetadata and cmd.Run stand
    expired,     \* the context's deadline has passed
    proc,        \* the process the gateway started
    exit,        \* its exit status, which ssh has from the script it runs
    interrupted, \* the watcher's Kill succeeded
    script,      \* the next line of the wrapper script
    command,     \* the command inside the wrapper
    inPath,      \* it runs in the directory asked for
    status,      \* its exit status, $__mcp_status
    holds,       \* it, or a process it left behind, holds its stdout open
    out,         \* what has arrived in the stdout buffer
    result       \* the fields of the tool result

procVars   == <<proc, exit, interrupted>>
scriptVars == <<script, command, inPath, status, holds>>
vars == <<mode, capture, call, expired, procVars, scriptVars, out, result>>

-----------------------------------------------------------------------------
(***************************************************************************)
(* Types and initial state.                                                *)
(***************************************************************************)
Piece == {"noise", "start", "text", "end"}

\* -1: the process did not produce an exit code.  255: ssh itself failed.
ExitCode == Status \cup {-1, 2, 255}

\* "exec": err.Error().  "marker": no matching markers.  "startup": the remote
\* connection failed before command execution, no remote command was executed.
ErrorText == {"request", "exec", "marker", "startup"}

NoResult == [stdout |-> <<>>, exit_code |-> -1, correlated |-> FALSE,
             timed_out |-> FALSE, error |-> {}, isError |-> FALSE]

Result == [stdout : Seq(Piece), exit_code : ExitCode, correlated : BOOLEAN,
           timed_out : BOOLEAN, error : SUBSET ErrorText, isError : BOOLEAN]

TypeOK ==
    /\ mode        \in {"local", "host", "path"}
    /\ capture     \in BOOLEAN
    /\ call        \in {"starting", "running", "draining", "collected", "returned"}
    /\ expired     \in BOOLEAN
    /\ proc        \in {"none", "alive", "exited", "killed"}
    /\ exit        \in ExitCode
    /\ interrupted \in BOOLEAN
    /\ script      \in {"connect", "cd", "start", "command", "end", "exit", "done",
                       "died"}
    /\ command     \in {"none", "running", "ended"}
    /\ inPath      \in BOOLEAN
    /\ status      \in Status
    /\ holds       \in BOOLEAN
    /\ out         \in Seq(Piece)
    /\ result      \in Result

Init ==
    /\ mode        \in {"local", "host", "path"}
    /\ capture     \in BOOLEAN
    /\ call        = "starting"
    /\ expired     = FALSE
    /\ proc        = "none"
    /\ exit        = -1
    /\ interrupted = FALSE
    /\ script      = IF mode = "local" THEN "start" ELSE "connect"
    /\ command     = "none"
    /\ inPath      = (mode # "path")
    /\ status      = 0
    /\ holds       = FALSE
    /\ out         = <<>>
    /\ result      = NoResult

-----------------------------------------------------------------------------
(***************************************************************************)
(* unwrapCommandOutput: what lies between the first start marker and the   *)
(* last end marker after it.                                               *)
(***************************************************************************)

\* Mutant of Unwrap: a missing end marker is taken for the end of the output.
UnwrapToEnd(stdout) ==
    LET first == SelectInSeq(stdout, LAMBDA p : p = "start")
    IN  [output |-> SubSeq(stdout, first + 1, Len(stdout)), correlated |-> first # 0]

\* Mutant of Unwrap: only the end marker is looked for.
UnwrapFromFirst(stdout) ==
    LET last == SelectLastInSeq(stdout, LAMBDA p : p = "end")
    IN  [output |-> SubSeq(stdout, 1, last - 1), correlated |-> last # 0]

Unwrap(stdout) ==
    LET first   == SelectInSeq(stdout, LAMBDA p : p = "start")
        payload == SubSeq(stdout, first + 1, Len(stdout))
        last    == SelectLastInSeq(payload, LAMBDA p : p = "end")
    IN  IF first = 0 THEN [output |-> stdout, correlated |-> FALSE]
        ELSE IF last = 0 THEN [output |-> payload, correlated |-> FALSE]
        ELSE [output |-> SubSeq(payload, 1, last - 1), correlated |-> TRUE]

Goto(step) == call' = step

\* stderr is merged into stdout unless it is captured separately.
Noise(stdout) == IF capture THEN stdout ELSE Append(stdout, "noise")

\* Output reaches the gateway through the pipe itself, or through ssh.
Delivered(piece) ==
    out' = IF mode = "local" \/ proc = "alive" THEN Append(out, piece) ELSE out

-----------------------------------------------------------------------------
(***************************************************************************)
(* The handler up to cmd.Run.                                              *)
(***************************************************************************)

\* metadataToolError: no command, a malformed remote, an unknown platform.
RejectRequest ==
    /\ call = "starting"
    /\ result' = [NoResult EXCEPT !.error = {"request"}, !.isError = TRUE]
    /\ Goto("returned")
    /\ UNCHANGED <<mode, capture, expired, procVars, scriptVars, out>>

\* Start fails when the context has expired already or there is no such
\* executable; Run returns the error and there is nothing to wait for.
StartFails ==
    /\ call = "starting"
    /\ Goto("draining")
    /\ UNCHANGED <<mode, capture, expired, procVars, scriptVars, out, result>>

StartProcess ==
    /\ call = "starting"
    /\ ~expired
    /\ proc' = "alive"
    /\ Goto("running")
    /\ UNCHANGED <<mode, capture, expired, exit, interrupted, scriptVars, out,
                   result>>

-----------------------------------------------------------------------------
(***************************************************************************)
(* The wrapper script.  A local script dies with the shell the gateway     *)
(* kills; a remote one goes on when ssh is gone, its output lost.          *)
(***************************************************************************)
ScriptAt(line) ==
    /\ script = line
    /\ proc # "none"
    /\ mode = "local" => proc = "alive"

Step(line) ==
    /\ script' = line
    /\ UNCHANGED <<mode, capture, call, expired, procVars, result>>

\* The shell that runs the script is gone.  It is the process the gateway
\* started, or on the remote host, where it leaves ssh its exit status.
Leaves(st) ==
    /\ exit' = IF proc = "alive" THEN st ELSE exit
    /\ proc' = IF mode = "local" THEN "exited" ELSE proc
    /\ UNCHANGED <<mode, capture, call, expired, interrupted, command, inPath,
                   status, holds, out, result>>

\* ssh logs in; it has put the host's key aside and says so on stderr.
Connect ==
    /\ ScriptAt("connect")
    /\ proc = "alive"
    /\ out' = Noise(out)
    /\ Step(IF mode = "path" THEN "cd" ELSE "start")
    /\ UNCHANGED <<command, inPath, status, holds>>

\* cd path && printf START: when cd fails, the start marker is not printed
\* and the script goes on with its next line, the command.
ChangeDirectory ==
    /\ ScriptAt("cd")
    /\ \/ /\ inPath' = TRUE
          /\ Step("start")
          /\ UNCHANGED out
       \/ /\ out' = IF proc = "alive" THEN Noise(out) ELSE out
          /\ Step("command")
          /\ UNCHANGED inPath
    /\ UNCHANGED <<command, status, holds>>

PrintStart ==
    /\ ScriptAt("start")
    /\ Delivered("start")
    /\ Step("command")
    /\ UNCHANGED <<command, inPath, status, holds>>

\* ( command )
StartCommand ==
    /\ ScriptAt("command")
    /\ command = "none"
    /\ command' = "running"
    /\ holds' = TRUE
    /\ Step("command")
    /\ UNCHANGED <<inPath, status, out>>

\* The shell cannot parse the command, the command closes the wrapper's
\* parenthesis and exits, or a signal ends the shell.
ShellDies ==
    /\ \/ /\ ScriptAt("command")
          /\ \E st \in Status \cup {2} : Leaves(st)
       \/ /\ ScriptAt("command") \/ ScriptAt("exit")
          /\ Leaves(IF mode = "local" THEN -1 ELSE 255)
    /\ script' = "died"

\* The command, or a process it left in the background, prints.
WriteText ==
    /\ holds
    /\ Len(SelectSeq(out, LAMBDA p : p = "text")) < MaxText
    /\ Delivered("text")
    /\ UNCHANGED <<mode, capture, call, expired, procVars, scriptVars, result>>

\* The command ends by itself; what it left behind may hold its stdout.
CommandEnds ==
    /\ command = "running"
    /\ command' = "ended"
    /\ status' \in Status
    /\ holds' \in {holds, FALSE}
    /\ UNCHANGED <<mode, capture, call, expired, procVars, script, inPath, out,
                   result>>

\* The last process that held stdout ends or redirects it.
Release ==
    /\ holds
    /\ holds' = FALSE
    /\ UNCHANGED <<mode, capture, call, expired, procVars, script, command,
                   inPath, status, out, result>>

PrintEnd ==
    /\ ScriptAt("command")
    /\ command = "ended"
    /\ Delivered("end")
    /\ Step("exit")
    /\ UNCHANGED <<command, inPath, status, holds>>

\* Mutant of Exit: the wrapper ends with the status of its last printf.
ExitZero ==
    /\ ScriptAt("exit")
    /\ Leaves(0)
    /\ script' = "done"

\* exit $__mcp_status, the script's last line.
Exit ==
    /\ ScriptAt("exit")
    /\ Leaves(status)
    /\ script' = "done"

\* ssh ends with the exit status of the remote shell, but not before everyone
\* on the remote host has let go of the output.
SshEnds ==
    /\ mode # "local"
    /\ proc = "alive"
    /\ script \in {"done", "died"}
    /\ ~holds
    /\ proc' = "exited"
    /\ UNCHANGED <<mode, capture, call, expired, exit, interrupted, scriptVars,
                   out, result>>

\* ssh cannot connect or loses the connection.
SshFails ==
    /\ mode # "local"
    /\ proc = "alive"
    /\ proc' = "exited"
    /\ exit' = 255
    /\ out' = Noise(out)
    /\ UNCHANGED <<mode, capture, call, expired, interrupted, scriptVars, result>>

-----------------------------------------------------------------------------
(***************************************************************************)
(* The timeout, cmd.Wait and the result.                                   *)
(***************************************************************************)
Expire ==
    /\ ~expired
    /\ expired' = TRUE
    /\ UNCHANGED <<mode, capture, call, procVars, scriptVars, out, result>>

\* Mutant of Kill: a shell's 128 + SIGKILL is recorded as the exit status.
KillRecorded ==
    /\ call = "running"
    /\ expired
    /\ ~interrupted
    /\ interrupted' = TRUE
    /\ proc' = IF proc = "alive" THEN "killed" ELSE proc
    /\ exit' = IF proc = "alive" THEN 137 ELSE exit
    /\ UNCHANGED <<mode, capture, call, expired, scriptVars, out, result>>

\* Mutant of Kill: only a command that has started is timed.
KillStarted ==
    /\ call = "running"
    /\ expired
    /\ command # "none"
    /\ ~interrupted
    /\ interrupted' = TRUE
    /\ proc' = IF proc = "alive" THEN "killed" ELSE proc
    /\ UNCHANGED <<mode, capture, call, expired, exit, scriptVars, out, result>>

\* The watcher kills the process, or one that has exited but was not reaped.
Kill ==
    /\ call = "running"
    /\ expired
    /\ ~interrupted
    /\ interrupted' = TRUE
    /\ proc' = IF proc = "alive" THEN "killed" ELSE proc
    /\ UNCHANGED <<mode, capture, call, expired, exit, scriptVars, out, result>>

\* Process.Wait returns.
Reap ==
    /\ call = "running"
    /\ proc \in {"exited", "killed"}
    /\ Goto("draining")
    /\ UNCHANGED <<mode, capture, expired, procVars, scriptVars, out, result>>

\* What Run returns: nil, an ExitError, the context's error or Start's.
RunFailed == proc = "none" \/ proc = "killed" \/ exit # 0 \/ interrupted
ExitError == proc = "killed" \/ (proc = "exited" /\ exit # 0)

\* The goroutine that copies stdout sees its end.
Drained == mode = "local" => ~holds

\* Mutant of Collect: a status out of the markers hides the error of Run.
CollectTrusting ==
    /\ call = "draining"
    /\ Drained
    /\ LET u == Unwrap(out)
       IN  result' = [result EXCEPT
             !.stdout     = IF u.correlated THEN u.output ELSE out,
             !.correlated = u.correlated,
             !.timed_out  = RunFailed /\ expired /\ ~u.correlated,
             !.exit_code  = IF u.correlated THEN status ELSE -1,
             !.error      = IF RunFailed /\ ~u.correlated THEN {"exec"} ELSE {}]
    /\ Goto("collected")
    /\ UNCHANGED <<mode, capture, expired, procVars, scriptVars, out>>

\* Mutant of Collect: every error of Run counts as no exit code.
CollectAnyError ==
    /\ call = "draining"
    /\ Drained
    /\ LET u == Unwrap(out)
       IN  result' = [result EXCEPT
             !.stdout     = IF u.correlated THEN u.output ELSE out,
             !.correlated = u.correlated,
             !.timed_out  = RunFailed /\ expired,
             !.exit_code  = IF RunFailed THEN -1
                            ELSE IF u.correlated THEN status ELSE 0,
             !.error      = IF RunFailed THEN {"exec"} ELSE {}]
    /\ Goto("collected")
    /\ UNCHANGED <<mode, capture, expired, procVars, scriptVars, out>>

\* Run returns; the result is filled in, with a first look at the context.
\* A correlated output carries the status the end marker was printed with.
Collect ==
    /\ call = "draining"
    /\ Drained
    /\ LET u == Unwrap(out)
       IN  result' = [result EXCEPT
             !.stdout     = IF u.correlated THEN u.output ELSE out,
             !.correlated = u.correlated,
             !.timed_out  = RunFailed /\ expired,
             !.exit_code  = IF ExitError
                            THEN IF proc = "killed" THEN -1 ELSE exit
                            ELSE IF u.correlated THEN status
                            ELSE IF RunFailed THEN -1 ELSE 0,
             !.error      = IF RunFailed THEN {"exec"} ELSE {}]
    /\ Goto("collected")
    /\ UNCHANGED <<mode, capture, expired, procVars, scriptVars, out>>

\* Without matching markers the result is a tool error: a failed remote run
\* is taken for one that never started.
Report ==
    /\ call = "collected"
    /\ result' = IF result.correlated THEN result
                 ELSE [result EXCEPT
                   !.isError = TRUE,
                   !.error   = IF mode # "local" /\ RunFailed
                               THEN {"startup"}
                               ELSE result.error \cup {"marker"}]
    /\ Goto("returned")
    /\ UNCHANGED <<mode, capture, expired, procVars, scriptVars, out>>

-----------------------------------------------------------------------------
Handler == RejectRequest \/ StartFails \/ StartProcess \/ Collect \/ Report

OS == Expire \/ Kill \/ Reap

Script ==
    \/ Connect \/ ChangeDirectory \/ PrintStart \/ StartCommand \/ ShellDies
    \/ WriteText \/ CommandEnds \/ Release \/ PrintEnd \/ Exit \/ SshEnds
    \/ SshFails

Next == Handler \/ OS \/ Script

Spec == Init /\ [][Next]_vars

\* The gateway and the operating system do their part and time passes.  The
\* command, and the shell or ssh before they are killed, owe nothing.
Fairness ==
    /\ WF_vars(StartFails \/ StartProcess)
    /\ WF_vars(Expire)
    /\ WF_vars(Kill)
    /\ WF_vars(Reap)
    /\ WF_vars(Collect)
    /\ WF_vars(Report)

FairSpec == Spec /\ Fairness

-----------------------------------------------------------------------------
(***************************************************************************)
(* Safety.                                                                 *)
(***************************************************************************)
Returned == call = "returned"

\* A correlated result is never partial: the command had ended when its
\* output was cut out (executor.go:54-81, 217).
CorrelatedComplete == Returned /\ result.correlated => command = "ended"

\* A correlated stdout is the command's own: no marker, no warning of ssh
\* before it and no word about a lost connection after it (executor.go:217-221).
CorrelatedClean ==
    Returned /\ result.correlated =>
        \A i \in 1..Len(result.stdout) : result.stdout[i] = "text"

\* A result without an error stands for a command that ran to its end, in the
\* directory asked for, with status 0 and within the timeout
\* ("an empty string when the command succeeded", executor.go:232-298).
NoErrorMeansDone ==
    Returned /\ result.error = {} =>
        /\ result.correlated
        /\ result.exit_code = 0
        /\ command = "ended" /\ status = 0 /\ inPath
        /\ ~result.timed_out

\* The exit code of a correlated result is the command's, unless something
\* happened to the wrapper's shell or to ssh after the end marker, which says
\* so: the timeout, a signal or, for a remote run, a lost connection.  Only
\* these, and not every error of Run, replace the status the marker carries
\* (executor.go:262-277).
ExitCodeHonest ==
    Returned /\ result.correlated /\ result.exit_code # status =>
        /\ result.error # {}
        /\ \/ proc = "killed" /\ result.exit_code = -1
           \/ mode = "local" /\ script = "died" /\ result.exit_code = -1
           \/ mode # "local" /\ result.exit_code = 255

\* A run the timeout has killed says so, even if its markers are complete
\* (executor.go:266-273).
KillReported ==
    Returned /\ proc = "killed" =>
        /\ result.timed_out
        /\ result.error # {}
        /\ result.exit_code = -1

-----------------------------------------------------------------------------
(***************************************************************************)
(* Liveness, under FairSpec.                                               *)
(***************************************************************************)

\* If what the command started lets go of its stdout for good, the call
\* returns, also when ssh never connects or the script is stuck: the timeout
\* kills the process Run waits for (executor.go:178, 191-193, 215).
ReturnsOnceReleased == <>[]~holds => <>Returned

-----------------------------------------------------------------------------
(***************************************************************************)
(* What descriptions and messages say, and the code does not do.           *)
(***************************************************************************)

\* "No remote command was executed." (executor.go:98)
NoRemoteCommandExecuted ==
    Returned /\ "startup" \in result.error => command = "none"

\* "If /path is supplied, cd to that path before running the command."
\* (tools.go:49)
RunsInPath == command # "none" => inPath
=============================================================================
