----------------------------- MODULE CommandStream -----------------------------
(***************************************************************************)
(* The conversation between the gateway and the shell of one persistent    *)
(* session (src/terminal_mcp/session/session.go): the script written to    *)
(* the shell's stdin for each command, the markers it prints around the    *)
(* command's output, and the goroutine that finds that output in what the  *)
(* shell's stdout carries.                                                 *)
(*                                                                         *)
(* The lock of the session lets one call talk to the shell at a time (see  *)
(* SessionManager), so the calls are numbered in their order.  stdin and   *)
(* stdout are pipes: the script is a sequence of lines, of which the shell *)
(* takes the first, or the command does if it reads its own stdin; the     *)
(* output is a sequence of chunks, each written in one piece, in the order *)
(* they were written by the shell, the command or a process that an        *)
(* earlier command left in the background.                                 *)
(***************************************************************************)
EXTENDS Integers, Sequences, SequencesExt

CONSTANTS
    MaxCalls,   \* a bound on the calls
    MaxText,    \* a bound on the chunks of text written during one call
    Status,     \* exit statuses of commands
    Habits      \* what commands may do: see below

ASSUME BoundsAssumption == MaxCalls \in Nat /\ MaxText \in Nat
ASSUME StatusAssumption == Status \subseteq Nat /\ 0 \in Status
\* "background": leave a process behind that writes to the shell's stdout (its
\* stdin is /dev/null: the shell has no job control);
\* "partial": write without a final newline; "stdin": read lines of stdin;
\* "derail": be incomplete, or do something to the shell itself, so that the
\* shell prints nothing more.  No command makes __mcp_status its own.
ASSUME HabitsAssumption ==
    Habits \subseteq {"background", "partial", "stdin", "derail"}

VARIABLES
    n,          \* the current call
    phase,      \* of the session: no call, a call waits, or closed
    remote,     \* the session's shell runs on a remote host
    stdin,      \* the lines of the script nobody has read yet
    foreground, \* the command of the current call is running
    last,       \* $?, the status of the last command
    saved,      \* $__mcp_status: a status, or -1 when it was never set
    left,       \* the calls whose command left a process in the background
    window,     \* the call whose start marker the shell has printed last
    texts,      \* how many chunks of text were written during this call
    stdout,     \* the chunks the reader has not taken yet
    started,    \* the reader has seen the start marker
    output,     \* what it has collected
    result,     \* the results of the calls
    ran         \* the truth about each call: the status and the text of its
                \* command, whether it read stdin, whether it derailed the
                \* shell, and whether its start marker was written in the
                \* middle of a line

shellVars == <<stdin, foreground, last, saved, left, window, texts>>
vars == <<n, phase, remote, shellVars, stdout, started, output, result, ran>>

-----------------------------------------------------------------------------
Calls  == 1..MaxCalls
Line   == {"start", "command", "status", "end"}
Script == <<"start", "command", "status", "end">>

\* call: the call whose start marker was the last one written before the chunk
\* or is the chunk.  own: written by that call's command or for it, not by a
\* background process.  An end marker carries a status.  nl: the chunk ends
\* with a newline.
Chunk == [kind : {"start", "text", "newline", "end"}, call : 0..MaxCalls,
          own : BOOLEAN, status : Status \cup {-1}, nl : BOOLEAN]

Text(own, nl) ==
    [kind |-> "text", call |-> window, own |-> own, status |-> -1, nl |-> nl]

Printed(kind, c, st) ==
    [kind |-> kind, call |-> c, own |-> TRUE, status |-> st, nl |-> TRUE]

Result == [kind : {"none", "ok", "error", "beforeMarkers"},
           output : Seq(Chunk), exit_code : Status \cup {-1}]

\* What is known of a call: see ran.
Record == [status : Status \cup {-1}, text : Seq(Chunk), read : BOOLEAN,
           derailed : BOOLEAN, glued : BOOLEAN]
NoRecord == [status |-> -1, text |-> <<>>, read |-> FALSE, derailed |-> FALSE,
             glued |-> FALSE]

NoResult == [kind |-> "none", output |-> <<>>, exit_code |-> -1]
Failed(kind) == [NoResult EXCEPT !.kind = kind]

TypeOK ==
    /\ n          \in 0..MaxCalls
    /\ phase      \in {"idle", "waiting", "closed"}
    /\ remote     \in BOOLEAN
    /\ stdin      \in Seq(Line)
    /\ foreground \in BOOLEAN
    /\ last       \in Status
    /\ saved      \in Status \cup {-1}
    /\ left       \in SUBSET Calls
    /\ window     \in 0..MaxCalls
    /\ texts      \in 0..MaxText
    /\ stdout     \in Seq(Chunk)
    /\ started    \in BOOLEAN
    /\ output     \in Seq(Chunk)
    /\ result     \in [Calls -> Result]
    /\ ran        \in [Calls -> Record]

Init ==
    /\ n          = 0
    /\ phase      = "idle"
    /\ remote     \in BOOLEAN
    /\ stdin      = <<>>
    /\ foreground = FALSE
    /\ last       \in Status
    /\ saved      = -1
    /\ left       = {}
    /\ window     = 0
    /\ texts      = 0
    /\ stdout     = <<>>
    /\ started    = FALSE
    /\ output     = <<>>
    /\ result     = [c \in Calls |-> NoResult]
    /\ ran        = [c \in Calls |-> NoRecord]

-----------------------------------------------------------------------------
(***************************************************************************)
(* The call writes its script and starts its reader.                       *)
(***************************************************************************)
\* Mutant of Issue: the reader's state is kept from the call before.
IssueStarted ==
    /\ phase = "idle"
    /\ n < MaxCalls
    /\ n' = n + 1
    /\ phase' = "waiting"
    /\ stdin' = stdin \o Script
    /\ texts' = 0
    /\ output' = <<>>
    /\ UNCHANGED <<remote, foreground, last, saved, left, window, stdout, started,
                   result, ran>>

Issue ==
    /\ phase = "idle"
    /\ n < MaxCalls
    /\ n' = n + 1
    /\ phase' = "waiting"
    /\ stdin' = stdin \o Script
    /\ texts' = 0
    /\ started' = FALSE
    /\ output' = <<>>
    /\ UNCHANGED <<remote, foreground, last, saved, left, window, stdout, result,
                   ran>>

-----------------------------------------------------------------------------
(***************************************************************************)
(* The shell and its commands.                                             *)
(***************************************************************************)

\* The shell, no command in its foreground, comes to the next line.
ShellAt(line) ==
    /\ phase # "closed"
    /\ ~foreground
    /\ stdin # <<>>
    /\ Head(stdin) = line

ShellReads(line) == ShellAt(line) /\ stdin' = Tail(stdin)

\* What was written last had no final newline: the reader leaves it there.
MidLine == stdout # <<>> /\ ~Last(stdout).nl

\* printf '%s\n' START
PrintStart ==
    /\ ShellReads("start")
    /\ stdout' = Append(stdout, Printed("start", n, -1))
    /\ window' = n
    /\ ran' = [ran EXCEPT ![n].glued = MidLine]
    /\ UNCHANGED <<n, phase, remote, foreground, last, saved, left, texts,
                   started, output, result>>

\* { command } 2>&1
StartCommand ==
    /\ ShellReads("command")
    /\ foreground' = TRUE
    /\ UNCHANGED <<n, phase, remote, last, saved, left, window, texts, stdout,
                   started, output, result, ran>>

\* The rest of the script is lost for this call.
Derail ==
    /\ "derail" \in Habits
    /\ stdin' = <<>>
    /\ ran' = [ran EXCEPT ![n].derailed = TRUE]
    /\ UNCHANGED <<n, phase, remote, foreground, last, saved, left, window,
                   texts, stdout, started, output, result>>

\* The command is incomplete: it leaves a quote, a here-document or a brace
\* open, or ends with a backslash.  The shell takes the lines that follow for
\* the command's text, executes nothing and waits for more.
ReadIncomplete == ShellAt("command") /\ Derail

\* The command stops or replaces the shell, sends the shell's own output
\* elsewhere (exec >file) or redefines printf: no marker appears any more.
DerailShell == foreground /\ Derail

CommandWrites ==
    /\ foreground
    /\ texts < MaxText
    /\ texts' = texts + 1
    /\ \E nl \in {TRUE} \cup {x \in {FALSE} : "partial" \in Habits} :
          /\ stdout' = Append(stdout, Text(TRUE, nl))
          /\ ran' = [ran EXCEPT ![n].text = Append(@, Text(TRUE, nl))]
    /\ UNCHANGED <<n, phase, remote, stdin, foreground, last, saved, left,
                   window, started, output, result>>

\* A process that a command left in the background writes.
BackgroundWrites ==
    /\ phase # "closed"
    /\ left # {}
    /\ texts < MaxText
    /\ texts' = texts + 1
    /\ \E nl \in {TRUE} \cup {x \in {FALSE} : "partial" \in Habits} :
          stdout' = Append(stdout, Text(FALSE, nl))
    /\ UNCHANGED <<n, phase, remote, stdin, foreground, last, saved, left,
                   window, started, output, result, ran>>

\* The command reads a line of its stdin, which is the shell's.
CommandReads ==
    /\ "stdin" \in Habits
    /\ foreground
    /\ stdin # <<>>
    /\ stdin' = Tail(stdin)
    /\ ran' = [ran EXCEPT ![n].read = TRUE]
    /\ UNCHANGED <<n, phase, remote, foreground, last, saved, left, window,
                   texts, stdout, started, output, result>>

CommandEnds ==
    /\ foreground
    /\ foreground' = FALSE
    /\ last' \in Status
    /\ ran' = [ran EXCEPT ![n].status = last']
    /\ left' \in {left} \cup {x \in {left \cup {n}} : "background" \in Habits}
    /\ UNCHANGED <<n, phase, remote, stdin, saved, window, texts, stdout, started,
                   output, result>>

\* __mcp_status=$?
SaveStatus ==
    /\ ShellReads("status")
    /\ saved' = last
    /\ last' = 0
    /\ UNCHANGED <<n, phase, remote, foreground, left, window, texts, stdout,
                   started, output, result, ran>>

\* Mutant of PrintEnd: $? is printed, the status of the assignment.
PrintEndLast ==
    /\ ShellReads("end")
    /\ stdout' = stdout \o <<Printed("newline", n, -1), Printed("end", n, last)>>
    /\ UNCHANGED <<n, phase, remote, foreground, last, saved, left, window,
                   texts, started, output, result, ran>>

\* printf '\n%s:%s\n' END $__mcp_status
PrintEnd ==
    /\ ShellReads("end")
    /\ stdout' = stdout \o <<Printed("newline", n, -1), Printed("end", n, saved)>>
    /\ UNCHANGED <<n, phase, remote, foreground, last, saved, left, window,
                   texts, started, output, result, ran>>

-----------------------------------------------------------------------------
(***************************************************************************)
(* The reader takes the stream line by line.                               *)
(***************************************************************************)
LineLength == SelectInSeq(stdout, LAMBDA k : k.nl)
NextLine   == SubSeq(stdout, 1, LineLength)

IsStart(line) == line = <<Printed("start", n, -1)>>

\* Mutant of IsEnd: only the marker of a successful command is recognised.
IsEndOfSuccess(line) == line = <<Printed("end", n, 0)>>

IsEnd(line) == line[1].kind = "end" /\ line[1].call = n

ReadLine ==
    /\ phase = "waiting"
    /\ LineLength > 0
    /\ stdout' = SubSeq(stdout, LineLength + 1, Len(stdout))

Skip ==
    /\ ReadLine
    /\ ~started
    /\ started' = IsStart(NextLine)
    /\ UNCHANGED <<n, phase, remote, shellVars, output, result, ran>>

\* Mutant of CollectLine: the last line replaces those before it.
CollectLast ==
    /\ ReadLine
    /\ started
    /\ ~IsEnd(NextLine)
    /\ output' = NextLine
    /\ UNCHANGED <<n, phase, remote, shellVars, started, result, ran>>

CollectLine ==
    /\ ReadLine
    /\ started
    /\ ~IsEnd(NextLine)
    /\ output' = output \o NextLine
    /\ UNCHANGED <<n, phase, remote, shellVars, started, result, ran>>

\* The end marker with a status: the call returns the output.
Succeed ==
    /\ ReadLine
    /\ started
    /\ IsEnd(NextLine)
    /\ NextLine[1].status # -1
    /\ result' = [result EXCEPT ![n] =
          [kind |-> "ok", output |-> output, exit_code |-> NextLine[1].status]]
    /\ phase' = "idle"
    /\ UNCHANGED <<n, remote, shellVars, started, output, ran>>

\* Mutant of Fail: the result lacks its exit code.
FailBare ==
    /\ result' = [result EXCEPT ![n] = [kind |-> "error", output |-> <<>>]]
    /\ phase' = "closed"

\* Mutant of Fail: the session is not closed.
FailOpen ==
    /\ result' = [result EXCEPT ![n] =
          Failed(IF remote THEN "beforeMarkers" ELSE "error")]
    /\ phase' = "idle"

\* remoteSessionFailureMessage says that no marker was produced.
Fail ==
    /\ result' = [result EXCEPT ![n] =
          Failed(IF remote THEN "beforeMarkers" ELSE "error")]
    /\ phase' = "closed"

\* The end marker without a status, which Atoi refuses.
BadStatus ==
    /\ ReadLine
    /\ started
    /\ IsEnd(NextLine)
    /\ NextLine[1].status = -1
    /\ Fail
    /\ UNCHANGED <<n, remote, shellVars, started, output, ran>>

\* The timeout, or the end of the stream: the session is closed.
GiveUp ==
    /\ phase = "waiting"
    /\ Fail
    /\ UNCHANGED <<n, remote, shellVars, stdout, started, output, ran>>

-----------------------------------------------------------------------------
Shell ==
    \/ PrintStart \/ StartCommand \/ ReadIncomplete
    \/ CommandWrites \/ CommandReads \/ DerailShell \/ CommandEnds
    \/ SaveStatus \/ PrintEnd
    \/ BackgroundWrites

Gateway == Issue \/ Skip \/ CollectLine \/ Succeed \/ BadStatus \/ GiveUp

Next == Shell \/ Gateway

Spec == Init /\ [][Next]_vars

-----------------------------------------------------------------------------
(***************************************************************************)
(* Properties.                                                             *)
(***************************************************************************)
Ok(c) == result[c].kind = "ok"

\* A result holds nothing written before its own command was announced: what
\* a background process wrote since the last call is discarded
\* (session.go:216-252).
OutputIsolated ==
    \A c \in Calls : Ok(c) =>
        \A i \in 1..Len(result[c].output) : result[c].output[i].call = c

\* The text is what a stream carries of a command's own, each chunk at its
\* place, in order and none left out.
OwnText(text, stream) ==
    \E place \in [1..Len(text) -> 1..Len(stream)] :
        /\ \A i, j \in 1..Len(text) : i < j => place[i] < place[j]
        /\ \A i \in 1..Len(text) : stream[place[i]] = text[i]
        /\ \A k \in 1..Len(stream) :
              stream[k].kind = "text" /\ stream[k].own <=>
                  \E i \in 1..Len(text) : place[i] = k

\* A result holds all its command wrote, in the order it was written, though
\* lines of other processes are mixed in (session.go:249-250).
OutputWhole == \A c \in Calls : Ok(c) => OwnText(ran[c].text, result[c].output)

\* An output shows what a call's command wrote, and nothing from before.
ShownFor(c, text, stream) ==
    /\ OwnText(text, stream)
    /\ \A i \in 1..Len(stream) : stream[i].call = c

\* The exit code of a result is that of its command, unless the command read
\* lines of the script (session.go:195-200).
ExitCodeKept ==
    \A c \in Calls : Ok(c) /\ ~ran[c].read => result[c].exit_code = ran[c].status

\* The call waits, and the shell has said all it will.
Deaf == phase = "waiting" /\ stdin = <<>> /\ ~foreground /\ LineLength = 0

\* A command that has ended is answered without waiting for the timeout, unless
\* it read lines of the script, was incomplete or did something to the shell
\* that keeps it from printing, or its start marker was written in the middle
\* of a line (session.go:195-200, 216-252).
AnsweredUnlessDisturbed ==
    Deaf => ran[n].read \/ ran[n].derailed \/ ran[n].glued

\* The mapping to what a session promises; the script, the markers and the
\* reader are left out.
Wrote   == [c \in Calls |-> ran[c].text]
EndedAs == [c \in Calls |-> ran[c].status]
Readers == {c \in Calls : ran[c].read}

Session == INSTANCE ShellSession WITH
    call <- n, open <- phase # "closed", wrote <- Wrote, status <- EndedAs,
    meddled <- Readers, Running <- -1,
    Piece <- {k \in Chunk : k.kind = "text" /\ k.own}, Shows <- ShownFor

\* A command's results are final and come after its end, in the order of the
\* calls; each has all of its command's text, none from before, and its status;
\* nothing is executed for anyone after a failure (session.go:165-331).
ImplementsShellSession == Session!Spec

-----------------------------------------------------------------------------
(***************************************************************************)
(* What the repository says, and the code does not do.                     *)
(***************************************************************************)

\* "Process exit code reported by the persistent shell command wrapper"
\* (output_schema.go:42): the exit code of a result is that of its command.
ExitCodeOwn == \A c \in Calls : Ok(c) => result[c].exit_code = ran[c].status
=============================================================================
