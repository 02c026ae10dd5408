---------------------------- MODULE SessionManager ----------------------------
(***************************************************************************)
(* The persistent shell sessions of src/terminal_mcp/session/session.go:   *)
(* the map from session IDs to shells, the calls of the persistent_shell   *)
(* tool that share it, the goroutine each call starts to read its          *)
(* command's output, the session_manager tool that closes a session and    *)
(* the goroutine that sweeps away idle ones.                               *)
(*                                                                         *)
(* Two locks order the steps.  Manager.mu (sm.mu) protects the map: every  *)
(* critical section under it is one action, except the sweep, which visits *)
(* the sessions one at a time while other goroutines go on with work that  *)
(* needs no sm.mu.  ShellSession.mu serialises the calls on one session.   *)
(* Nothing is ever held while waiting for ShellSession.mu, and sm.mu is    *)
(* taken under ShellSession.mu.                                            *)
(*                                                                         *)
(* A session is named after the call that created it: a call creates at    *)
(* most one, so the name is fresh, and its ID and remote target are those  *)
(* the creator asked for.                                                  *)
(***************************************************************************)
EXTENDS Naturals, FiniteSets

CONSTANTS
    Call,       \* the persistent_shell requests, each served once
    SessionID,  \* the values of the session_id argument
    Remote,     \* the well-formed values of the remote argument, "" included
    Nil         \* a null pointer

ASSUME NilAssumption == Nil \notin Call

VARIABLES
    req,        \* the arguments of each call
    pc,         \* where the handler of each call stands
    session,    \* the session a call works on, its local variable
    reader,     \* the goroutine that reads the output of the call's command
    sessions,   \* Manager.sessions
    mu,         \* who holds the ShellSession.mu of a session
    pipes,      \* stdin, stdout and stderr of a session's shell
    shell,      \* the process of a session: the shell, or ssh
    job,        \* the call whose command was given to a session's shell and
                \* is executed, perhaps after the shell has gone
    ended,      \* the calls whose end marker has come out of the shell
    stale,      \* is a session's LastUsed more than 30 minutes ago?
    sweep,      \* the IDs the running sweep has still to visit
    doomed,     \* the session the sweep is about to close
    interrupted \* history: the IDs of sessions closed under a waiting call

callVars  == <<pc, session, reader>>
shellVars == <<shell, job, ended>>
sweepVars == <<sweep, doomed>>
vars == <<req, callVars, sessions, mu, pipes, shellVars, stale, sweepVars,
          interrupted>>

-----------------------------------------------------------------------------
(***************************************************************************)
(* Types and initial state.                                                *)
(***************************************************************************)
Request == [id : SessionID, remote : Remote]
Stage   == {"idle", "located", "locked", "awaiting", "closing", "ok", "error"}
Holding == {"locked", "awaiting", "closing"}    \* stages under session.mu

TypeOK ==
    /\ req      \in [Call -> Request]
    /\ pc       \in [Call -> Stage]
    /\ session  \in [Call -> Call \cup {Nil}]
    /\ reader   \in [Call -> {"none", "reading", "output", "error"}]
    /\ sessions \in [SessionID -> Call \cup {Nil}]
    /\ mu       \in [Call -> Call \cup {Nil}]
    /\ pipes    \in [Call -> {"none", "open", "closed"}]
    /\ shell    \in [Call -> {"none", "running", "exited"}]
    /\ job      \in [Call -> Call \cup {Nil}]
    /\ ended    \in SUBSET Call
    /\ stale    \in [Call -> BOOLEAN]
    /\ sweep    \in SUBSET SessionID
    /\ doomed   \in Call \cup {Nil}
    /\ interrupted \in SUBSET SessionID

Init ==
    /\ req      \in [Call -> Request]
    /\ pc       = [c \in Call |-> "idle"]
    /\ session  = [c \in Call |-> Nil]
    /\ reader   = [c \in Call |-> "none"]
    /\ sessions = [i \in SessionID |-> Nil]
    /\ mu       = [s \in Call |-> Nil]
    /\ pipes    = [s \in Call |-> "none"]
    /\ shell    = [s \in Call |-> "none"]
    /\ job      = [s \in Call |-> Nil]
    /\ ended    = {}
    /\ stale    = [s \in Call |-> FALSE]
    /\ sweep    = {}
    /\ doomed   = Nil
    /\ interrupted = {}

-----------------------------------------------------------------------------
(***************************************************************************)
(* Helpers.                                                                *)
(***************************************************************************)
smFree == sweep = {}    \* only the sweep holds sm.mu across steps

Mapped(s) == \E i \in SessionID : sessions[i] = s

\* The ID and the remote target a session was created with.
ID(s)  == req[s].id
Raw(s) == req[s].remote

\* Cmd.ProcessState is assigned by Cmd.Wait, and no code calls Wait (or Run)
\* on a session's Cmd, so the field stays nil however the shell ends.
ProcessStateExited(s) == FALSE

\* The pipes are closed and the process killed; Close and Kill do not block.
\* One process is killed, the shell or ssh: the command it was executing, its
\* child or the remote shell's, goes on.
Shut(s) ==
    /\ pipes' = [pipes EXCEPT ![s] = "closed"]
    /\ shell' = [shell EXCEPT ![s] = "exited"]

\* A call whose command the session has been given may be waiting for it; the
\* code keeps no such record.
Interrupt(s) ==
    interrupted' = IF \E c \in Call : pc[c] = "awaiting" /\ session[c] = s
                   THEN interrupted \cup {ID(s)}
                   ELSE interrupted

Unlock(c) == mu' = [mu EXCEPT ![session[c]] = Nil]
Goto(c, stage) == pc' = [pc EXCEPT ![c] = stage]

-----------------------------------------------------------------------------
(***************************************************************************)
(* A call of the persistent_shell tool.                                    *)
(***************************************************************************)

\* An argument is missing or malformed, the ID belongs to a session with
\* another target, or the shell cannot be started.
Reject(c) ==
    /\ pc[c] = "idle"
    /\ Goto(c, "error")
    /\ UNCHANGED <<req, session, reader, sessions, mu, pipes, shellVars,
                   stale, sweepVars, interrupted>>

\* Mutant of GetSession: a session with another remote target is accepted.
GetSessionAnyTarget(c) ==
    /\ pc[c] = "idle"
    /\ smFree
    /\ LET s == sessions[req[c].id]
       IN  /\ s # Nil
           /\ session' = [session EXCEPT ![c] = s]
           /\ stale'   = [stale EXCEPT ![s] = FALSE]
    /\ Goto(c, "located")
    /\ UNCHANGED <<req, reader, sessions, mu, pipes, shellVars, sweepVars,
                   interrupted>>

\* GetOrCreateSession finds the session: same ID, same remote string.
GetSession(c) ==
    /\ pc[c] = "idle"
    /\ smFree
    /\ LET s == sessions[req[c].id]
       IN  /\ s # Nil
           /\ Raw(s) = req[c].remote
           /\ session' = [session EXCEPT ![c] = s]
           /\ stale'   = [stale EXCEPT ![s] = FALSE]
    /\ Goto(c, "located")
    /\ UNCHANGED <<req, reader, sessions, mu, pipes, shellVars, sweepVars,
                   interrupted>>

\* Mutant of CreateSession: the map was looked up before sm.mu was taken.
CreateSessionUnchecked(c) ==
    /\ pc[c] = "idle"
    /\ smFree
    /\ sessions' = [sessions EXCEPT ![req[c].id] = c]
    /\ session'  = [session EXCEPT ![c] = c]
    /\ pipes'    = [pipes EXCEPT ![c] = "open"]
    /\ shell'    = [shell EXCEPT ![c] = "running"]
    /\ stale'    = [stale EXCEPT ![c] = FALSE]
    /\ Goto(c, "located")
    /\ UNCHANGED <<req, reader, mu, job, ended, sweepVars, interrupted>>

\* GetOrCreateSession starts a shell and enters it in the map.
CreateSession(c) ==
    /\ pc[c] = "idle"
    /\ smFree
    /\ sessions[req[c].id] = Nil
    /\ sessions' = [sessions EXCEPT ![req[c].id] = c]
    /\ session'  = [session EXCEPT ![c] = c]
    /\ pipes'    = [pipes EXCEPT ![c] = "open"]
    /\ shell'    = [shell EXCEPT ![c] = "running"]
    /\ stale'    = [stale EXCEPT ![c] = FALSE]
    /\ Goto(c, "located")
    /\ UNCHANGED <<req, reader, mu, job, ended, sweepVars, interrupted>>

\* Mutant of Lock: a reader's lock, which several calls can hold.
LockShared(c) ==
    /\ pc[c] = "located"
    /\ mu' = [mu EXCEPT ![session[c]] = c]
    /\ Goto(c, "locked")
    /\ UNCHANGED <<req, session, reader, sessions, pipes, shellVars, stale,
                   sweepVars, interrupted>>

\* session.mu.Lock(): whatever happened to the session since it was located.
Lock(c) ==
    /\ pc[c] = "located"
    /\ mu[session[c]] = Nil
    /\ mu' = [mu EXCEPT ![session[c]] = c]
    /\ Goto(c, "locked")
    /\ UNCHANGED <<req, session, reader, sessions, pipes, shellVars, stale,
                   sweepVars, interrupted>>

\* Mutant of WriteFails: the early return does not unlock.
WriteFailsLocked(c) ==
    /\ pc[c] = "locked"
    /\ \/ pipes[session[c]] = "closed"
       \/ shell[session[c]] = "exited"
    /\ Goto(c, "error")
    /\ UNCHANGED <<req, session, reader, sessions, mu, pipes, shellVars,
                   stale, sweepVars, interrupted>>

\* The write fails on a closed pipe, or one nobody reads any more: the call
\* returns and leaves the map and the pipes as they are.
WriteFails(c) ==
    /\ pc[c] = "locked"
    /\ ~ProcessStateExited(session[c])
    /\ \/ pipes[session[c]] = "closed"
       \/ shell[session[c]] = "exited"
    /\ Unlock(c)
    /\ Goto(c, "error")
    /\ UNCHANGED <<req, session, reader, sessions, pipes, shellVars, stale,
                   sweepVars, interrupted>>

\* The script has been written, the timeout is armed and the reader started.
\* A script longer than the pipe's buffer is written only as fast as the shell
\* or ssh reads: until then, or until the pipe is closed, the call stays
\* locked, with no timeout.  The write can succeed after the shell has exited
\* too: a process it left behind may hold the other end of the pipe.
WriteCommand(c) ==
    /\ pc[c] = "locked"
    /\ ~ProcessStateExited(session[c])
    /\ pipes[session[c]] = "open"
    /\ job' = IF shell[session[c]] = "running"
              THEN [job EXCEPT ![session[c]] = c]
              ELSE job
    /\ reader' = [reader EXCEPT ![c] = "reading"]
    /\ Goto(c, "awaiting")
    /\ UNCHANGED <<req, session, sessions, mu, pipes, shell, ended, stale,
                   sweepVars, interrupted>>

\* select: the reader has delivered the output.  LastUsed is set without sm.mu.
Succeed(c) ==
    /\ pc[c] = "awaiting"
    /\ reader[c] = "output"
    /\ stale' = [stale EXCEPT ![session[c]] = FALSE]
    /\ Unlock(c)
    /\ Goto(c, "ok")
    /\ UNCHANGED <<req, session, reader, sessions, pipes, shellVars,
                   sweepVars, interrupted>>

\* Mutant of Forget: the session stays in the map.
ForgetNothing(c) ==
    /\ smFree
    /\ Goto(c, "closing")
    /\ UNCHANGED <<req, session, reader, sessions, mu, pipes, shellVars,
                   stale, sweepVars, interrupted>>

\* The first half of closeSessionAfterFailure: under sm.mu the call's ID is
\* deleted from the map, whichever session it maps to by now.
Forget(c) ==
    /\ smFree
    /\ sessions' = [sessions EXCEPT ![req[c].id] = Nil]
    /\ Goto(c, "closing")
    /\ UNCHANGED <<req, session, reader, mu, pipes, shellVars, stale,
                   sweepVars, interrupted>>

\* select: the reader has failed.
ForgetOnReadError(c) ==
    /\ pc[c] = "awaiting"
    /\ reader[c] = "error"
    /\ Forget(c)

\* select: the timeout has expired, whatever the reader has delivered.
ForgetOnTimeout(c) ==
    /\ pc[c] = "awaiting"
    /\ Forget(c)

\* Mutant of CloseAfterFailure: the pipes are left to the sweep.
CloseNothing(c) ==
    /\ pc[c] = "closing"
    /\ Unlock(c)
    /\ Goto(c, "error")
    /\ UNCHANGED <<req, session, reader, sessions, pipes, shellVars, stale,
                   sweepVars, interrupted>>

\* The second half of closeSessionAfterFailure, outside sm.mu, and the return.
CloseAfterFailure(c) ==
    /\ pc[c] = "closing"
    /\ Shut(session[c])
    /\ Unlock(c)
    /\ Goto(c, "error")
    /\ UNCHANGED <<req, session, reader, sessions, job, ended, stale,
                   sweepVars, interrupted>>

\* One more call than those in Call, on a session whose lock is held:
\* GetOrCreateSession finds the session and sets LastUsed, and the call waits.
\* There is no end to such calls.  While they wait they do nothing else; what
\* one does when it gets the lock is what the calls in Call do.
AskAgain(i) ==
    /\ smFree
    /\ sessions[i] # Nil
    /\ mu[sessions[i]] # Nil
    /\ stale' = [stale EXCEPT ![sessions[i]] = FALSE]
    /\ UNCHANGED <<req, callVars, sessions, mu, pipes, shellVars, sweepVars,
                   interrupted>>

-----------------------------------------------------------------------------
(***************************************************************************)
(* The goroutine that reads the output.  Its channels have room for one    *)
(* message, so it ends whether or not the call is still waiting.           *)
(***************************************************************************)
Deliver(c, what) ==
    /\ reader[c] = "reading"
    /\ reader' = [reader EXCEPT ![c] = what]
    /\ UNCHANGED <<req, pc, session, sessions, mu, pipes, shellVars, stale,
                   sweepVars, interrupted>>

\* The end marker arrives, perhaps from the buffer of a pipe closed meanwhile.
ReadEndMarker(c) == Deliver(c, "output") /\ c \in ended

\* The output ends before the end marker: nobody has the pipe open for
\* writing.  A command that outlives its shell may keep it open for long.
ReadEOF(c) ==
    /\ Deliver(c, "error")
    /\ shell[session[c]] = "exited"
    /\ c \notin ended

\* The pipe is closed under the reader.
ReadClosed(c) == Deliver(c, "error") /\ pipes[session[c]] = "closed"

-----------------------------------------------------------------------------
(***************************************************************************)
(* The shell: it ends the command and prints the end marker, or dies.  The *)
(* command does not die with it, and ends in its own time.                 *)
(***************************************************************************)
ShellFinishes(s) ==
    /\ shell[s] = "running"
    /\ job[s] # Nil
    /\ ended' = ended \cup {job[s]}
    /\ job' = [job EXCEPT ![s] = Nil]
    /\ UNCHANGED <<req, callVars, sessions, mu, pipes, shell, stale,
                   sweepVars, interrupted>>

ShellExits(s) ==
    /\ shell[s] = "running"
    /\ shell' = [shell EXCEPT ![s] = "exited"]
    /\ UNCHANGED <<req, callVars, sessions, mu, pipes, job, ended, stale,
                   sweepVars, interrupted>>

\* A command without its shell ends, or was never begun: no end marker for it
\* comes out of this session.
OrphanEnds(s) ==
    /\ shell[s] = "exited"
    /\ job[s] # Nil
    /\ job' = [job EXCEPT ![s] = Nil]
    /\ UNCHANGED <<req, callVars, sessions, mu, pipes, shell, ended, stale,
                   sweepVars, interrupted>>

-----------------------------------------------------------------------------
(***************************************************************************)
(* The close action of the session_manager tool.  It takes sm.mu only, so  *)
(* it closes a session some call is using.                                 *)
(***************************************************************************)
CloseSession(i) ==
    /\ smFree
    /\ sessions[i] # Nil
    /\ Shut(sessions[i])
    /\ Interrupt(sessions[i])
    /\ sessions' = [sessions EXCEPT ![i] = Nil]
    /\ UNCHANGED <<req, callVars, mu, job, ended, stale, sweepVars>>

-----------------------------------------------------------------------------
(***************************************************************************)
(* The idle sweep.  Time is what it needs of it: a session's LastUsed is   *)
(* more than half an hour ago or not.  A call may itself last longer, its  *)
(* timeout argument has no upper limit.  A sweep takes the time once, when *)
(* it starts, and does not see a session get old.                          *)
(***************************************************************************)
HalfHourPasses(s) ==
    /\ smFree
    /\ Mapped(s)
    /\ ~stale[s]
    /\ stale' = [stale EXCEPT ![s] = TRUE]
    /\ UNCHANGED <<req, callVars, sessions, mu, pipes, shellVars, sweepVars,
                   interrupted>>

\* Mutant of SweepStart: the loop ranges over the map's values.
SweepStartOverSessions ==
    /\ smFree
    /\ sweep' = {sessions[i] : i \in SessionID} \ {Nil}
    /\ UNCHANGED <<req, callVars, sessions, mu, pipes, shellVars, stale,
                   doomed, interrupted>>

\* The ticker fires and cleanupSessions takes sm.mu.
SweepStart ==
    /\ smFree
    /\ sweep' = {i \in SessionID : sessions[i] # Nil}
    /\ UNCHANGED <<req, callVars, sessions, mu, pipes, shellVars, stale,
                   doomed, interrupted>>

SweepSpares(i) ==
    /\ i \in sweep
    /\ doomed = Nil
    /\ ~stale[sessions[i]]
    /\ sweep' = sweep \ {i}
    /\ UNCHANGED <<req, callVars, sessions, mu, pipes, shellVars, stale,
                   doomed, interrupted>>

\* Mutant of SweepCondemns: the sweep waits for session.mu.
SweepCondemnsUnlocked(i) ==
    /\ i \in sweep
    /\ doomed = Nil
    /\ stale[sessions[i]]
    /\ mu[sessions[i]] = Nil
    /\ doomed' = sessions[i]
    /\ UNCHANGED <<req, callVars, sessions, mu, pipes, shellVars, stale, sweep,
                   interrupted>>

\* LastUsed is read without session.mu; the call that holds it may finish
\* and refresh LastUsed before the session is closed.
SweepCondemns(i) ==
    /\ i \in sweep
    /\ doomed = Nil
    /\ stale[sessions[i]]
    /\ doomed' = sessions[i]
    /\ UNCHANGED <<req, callVars, sessions, mu, pipes, shellVars, stale,
                   sweep, interrupted>>

\* Mutant of SweepCloses: the closed session stays in the map.
SweepClosesOnly ==
    /\ doomed # Nil
    /\ Shut(doomed)
    /\ Interrupt(doomed)
    /\ sweep' = sweep \ {ID(doomed)}
    /\ doomed' = Nil
    /\ UNCHANGED <<req, callVars, sessions, mu, job, ended, stale>>

SweepCloses ==
    /\ doomed # Nil
    /\ Shut(doomed)
    /\ Interrupt(doomed)
    /\ sessions' = [sessions EXCEPT ![ID(doomed)] = Nil]
    /\ sweep' = sweep \ {ID(doomed)}
    /\ doomed' = Nil
    /\ UNCHANGED <<req, callVars, mu, job, ended, stale>>

-----------------------------------------------------------------------------
(***************************************************************************)
(* The specifications.                                                     *)
(***************************************************************************)
Serve(c) ==
    \/ Reject(c) \/ GetSession(c) \/ CreateSession(c) \/ Lock(c)
    \/ WriteFails(c) \/ WriteCommand(c) \/ Succeed(c)
    \/ ForgetOnReadError(c) \/ ForgetOnTimeout(c) \/ CloseAfterFailure(c)

Read(c) == ReadEndMarker(c) \/ ReadEOF(c) \/ ReadClosed(c)

Execute(s) == ShellFinishes(s) \/ ShellExits(s) \/ OrphanEnds(s)

Sweep ==
    \/ SweepStart \/ SweepCloses
    \/ \E i \in SessionID : SweepSpares(i) \/ SweepCondemns(i)

Work == \E c \in Call : Serve(c) \/ Read(c) \/ Execute(c)

Next ==
    \/ Work
    \/ \E i \in SessionID : CloseSession(i) \/ AskAgain(i)
    \/ \E s \in Call : HalfHourPasses(s)
    \/ Sweep

SessionSpec == Init /\ [][Next]_vars

\* Goroutines that can run do; the mutexes are Go's, which serve a waiter that
\* keeps asking (hence strong fairness for steps that wait for one); the
\* timeout of a call expires; the clock advances and the ticker ticks.  The
\* shell owes nothing: it may never read what is written to it, a command may
\* run forever, a client may never call.
Fairness ==
    /\ \A c \in Call :
          /\ SF_vars(Lock(c))
          /\ WF_vars(WriteFails(c))
          /\ WF_vars(Succeed(c))
          /\ SF_vars(ForgetOnTimeout(c))
          /\ WF_vars(CloseAfterFailure(c))
          /\ WF_vars(ReadEndMarker(c) \/ ReadClosed(c))
          /\ SF_vars(HalfHourPasses(c))
    /\ SF_vars(SweepStart)
    /\ WF_vars(SweepCloses)
    /\ WF_vars(\E i \in SessionID : SweepSpares(i) \/ SweepCondemns(i))

FairSpec == SessionSpec /\ Fairness

-----------------------------------------------------------------------------
(***************************************************************************)
(* What it implements.                                                     *)
(***************************************************************************)
Targets == [s \in Call |-> IF pipes[s] = "none" THEN Nil ELSE req[s]]
Serving == {s \in Call : shell[s] = "running"}
Given   == [c \in Call |-> IF reader[c] = "none" THEN Nil ELSE session[c]]
Answers == [c \in Call |-> IF pc[c] \in {"ok", "error"} THEN pc[c] ELSE "none"]

Shells == INSTANCE PersistentShell WITH
    Shell <- Call, Target <- Request, want <- req, target <- Targets,
    serving <- Serving, at <- Given, done <- ended, answer <- Answers

\* Whatever calls, readers, timeouts, closings and sweeps do to each other, a
\* client sees a shell that executes one command at a time, a result only of a
\* command that ran to its end, and no shell that serves on after a call has
\* failed in it; the command of that call may go on (session.go:149-331).
ImplementsPersistentShell == Shells!Spec

-----------------------------------------------------------------------------
(***************************************************************************)
(* Safety.                                                                 *)
(***************************************************************************)

\* A session in the map has its pipes open and is filed under its own ID: a
\* call never locates a session that was closed before it looked
\* (session.go:61-147, and the deletions at 323, 350 and 396).
MappedSessionsOpen ==
    \A i \in SessionID : sessions[i] # Nil =>
        /\ pipes[sessions[i]] = "open"
        /\ ID(sessions[i]) = i

\* At most one goroutine reads the output of a session that is still open,
\* so no call takes lines of another call's command, not even after a
\* timeout has left its reader behind (session.go:216-252, 312-313).
OneReader ==
    \A c, d \in Call :
        /\ reader[c] = "reading"
        /\ reader[d] = "reading"
        /\ session[c] = session[d]
        /\ pipes[session[c]] = "open"
        => c = d

\* A shell is given a command only when it has finished the one before, and a
\* shell that has gone while its command went on is given none
\* (session.go:176-177, 313).
SerialShell ==
    [][\A s \in Call : job[s] # Nil /\ job'[s] # job[s] => job'[s] = Nil]_vars

\* A command runs in the session and on the target its call asked for, and
\* while the session's shell is there it runs under the protection of that
\* session's lock (session.go:71-74, 176).
RequestedTarget ==
    \A s \in Call : job[s] # Nil =>
        /\ req[job[s]] = req[s]
        /\ shell[s] = "running" => mu[s] = job[s]

\* A session whose output could not be read to the end marker is dead and out
\* of the map when the call returns, so that no later call can take its stale
\* output (session.go:310, 317).
FailedSessionRetired ==
    \A c \in Call : pc[c] = "error" /\ reader[c] # "none" =>
        /\ pipes[session[c]] = "closed"
        /\ shell[session[c]] = "exited"
        /\ ~Mapped(session[c])

\* Every open shell is in the map, where a client can list, use and close it,
\* but for one whose failed call is about to close it.  The deletion by ID can
\* hit another session only after one with that ID was closed, by the close
\* action or the sweep, while a call waited for its output (session.go:321-331).
NoOrphanShell ==
    \A s \in Call : pipes[s] = "open" /\ ~Mapped(s) =>
        \/ \E c \in Call : pc[c] = "closing" /\ session[c] = s
        \/ ID(s) \in interrupted

\* No lock survives its call: whoever holds a session's lock is at work on
\* that session (session.go:176-177).
LockHeldByWorker ==
    \A s \in Call : mu[s] # Nil => pc[mu[s]] \in Holding /\ session[mu[s]] = s

-----------------------------------------------------------------------------
(***************************************************************************)
(* Liveness, under FairSpec.                                               *)
(***************************************************************************)

\* What a client may do to a session that is stuck: from some time on no
\* further call finds it and sets its LastUsed, or the shells read what is
\* written to them.
ClientsRest == <>[][\A i \in SessionID : ~AskAgain(i)]_vars
ShellsRead  == \A c \in Call : WF_vars(WriteCommand(c))

\* Every call that has located its session returns, however many others share
\* the session and whatever the shell does (session.go:202-318, 387-390).  A
\* shell that never reads what is written to it holds the call that writes and
\* those behind it until the sweep closes the session, half an hour after the
\* last call that found it: as long as clients go on calling they all wait
\* (session.go:75).  The other exception is a call on a session that another
\* call has lost: no sweep finds that one.
EveryCallReturns ==
    ClientsRest \/ ShellsRead =>
        \A c \in Call : pc[c] = "located" ~>
            \/ pc[c] \in {"ok", "error"}
            \/ \E s \in Call :
                  /\ session[c] = s
                  /\ pipes[s] = "open"
                  /\ ~Mapped(s)
                  /\ ID(s) \in interrupted

\* No reader outlives its session: each one ends (session.go:216-252, 326).
ReadersStop == \A c \in Call : reader[c] = "reading" ~> reader[c] # "reading"

\* A session leaves the map when clients have ceased to use it, though calls
\* of theirs may still hold or wait for its lock (session.go:377-402).
IdleSessionsForgotten == ClientsRest => \A s \in Call : Mapped(s) ~> ~Mapped(s)

-----------------------------------------------------------------------------
(***************************************************************************)
(* What comments and descriptions in the repository say, and the code does *)
(* not do.                                                                 *)
(***************************************************************************)

\* "ListSessions returns information about active sessions": a session whose
\* pipes are open and that no call is closing is in the map (session.go:356).
ActiveSessionsListed ==
    \A s \in Call : pipes[s] = "open" /\ ~Mapped(s) =>
        \E c \in Call : pc[c] = "closing" /\ session[c] = s

\* "Shell session died, please retry": a call that fails because it found its
\* shell dead takes the session out of the map, so that a retry can start a
\* new one (session.go:179-185).
DeadShellForgottenOnUse ==
    [][\A c \in Call :
          /\ pc[c] = "locked"
          /\ pc'[c] = "error"
          /\ shell[session[c]] = "exited"
          => sessions'[req[c].id] # session[c]]_vars
=============================================================================
