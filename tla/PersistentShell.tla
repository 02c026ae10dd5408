---------------------------- MODULE PersistentShell ----------------------------
(***************************************************************************)
(* What the persistent_shell tool promises, without its locks, readers,    *)
(* timeouts and sweeps: a shell executes one command at a time, for calls  *)
(* that asked for its target; a call answered with a result has had its    *)
(* command executed to the end; a call answered with an error may leave    *)
(* its command behind, but no shell that goes on to serve others with that *)
(* command still in it.  SessionManager implements this.                   *)
(***************************************************************************)
CONSTANTS
    Call,       \* the requests, each answered once
    Shell,      \* the shells there may ever be
    Target,     \* what a call asks for: an ID and a remote target
    Nil         \* no call, no shell and no target

VARIABLES
    want,       \* the target of each call
    target,     \* the target of each shell, Nil before it is started
    serving,    \* the shells that run
    job,        \* the call whose command was given to a shell and goes on
    at,         \* the shell a call's command was given to
    done,       \* the calls whose command was executed to its end
    answer      \* the answers

vars == <<want, target, serving, job, at, done, answer>>

Init ==
    /\ want    \in [Call -> Target]
    /\ target  = [s \in Shell |-> Nil]
    /\ serving = {}
    /\ job     = [s \in Shell |-> Nil]
    /\ at      = [c \in Call |-> Nil]
    /\ done    = {}
    /\ answer  = [c \in Call |-> "none"]

-----------------------------------------------------------------------------
\* A shell is started for the target some call wants.
Start(s) ==
    /\ target[s] = Nil
    /\ serving' = serving \cup {s}
    /\ \E c \in Call : target' = [target EXCEPT ![s] = want[c]]
    /\ UNCHANGED <<want, job, at, done, answer>>

\* A command is given to a shell for its target, once.  A shell that runs has
\* nothing else to do; one that has ended executes nothing.
Give(c, s) ==
    /\ answer[c] = "none"
    /\ at[c] = Nil
    /\ target[s] = want[c]
    /\ s \in serving => job[s] = Nil
    /\ at' = [at EXCEPT ![c] = s]
    /\ job' = IF s \in serving THEN [job EXCEPT ![s] = c] ELSE job
    /\ UNCHANGED <<want, target, serving, done, answer>>

Finish(s) ==
    /\ s \in serving
    /\ job[s] # Nil
    /\ done' = done \cup {job[s]}
    /\ job' = [job EXCEPT ![s] = Nil]
    /\ UNCHANGED <<want, target, serving, at, answer>>

\* A shell ends, by itself or not.  Its command may go on without it.
Stop(s) ==
    /\ s \in serving
    /\ serving' = serving \ {s}
    /\ UNCHANGED <<want, target, job, at, done, answer>>

\* A command whose shell has ended comes to its own end, and to no result.
Abandon(s) ==
    /\ s \notin serving
    /\ job[s] # Nil
    /\ job' = [job EXCEPT ![s] = Nil]
    /\ UNCHANGED <<want, target, serving, at, done, answer>>

Answer(c, what) ==
    /\ answer[c] = "none"
    /\ answer' = [answer EXCEPT ![c] = what]
    /\ UNCHANGED <<want, target, job, at, done>>

Succeed(c) ==
    /\ c \in done
    /\ Answer(c, "ok")
    /\ UNCHANGED serving

\* A call whose command was given to a shell fails together with the shell.
Fail(c) ==
    /\ Answer(c, "error")
    /\ serving' = serving \ {at[c]}

Next ==
    \/ \E s \in Shell : Start(s) \/ Finish(s) \/ Stop(s) \/ Abandon(s)
    \/ \E c \in Call : Succeed(c) \/ Fail(c)
    \/ \E c \in Call, s \in Shell : Give(c, s)

Spec == Init /\ [][Next]_vars
=============================================================================
