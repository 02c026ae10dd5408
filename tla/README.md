# A verification development for the tailnet MCP gateway

The gateway is an MCP server that runs commands for its clients: one-shot
commands (`execute_command`), commands in persistent shells
(`persistent_shell`) and the management of those shells (`session_manager`),
each locally or over ssh. Around it are shell scripts that prepare machines and
start the container. This directory holds TLA+ models of its core, the TLC
configurations that check them, and proofs that TLAPS checks.

## Inventory

| Component | State | Operations | What is hard | What makes it correct |
|---|---|---|---|---|
| Session manager, `session/session.go` | map from ID to session, under `sm.mu`; per session a lock, a shell process, its pipes, `LastUsed` | locate or create, execute, close, list, idle sweep | concurrent calls on one session, a session closed under a call, timeouts racing output, lock order, leftover readers, commands that outlive their shell | a session in the map is usable; one command, one reader at a time; a failed session is never used again; no shell is lost; every call returns |
| Marker protocol, `session/session.go:187-252` | what is in the two pipes, the reader's progress | write script, print markers, find them | background writers, half lines, commands that read stdin, are incomplete or redirect the shell | a result has all of its command's output, none from before, its status; an ended command is answered |
| Executor, `executor/executor.go` | one run: process, descendants, output buffer, context | start, kill at the deadline, wait, unwrap, report | timeout racing exit, descendants holding the pipe, ssh failing halfway, `cd` failing | the result says what happened |
| Tool handlers, `tools/` | none of their own | validate arguments, call the above, build results | argument conversion, results and schemas listed in five places | a call runs where, with what and as long as it asked; its result says so and fits its schema |
| Remote spec, `remote/remote.go` | none | parse `[user@]host[:port][/path]`, build ssh arguments, prefix `cd` | ambiguous inputs, Go's quotes read by a shell | agrees with the documented grammar; `cd` goes to the path given |
| Trace, config, main | none that changes | read once at start | timeout conversion | the defaults a call falls back to |
| Container entrypoint, `entrypoint.sh`, `docker-compose.yml` | processes, the tailnet node kept in a volume, a key | start, wait, join, become the tunnel client | faults and restarts between any two steps, a key good only once | a configured gateway serves again |
| Machine tools, `machine-tools/` | files, processes, tailnet devices | inject, install, patch, configure, start | rerunning after a partial failure, as another user, check-then-start | idempotence; a failed run leaves a machine that a rerun repairs |

How they interact: the handlers call the session manager and the executor, each
request in a goroutine of its own; session calls share the map and the sessions
under two kinds of lock; each running command has a reader goroutine that talks
to its call over channels of size one; one goroutine sweeps the map every five
minutes. Executor runs share nothing but a counter. The scripts run outside the
server and share files and processes with it. The container's script becomes
the tunnel client, whose child the server is: both live and die together, and
only what is in volumes outlives them.

## Modules

| Module | Models | Status |
|---|---|---|
| `SessionManager` | `Manager`, the calls, their readers, the shells, close, sweep | complete for `session.go` but the text protocol |
| `PersistentShell` | what a session promises, without locks, maps or pipes; `SessionManager` instantiates it with a refinement mapping | abstract |
| `ShellSession` | what a session promises about its commands, without the script, the markers and the pipes; `CommandStream` instantiates it with a refinement mapping | abstract |
| `MCSessionManager` | the sets and symmetry of SessionManager's runs | |
| `SessionManagerProofs`, `CommandStreamProofs`, `ExecutorProofs`, `MachineToolsProofs`, `RemoteSpecProofs`, `GatewayProofs` | theorems about the module they are named after, the two refinements among them | |
| `QuotingProofs` | what a shell makes of a quoted path | |
| `SearchLemmas` | what the searches of the community modules find; induction over the places of a sequence | |
| `CommandStream` | the script, the markers and the reader of one session | complete |
| `Executor` | one `execute_command` run | complete |
| `MachineTools` | concurrent runs of `inject.sh` and the scripts it runs in containers, the tailnet's devices, restarts | complete but for the text of files |
| `MCMachineTools` | the sets, the symmetry and the constraint of its runs | |
| `RemoteSpec` | `remote.go` as operators on sequences of characters, and the documented grammar as a relation | complete |
| `Entrypoint` | the container: its script, faults, restarts | complete |
| `ToolServer` | the server as a client sees it: start, arguments, processes, results, schemas | complete, one call at a time |
| `Gateway` | Entrypoint and ToolServer composed; their properties | |
| `MCGateway` | the calls and environments of its run | |

SessionManager and PersistentShell compose, and CommandStream and ShellSession: the
one implements the other. The remaining models meet at assumptions that another one shows: CommandStream has
one call at a time on a session, which is `SerialShell` and `OneReader` of
SessionManager; SessionManager's `Succeed` takes the end marker for granted, which
`AnsweredUnlessDisturbed` of CommandStream is about. ToolServer serves one call at
a time, and its `ReportShell`, `FailShell` and `ReportCommand` are the ways the other
models say a call can end. Gateway composes Entrypoint and ToolServer: a step is
one of either, and the end of the container is both's.

### SessionManager

A session object is named after the call that created it: a call creates at most
one, so the name is fresh, and the session's ID and remote string are its
creator's. The calls in `Call` are served once each; which arguments they carry is
chosen in the initial state. Clients may make any number of others: `AskAgain` is what
one of these does to a session whose lock it has to wait for, which is to set its
`LastUsed`.

| Model | Code |
|---|---|
| `sessions` | `Manager.sessions` |
| `sweep # {}` | `sm.mu` held by the sweep; every other critical section of `sm.mu` is one action, guarded by `smFree` |
| `mu[s]` | `ShellSession.mu` |
| `pc[c]` | `idle`; `located` (171-174 passed); `locked` (176); `awaiting` (in the `select`, 254); `closing` (between 324 and 325); `ok`, `error` (returned) |
| `reader[c]` | the goroutine at 216, and the channel it has sent to |
| `pipes[s]`, `shell[s]`, `job[s]` | the three pipes, the process, the call whose command was given to it and has not ended |
| `ended` | the calls whose end marker the shell has written |
| `stale[s]` | `LastUsed` is more than 30 minutes before the time the next sweep takes |
| `interrupted` | a history variable for `NoOrphanShell`: the IDs of sessions that were closed, or swept, while a call waited for their output |
| `doomed` | the session between the test at 388 and the deletion at 396 |
| `Reject`, `GetSession`, `CreateSession`, `AskAgain` | `handlePersistentShell`'s checks, `GetOrCreateSession` |
| `Lock`, `WriteFails`, `WriteCommand` | 176-216. A script larger than the pipe's buffer makes the write wait for the shell: it is `WriteCommand` not being taken, for which there is no fairness, until the pipe is closed under it (`WriteFails`) |
| `Succeed`, `ForgetOnReadError`, `ForgetOnTimeout` | the three branches of the `select`; when several are ready any may be taken |
| `Forget`, `CloseAfterFailure` | the two halves of `closeSessionAfterFailure`: the deletion under `sm.mu`, and the rest outside |
| `ReadEndMarker`, `ReadEOF`, `ReadClosed` | the ways the reader ends; a line buffered before the pipe was closed can still be read |
| `Shut`, `OrphanEnds` | `Process.Kill` ends one process, the shell or ssh; its command goes on (`job` stays) and ends by itself |
| `CloseSession(i)` | the close action of the `session_manager` tool |
| `SweepStart` to `SweepCloses`, `HalfHourPasses` | `cleanupSessions` and the clock |

The branch for a dead shell at 179-185 cannot be taken: `Cmd.ProcessState` is
assigned by `Cmd.Wait` and nothing waits for a session's shell. The model says
so by `ProcessStateExited(s) == FALSE`, which `WriteFails` and
`WriteCommand` use where the code reads the field. Listing, which reads it too,
changes nothing and is left out.

### PersistentShell

Each shell has a target and executes one command at a time (`Give`, `Finish`); a
call is answered with success only after its command has ended on a shell with
its ID and target (`Succeed`); a shell that is stopped takes no further commands
(`Stop`), and the command it was executing goes on without it (`Abandon` is its
end): nobody can say what became of the command of a call that failed. `Fail` is
that call's answer, after which its session serves no other.
`SessionManager`'s mapping reads the shells from `shell`, `pipes` and
`job`, and the answers from `pc`; everything about locks, the map, readers and
the sweep is a stutter or one of these steps. `ImplementsPersistentShell` states
it.

### CommandStream

One session, calls one after the other (SessionManager shows that they are:
`SerialShell`, `OneReader`). `stdin` holds the lines of the script that nobody
has read; the shell takes the first, or the running command does, because bash
reads a script from a pipe byte by byte and its commands inherit that pipe.
`stdout` holds chunks, each written at once. `Habits` says what commands may do:
leave a process that writes (`background`), write half lines (`partial`), read
stdin (`stdin`), or derail the shell (`derail`). A command derails it that is
incomplete, with a quote, a here-document or a brace left open or a backslash at its
end: the shell takes the lines that follow for its text (`ReadIncomplete`). So does one
that sends the shell's own output elsewhere (`exec >file`), replaces or stops the
shell, or redefines `printf` (`DerailShell`). `ran` and `window`, and the fields `call` and `own` of a chunk,
record the truth for the properties; the reader never looks at them but for the
invocation ID in a marker (`call`).  `ran` also keeps whether the command read
stdin, whether it derailed the shell, and whether its start marker was written in the
middle of a line. What is left in the background has `/dev/null` for its stdin, the
shell having no job control, and does nothing to the shell but write to its output; no
command assigns `__mcp_status`. The output's final trimming is left out.

### ShellSession

The calls of a session have a command each, which writes pieces (`Write`), may read
what was meant for the session (`Meddle`) and ends with a status (`End`). A call is
answered once: with a result that shows all its command wrote, nothing from before, and
its status unless the command meddled, and this only after the command has ended
(`Succeed`); or with an error, after which the session takes no call (`Fail`). The next
call begins only after a success (`Begin`), while the command of a call that has failed
may go on.

| ShellSession | CommandStream |
|---|---|
| `call`, `open`, `result` | `n`, `phase # "closed"`, `result` |
| `wrote`, `status`, `meddled` | the fields `text`, `status` and `read` of `ran` |
| `Shows` | `ShownFor`: the text at its places in the output (`OwnText`), and all of the output written since the call's start marker |

The script's lines, the markers, the reader and the processes in the background are
stutters. `ImplementsShellSession` states it. It says more than the invariants do:
that an answer is never taken back, that none comes before the command's end, and that
nothing is given to a session that has failed.

### Executor

`mode` is the kind of remote argument; `call` is the place in
`ExecuteWithMetadata` and in `os/exec`: starting, `running` (in `Process.Wait`),
`draining` (reaped, waiting for the end of stdout), `collected` (lines 217-277
done), `returned`. `proc` is the process the gateway started: the shell itself,
or ssh. A local wrapper dies with it; a remote one goes on without a reader. The end of
a remote wrapper is not the end of ssh, which waits until nobody holds the session's
output (`SshEnds`): the wrapper may have run its last line (`script = "done"`), and
left its status for ssh (`exit`), when the timeout kills ssh or the connection is lost.
`ExecuteWithMetadata` then replaces the status that the end marker carries by -1 or
255; `ExitCodeHonest` says that only this, or a signal to the wrapper's shell, does, and
that the result has an error then. The
command is a child of the wrapper's subshell, so killing `proc` does not end it;
`holds` says that the command, or what it left behind, has stdout open. What
`os/exec` does is external to this repository and modelled from its
documentation and from how the code uses it: `Kill` may hit a process that has
exited but is not reaped, in which case a success becomes the context's error;
an exit error of the process takes precedence; `WaitDelay` is 0. stderr is
modelled by where noise goes: into stdout, or, with `capture_stderr`, elsewhere.

### MachineTools

A run of `inject.sh` (`run[r]`) stands at a stage: `copy`, a part of `install.sh`
(`packages`, `script`, `startup`), of `configure.sh` (`truncate`, `append`,
`list`, `delete`, `daemon`, `up`), or `start`. Each stage is one action that does
what its commands do to the container (`machine[m]`) and to the tailnet, and at
every stage `CommandFails` ends the script, as `set -e` does. `AfterFailure` is
`run_exec_with_root_retry`: once, from the script's start, as root, with the
setuid start helper when it is install. `tailscale up` and `start.sh` may also
fail after they have done their work. `AfterStart` is what the start scripts leave,
each of which may fail: `start.sh` goes on with tailscaled when sshd has failed,
and reports it at the end. It is used by the run itself (`StartServices`), by
Supervisor, which runs a new hook at once (`ConfigureStartup`), and by the hook of a
container that restarts (`AfterHook`).

| Model | Scripts |
|---|---|
| `Begin`, `CopyTools` | `clear_remote_dir`, `run_copy`, `run_copy_ssh_dir` in `inject.sh` |
| `UserOf`, `By`, `HookUser` | as whom a container's processes, a run's script and its hook are executed |
| `InstallPackages`, `InstallScript`, `ConfigureStartup` | `install.sh` and the install scripts it calls; `Hook` is what a run writes, `hooked` whether it got written |
| `Target`, `TruncateKeys`, `KeysOf`, `AppendKeys` | `configure-ssh.sh` |
| `ListDevices` to `TailscaleUp` | `configure-tailscale.sh` |
| `Started`, `OwnLog`, `WithDaemon`, `AfterStart`, `StartServices` | `start-ssh.sh`, `start-tailscale.sh`, `start.sh` |
| `Restart`, `Recreate`, the devices | Docker and the Tailscale service, external |

`configure_startup` (`install.sh:169-182`) calls its functions in the condition
of an `if`, where `errexit` is off. When a command in them fails, the script goes
on: a file that was written in part replaces the entrypoint, or nothing is
written, and install reports success. `ConfigureStartup` therefore succeeds with
the intended hook, the one before, or a broken one, and `SurvivesRestart` is
stated for the runs whose hook was written.

An image says what its user may do (`rights`), whether `ps` and `pgrep` are there
(`procps`) and whether Supervisor is. The scripts are executed by the container's user
or, when they have failed, by root, and three things depend on which it was:

- The keys go to the home directory of the user of PID 1, which `ps` tells; without it to
  that of whoever executes `configure-ssh.sh` (103-120), though its usage text names
  PID 1 only. `machine.keys` has one set per account; an attempt as the user and the retry
  as root may write both. `account` is the one the run has written last, and
  `LeavesItsKeys` is about that one: the other may keep what the failed attempt wrote.
- `/tmp/tailscaled.log` belongs to whoever first started tailscaled. Another user
  cannot open it, root perhaps not either (`fs.protected_regular`), and
  `start-tailscale.sh` does not notice, since the shell that opens it is in the
  background (33). Without `pgrep` it tries though tailscaled runs. When all scripts are
  run by one user or all of them as root, the hook can open the log of its own run.
  When `configure.sh` or `start.sh` alone had to be retried as root, or the log was there
  before and is another user's, it may not: the run succeeds, and after a restart
  the container is off the tailnet. `mixed` marks these runs, which the second part of
  `SurvivesRestart` excepts; what a run's scripts did before stands in `log`.
- The hook, as before: a retried install writes one that becomes root.

`HostFiles` are the runs whose `--ssh-public-keys` is a file of the host. The path is
passed on as it is (`inject.sh:139-140`), and `configure-ssh.sh:164` looks for the file in
the container: `KeysOf` of such a run is empty. The run succeeds, and what it was given
opens nothing, although `inject.sh:36` says "SSH public key, public-key file, or
comma-separated values".

`contested` marks runs that another one, active at the same time, may interfere
with (`Rivals`): the same container, the same name, or `Reaches`, where one run is
after a name that the other's container bears, or works through a list in which
that container's device still is. Nothing in the scripts locks these out and
nothing is claimed of them,
except that their steps are in every behaviour and must not harm the others. The
runs' constraint `SomeUncontested` stops where every run is contested: no run ever
stops being so, and nothing is claimed from there on.

The stale list is no detail. Run A lists a device that bears its name; run B, on
that device's container, gives it another name and ends; run C begins on the same
container with a third name. Nobody shares a name or a container with A by now,
and yet A deletes the device C has just named, because its list is from before
(`configure-tailscale.sh:188`). It takes three runs and three names, more than the
runs below have; the attempt to prove `LeavesOneDevice` for every number of runs
showed it.

### RemoteSpec

`Parse` is `Divide` at the first slash. A spec is the record `Spec` of the code; the
error is the spec `Malformed`. Characters are those of the constant `Character`. `ShellWord` is what the other side's
shell makes of the word `strconv.Quote` made: a fold of `Unquote`, one character at a
time, over what `Escape` makes of each character of the path. A line end and a tab
stand for all the characters Go does not print and writes with a backslash
(`Unprinted`), which the shell does not read back; a dollar or a backquote starts an
expansion (`Expanding`); any other character stands for itself. `ParsesAsDocumented` says nothing of what is no
`[user@]host[:port][/path]`: the parser takes `user@` and `:22` for hosts, although
it says "remote host is required" of an empty one, and IPv6 literals are taken apart
at their last colon if digits follow.

### Entrypoint

`phase` is where `entrypoint.sh` stands. `identity` is the node in the volume,
`authkey` whether `TS_AUTHKEY` is still good: it may be a one-time key. A failed
`up` may have joined the node all the same (`UpFails`). `tailscale status` fails both
while tailscaled comes up and while the node is logged out, so that on a first start
the loop always runs to its end (`PollFails`). `exec` takes the script's trap away: the end of
tailscaled is noticed by nobody from then on (`TailscaledDies`). A node that is
removed from the tailnet is not modelled; it needs a new key.

### ToolServer and Gateway

| Model | Code |
|---|---|
| `config` | `config.Config`: default timeout and shell |
| `sessions` | `Manager.sessions`: shell, remote and the program that was started |
| `request`, `process`, `reply` | a call from its receipt (`Receive`) to its result's sending (`Respond`): its arguments, the process its command was given to with directory and deadline, and its result |
| `Timeouts` | the conversion at `tools.go:134-136` and `executor.go:155-158` |
| `RejectCommand`, `StartCommand`, `ReportCommand` | `handleExecuteCommand`, `ExecuteWithMetadata` |
| `RejectShell`, `FailStart`, `UseSession`, `CreateSession`, `ReportShell`, `FailShell` | `handlePersistentShell`, `GetOrCreateSession`, `ExecuteCommandWithMetadata` |
| `RejectAction`, `ListSessions`, `CloseSession` | `handleSessionManager` |
| `SweepSession` | `cleanupSessions` |

An argument of the wrong type is `Missing`: Go's type assertion does not tell the
two apart. A result is a record whose fields are those of the code's map literal: `ExecutorFields`,
`ErrorFields` for a call of `execute_command` that is refused, and `ShellFields` are three
lists, as in the code; the
schemas are the sets of `output_schema.go`, written down apart from them. Durations
wrap around after `MaxDuration`; what becomes of a float too large for an integer depends
on the processor, so both extremes are possible. `ContainerStep` resets the server
when the phase `serving` ends. Whether the tunnel client starts a server anew that
has ended by itself is not known here and not modelled.

## Runs

| Run | Instance | Shows |
|---|---|---|
| `session_safety` | 3 calls, 1 ID, 2 remotes | lock, reader, command and target stay together; the map hands out only usable sessions and failed ones are gone; a shell is lost only after its ID was closed under a call |
| `session_liveness` | 2 calls and any number of further ones, 1 ID, fairness | calls return if the further ones cease at some time, even from a blocked write, or if shells read; readers end; sessions clients have ceased to use go; every step is one of PersistentShell or a stutter |
| `executor` | all modes, statuses 0 and 1, 2 chunks of text, fairness | results are true; a run returns once its stdout is released |
| `stream` | 2 calls, 2 chunks per call, all habits | results are whole and isolated; a status is wrong, or an end unnoticed, only after reading stdin, derailing the shell or half a line before the marker; every step is one of ShellSession or a stutter |
| `machine_tools` | 2 runs, 2 containers, 2 names, 1 kind of image, 4 devices, 1 restart | a run that ends well leaves one device with its name; only namesakes are deleted |
| `machine_accounts` | 2 runs, one with a key file of the host, 1 container of any of the 12 kinds of image, 1 name, 4 devices, 2 restarts | a run that ends well leaves its keys and no others in the account it was configured for, sshd, and a hook that can start what it is for |
| `gateway` | 1 session ID, 2 shells, 288 remotes, 9 timeouts, 3 environments, 8-bit durations, 2 polls, 1 fault, fairness | arguments become the process, directory and deadline they ask for; results tell the process and fit the schemas; sessions do not move; every step of the script brings the gateway nearer to serving, and it comes back |
| `session_listed`, `session_retry`, `executor_startup`, `executor_path`, `stream_stdin` | small instances | what the code does against what the repository says: see `findings` in PROJECT.json |

Why the bounds are enough. Two calls on one session meet in every way two calls
can, since a call takes its lock once; the third covers a session created anew
between a closing and the failure of the call that used the old one, with a call
on the new one. Two remotes tell "same" from "different";
the refinement is checked with two calls and one, and proved for any. The runs
have one session ID: the code keeps nothing that two IDs share but the map, whose
entries are apart, and the proofs hold for any set of IDs. In
CommandStream a call is disturbed by what earlier ones left behind, which the
second call sees. Two chunks tell a kept output from a lost or
reordered one. In MachineTools a second run is what comes before, after or
beside a run. Two stale devices tell "all
deleted" from "one deleted"; four devices leave room for two or three that join,
enough for each run to join one, or for one run to join, fail, and join again. One
restart falls between any two steps. Which devices there are does not depend on the
image but for what can fail and be retried, and `machine_tools` has the one in which most
can: a user with sudo, and Supervisor, which starts services too. Accounts, logs and hooks
are a matter of one container, and `machine_accounts` has every image: two runs one after
the other, or at once, with two restarts, tell what a run leaves from what was there
before. In Gateway the remotes combine users, hosts, ports and paths that have each
other's separators in them; the timeouts lie on both sides of zero, of a second, of
the largest duration and of the largest integer; the environments have a default
timeout that is none, negative and too large. One fault falls between any two steps
of the script, before or after the key was used up; with two, which takes twice as
long, the result is the same. Symmetry is used in
safety runs only: calls, IDs and remotes are compared for equality and nothing
else. Deadlock is not checked but in Gateway because the models stop when all calls are
answered; that nobody waits forever is `EveryCallReturns`, which covers a lock
that is never released.

### Fairness

`SessionManager.Fairness`: a goroutine that can run does. A step that waits for
a mutex others keep taking has strong fairness, which Go's mutexes give: a
waiter that has failed to get one for a millisecond is served next. The timeout
of a call expires, the clock advances past half an hour and the ticker ticks;
they are strong because a sweep may hold `sm.mu` just then. It asks nothing
of shells, commands or clients, not even that a shell reads what is written to it:
`WriteCommand` has no fairness. A call blocked there, and those behind it, are freed
by the sweep, which does not ask for the session's lock, but only half an hour after the
last call that found the session. `EveryCallReturns` therefore assumes one of two things, in so
many words: that from some time on no further call finds the session (`ClientsRest`), or
that the shells read what is written to them (`ShellsRead`). Without either TLC shows the
circle: half an hour passes, a client asks again, the sweep spares the session. For the
same reason `IdleSessionsForgotten` assumes `ClientsRest`. `EveryCallReturns` also excepts a
call on a session that another one has lost (finding 1), which no sweep finds. `Executor.Fairness`: the gateway, the kernel's
kill and wait, and the passing of time; nothing of the command, the shell or ssh.
`Gateway.FairSpec`: the script goes on and Docker starts the container again
(`restart: unless-stopped`); nobody has to call the server.

## Findings

1. `session_listed`: a call that fails on a session deletes by ID, and may delete
   a session created meanwhile under that ID; its shell is lost.
2. `session_retry`: `ProcessState` is never set, so a dead session stays in the
   map and every retry fails. For the same reason it is listed as alive.
3. `stream_stdin`: a command that reads a line of stdin gets the exit code of the
   command before.
4. `executor_startup`: "no remote command was executed" is said when one was.
5. `executor_path`: the command runs although `cd` to its path failed.

More things show in the models and have no run: a remote session's call that fails after
its start marker was read is reported like any other failure, as one that "failed before
producing command markers" (`Fail`, `session.go:159`); a public-key file of the host, given to
`inject.sh`, is written as its path, and the run succeeds (`KeysOf`); the timeout does not bound an
`execute_command` call, because it kills one process and the others hold stdout
(`ReturnsOnceReleased` is conditional for that reason); `configure_startup`
reports a hook that was not written as configured; the sweep closes a session
whose command has run for more than half an hour (`SweepCondemns` looks at
`stale` only), and `timed_out` is read after `Run` has returned, so a command that
failed in time is reported as timed out when the deadline passes in between
(`Expire` between `Reap` and `Collect`). Half a line from a background process
hides the next start marker, and the call runs into its timeout; so does an incomplete
command, or one that redirects the shell, which also ends the session.
`AnsweredUnlessDisturbed` says that, of what commands are assumed to do (see CommandStream),
these and reading stdin are the only ways, and `ExitCodeKept` that only the last makes a
status wrong. Clients that keep calling keep a session alive whose shell does not
read, and wait for it (`AskAgain`). A command whose call timed out or whose session was
closed runs on without its shell, as `OrphanEnds` has it. A remote command's status is replaced by ssh's
-1 or 255 when ssh is killed or lost while a background process holds the output
(`Collect`). Keys go to another account without `ps`, and
tailscaled does not come up after a restart when its log is another user's (see MachineTools). A timeout of half a second is one of 0 and expires at once; a huge one may be negative;
`MCP_COMMAND_TIMEOUT` may be negative or too large (`DeadlineAsAsked` is stated for
what can be represented). A validation error of `execute_command` has the execution
mode `""`, which its schema's enum does not have (`SchemasKept` excepts errors). The
`shell` of a remote result is the local shell that was not used. A `$` or a
backquote in a path is expanded by the shell and a line end arrives as `\n`
(`CdGoesToPath` is stated without them). After `exec`
nothing restarts tailscaled. `GetToolSchemas` repeats the registration and is never
called.

## Proofs

Every theorem holds for all values of the constants that satisfy the named
assumptions. Each component has an inductive invariant `IInv`, which contains the
type invariant; TLC has checked its parts on the component's run, and
`Invariance` proves it: it holds initially, and there is one step per action. What
follows from it is then a matter of a few lines.

| Module | Assumes | Proves |
|---|---|---|
| `SessionManagerProofs` | the null pointer is not a call | `TypeOK`, `MappedSessionsOpen`, `LockHeldByWorker`, `OneReader`, `RequestedTarget`, `FailedSessionRetired`, `NoOrphanShell`, `SerialShell`, `ImplementsPersistentShell` |
| `CommandStreamProofs` | bounds are numbers, 0 is a status | `TypeOK`, `OutputIsolated`, `OutputWhole`, `ExitCodeKept`, `AnsweredUnlessDisturbed`, `ImplementsShellSession`; `ExitCodeOwn` if no command reads stdin; no call `Deaf` if moreover none derails the shell, and none leaves processes behind or none writes half lines |
| `ExecutorProofs` | bounds are numbers, 0 is a status | `TypeOK`, `CorrelatedComplete`, `CorrelatedClean`, `NoErrorMeansDone`, `ExitCodeHonest`, `KillReported` |
| `MachineToolsProofs` | bounds are numbers, images are made of what is named there | `TypeOK`, `LeavesOneDevice`, `LeavesItsKeys`, `SurvivesRestart`, `DeletesNamesakes` |
| `RemoteSpecProofs` | `/`, `-` and `p` are characters | `ParsesAsDocumented` for every argument |
| `QuotingProofs` | nothing | `ShellWord(shellQuote(s)) = s` for every sequence `s` without characters of `Unprinted` and `Expanding` |
| `GatewayProofs` | the above; what calls carry (`RequestsAssumption`); a second is an even number of nanoseconds; the default timeout fits | `TypeOK`, `GrammarParsed`, `CdGoesToPath`, `DeadlineAsAsked`, `SchemasKept`, `ResultNamesProcess`, `SessionNeverMoves`, `EachStepNearer` |

### SessionManager

None of the properties is inductive. That two readers never share an open session needs:
a reader outlives its call only on a closed session (`ReaderAttended`); a call
that waits or closes holds its session's lock (`Locked`). That a command is
executed for the lock's holder needs that the command has not ended for a call
that succeeded (`AtWork`), so that output is delivered only after the end marker.
That a mapped session is open needs that a call about to close one has taken it
out (`Abandoned`), which holds because sessions are filed under their own ID: the
deletion by ID removes the call's session or an impostor, never leaves its own.
`IInv` is the conjunction; `InvStep` has one step per action. `NoOrphanShell`
adds (`OInv`) that a waiting call's session is open and in the map unless its ID was
closed under it: then the deletion by ID hits it and no other. Where it was closed is
finding 1.

`Refinement` is `SessionSpec => ImplementsPersistentShell`: `RefinementInit` maps
the initial states, `RefinementStep` every step, from the same `IInv`. It needs one
more part of `AtWork`: a call that waits or closes has a reader, so that the
command it gave is the one it is answered for. That commands outlive their shells costs
the invariant `AtWork` nothing but a condition, that the shell still runs.

### CommandStream

A result is right because of what can stand before and behind a marker in the
stream. `Progress` says that the script's lines are taken in their order, whoever
takes them, so that what is left of the script tells where the shell is. From that
follow what `stdout` still carries: between calls only text of background processes
(`Idle`); before the start marker only such text of the call before, and behind it
nothing of another call (`StartMarker`); behind the end marker nothing the command
wrote (`EndMarker`). `Whole` is what makes `OutputWhole` inductive: what was collected,
followed by what is still to be read, carries the command's text, each chunk at its
place and none left out (`OwnText`). `ExitCodeKept` needs the status followed from
the command to the shell's `$?`, its variable and the marker (`Statuses`), which only
a command that reads the script breaks. `AnsweredUnlessDisturbed` needs that each
marker is still in the stream until it is read, and that the end marker begins a line,
which the line end printed before it is for.

`Refinement` is `Spec => ImplementsShellSession`: `RefinementInit` maps the initial
states, `RefinementShell` the steps of the shell and its commands, `RefinementStep` all.
It needs one more invariant, `Answering`: a call that waits, and one that has not
begun, has no result yet, the session is idle only before the first call or after a success,
and a command has no status as long as it runs or its line has not been read.

The invariant holds for derailed calls too: their script is gone, and of the stream
only what was written before is left. Two theorems have hypotheses about `Habits`, and say what the findings say from the other
side. `StatusOwn`: without commands that read stdin, `ExitCodeOwn` holds, which
`stream_stdin` shows violated with them. `AnsweredOrderly`: without these, if every
command is complete and leaves the shell alone, and if
nothing is left in the background or nobody writes half lines, a call is never left waiting for
its timeout by a shell that has said all it will. Either of `background` and `partial`
alone is harmless: a line that the command itself leaves open is ended by the `\n` that
`session.go:197` prints before the end marker.

### Executor

A piece of the output tells how far the script had come when it was written
(`Markers`), and each marker is written once: hence the text between the two is the
command's, of a command that had ended. Noise that ssh writes after the start marker is
the last that arrives (`NoiseLast`): ssh reports a lost connection when it has ended,
and no end marker can follow, so that there is nothing but text between markers
(`CorrelatedClean`). `UnwrapFinds` is the lemma about `unwrapCommandOutput`, for outputs of
any length. `Collected` relates the fields of the result to the process, which neither
changes any more when they are read.

### MachineTools

`Alone` is the invariant behind the four properties: no run that is under way is a
rival of an uncontested one. From it, what a run has achieved at each of its stages
stays so, whatever other runs do to their containers and to the tailnet
(`Achieved`): what it has installed, whom the container lets in, and which devices
have its name (`Named`). `Named` needs that device numbers are unique and grow
(`Devices`), so that a list is about the devices it was made from. `Retries` says that
scripts run as root if install had to be retried, and only then, unless the run is
`mixed`: that is why the helper is there for a hook that needs it, and why a log that
`configure.sh` or `start.sh` makes belongs to the user as whom the hook will run. Restarts
keep it so, since a hook that starts tailscaled makes the log its own user's
(`HookTyped`). `Opened` follows the account from `TruncateKeys`, whose target is that of
`AppendKeys` as both are parts of one script, to the end of the run. A step that could break `Alone` is one by which a run begins, lists, or
gives a device a name; for these, and for what the run itself does, there are lemmas of
their own.

### RemoteSpec and Gateway

`Grammar` says that a trimmed argument that is a user, a host, a port and a path is
divided there: the first slash is the path's, since none stands before it
(`DividedThere`); the last `@` before it is the user's; the last colon behind that is
the port's. It follows that there is one way to read it. It rests on what the searches
find (`FirstFound`, `LastFound`), on parts of parts of a sequence (`SubPart`), and on
trimming what is trimmed (`Trimmed`).

`Working` relates a running command to its call: the call has passed its handler's
checks, its deadline is one of those it could be given, and until it is answered its
process is the one it asked for, or its session's. `SessionsRead` is what makes that
true for a session used again: the code compares the two remote strings only
(`session.go:71`), and since an open session's remote is what its string is read as, equal
strings mean the same user, host, port and path. `DeadlineAsAsked` is arithmetic about
`Wrap`: what fits does not wrap around.

`PathKept` is `CdGoesToPath` for paths of any length. Quoting concatenates what `Escape`
makes of each character and the shell reads the result character by character; both are
folds of the community modules, `FlattenSeq` and `FoldLeft`. `FoldExists`, `ShellWordRead`
and `FlattenSeqBuilt` turn them into sequences of states, one per place, and `QuotedPath`
follows the shell through the word: after the characters written for the first `i`
characters of the path it has read these, within quotes and not after a backslash.
The induction is over places, not over an operator: if not all places had a property,
there would be a least one that has not (`Upwards` in `SearchLemmas`).

`Nearer` is the part of `ComesBack` that needs no fairness. `Distance` bounds the steps
the script is from serving, and every step that is no fault makes it smaller, with any
number of polls: there is no circle of retries, and the restart that follows a refused
`up` is not in vain, since the identity or the key is still there. Faults are bounded; what
remains is that steps are taken, which is the fairness assumed.

`ResultNamesProcess` was stated first with "the program is `ssh`" where it now has "the
process has ssh's arguments". The proof needs the difference: a client may ask for a
local shell that is called `ssh`, which no instance had.

### Only model-checked

Liveness under fairness is beyond the prover: `EveryCallReturns`, `ReadersStop`,
`IdleSessionsForgotten`, `ReturnsOnceReleased`, `ComesBack`. Of the last, `EachStepNearer`
proves that no step leads away. The violations are TLC's. Every invariant and every action
property the passing runs check is proved as well, and so are both refinements.

## Not modelled

Result texts for people and logs; the values of IDs, hashes and times; the address
flags and `DISPLAY`; the MCP transport; other platforms than Linux, on which
`execute_command` refuses; how much of a script is in a pipe; reaping of processes;
the build files. Of the scripts: what is in the entrypoint (that a marker
elsewhere in a line is taken for a hook, for instance), argument parsing, an exec
prefix other than Docker's (`Docker = FALSE` is in the module; it only removes
retries).

## Plan

Done in the order of importance: SessionManager, its proofs and its abstract
specification; Executor; CommandStream; MachineTools; the outside of the server and
its container (RemoteSpec, Entrypoint, ToolServer, Gateway); the proofs of the
safety properties of all of them; the abstract specification of a session's results and
its refinement; quoting. What is left:

1. A timed sweep: call timeouts below the idle limit keep busy sessions safe.
2. Proofs of the variants of the other liveness properties, as `EachStepNearer` is one of
   `ComesBack`.
