------------------------------ MODULE MachineTools ------------------------------
(***************************************************************************)
(* Preparing containers for the tailnet (src/machine-tools): inject.sh     *)
(* copies the tools into a container and runs install.sh, configure.sh and *)
(* start.sh there, each again as root if it fails.  The scripts run under  *)
(* `set -e`: a command that fails ends them, and what was done before it   *)
(* stays done.                                                             *)
(*                                                                         *)
(* Several runs may be under way, for one container or several; they share *)
(* the containers' files and the tailnet, whose devices are kept by the    *)
(* Tailscale service.  Containers are restarted, or thrown away and made   *)
(* anew from their image.                                                  *)
(***************************************************************************)
EXTENDS Integers, FiniteSets

CONSTANTS
    Run,        \* the invocations of inject.sh
    Machine,    \* the containers
    Host,       \* the values of --tailscale-hostname
    Image,      \* what containers are made from: see below
    HostFiles,  \* the runs whose --ssh-public-keys names a file of the host
    Docker,     \* the exec prefix is "docker exec", which can be retried as root
    MaxDevice,  \* a bound on the devices that ever join the tailnet
    MaxRestarts \* a bound on the restarts of containers

\* rights: the container's user, as whom PID 1 and `docker exec` run, can not
\* become root, can with sudo, or is root.  procps: ps and pgrep are there.
\* supervisor: Supervisor is there to start things, run by root; if not,
\* --entrypoint names a script to patch.
ASSUME ImageAssumption ==
    Image \subseteq [rights : {"none", "sudo", "root"}, procps : BOOLEAN,
                    supervisor : BOOLEAN]
ASSUME HostFilesAssumption == HostFiles \subseteq Run
ASSUME DockerAssumption == Docker \in BOOLEAN
ASSUME MaxDeviceAssumption == MaxDevice \in Nat \ {0, 1}
ASSUME MaxRestartsAssumption == MaxRestarts \in Nat

VARIABLES
    args,       \* the arguments of each run
    image,      \* of each container
    run,        \* where each run stands
    machine,    \* the state of each container
    tailnet,    \* the devices that have joined
    joined,     \* how many have ever joined
    restarts,   \* how many restarts there were
    contested   \* the runs another one got in the way of

vars == <<args, image, run, machine, tailnet, joined, restarts, contested>>

-----------------------------------------------------------------------------
(***************************************************************************)
(* Types and initial state.                                                *)
(***************************************************************************)
InstallStage   == {"packages", "script", "startup"}
ConfigureStage == {"truncate", "append", "list", "delete", "daemon", "up"}
InContainer    == InstallStage \cup ConfigureStage \cup {"start"}
Ended          == {"done", "failed"}
Stage          == {"waiting", "copy"} \cup InContainer \cup Ended

DeviceID == 1..MaxDevice

Args == [machine : Machine, host : Host]

\* The container's user, unless it is root, and root.
Account == {"user", "root"}

\* asRoot: the current script runs with --user root.  retried: install needed
\* that (ROOT_RETRY_USED).  hooked: the truth about the writing of the hook.
\* mixed: tailscaled's log can be another user's than the hook's: it was when
\* the hook was written, or configure or start alone was retried as root.
\* account: whose authorized_keys the run has written.
RunState == [stage : Stage, asRoot : BOOLEAN, retried : BOOLEAN,
             hooked : BOOLEAN, mixed : BOOLEAN, account : Account,
             listed : SUBSET DeviceID]

\* tools: /tmp/machine-tools is there.  script: the start script is.  helper:
\* sudoers lets everybody run it.  hook: how the container runs it when it
\* starts.  keys: the runs whose keys open each account.  sshd, daemon: sshd
\* and tailscaled run.  log: who owns /tmp/tailscaled.log.  node: the device
\* its state file is for, 0 if none.
MachineState == [tools : BOOLEAN, packages : BOOLEAN, script : BOOLEAN,
                 helper : BOOLEAN,
                 hook : {"none", "broken", "plain", "sudo", "root"},
                 keys : [Account -> SUBSET Run], sshd : BOOLEAN,
                 daemon : BOOLEAN, log : Account \cup {"none"},
                 node : 0..MaxDevice]

TypeOK ==
    /\ args      \in [Run -> Args]
    /\ image     \in [Machine -> Image]
    /\ run       \in [Run -> RunState]
    /\ machine   \in [Machine -> MachineState]
    /\ tailnet   \subseteq [id : DeviceID, host : Host]
    /\ joined    \in 0..MaxDevice
    /\ restarts  \in 0..MaxRestarts
    /\ contested \in SUBSET Run

\* A run that has not begun, or has ended, has no state of its own.
NotRunning(stage) == [stage |-> stage, asRoot |-> FALSE, retried |-> FALSE,
                      hooked |-> FALSE, mixed |-> FALSE, account |-> "user",
                      listed |-> {}]

Fresh == [tools |-> FALSE, packages |-> FALSE, script |-> FALSE, helper |-> FALSE,
          hook |-> "none", keys |-> [a \in Account |-> {}], sshd |-> FALSE,
          daemon |-> FALSE, log |-> "none", node |-> 0]

\* The tailnet has two stale devices of one name, or one that a container has
\* joined by hand.
Init ==
    /\ args      \in [Run -> Args]
    /\ image     \in [Machine -> Image]
    /\ run       = [r \in Run |-> NotRunning("waiting")]
    /\ \E h \in Host :
          \/ /\ tailnet = {[id |-> 1, host |-> h], [id |-> 2, host |-> h]}
             /\ joined = 2
             /\ machine = [m \in Machine |-> Fresh]
          \/ /\ tailnet = {[id |-> 1, host |-> h]}
             /\ joined = 1
             /\ \E own \in Machine :
                   machine = [m \in Machine |-> IF m # own THEN Fresh ELSE
                      [Fresh EXCEPT !.packages = TRUE, !.daemon = TRUE, !.node = 1]]
    /\ restarts  = 0
    /\ contested = {}

-----------------------------------------------------------------------------
(***************************************************************************)
(* How scripts succeed and fail.                                           *)
(***************************************************************************)
On(r)     == args[r].machine
Active(r) == run[r].stage \notin {"waiting"} \cup Ended

\* The names by which devices of the tailnet are known.
NamesOf(id)    == {d.host : d \in {x \in tailnet : x.id = id}}
Namesakes(h)   == {d \in tailnet : d.host = h}

\* machine_tools_as_root, with or without sudo.
Privileged(r) == run[r].asRoot \/ image[On(r)].rights # "none"

\* As whom a run's script is executed.
UserOf(img) == IF img.rights = "root" THEN "root" ELSE "user"
By(r)       == IF run[r].asRoot THEN "root" ELSE UserOf(image[On(r)])

\* Mutant of NextScript: ROOT_RETRY_USED is forgotten.
NextScriptAsUser(state, stage) ==
    [state EXCEPT !.stage = stage, !.asRoot = FALSE]

\* The next script is run by the container's user, or as root if install was.
NextScript(state, stage) ==
    [state EXCEPT !.stage = stage, !.asRoot = state.retried]

\* A script has failed: it is run again from its start, once, as root.
AfterFailure(r) ==
    LET state == run[r]
    IN  IF state.asRoot \/ ~Docker THEN NotRunning("failed")
        ELSE IF state.stage \in InstallStage
        THEN [state EXCEPT !.stage = "packages", !.asRoot = TRUE, !.retried = TRUE]
        ELSE IF state.stage \in ConfigureStage
        THEN [state EXCEPT !.stage = "truncate", !.asRoot = TRUE, !.mixed = TRUE]
        ELSE [state EXCEPT !.asRoot = TRUE, !.mixed = TRUE]

Fails(r) == run' = [run EXCEPT ![r] = AfterFailure(r)]
Goes(r, stage) == run' = [run EXCEPT ![r].stage = stage]

\* Mutant of Ends: the exit status is lost.
EndsSomehow(r, how) == run' = [run EXCEPT ![r] = NotRunning("ended")]

Ends(r, how) == run' = [run EXCEPT ![r] = NotRunning(how)]

\* The run executes this part of a script, with the rights that takes.
At(r, stage) ==
    /\ run[r].stage = stage
    /\ machine[On(r)].tools
    /\ Privileged(r)

\* Any command can fail.  Whatever its script did before stays.
CommandFails(r) ==
    /\ run[r].stage \in InContainer
    /\ Fails(r)
    /\ UNCHANGED <<args, image, machine, tailnet, joined, restarts, contested>>

-----------------------------------------------------------------------------
(***************************************************************************)
(* How services start: unless pgrep finds them.  start-ssh.sh succeeds only*)
(* if sshd runs, which puts itself in the background.  start-tailscale.sh  *)
(* does not wait for tailscaled to come up, nor for the shell to open its  *)
(* log, which the first start has created; of two that are started at once *)
(* the second fails, on the proxy port of the first.                       *)
(***************************************************************************)

\* Nobody but the owner of the log writes it, and root, if the kernel lets it
\* (fs.protected_regular).
OwnLog(state, who) == state.log \in {"none", who}

Started(state) == [state EXCEPT !.sshd = TRUE]

WithDaemon(state, img, who) ==
    LET opened == [state EXCEPT !.log = IF @ = "none" THEN who ELSE @]
    IN  {state} \cup
        {x \in {opened, [opened EXCEPT !.daemon = TRUE]} :
             /\ ~(state.daemon /\ img.procps)
             /\ OwnLog(state, who) \/ who = "root"}

\* start.sh goes on when one of the two has failed.
AfterStart(state, img, who) ==
    WithDaemon(state, img, who) \cup WithDaemon(Started(state), img, who)

\* As whom the start script runs when the hook does: sudo makes it root.
HookUser(state, img) ==
    IF state.hook \in {"sudo", "root"} THEN "root" ELSE UserOf(img)

\* The hook has the rights the start script takes.
Startable(state, img) ==
    /\ state.packages /\ state.script
    /\ \/ state.hook = "root"
       \/ state.hook = "plain" /\ img.rights # "none"
       \/ state.hook = "sudo" /\ (state.helper \/ img.rights # "none")

\* What becomes of a container whose hook is run.
AfterHook(state, img) ==
    {state} \cup {x \in AfterStart(state, img, HookUser(state, img)) :
                     Startable(state, img)}

-----------------------------------------------------------------------------
(***************************************************************************)
(* inject.sh up to the first script.                                       *)
(***************************************************************************)

\* A run reaches the device of another's container: it has the name, or is one
\* of those that are still to be deleted, whatever its name is by now.
Reaches(q, r) ==
    LET node == machine[On(r)].node
    IN  \/ args[q].host \in NamesOf(node)
        \/ run[q].stage = "delete" /\ node \in run[q].listed

\* Two runs get in each other's way: one container, one name, or one device.
Rivals(q, r) ==
    \/ On(q) = On(r)
    \/ args[q].host = args[r].host
    \/ Reaches(q, r) \/ Reaches(r, q)

\* The tools that a run before has left are removed.
Begin(r) ==
    LET rivals == {q \in Run : Active(q) /\ Rivals(q, r)}
    IN  /\ run[r].stage = "waiting"
        /\ contested' = contested \cup rivals \cup {x \in {r} : rivals # {}}
        /\ \/ /\ Goes(r, "copy")
              /\ machine' = [machine EXCEPT ![On(r)].tools = FALSE]
           \/ /\ Ends(r, "failed")
              /\ UNCHANGED machine
        /\ UNCHANGED <<args, image, tailnet, joined, restarts>>

CopyTools(r) ==
    /\ run[r].stage = "copy"
    /\ \/ /\ Goes(r, "packages")
          /\ machine' = [machine EXCEPT ![On(r)].tools = TRUE]
       \/ /\ Ends(r, "failed")
          /\ UNCHANGED machine
    /\ UNCHANGED <<args, image, tailnet, joined, restarts, contested>>

-----------------------------------------------------------------------------
(***************************************************************************)
(* install.sh.                                                             *)
(***************************************************************************)
InstallPackages(r) ==
    /\ At(r, "packages")
    /\ machine' = [machine EXCEPT ![On(r)].packages = TRUE]
    /\ Goes(r, "script")
    /\ UNCHANGED <<args, image, tailnet, joined, restarts, contested>>

\* Mutant of InstallScript: the helper is not asked for in the retry.
InstallScriptOnly(r) ==
    /\ At(r, "script")
    /\ machine' = [machine EXCEPT ![On(r)].script = TRUE]
    /\ Goes(r, "startup")
    /\ UNCHANGED <<args, image, tailnet, joined, restarts, contested>>

\* The start script and, with --install-setuid-start-helper, its sudoers rule.
InstallScript(r) ==
    /\ At(r, "script")
    /\ machine' = [machine EXCEPT ![On(r)].script = TRUE,
                                  ![On(r)].helper = @ \/ run[r].retried]
    /\ Goes(r, "startup")
    /\ UNCHANGED <<args, image, tailnet, joined, restarts, contested>>

\* The hook for this run: a Supervisor program for the user that runs install,
\* or a line in the entrypoint script.
Hook(r) ==
    IF image[On(r)].supervisor
    THEN IF run[r].asRoot THEN "root" ELSE "plain"
    ELSE IF run[r].retried THEN "sudo" ELSE "plain"

\* configure_startup calls its functions as conditions of an `if`, where
\* `set -e` does nothing: when writing the hook fails, the old file stays or
\* an incomplete one takes its place, and install.sh succeeds all the same.
\* Supervisor runs a hook that is new, or not running, at once.
ConfigureStartup(r) ==
    /\ At(r, "startup")
    /\ \E hook \in {Hook(r), machine[On(r)].hook, "broken"} :
          LET state == [machine[On(r)] EXCEPT !.hook = hook]
              img   == image[On(r)]
          IN  /\ \E after \in IF img.supervisor THEN AfterHook(state, img)
                              ELSE {state} :
                    machine' = [machine EXCEPT ![On(r)] = after]
              /\ run' = [run EXCEPT ![r] =
                    [NextScript(@, "truncate") EXCEPT
                        !.hooked = (hook = Hook(r)),
                        !.mixed  = ~OwnLog(state, HookUser(state, img))]]
    /\ UNCHANGED <<args, image, tailnet, joined, restarts, contested>>

-----------------------------------------------------------------------------
(***************************************************************************)
(* configure.sh: configure-ssh.sh, then configure-tailscale.sh.            *)
(***************************************************************************)

\* Mutant of TruncateKeys: the keys are appended to those of runs before.
TruncateNothing(r) ==
    /\ At(r, "truncate")
    /\ Goes(r, "append")
    /\ UNCHANGED <<args, image, machine, tailnet, joined, restarts, contested>>

\* The account is that of PID 1, or of whoever runs the script if there is no
\* ps to tell.
Target(r) ==
    IF image[On(r)].procps THEN UserOf(image[On(r)]) ELSE By(r)

TruncateKeys(r) ==
    /\ At(r, "truncate")
    /\ machine' = [machine EXCEPT ![On(r)].keys[Target(r)] = {}]
    /\ Goes(r, "append")
    /\ UNCHANGED <<args, image, tailnet, joined, restarts, contested>>

\* A key, or the keys of a file the container has.  The name of any other file
\* is written as if it were a key, which opens nothing.
KeysOf(r) == {r} \ HostFiles

AppendKeys(r) ==
    /\ At(r, "append")
    /\ machine' = [machine EXCEPT ![On(r)].keys[Target(r)] = @ \cup KeysOf(r)]
    /\ run' = [run EXCEPT ![r].stage = "list", ![r].account = Target(r)]
    /\ UNCHANGED <<args, image, tailnet, joined, restarts, contested>>

\* Mutant of ListDevices: only the first match is kept.
ListOneDevice(r) ==
    /\ At(r, "list")
    /\ machine[On(r)].packages
    /\ \E ids \in SUBSET {d.id : d \in Namesakes(args[r].host)} :
          /\ Cardinality(ids) <= 1
          /\ run' = [run EXCEPT ![r].stage = "delete", ![r].listed = ids]
    /\ UNCHANGED <<args, image, machine, tailnet, joined, restarts, contested>>

\* Mutant of ListDevices: every device of the tailnet matches.
ListAllDevices(r) ==
    /\ At(r, "list")
    /\ machine[On(r)].packages
    /\ run' = [run EXCEPT ![r].stage = "delete",
                          ![r].listed = {d.id : d \in tailnet}]
    /\ UNCHANGED <<args, image, machine, tailnet, joined, restarts, contested>>

\* The devices with the hostname, as the service knows them now.
ListDevices(r) ==
    /\ At(r, "list")
    /\ machine[On(r)].packages
    /\ run' = [run EXCEPT ![r].stage = "delete",
                  ![r].listed = {d.id : d \in Namesakes(args[r].host)}]
    /\ UNCHANGED <<args, image, machine, tailnet, joined, restarts, contested>>

\* The next of them is deleted; one that is gone already is an error.
DeleteDevice(r) ==
    /\ At(r, "delete")
    /\ \E id \in run[r].listed :
          /\ tailnet' = {d \in tailnet : d.id # id}
          /\ IF NamesOf(id) = {} THEN Fails(r)
             ELSE run' = [run EXCEPT ![r].listed = @ \ {id}]
    /\ UNCHANGED <<args, image, machine, joined, restarts, contested>>

\* All are deleted and a one-time key is created.
CreateKey(r) ==
    /\ At(r, "delete")
    /\ run[r].listed = {}
    /\ Goes(r, "daemon")
    /\ UNCHANGED <<args, image, machine, tailnet, joined, restarts, contested>>

EnsureDaemon(r) ==
    /\ At(r, "daemon")
    /\ \E after \in WithDaemon(machine[On(r)], image[On(r)], By(r)) :
          machine' = [machine EXCEPT ![On(r)] = after]
    /\ Goes(r, "up")
    /\ UNCHANGED <<args, image, tailnet, joined, restarts, contested>>

\* tailscale up: a container that is logged in keeps its device, with the new
\* name; another joins as a new device.  It may fail having done so.
TailscaleUp(r) ==
    LET node == machine[On(r)].node
    IN  /\ At(r, "up")
        /\ machine[On(r)].daemon
        /\ IF NamesOf(node) # {}
           THEN /\ tailnet' = {d \in tailnet : d.id # node}
                              \cup {[id |-> node, host |-> args[r].host]}
                /\ UNCHANGED <<machine, joined>>
           ELSE /\ joined < MaxDevice
                /\ joined' = joined + 1
                /\ machine' = [machine EXCEPT ![On(r)].node = joined']
                /\ tailnet' = tailnet \cup {[id |-> joined', host |-> args[r].host]}
        /\ \/ run' = [run EXCEPT ![r] = NextScript(@, "start")]
           \/ Fails(r)
        /\ UNCHANGED <<args, image, restarts, contested>>

-----------------------------------------------------------------------------
(***************************************************************************)
(* start.sh, and the life of containers.                                   *)
(***************************************************************************)
\* Mutant of StartServices: start.sh fails only when its last command does.
StartServicesLast(r) ==
    /\ At(r, "start")
    /\ machine[On(r)].packages
    /\ \E after \in AfterStart(machine[On(r)], image[On(r)], By(r)) :
          machine' = [machine EXCEPT ![On(r)] = after]
    /\ Ends(r, "done") \/ Fails(r)
    /\ UNCHANGED <<args, image, tailnet, joined, restarts, contested>>

StartServices(r) ==
    /\ At(r, "start")
    /\ machine[On(r)].packages
    /\ \E after \in AfterStart(machine[On(r)], image[On(r)], By(r)) :
          /\ machine' = [machine EXCEPT ![On(r)] = after]
          /\ (after.sshd /\ Ends(r, "done")) \/ Fails(r)
    /\ UNCHANGED <<args, image, tailnet, joined, restarts, contested>>

\* A container goes down, and what runs in it.
GoesDown(m) ==
    /\ restarts < MaxRestarts
    /\ restarts' = restarts + 1
    /\ run' = [r \in Run |->
          IF On(r) = m /\ run[r].stage \in InContainer THEN AfterFailure(r)
          ELSE run[r]]
    /\ UNCHANGED <<args, image, tailnet, joined, contested>>

Restart(m) ==
    /\ GoesDown(m)
    /\ \E after \in AfterHook([machine[m] EXCEPT !.sshd = FALSE, !.daemon = FALSE],
                              image[m]) :
          machine' = [machine EXCEPT ![m] = after]

\* Its files are lost; its device stays.
Recreate(m) ==
    /\ GoesDown(m)
    /\ machine' = [machine EXCEPT ![m] = Fresh]

-----------------------------------------------------------------------------
Inject(r) ==
    \/ Begin(r) \/ CopyTools(r) \/ CommandFails(r)
    \/ InstallPackages(r) \/ InstallScript(r) \/ ConfigureStartup(r)
    \/ TruncateKeys(r) \/ AppendKeys(r)
    \/ ListDevices(r) \/ DeleteDevice(r) \/ CreateKey(r)
    \/ EnsureDaemon(r) \/ TailscaleUp(r)
    \/ StartServices(r)

Next ==
    \/ \E r \in Run : Inject(r)
    \/ \E m \in Machine : Restart(m) \/ Recreate(m)

Spec == Init /\ [][Next]_vars

-----------------------------------------------------------------------------
(***************************************************************************)
(* What a run leaves when it ends well and no other got in its way, however*)
(* often its scripts, or runs before it, failed halfway.                   *)
(***************************************************************************)
EndsWell(r) ==
    /\ r \notin contested
    /\ run[r].stage # "done"
    /\ run'[r].stage = "done"

\* The container is on the tailnet, and is the only device with its name
\* (configure-tailscale.sh:188-209).
LeavesOneDevice ==
    [][\A r \in Run : EndsWell(r) =>
          /\ Cardinality(Namesakes(args[r].host)) = 1
          /\ NamesOf(machine[On(r)].node) = {args[r].host}]_vars

\* sshd runs, and the keys of the run, and no others, open the account it was
\* configured for, whether that succeeded at once or as root: none does if they
\* were a file of the host (configure-ssh.sh:103-169, start.sh:9-17).
LeavesItsKeys ==
    [][\A r \in Run : EndsWell(r) =>
          LET state == machine'[On(r)]
          IN  state.sshd /\ state.keys[run[r].account] = KeysOf(r)]_vars

\* When the container is started again its hook, if it was written, has the
\* rights the start script takes, whichever scripts root had to run.  It can
\* open the log of tailscaled too, unless that was another user's before or
\* configure or start alone had to be run as root (install.sh:57-182,
\* start-tailscale.sh:33).
SurvivesRestart ==
    [][\A r \in Run : EndsWell(r) /\ run[r].hooked =>
          LET state == machine'[On(r)]
              img   == image[On(r)]
          IN  /\ Startable(state, img)
              /\ run[r].mixed \/ OwnLog(state, HookUser(state, img))]_vars

\* No device is deleted but for its name: the list a run works through is
\* still true of each device when its turn comes (configure-tailscale.sh:188-198).
DeletesNamesakes ==
    [][\A r \in Run \ contested :
          run[r].stage = "delete" /\ run'[r].listed # run[r].listed =>
              \A d \in tailnet \ tailnet' : d.host = args[r].host]_vars
=============================================================================
