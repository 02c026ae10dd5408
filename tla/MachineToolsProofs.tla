--------------------------- MODULE MachineToolsProofs ---------------------------
(***************************************************************************)
(* Proofs about MachineTools, for any number of runs, containers and       *)
(* devices.                                                                *)
(*                                                                         *)
(* What an uncontested run has done stays done: no other run that is under *)
(* way has its container, its name or its container's device, and restarts *)
(* keep the files and whose they are.  A container made anew has no tools, *)
(* and the run can only fail there.                                        *)
(***************************************************************************)
EXTENDS MachineTools, FiniteSetTheorems, TLAPS

\* Devices are numbered as they join, and a container has its own.
Devices ==
    /\ \A d \in tailnet : d.id <= joined
    /\ \A d, e \in tailnet : d.id = e.id => d = e
    /\ \A m \in Machine : machine[m].node <= joined
    /\ \A m, o \in Machine : machine[m].node = machine[o].node /\ m # o =>
          machine[m].node = 0
    /\ \A r \in Run : run[r].listed \subseteq 1..joined

\* No other run that is under way is a rival of an uncontested one.
Alone ==
    \A r \in Run \ contested, q \in Run :
        Active(r) /\ Active(q) /\ q # r => ~Rivals(q, r)

\* The scripts run as root if install.sh had to, and only then, unless configure
\* or start was retried on its own.
Retries ==
    \A r \in Run :
        run[r].stage \in InstallStage \cup {"waiting", "copy"} \/ ~run[r].mixed =>
            run[r].asRoot = run[r].retried

\* The container is the one the tools were copied into.
Tooled(r) == machine[On(r)].tools

\* What an uncontested run has installed, as far as it has come.
Installed(r) ==
    LET state == machine[On(r)]
    IN  /\ run[r].stage = "script" => state.packages
        /\ run[r].stage = "startup" =>
              state.packages /\ state.script /\ (run[r].retried => state.helper)
        /\ run[r].stage \in ConfigureStage \cup {"start"} /\ run[r].hooked =>
              /\ Startable(state, image[On(r)])
              /\ state.hook = "plain" <=> ~run[r].retried
              /\ run[r].mixed \/ OwnLog(state, HookUser(state, image[On(r)]))

\* Whom the account lets in.
Opened(r) ==
    /\ run[r].stage = "append" => machine[On(r)].keys[Target(r)] = {}
    /\ run[r].stage \in {"list", "delete", "daemon", "up", "start"} =>
          machine[On(r)].keys[run[r].account] = KeysOf(r)

\* Which devices have its name.
Named(r) ==
    /\ run[r].stage = "delete" =>
          \A d \in tailnet : d.id \in run[r].listed <=> d.host = args[r].host
    /\ run[r].stage \in {"daemon", "up"} => Namesakes(args[r].host) = {}
    /\ run[r].stage = "start" /\ Tooled(r) =>
          Namesakes(args[r].host) =
              {[id |-> machine[On(r)].node, host |-> args[r].host]}

\* What an uncontested run has achieved.
Achieved ==
    \A r \in Run \ contested :
        /\ Tooled(r) => Installed(r) /\ Opened(r)
        /\ Named(r)

IInv ==
    /\ TypeOK
    /\ Devices
    /\ Alone
    /\ Retries
    /\ Achieved

-----------------------------------------------------------------------------
(***************************************************************************)
(* Types.                                                                  *)
(***************************************************************************)
USE MaxDeviceAssumption, MaxRestartsAssumption

\* The types of what belongs to a run.
LEMMA OnTyped ==
    ASSUME TypeOK, NEW r \in Run
    PROVE  /\ On(r) \in Machine /\ machine[On(r)] \in MachineState
           /\ args[r].host \in Host /\ run[r] \in RunState
           /\ image[On(r)] \in Image
           /\ By(r) \in Account /\ Target(r) \in Account
<1>1. On(r) \in Machine
  BY DEF TypeOK, On, Args
<1>2. \A img : UserOf(img) \in Account
  BY DEF UserOf, Account
<1>3. By(r) \in Account /\ Target(r) \in Account
  BY <1>2 DEF By, Target, Account
<1> QED
  BY <1>1, <1>3 DEF TypeOK, Args

\* The stages of the scripts are stages.
LEMMA StageTyped ==
    /\ InstallStage \subseteq Stage /\ ConfigureStage \subseteq Stage
    /\ InContainer \subseteq Stage /\ Ended \subseteq Stage
BY DEF Stage, InContainer, InstallStage, ConfigureStage, Ended

\* A run that has not begun, or has ended, has a state.
LEMMA NotRunningTyped ==
    ASSUME NEW stage \in Stage
    PROVE  NotRunning(stage) \in RunState
BY DEF NotRunning, RunState, Account

\* It is nobody's.
LEMMA NotRunningSo ==
    ASSUME NEW stage
    PROVE  /\ NotRunning(stage).stage = stage /\ NotRunning(stage).listed = {}
           /\ NotRunning(stage).asRoot = NotRunning(stage).retried
<1>1. NotRunning(stage).asRoot = FALSE /\ NotRunning(stage).retried = FALSE
  BY DEF NotRunning
<1> QED
  BY <1>1 DEF NotRunning

\* A run that has failed has a state.
LEMMA FailureTyped ==
    ASSUME TypeOK, NEW r \in Run
    PROVE  AfterFailure(r) \in RunState
<1>1. run[r] \in RunState
  BY OnTyped
<1>2. /\ NotRunning("failed") \in RunState
      /\ "packages" \in Stage /\ "truncate" \in Stage
  BY NotRunningTyped DEF Stage, InContainer, InstallStage, ConfigureStage, Ended
<1> HIDE DEF Stage, DeviceID
<1>3. /\ [run[r] EXCEPT !.stage = "packages", !.asRoot = TRUE, !.retried = TRUE] \in RunState
      /\ [run[r] EXCEPT !.stage = "truncate", !.asRoot = TRUE, !.mixed = TRUE] \in RunState
      /\ [run[r] EXCEPT !.asRoot = TRUE, !.mixed = TRUE] \in RunState
  BY <1>1, <1>2 DEF RunState
<1> QED
  BY <1>2, <1>3 DEF AfterFailure

\* A container's state changes in fields that have the values they may have.
LEMMA MachineTyped ==
    ASSUME NEW s \in MachineState
    PROVE  /\ \A b \in BOOLEAN :
                 /\ [s EXCEPT !.tools = b] \in MachineState
                 /\ [s EXCEPT !.packages = b] \in MachineState
                 /\ [s EXCEPT !.sshd = b] \in MachineState
                 /\ [s EXCEPT !.daemon = b] \in MachineState
                 /\ \A c \in BOOLEAN :
                       [s EXCEPT !.script = b, !.helper = c] \in MachineState
           /\ \A hook \in {"none", "broken", "plain", "sudo", "root"} :
                 [s EXCEPT !.hook = hook] \in MachineState
           /\ \A node \in 0..MaxDevice : [s EXCEPT !.node = node] \in MachineState
BY DEF MachineState

\* The keys that open an account change.
LEMMA KeysTyped ==
    ASSUME NEW s \in MachineState, NEW who \in Account, NEW keys \in SUBSET Run
    PROVE  [s EXCEPT !.keys[who] = keys] \in MachineState
<1>1. [s.keys EXCEPT ![who] = keys] \in [Account -> SUBSET Run]
  BY DEF MachineState
<1> HIDE DEF Account
<1> QED
  BY <1>1 DEF MachineState

\* Services start and, but for the log, no file changes.
SameFiles(s, t) ==
    /\ s.tools = t.tools /\ s.packages = t.packages /\ s.script = t.script
    /\ s.helper = t.helper /\ s.hook = t.hook /\ s.keys = t.keys
    /\ s.node = t.node

\* Whoever starts tailscaled owns the log that was not there.
Logged(s, t, who) == t.log = s.log \/ (s.log = "none" /\ t.log = who)

\* Starting services changes no file but the log.
LEMMA ServicesTyped ==
    ASSUME NEW s \in MachineState, NEW img, NEW who \in Account
    PROVE  \A t \in AfterStart(s, img, who) \cup WithDaemon(s, img, who) \cup {s} :
              t \in MachineState /\ SameFiles(t, s) /\ Logged(s, t, who)
<1>1. ASSUME NEW u \in MachineState, NEW t \in WithDaemon(u, img, who)
      PROVE  t \in MachineState /\ SameFiles(t, u) /\ Logged(u, t, who)
  <2> DEFINE owner  == IF u.log = "none" THEN who ELSE u.log
             opened == [u EXCEPT !.log = owner]
  <2>1. t \in {u, opened, [opened EXCEPT !.daemon = TRUE]}
    BY <1>1 DEF WithDaemon
  <2>2. /\ owner \in Account \cup {"none"}
        /\ owner = u.log \/ (u.log = "none" /\ owner = who)
    BY DEF MachineState
  <2> HIDE DEF owner
  <2>3. opened \in MachineState /\ SameFiles(opened, u) /\ Logged(u, opened, who)
    <3>1. opened \in MachineState
      BY <2>2 DEF MachineState
    <3>2. SameFiles(opened, u)
      BY DEF SameFiles, MachineState
    <3>3. Logged(u, opened, who)
      BY <2>2 DEF Logged, MachineState
    <3> QED
      BY <3>1, <3>2, <3>3
  <2> HIDE DEF opened
  <2>4. LET up == [opened EXCEPT !.daemon = TRUE]
        IN  up \in MachineState /\ SameFiles(up, u) /\ Logged(u, up, who)
    <3>1. [opened EXCEPT !.daemon = TRUE] \in MachineState
      BY <2>3, MachineTyped
    <3>2. LET up == [opened EXCEPT !.daemon = TRUE]
          IN  SameFiles(up, u) /\ Logged(u, up, who)
      BY <2>3 DEF SameFiles, Logged, MachineState
    <3> QED
      BY <3>1, <3>2
  <2>5. SameFiles(u, u) /\ Logged(u, u, who)
    BY DEF SameFiles, Logged
  <2> QED
    BY <2>1, <2>3, <2>4, <2>5
<1>2. /\ Started(s) \in MachineState /\ SameFiles(Started(s), s)
      /\ Started(s).log = s.log
  <2>1. Started(s) \in MachineState
    BY MachineTyped DEF Started
  <2>2. SameFiles(Started(s), s) /\ Started(s).log = s.log
    BY DEF Started, SameFiles, MachineState
  <2> QED
    BY <2>1, <2>2
<1>3. \A t \in WithDaemon(Started(s), img, who) :
         t \in MachineState /\ SameFiles(t, s) /\ Logged(s, t, who)
  BY <1>1, <1>2 DEF SameFiles, Logged
<1>4. \A t \in WithDaemon(s, img, who) :
         t \in MachineState /\ SameFiles(t, s) /\ Logged(s, t, who)
  BY <1>1
<1>5. s \in MachineState /\ SameFiles(s, s) /\ Logged(s, s, who)
  BY DEF SameFiles, Logged
<1> QED
  BY <1>3, <1>4, <1>5 DEF AfterStart

\* Running the hook changes no file but the log, which is the hook's user's if
\* it was nobody's.
LEMMA HookTyped ==
    ASSUME NEW s \in MachineState, NEW img \in Image
    PROVE  \A t \in AfterHook(s, img) :
              /\ t \in MachineState /\ SameFiles(t, s)
              /\ OwnLog(s, HookUser(s, img)) => OwnLog(t, HookUser(t, img))
<1>1. HookUser(s, img) \in Account
  BY DEF HookUser, UserOf, Account
<1>2. \A t \in AfterHook(s, img) :
         t \in MachineState /\ SameFiles(t, s) /\ Logged(s, t, HookUser(s, img))
  BY <1>1, ServicesTyped DEF AfterHook
<1> QED
  BY <1>2 DEF SameFiles, Logged, OwnLog, HookUser

-----------------------------------------------------------------------------
(***************************************************************************)
(* What steps of a run do to its state and its container's.                *)
(***************************************************************************)
LEMMA RunSet ==
    ASSUME TypeOK, NEW r \in Run, NEW x \in RunState, run' = [run EXCEPT ![r] = x]
    PROVE  /\ run' \in [Run -> RunState] /\ run'[r] = x
           /\ \A q \in Run : q # r => run'[q] = run[q]
BY DEF TypeOK

\* What changes when a run goes on.
LEMMA GoesOn ==
    ASSUME TypeOK, NEW r \in Run, NEW stage \in Stage, Goes(r, stage)
    PROVE  /\ run' \in [Run -> RunState] /\ run'[r].stage = stage
           /\ run'[r].asRoot = run[r].asRoot /\ run'[r].retried = run[r].retried
           /\ run'[r].hooked = run[r].hooked /\ run'[r].listed = run[r].listed
           /\ run'[r].mixed = run[r].mixed /\ run'[r].account = run[r].account
           /\ \A q \in Run : q # r => run'[q] = run[q]
<1> DEFINE x == [run[r] EXCEPT !.stage = stage]
<1>1. run[r] \in RunState
  BY OnTyped
<1>2. /\ x \in RunState /\ x.stage = stage /\ x.asRoot = run[r].asRoot
      /\ x.retried = run[r].retried /\ x.hooked = run[r].hooked
      /\ x.listed = run[r].listed /\ x.mixed = run[r].mixed
      /\ x.account = run[r].account
  <2> HIDE DEF Stage, DeviceID
  <2> QED
    BY <1>1 DEF RunState
<1>3. run' = [run EXCEPT ![r] = x]
  BY DEF Goes
<1> HIDE DEF x
<1> QED
  BY <1>2, <1>3, RunSet

\* What changes when a run fails.
LEMMA FailsSo ==
    ASSUME TypeOK, NEW r \in Run, Fails(r)
    PROVE  /\ run' \in [Run -> RunState] /\ run'[r] = AfterFailure(r)
           /\ \A q \in Run : q # r => run'[q] = run[q]
BY FailureTyped, RunSet DEF Fails

\* What changes when a run ends.
LEMMA EndsSo ==
    ASSUME TypeOK, NEW r \in Run, NEW how \in Ended, Ends(r, how)
    PROVE  /\ run' \in [Run -> RunState] /\ run'[r] = NotRunning(how)
           /\ \A q \in Run : q # r => run'[q] = run[q]
BY StageTyped, NotRunningTyped, RunSet DEF Ends

\* What changes when a container does.
LEMMA MachineSet ==
    ASSUME TypeOK, NEW m \in Machine, NEW s \in MachineState,
           machine' = [machine EXCEPT ![m] = s]
    PROVE  /\ machine' \in [Machine -> MachineState] /\ machine'[m] = s
           /\ \A o \in Machine : o # m => machine'[o] = machine[o]
BY DEF TypeOK

\* The script goes over to the next.
LEMMA NextTyped ==
    ASSUME NEW x \in RunState, NEW stage \in Stage
    PROVE  /\ NextScript(x, stage) \in RunState
           /\ NextScript(x, stage).stage = stage
           /\ NextScript(x, stage).asRoot = x.retried
           /\ NextScript(x, stage).retried = x.retried
           /\ NextScript(x, stage).hooked = x.hooked
           /\ NextScript(x, stage).listed = x.listed
           /\ NextScript(x, stage).mixed = x.mixed
           /\ NextScript(x, stage).account = x.account
<1> HIDE DEF Stage, DeviceID
<1> QED
  BY DEF NextScript, RunState

\* What changes when install.sh ends.
LEMMA StartupSo ==
    ASSUME TypeOK, NEW r \in Run, ConfigureStartup(r)
    PROVE  /\ run'[r].stage = "truncate" /\ run'[r].listed = run[r].listed
           /\ run'[r].asRoot = run'[r].retried
           /\ \A q \in Run : q # r => run'[q] = run[q]
<1> DEFINE x == NextScript(run[r], "truncate")
<1>1. "truncate" \in Stage /\ run[r] \in RunState /\ run \in [Run -> RunState]
  BY OnTyped DEF TypeOK, Stage, InContainer, ConfigureStage
<1>2. /\ x \in RunState /\ x.stage = "truncate" /\ x.listed = run[r].listed
      /\ x.asRoot = x.retried
  BY <1>1, NextTyped
<1>3. PICK hook : \E mixed \in BOOLEAN : run' = [run EXCEPT ![r] =
         [NextScript(@, "truncate") EXCEPT !.hooked = (hook = Hook(r)),
                                           !.mixed = mixed]]
  BY DEF ConfigureStartup
<1>4. PICK mixed \in BOOLEAN : run' =
         [run EXCEPT ![r] = [x EXCEPT !.hooked = (hook = Hook(r)), !.mixed = mixed]]
  BY <1>1, <1>3
<1> HIDE DEF x
<1> DEFINE y == [x EXCEPT !.hooked = (hook = Hook(r)), !.mixed = mixed]
<1>5. y.stage = x.stage /\ y.listed = x.listed /\ y.asRoot = x.asRoot /\ y.retried = x.retried
  BY <1>2 DEF RunState
<1>6. run'[r] = y /\ \A q \in Run : q # r => run'[q] = run[q]
  BY <1>1, <1>4
<1> HIDE DEF y
<1> QED
  BY <1>2, <1>5, <1>6

-----------------------------------------------------------------------------
\* Types hold at the start.
LEMMA TypeInit == Init => TypeOK
<1> SUFFICES ASSUME Init PROVE TypeOK
  OBVIOUS
<1>1. Fresh \in MachineState
  BY DEF Fresh, MachineState, Account
<1>2. NotRunning("waiting") \in RunState
  BY NotRunningTyped DEF Stage
<1>3. 1 \in DeviceID /\ 2 \in DeviceID /\ 1 \in 0..MaxDevice /\ 2 \in 0..MaxDevice
  BY DEF DeviceID
<1>4. [Fresh EXCEPT !.packages = TRUE, !.daemon = TRUE, !.node = 1] \in MachineState
  BY <1>1, <1>3 DEF MachineState
<1>5. machine \in [Machine -> MachineState]
  BY <1>1, <1>4 DEF Init
<1>6. tailnet \subseteq [id : DeviceID, host : Host] /\ joined \in 0..MaxDevice
  BY <1>3 DEF Init
<1>7. 0 \in 0..MaxRestarts
  OBVIOUS
<1> QED
  BY <1>2, <1>5, <1>6, <1>7 DEF Init, TypeOK

\* A step of a run.
LEMMA TypeInject ==
    ASSUME TypeOK, NEW r \in Run, Inject(r)
    PROVE  TypeOK'
<1>0. /\ On(r) \in Machine /\ machine[On(r)] \in MachineState
      /\ args[r].host \in Host /\ run[r] \in RunState
      /\ image[On(r)] \in Image
      /\ By(r) \in Account /\ Target(r) \in Account
  BY OnTyped
<1> DEFINE s == machine[On(r)]
<1> SUFFICES /\ run' \in [Run -> RunState] /\ machine' \in [Machine -> MachineState]
             /\ tailnet' \subseteq [id : DeviceID, host : Host]
             /\ joined' \in 0..MaxDevice /\ contested' \in SUBSET Run
             /\ UNCHANGED <<args, image, restarts>>
  BY DEF TypeOK
<1>1. /\ tailnet \subseteq [id : DeviceID, host : Host] /\ joined \in 0..MaxDevice
      /\ contested \in SUBSET Run /\ run \in [Run -> RunState]
      /\ machine \in [Machine -> MachineState]
  BY DEF TypeOK
<1>2. "done" \in Ended /\ "failed" \in Ended /\
      {"copy", "packages", "script", "startup", "truncate", "append", "list", "delete",
       "daemon", "up", "start"} \subseteq Stage
  BY DEF Stage, InContainer, InstallStage, ConfigureStage, Ended
<1>3. ASSUME NEW t \in MachineState, machine' = [machine EXCEPT ![On(r)] = t]
      PROVE  machine' \in [Machine -> MachineState]
  BY <1>0, <1>3, MachineSet
<1>4. CASE Begin(r)
  <2>1. machine' \in [Machine -> MachineState]
    <3>1. [s EXCEPT !.tools = FALSE] \in MachineState
      BY <1>0, MachineTyped
    <3>2. machine' = machine \/ machine' = [machine EXCEPT ![On(r)] = [s EXCEPT !.tools = FALSE]]
      BY <1>4 DEF Begin
    <3> QED
      BY <1>1, <1>3, <3>1, <3>2
  <2>2. run' \in [Run -> RunState]
    BY <1>2, <1>4, GoesOn, EndsSo DEF Begin
  <2> QED
    BY <1>1, <1>4, <2>1, <2>2 DEF Begin
<1>5. CASE CopyTools(r)
  <2>1. machine' \in [Machine -> MachineState]
    <3>1. [s EXCEPT !.tools = TRUE] \in MachineState
      BY <1>0, MachineTyped
    <3>2. machine' = machine \/ machine' = [machine EXCEPT ![On(r)] = [s EXCEPT !.tools = TRUE]]
      BY <1>5 DEF CopyTools
    <3> QED
      BY <1>1, <1>3, <3>1, <3>2
  <2>2. run' \in [Run -> RunState]
    BY <1>2, <1>5, GoesOn, EndsSo DEF CopyTools
  <2> QED
    BY <1>1, <1>5, <2>1, <2>2 DEF CopyTools
<1>6. CASE CommandFails(r)
  BY <1>1, <1>6, FailsSo DEF CommandFails
<1>7. CASE InstallPackages(r)
  <2>1. machine' = [machine EXCEPT ![On(r)] = [s EXCEPT !.packages = TRUE]]
    BY <1>7 DEF InstallPackages
  <2>2. [s EXCEPT !.packages = TRUE] \in MachineState
    BY <1>0, MachineTyped
  <2> QED
    BY <1>1, <1>2, <1>3, <1>7, <2>1, <2>2, GoesOn DEF InstallPackages
<1>8. CASE InstallScript(r)
  <2>1. machine' = [machine EXCEPT ![On(r)] =
                       [s EXCEPT !.script = TRUE, !.helper = s.helper \/ run[r].retried]]
    BY <1>0, <1>1, <1>8 DEF InstallScript
  <2>2. (s.helper \/ run[r].retried) \in BOOLEAN
    BY <1>0 DEF MachineState, RunState
  <2>3. [s EXCEPT !.script = TRUE, !.helper = s.helper \/ run[r].retried] \in MachineState
    BY <1>0, <2>2, MachineTyped
  <2> QED
    BY <1>1, <1>2, <1>3, <1>8, <2>1, <2>3, GoesOn DEF InstallScript
<1>9. CASE ConfigureStartup(r)
  <2>1. PICK hook \in {Hook(r), s.hook, "broken"} :
          /\ \E after \in IF image[On(r)].supervisor
                          THEN AfterHook([s EXCEPT !.hook = hook], image[On(r)])
                          ELSE {[s EXCEPT !.hook = hook]} :
                machine' = [machine EXCEPT ![On(r)] = after]
          /\ \E mixed \in BOOLEAN : run' = [run EXCEPT ![r] =
                [NextScript(@, "truncate") EXCEPT !.hooked = (hook = Hook(r)),
                                                  !.mixed = mixed]]
    BY <1>9 DEF ConfigureStartup
  <2>2. hook \in {"none", "broken", "plain", "sudo", "root"}
    BY <1>0 DEF Hook, MachineState
  <2>3. [s EXCEPT !.hook = hook] \in MachineState
    BY <1>0, <2>2, MachineTyped
  <2>4. machine' \in [Machine -> MachineState]
    BY <1>0, <1>3, <2>1, <2>3, HookTyped
  <2> DEFINE x == NextScript(run[r], "truncate")
  <2>5. x \in RunState
    BY <1>0, <1>2, NextTyped
  <2> HIDE DEF x
  <2>6. PICK mixed \in BOOLEAN : run' =
          [run EXCEPT ![r] = [x EXCEPT !.hooked = (hook = Hook(r)), !.mixed = mixed]]
    BY <1>1, <2>1 DEF x
  <2>7. [x EXCEPT !.hooked = (hook = Hook(r)), !.mixed = mixed] \in RunState
    BY <2>5 DEF RunState
  <2> QED
    BY <1>1, <1>9, <2>4, <2>6, <2>7, RunSet DEF ConfigureStartup
<1>10. CASE TruncateKeys(r)
  <2>1. machine' = [machine EXCEPT ![On(r)] = [s EXCEPT !.keys[Target(r)] = {}]]
    BY <1>10 DEF TruncateKeys
  <2>2. [s EXCEPT !.keys[Target(r)] = {}] \in MachineState
    BY <1>0, KeysTyped
  <2> QED
    BY <1>1, <1>2, <1>3, <1>10, <2>1, <2>2, GoesOn DEF TruncateKeys
<1>11. CASE AppendKeys(r)
  <2> DEFINE keys == s.keys[Target(r)] \cup KeysOf(r)
             x    == [run[r] EXCEPT !.stage = "list", !.account = Target(r)]
  <2>1. machine' = [machine EXCEPT ![On(r)] = [s EXCEPT !.keys[Target(r)] = keys]]
    BY <1>0, <1>1, <1>11 DEF AppendKeys, MachineState
  <2>2. keys \in SUBSET Run
    BY <1>0 DEF MachineState, KeysOf
  <2> HIDE DEF keys
  <2>3. [s EXCEPT !.keys[Target(r)] = keys] \in MachineState
    BY <1>0, <2>2, KeysTyped
  <2>4. x \in RunState
    <3> HIDE DEF Stage, DeviceID, Account
    <3> QED
      BY <1>0, <1>2 DEF RunState
  <2>5. run' = [run EXCEPT ![r] = x]
    BY <1>0, <1>1, <1>11 DEF AppendKeys
  <2> HIDE DEF x
  <2> QED
    BY <1>1, <1>3, <1>11, <2>1, <2>3, <2>4, <2>5, RunSet DEF AppendKeys
<1>12. CASE ListDevices(r)
  <2> DEFINE ids == {d.id : d \in Namesakes(args[r].host)}
             x   == [run[r] EXCEPT !.stage = "delete", !.listed = ids]
  <2>1. ids \subseteq DeviceID
    BY <1>1 DEF Namesakes
  <2> HIDE DEF ids
  <2>2. x \in RunState
    BY <1>0, <1>2, <2>1 DEF RunState
  <2>3. run' = [run EXCEPT ![r] = x]
    BY <1>0, <1>1, <1>12 DEF ListDevices, ids
  <2> HIDE DEF x
  <2> QED
    BY <1>1, <1>12, <2>2, <2>3, RunSet DEF ListDevices
<1>13. CASE DeleteDevice(r)
  <2>1. PICK id \in run[r].listed :
          /\ tailnet' = {d \in tailnet : d.id # id}
          /\ Fails(r) \/ run' = [run EXCEPT ![r].listed = @ \ {id}]
    BY <1>13 DEF DeleteDevice
  <2> DEFINE x == [run[r] EXCEPT !.listed = run[r].listed \ {id}]
  <2>2. x \in RunState
    <3> HIDE DEF Stage, DeviceID
    <3> QED
      BY <1>0 DEF RunState
  <2>3. Fails(r) \/ run' = [run EXCEPT ![r] = x]
    BY <1>0, <1>1, <2>1
  <2> HIDE DEF x
  <2> QED
    BY <1>1, <1>13, <2>1, <2>2, <2>3, RunSet, FailsSo DEF DeleteDevice
<1>14. CASE CreateKey(r)
  BY <1>1, <1>2, <1>14, GoesOn DEF CreateKey
<1>15. CASE EnsureDaemon(r)
  <2>1. PICK t \in WithDaemon(s, image[On(r)], By(r)) :
           machine' = [machine EXCEPT ![On(r)] = t]
    BY <1>15 DEF EnsureDaemon
  <2>2. t \in MachineState
    BY <1>0, <2>1, ServicesTyped
  <2> QED
    BY <1>1, <1>2, <1>3, <1>15, <2>1, <2>2, GoesOn DEF EnsureDaemon
<1>16. CASE TailscaleUp(r)
  <2>1. run' \in [Run -> RunState]
    <3>1. Fails(r) \/ run' = [run EXCEPT ![r] = NextScript(run[r], "start")]
      BY <1>0, <1>1, <1>16 DEF TailscaleUp
    <3>2. NextScript(run[r], "start") \in RunState
      BY <1>0, <1>2, NextTyped
    <3> QED
      BY <3>1, <3>2, RunSet, FailsSo
  <2>2. CASE NamesOf(s.node) # {}
    <3>1. s.node \in DeviceID
      BY <1>1, <2>2 DEF NamesOf
    <3>2. tailnet' = {d \in tailnet : d.id # s.node} \cup {[id |-> s.node, host |-> args[r].host]}
          /\ UNCHANGED <<machine, joined>>
      BY <1>16, <2>2 DEF TailscaleUp
    <3>3. tailnet' \subseteq [id : DeviceID, host : Host]
      BY <1>0, <1>1, <3>1, <3>2
    <3> QED
      BY <1>1, <1>16, <2>1, <3>2, <3>3 DEF TailscaleUp
  <2>3. CASE NamesOf(s.node) = {}
    <3>1. /\ joined < MaxDevice /\ joined' = joined + 1
          /\ machine' = [machine EXCEPT ![On(r)].node = joined']
          /\ tailnet' = tailnet \cup {[id |-> joined', host |-> args[r].host]}
      BY <1>16, <2>3 DEF TailscaleUp
    <3>2. joined' \in 0..MaxDevice /\ joined' \in DeviceID
      BY <1>1, <3>1 DEF DeviceID
    <3>3. [s EXCEPT !.node = joined'] \in MachineState
      BY <1>0, <3>2, MachineTyped
    <3>4. machine' = [machine EXCEPT ![On(r)] = [s EXCEPT !.node = joined']]
      BY <3>1
    <3>5. tailnet' \subseteq [id : DeviceID, host : Host]
      BY <1>0, <1>1, <3>1, <3>2
    <3>6. machine' \in [Machine -> MachineState]
      BY <1>3, <3>3, <3>4
    <3> QED
      BY <1>1, <1>16, <2>1, <3>2, <3>5, <3>6 DEF TailscaleUp
  <2> QED
    BY <2>2, <2>3
<1>17. CASE StartServices(r)
  <2>1. PICK t \in AfterStart(s, image[On(r)], By(r)) :
           machine' = [machine EXCEPT ![On(r)] = t]
    BY <1>17 DEF StartServices
  <2>2. t \in MachineState
    BY <1>0, <2>1, ServicesTyped
  <2>3. run' \in [Run -> RunState]
    BY <1>2, <1>17, EndsSo, FailsSo DEF StartServices
  <2> QED
    BY <1>1, <1>3, <1>17, <2>1, <2>2, <2>3 DEF StartServices
<1> QED
  BY <1>4, <1>5, <1>6, <1>7, <1>8, <1>9, <1>10, <1>11, <1>12, <1>13, <1>14, <1>15,
     <1>16, <1>17 DEF Inject

\* A container's files are kept, and its hook's user can still open the log.
StillLogged(m) ==
    /\ SameFiles(machine'[m], machine[m])
    /\ OwnLog(machine[m], HookUser(machine[m], image[m])) =>
          OwnLog(machine'[m], HookUser(machine'[m], image[m]))

\* What a container that goes down or comes up does to the runs and itself.
LEMMA Restarted ==
    ASSUME TypeOK, NEW m \in Machine, Restart(m) \/ Recreate(m)
    PROVE  /\ \A q \in Run : \/ run'[q] = run[q] /\ (On(q) = m => run[q].stage \notin InContainer)
                             \/ /\ run'[q] = AfterFailure(q) /\ On(q) = m
                                /\ run[q].stage \in InContainer
           /\ run' \in [Run -> RunState] /\ restarts' \in 0..MaxRestarts
           /\ machine' \in [Machine -> MachineState]
           /\ \A o \in Machine : o # m => machine'[o] = machine[o]
           /\ Restart(m) => StillLogged(m)
           /\ Recreate(m) => machine'[m] = Fresh
           /\ UNCHANGED <<args, image, tailnet, joined, contested>>
<1>1. GoesDown(m)
  BY DEF Restart, Recreate
<1>2. /\ run' \in [Run -> RunState] /\ restarts' \in 0..MaxRestarts
      /\ \A q \in Run : run'[q] = IF On(q) = m /\ run[q].stage \in InContainer
                                  THEN AfterFailure(q) ELSE run[q]
  BY <1>1, OnTyped, FailureTyped DEF GoesDown, TypeOK
<1> DEFINE s == [machine[m] EXCEPT !.sshd = FALSE, !.daemon = FALSE]
<1>3. machine[m] \in MachineState /\ image[m] \in Image
  BY DEF TypeOK
<1>4. /\ s \in MachineState /\ SameFiles(s, machine[m])
      /\ s.log = machine[m].log
  <2>1. s \in MachineState
    BY <1>3 DEF MachineState
  <2>2. SameFiles(s, machine[m]) /\ s.log = machine[m].log
    BY <1>3 DEF MachineState, SameFiles
  <2> QED
    BY <2>1, <2>2
<1>5. CASE Restart(m)
  <2>1. PICK t \in AfterHook(s, image[m]) : machine' = [machine EXCEPT ![m] = t]
    BY <1>5 DEF Restart
  <2> HIDE DEF s
  <2>2. /\ t \in MachineState /\ SameFiles(t, s)
        /\ OwnLog(s, HookUser(s, image[m])) => OwnLog(t, HookUser(t, image[m]))
    BY <1>3, <1>4, <2>1, HookTyped
  <2>3. /\ SameFiles(t, machine[m])
        /\ OwnLog(machine[m], HookUser(machine[m], image[m])) =>
              OwnLog(t, HookUser(t, image[m]))
    BY <1>4, <2>2 DEF SameFiles, OwnLog, HookUser
  <2>4. /\ machine' \in [Machine -> MachineState] /\ machine'[m] = t
        /\ \A o \in Machine : o # m => machine'[o] = machine[o]
    BY <2>1, <2>2, MachineSet
  <2>5. ~Recreate(m) \/ machine'[m] = Fresh
    BY <1>3 DEF Recreate, TypeOK
  <2> QED
    BY <1>1, <1>2, <2>3, <2>4, <2>5 DEF GoesDown, StillLogged
<1>6. CASE Recreate(m)
  <2>1. Fresh \in MachineState
    BY DEF Fresh, MachineState
  <2>2. machine' = [machine EXCEPT ![m] = Fresh]
    BY <1>6 DEF Recreate
  <2>3. /\ machine' \in [Machine -> MachineState] /\ machine'[m] = Fresh
        /\ \A o \in Machine : o # m => machine'[o] = machine[o]
    BY <2>1, <2>2, MachineSet
  <2> QED
    BY <1>1, <1>2, <1>5, <2>3 DEF GoesDown
<1> QED
  BY <1>5, <1>6

\* Every step keeps the types.
LEMMA TypeStep ==
    ASSUME TypeOK, [Next]_vars
    PROVE  TypeOK'
<1>1. ASSUME NEW m \in Machine, Restart(m) \/ Recreate(m) PROVE TypeOK'
  BY <1>1, Restarted DEF TypeOK
<1>2. CASE UNCHANGED vars
  BY <1>2 DEF vars, TypeOK
<1> QED
  BY <1>1, <1>2, TypeInject DEF Next

-----------------------------------------------------------------------------
(***************************************************************************)
(* Devices and rivals.                                                     *)
(***************************************************************************)
\* NamesOf, for devices that are not, or not yet, the tailnet's.
NamesIn(devices, id) == {d.host : d \in {x \in devices : x.id = id}}

\* Names and rivals, spelled out for the state before and after a step.
LEMMA NamesFound ==
    /\ \A id : NamesOf(id) = NamesIn(tailnet, id)
    /\ \A q, r : Reaches(q, r) <=>
          \/ args[q].host \in NamesIn(tailnet, machine[On(r)].node)
          \/ run[q].stage = "delete" /\ machine[On(r)].node \in run[q].listed
    /\ \A q, r : Reaches(q, r)' <=>
          \/ args'[q].host \in NamesIn(tailnet', machine'[On(r)'].node)
          \/ run'[q].stage = "delete" /\ machine'[On(r)'].node \in run'[q].listed
BY DEF NamesOf, NamesIn, Reaches, On

\* Runs fail into a stage that is over or one where they start again.
LEMMA Failing ==
    ASSUME TypeOK, NEW r \in Run, run[r].stage \in InContainer
    PROVE  LET x == AfterFailure(r)
           IN  /\ \/ x = NotRunning("failed")
                  \/ /\ x.stage = "packages" /\ x.asRoot = x.retried
                  \/ /\ x.stage = "truncate" /\ x.hooked = run[r].hooked
                     /\ x.retried = run[r].retried /\ x.mixed
                     /\ run[r].stage \in ConfigureStage
                  \/ /\ x.stage = "start" /\ run[r].stage = "start"
                     /\ x.hooked = run[r].hooked /\ x.account = run[r].account
                     /\ x.retried = run[r].retried /\ x.mixed
               /\ x.listed \subseteq run[r].listed
<1>1. run[r] \in RunState
  BY OnTyped
<1>2. /\ NotRunning("failed").listed = {}
  BY DEF NotRunning
<1>3. run[r].stage \in InstallStage \/ run[r].stage \in ConfigureStage \/ run[r].stage = "start"
  BY DEF InContainer
<1> HIDE DEF Stage, DeviceID
<1> QED
  BY <1>1, <1>2, <1>3 DEF AfterFailure, RunState

\* Only a run that lists devices or goes on to delete them has some to delete;
\* whatever else a step does, no run comes nearer to another.
LEMMA AloneKept ==
    ASSUME TypeOK, Alone, contested \subseteq contested', args' = args,
           \A q \in Run : Active(q)' => Active(q),
           \A q \in Run : run'[q].stage = "delete" =>
              run[q].stage = "delete" /\ run'[q].listed \subseteq run[q].listed,
           \A m \in Machine : machine'[m].node = machine[m].node \/ machine'[m].node = 0,
           tailnet' \subseteq tailnet, TypeOK'
    PROVE  Alone'
<1>1. \A q \in Run : On(q)' = On(q) /\ On(q) \in Machine
  BY OnTyped DEF On
<1>2. \A id : NamesIn(tailnet', id) \subseteq NamesIn(tailnet, id)
  BY DEF NamesIn
<1>3. NamesIn(tailnet', 0) = {} /\ \A q \in Run : 0 \notin run'[q].listed
  BY DEF NamesIn, TypeOK, DeviceID, RunState
<1>4. ASSUME NEW q \in Run, NEW r \in Run, Reaches(q, r)' PROVE Reaches(q, r)
  <2>1. machine'[On(r)].node = machine[On(r)].node \/ machine'[On(r)].node = 0
    BY <1>1
  <2>2. \/ args[q].host \in NamesIn(tailnet', machine'[On(r)].node)
        \/ run'[q].stage = "delete" /\ machine'[On(r)].node \in run'[q].listed
    BY <1>1, <1>4, NamesFound
  <2>3. machine'[On(r)].node = machine[On(r)].node
    BY <1>3, <2>1, <2>2
  <2> QED
    BY <1>2, <2>2, <2>3, NamesFound
<1>5. \A q, r \in Run : Rivals(q, r)' => Rivals(q, r)
  BY <1>1, <1>4 DEF Rivals
<1> QED
  BY <1>5 DEF Alone

\* A run that begins removes the tools of runs before, and no device.
LEMMA DeviceKept ==
    ASSUME TypeOK, NEW r \in Run, Begin(r)
    PROVE  \A m \in Machine : machine'[m].node = machine[m].node
<1> DEFINE s == machine[On(r)]
           t == [s EXCEPT !.tools = FALSE]
<1>1. machine' = machine \/ machine' = [machine EXCEPT ![On(r)] = t]
  BY DEF Begin
<1>2. s \in MachineState
  BY OnTyped
<1>3. t.node = s.node
  BY <1>2 DEF MachineState
<1> HIDE DEF t
<1> QED
  BY <1>1, <1>3 DEF TypeOK

\* A run that begins marks its rivals and is marked by them.
LEMMA AloneBegin ==
    ASSUME IInv, TypeOK', NEW r \in Run, Begin(r)
    PROVE  Alone'
<1> DEFINE rivals == {q \in Run : Active(q) /\ Rivals(q, r)}
<1>1. /\ contested' = contested \cup rivals \cup {x \in {r} : rivals # {}}
      /\ UNCHANGED <<args, tailnet>> /\ run[r].stage = "waiting"
  BY DEF Begin
<1>2. /\ run'[r].stage = "copy" \/ run'[r].stage = "failed"
      /\ \A q \in Run : q # r => run'[q] = run[q]
  <2>1. "copy" \in Stage /\ "failed" \in Ended
    BY DEF Stage, Ended
  <2>2. NotRunning("failed").stage = "failed"
    BY DEF NotRunning
  <2>3. Goes(r, "copy") \/ Ends(r, "failed")
    BY DEF Begin
  <2> QED
    BY <2>1, <2>2, <2>3, GoesOn, EndsSo DEF IInv
<1>3. \A m \in Machine : machine'[m].node = machine[m].node
  BY DeviceKept DEF IInv
<1>4. \A q \in Run : On(q)' = On(q) /\ On(q) \in Machine
  BY <1>1, OnTyped DEF IInv, On
<1>5. \A id : NamesOf(id)' = NamesOf(id)
  BY <1>1 DEF NamesOf
<1>6. ASSUME NEW q \in Run, NEW o \in Run, Reaches(q, o)' PROVE Reaches(q, o)
  BY <1>1, <1>2, <1>3, <1>4, <1>5, <1>6 DEF Reaches
<1>7. \A q, o \in Run : Rivals(q, o)' => Rivals(q, o)
  BY <1>1, <1>4, <1>6 DEF Rivals
<1>8. \A q \in Run : q # r /\ Active(q)' => Active(q)
  BY <1>2 DEF Active
<1>9. \A q \in Run : Rivals(q, r) <=> Rivals(r, q)
  BY DEF Rivals
<1>10. ASSUME NEW o \in Run \ contested', NEW q \in Run, Active(o)', Active(q)', q # o
       PROVE  ~Rivals(q, o)
  <2>1. CASE o = r
    BY <1>1, <1>8, <1>10, <2>1
  <2>2. CASE q = r
    BY <1>1, <1>8, <1>9, <1>10, <2>2
  <2>3. CASE o # r /\ q # r
    BY <1>1, <1>8, <1>10, <2>3 DEF IInv, Alone
  <2> QED
    BY <2>1, <2>2, <2>3
<1> QED
  BY <1>7, <1>10 DEF Alone

\* The devices a run lists bear the name it is after: it reaches nobody new.
LEMMA AloneList ==
    ASSUME IInv, TypeOK', NEW r \in Run, ListDevices(r)
    PROVE  Alone'
<1>1. /\ UNCHANGED <<args, machine, tailnet, contested>> /\ run[r].stage = "list"
      /\ run' = [run EXCEPT ![r].stage = "delete",
                    ![r].listed = {d.id : d \in Namesakes(args[r].host)}]
  BY DEF ListDevices, At
<1>2. /\ run'[r].stage = "delete"
      /\ run'[r].listed = {d.id : d \in Namesakes(args[r].host)}
      /\ \A q \in Run : q # r => run'[q] = run[q]
  BY <1>1 DEF IInv, TypeOK, RunState
<1>3. Active(r) /\ \A q \in Run : Active(q)' => Active(q)
  BY <1>1, <1>2 DEF Active, Ended
<1>4. ASSUME NEW q \in Run, NEW o \in Run, Reaches(q, o)' PROVE Reaches(q, o)
  <2>1. CASE q = r
    <3>1. \/ args[r].host \in NamesOf(machine[On(o)].node)
          \/ machine[On(o)].node \in {d.id : d \in Namesakes(args[r].host)}
      BY <1>1, <1>2, <1>4, <2>1 DEF Reaches, NamesOf, On
    <3>2. args[r].host \in NamesOf(machine[On(o)].node)
      BY <3>1 DEF Namesakes, NamesOf
    <3> QED
      BY <2>1, <3>2 DEF Reaches
  <2>2. CASE q # r
    BY <1>1, <1>2, <1>4, <2>2 DEF Reaches, NamesOf, On
  <2> QED
    BY <2>1, <2>2
<1>5. \A q, o \in Run : Rivals(q, o)' => Rivals(q, o)
  BY <1>1, <1>4 DEF Rivals, On
<1> QED
  BY <1>1, <1>3, <1>5 DEF IInv, Alone

\* What tailscale up makes of the tailnet: the container has one device, a
\* device of it before or a new one, and that has the name now.
LEMMA UpDevices ==
    ASSUME IInv, NEW r \in Run, TailscaleUp(r)
    PROVE  LET node == machine'[On(r)].node
               up   == [id |-> node, host |-> args[r].host]
           IN  /\ node \in DeviceID /\ joined' \in Nat /\ node <= joined'
               /\ joined <= joined'
               /\ \/ node = machine[On(r)].node /\ joined' = joined
                  \/ node = joined + 1
               /\ tailnet' = {d \in tailnet : d.id # node} \cup {up}
               /\ \A d \in tailnet \ tailnet' :
                     d.id = machine[On(r)].node /\ machine[On(r)].node # 0
               /\ NamesIn(tailnet', node) = {args[r].host}
               /\ \A id : id # node => NamesIn(tailnet', id) = NamesOf(id)
               /\ \A m \in Machine : m # On(r) => machine'[m] = machine[m]
               /\ \A m \in Machine :
                     /\ machine'[m].packages = machine[m].packages
                     /\ machine'[m].tools = machine[m].tools
                     /\ machine'[m].script = machine[m].script
                     /\ machine'[m].helper = machine[m].helper
                     /\ machine'[m].hook = machine[m].hook
                     /\ machine'[m].keys = machine[m].keys
                     /\ machine'[m].log = machine[m].log
<1>0. /\ On(r) \in Machine /\ machine[On(r)] \in MachineState
      /\ tailnet \subseteq [id : DeviceID, host : Host] /\ joined \in 0..MaxDevice
      /\ machine \in [Machine -> MachineState]
      /\ \A d \in tailnet : d.id <= joined
      /\ machine[On(r)].node <= joined
  BY OnTyped DEF IInv, TypeOK, Devices
<1> DEFINE old == machine[On(r)].node
           node == machine'[On(r)].node
           up   == [id |-> node, host |-> args[r].host]
<1>3. tailnet' = {d \in tailnet : d.id # node} \cup {up} =>
         /\ NamesIn(tailnet', node) = {args[r].host}
         /\ \A id : id # node => NamesIn(tailnet', id) = NamesOf(id)
  <2> HIDE DEF node
  <2> SUFFICES ASSUME tailnet' = {d \in tailnet : d.id # node} \cup {up}
               PROVE  /\ NamesIn(tailnet', node) = {args[r].host}
                      /\ \A id : id # node => NamesIn(tailnet', id) = NamesOf(id)
    OBVIOUS
  <2>1. /\ up \in tailnet' /\ up.id = node /\ up.host = args[r].host
        /\ \A d \in tailnet' : d = up \/ (d \in tailnet /\ d.id # node)
        /\ \A d \in tailnet : d.id # node => d \in tailnet'
    OBVIOUS
  <2> HIDE DEF up
  <2>2. {x \in tailnet' : x.id = node} = {up}
    BY <2>1
  <2>3. \A id : id # node => {x \in tailnet' : x.id = id} = {x \in tailnet : x.id = id}
    BY <2>1
  <2> QED
    BY <2>1, <2>2, <2>3 DEF NamesIn, NamesOf
<1>1. CASE NamesOf(old) # {}
  <2>1. UNCHANGED <<machine, joined>> /\ node = old
        /\ tailnet' = {d \in tailnet : d.id # node} \cup {up}
    BY <1>1 DEF TailscaleUp
  <2>2. node \in DeviceID /\ node # 0
    BY <1>0, <1>1, <2>1 DEF NamesOf, DeviceID
  <2>3. \A d \in tailnet \ tailnet' : d.id = old
    BY <2>1
  <2>4. /\ NamesIn(tailnet', node) = {args[r].host}
        /\ \A id : id # node => NamesIn(tailnet', id) = NamesOf(id)
    BY <1>3, <2>1
  <2> QED
    BY <1>0, <2>1, <2>2, <2>3, <2>4
<1>2. CASE NamesOf(old) = {}
  <2>1. /\ joined < MaxDevice /\ joined' = joined + 1
        /\ machine' = [machine EXCEPT ![On(r)] = [machine[On(r)] EXCEPT !.node = joined']]
        /\ tailnet' = tailnet \cup {[id |-> joined', host |-> args[r].host]}
    BY <1>2 DEF TailscaleUp
  <2>2. /\ node = joined + 1 /\ node \in DeviceID
        /\ \A m \in Machine : m # On(r) => machine'[m] = machine[m]
    BY <1>0, <2>1 DEF MachineState, DeviceID
  <2>3. \A m \in Machine :
           /\ machine'[m].packages = machine[m].packages
           /\ machine'[m].tools = machine[m].tools
           /\ machine'[m].script = machine[m].script
           /\ machine'[m].helper = machine[m].helper
           /\ machine'[m].hook = machine[m].hook
           /\ machine'[m].keys = machine[m].keys
           /\ machine'[m].log = machine[m].log
    BY <1>0, <2>1 DEF MachineState
  <2>4. \A d \in tailnet : d.id # node
    BY <1>0, <2>2 DEF DeviceID
  <2>5. tailnet' = {d \in tailnet : d.id # node} \cup {up} /\ tailnet \subseteq tailnet'
    BY <2>1, <2>2, <2>4
  <2>6. /\ NamesIn(tailnet', node) = {args[r].host}
        /\ \A id : id # node => NamesIn(tailnet', id) = NamesOf(id)
    BY <1>3, <2>5
  <2>7. joined' \in Nat /\ joined <= joined' /\ node <= joined'
    BY <1>0, <2>1, <2>2
  <2> QED
    BY <2>2, <2>3, <2>5, <2>6, <2>7
<1> QED
  BY <1>1, <1>2

\* Most steps of a run leave the devices of containers alone, and give nobody
\* more to delete.
LEMMA QuietStep ==
    ASSUME TypeOK, NEW r \in Run, Inject(r),
           ~Begin(r), ~ListDevices(r), ~TailscaleUp(r)
    PROVE  /\ Active(r) /\ UNCHANGED <<args, joined, contested>>
           /\ tailnet' \subseteq tailnet
           /\ \A q \in Run : q # r => run'[q] = run[q]
           /\ run'[r].stage = "delete" => run[r].stage = "delete"
           /\ run'[r].listed \subseteq run[r].listed
           /\ \A m \in Machine : machine'[m].node = machine[m].node
<1>0. "packages" \in Stage /\ "script" \in Stage /\ "startup" \in Stage
      /\ "truncate" \in Stage /\ "append" \in Stage /\ "list" \in Stage
      /\ "delete" \in Stage /\ "daemon" \in Stage /\ "up" \in Stage
      /\ "start" \in Stage /\ "done" \in Ended /\ "failed" \in Ended
  BY DEF Stage, InContainer, InstallStage, ConfigureStage, Ended
<1>1. /\ Active(r) /\ UNCHANGED <<args, joined, contested>>
      /\ tailnet' \subseteq tailnet
      /\ \A q \in Run : q # r => run'[q] = run[q]
      /\ run'[r].stage = "delete" => run[r].stage = "delete"
      /\ run'[r].listed \subseteq run[r].listed
  <2>1. CASE CopyTools(r)
    BY <1>0, <2>1, GoesOn, EndsSo DEF CopyTools, NotRunning, Active, Ended
  <2>2. CASE CommandFails(r)
    <3>1. run[r].stage \in InContainer
      BY <2>2 DEF CommandFails
    <3>2. AfterFailure(r).stage # "delete" /\ AfterFailure(r).listed \subseteq run[r].listed
      BY <3>1, Failing DEF NotRunning
    <3>3. Active(r)
      BY <3>1 DEF Active, Ended, InContainer, InstallStage, ConfigureStage
    <3> QED
      BY <2>2, <3>2, <3>3, FailsSo DEF CommandFails
  <2>3. CASE InstallPackages(r)
    BY <1>0, <2>3, GoesOn DEF InstallPackages, At, Active, Ended
  <2>4. CASE InstallScript(r)
    BY <1>0, <2>4, GoesOn DEF InstallScript, At, Active, Ended
  <2>5. CASE ConfigureStartup(r)
    BY <2>5, StartupSo DEF ConfigureStartup, At, Active, Ended
  <2>6. CASE TruncateKeys(r)
    BY <1>0, <2>6, GoesOn DEF TruncateKeys, At, Active, Ended
  <2>7. CASE AppendKeys(r)
    <3>1. run[r] \in RunState /\ run \in [Run -> RunState]
      BY OnTyped DEF TypeOK
    <3>2. /\ run'[r].stage = "list" /\ run'[r].listed = run[r].listed
          /\ \A q \in Run : q # r => run'[q] = run[q]
      BY <2>7, <3>1 DEF AppendKeys, RunState
    <3> QED
      BY <2>7, <3>2 DEF AppendKeys, At, Active, Ended
  <2>8. CASE DeleteDevice(r)
    <3>1. PICK id \in run[r].listed :
            /\ tailnet' = {d \in tailnet : d.id # id}
            /\ Fails(r) \/ run' = [run EXCEPT ![r].listed = @ \ {id}]
      BY <2>8 DEF DeleteDevice
    <3>2. CASE Fails(r)
      <4>1. AfterFailure(r).listed \subseteq run[r].listed
        BY <2>8, Failing DEF DeleteDevice, At, InContainer, ConfigureStage
      <4> QED
        BY <2>8, <3>1, <3>2, <4>1, FailsSo DEF DeleteDevice, At, Active, Ended
    <3>3. CASE run' = [run EXCEPT ![r].listed = @ \ {id}]
      <4>1. run'[r].listed \subseteq run[r].listed
            /\ \A q \in Run : q # r => run'[q] = run[q]
        BY <3>3 DEF TypeOK, RunState
      <4> QED
        BY <2>8, <3>1, <4>1 DEF DeleteDevice, At, Active, Ended
    <3> QED
      BY <3>1, <3>2, <3>3
  <2>9. CASE CreateKey(r)
    BY <1>0, <2>9, GoesOn DEF CreateKey, At, Active, Ended
  <2>10. CASE EnsureDaemon(r)
    BY <1>0, <2>10, GoesOn DEF EnsureDaemon, At, Active, Ended
  <2>11. CASE StartServices(r)
    <3>1. AfterFailure(r).stage # "delete" /\ AfterFailure(r).listed \subseteq run[r].listed
      BY <2>11, Failing DEF StartServices, At, InContainer, NotRunning, ConfigureStage
    <3>2. NotRunning("done").stage # "delete" /\ NotRunning("done").listed = {}
      BY DEF NotRunning
    <3>3. Fails(r) \/ Ends(r, "done")
      BY <2>11 DEF StartServices
    <3> QED
      BY <1>0, <2>11, <3>1, <3>2, <3>3, FailsSo, EndsSo
         DEF StartServices, At, Active, Ended
  <2> QED
    BY <2>1, <2>2, <2>3, <2>4, <2>5, <2>6, <2>7, <2>8, <2>9, <2>10, <2>11
       DEF Inject
<1>2. \A m \in Machine : machine'[m].node = machine[m].node
  <2>1. machine \in [Machine -> MachineState]
    BY DEF TypeOK
  <2>2. CASE UNCHANGED machine
    BY <2>2
  <2>3. CASE CopyTools(r)
    BY <2>1, <2>2, <2>3 DEF CopyTools, MachineState
  <2>4. CASE InstallPackages(r)
    BY <2>1, <2>4 DEF InstallPackages, MachineState
  <2>5. CASE InstallScript(r)
    BY <2>1, <2>5 DEF InstallScript, MachineState
  <2>6. CASE ConfigureStartup(r)
    <3>1. PICK hook \in {Hook(r), machine[On(r)].hook, "broken"} :
            \E t \in AfterHook([machine[On(r)] EXCEPT !.hook = hook], image[On(r)])
                     \cup {[machine[On(r)] EXCEPT !.hook = hook]} :
               machine' = [machine EXCEPT ![On(r)] = t]
      BY <2>6 DEF ConfigureStartup
    <3> DEFINE s == [machine[On(r)] EXCEPT !.hook = hook]
    <3>2. hook \in {"none", "broken", "plain", "sudo", "root"}
      BY <2>1, OnTyped DEF Hook, MachineState
    <3>3. s \in MachineState /\ s.node = machine[On(r)].node
      <4>1. s \in MachineState
        BY <3>2, OnTyped, MachineTyped
      <4>2. s.node = machine[On(r)].node
        BY OnTyped DEF MachineState
      <4> QED
        BY <4>1, <4>2
    <3> HIDE DEF s
    <3>4. PICK t \in AfterHook(s, image[On(r)]) \cup {s} :
            machine' = [machine EXCEPT ![On(r)] = t]
      BY <3>1 DEF s
    <3>5. t \in MachineState /\ t.node = machine[On(r)].node
      BY <3>3, <3>4, OnTyped, HookTyped DEF SameFiles
    <3> QED
      BY <2>1, <3>4, <3>5
  <2>7. CASE TruncateKeys(r) \/ AppendKeys(r)
    <3>1. PICK keys : machine' = [machine EXCEPT ![On(r)].keys = keys]
      BY <2>7 DEF TruncateKeys, AppendKeys
    <3> QED
      BY <2>1, <3>1 DEF MachineState
  <2>9. CASE EnsureDaemon(r)
    BY <2>1, <2>9, OnTyped, ServicesTyped DEF EnsureDaemon, SameFiles
  <2>10. CASE StartServices(r)
    BY <2>1, <2>10, OnTyped, ServicesTyped DEF StartServices, SameFiles
  <2> QED
    BY <2>2, <2>3, <2>4, <2>5, <2>6, <2>7, <2>9, <2>10
       DEF Inject, CommandFails, DeleteDevice, CreateKey
<1> QED
  BY <1>1, <1>2


\* A device that joins under a name marks whoever is after that name.
LEMMA AloneUp ==
    ASSUME IInv, TypeOK', NEW r \in Run, TailscaleUp(r)
    PROVE  Alone'
<1> DEFINE old  == machine[On(r)].node
           node == machine'[On(r)].node
<1>1. /\ UNCHANGED <<args, contested>> /\ run[r].stage = "up"
      /\ node = old \/ node = joined + 1
      /\ NamesIn(tailnet', node) = {args[r].host}
      /\ \A id : id # node => NamesIn(tailnet', id) = NamesOf(id)
      /\ \A m \in Machine : m # On(r) => machine'[m] = machine[m]
      /\ node \in DeviceID
  BY UpDevices DEF TailscaleUp, At
<1>2. \A q \in Run : q # r => run'[q] = run[q]
  BY FailsSo DEF TailscaleUp, IInv, TypeOK
<1>3. Active(r) /\ run'[r].stage # "delete"
  <2>1. AfterFailure(r).stage # "delete"
    BY <1>1, Failing DEF IInv, InContainer, ConfigureStage, NotRunning
  <2>2. NextScript(run[r], "start").stage = "start"
    BY OnTyped, NextTyped DEF IInv, Stage, InContainer
  <2>3. run'[r] = AfterFailure(r) \/ run'[r] = NextScript(run[r], "start")
    BY FailsSo DEF TailscaleUp, IInv, TypeOK
  <2> QED
    BY <1>1, <2>1, <2>2, <2>3 DEF Active, Ended
<1>4. \A q \in Run : On(q)' = On(q) /\ On(q) \in Machine
  BY <1>1, OnTyped DEF IInv, On
<1>5. \A q \in Run : joined + 1 \notin run[q].listed
  BY DEF IInv, TypeOK, Devices
\* The device of the run's container, as a run that is no rival sees it.
<1>6. ASSUME NEW q \in Run, q # r, ~Rivals(q, r)
      PROVE  /\ args[q].host \notin NamesIn(tailnet', node)
             /\ run'[q].stage = "delete" => node \notin run'[q].listed
  <2>1. args[q].host # args[r].host /\ ~Reaches(q, r)
    BY <1>6 DEF Rivals
  <2>2. run[q].stage = "delete" => old \notin run[q].listed
    BY <2>1, NamesFound
  <2> QED
    BY <1>1, <1>2, <1>5, <1>6, <2>1, <2>2
\* The devices of the other containers.
<1>7. ASSUME NEW o \in Run, On(o) # On(r)
      PROVE  /\ machine'[On(o)].node = machine[On(o)].node
             /\ machine[On(o)].node # 0 => machine[On(o)].node # node
  <2>1. machine[On(o)].node # 0 => machine[On(o)].node # old
    BY <1>4, <1>7 DEF IInv, Devices
  <2>2. machine[On(o)].node <= joined
    BY <1>4 DEF IInv, Devices
  <2>3. machine[On(o)].node # joined + 1
    BY <1>4, <2>2 DEF IInv, TypeOK, MachineState
  <2> QED
    BY <1>1, <1>4, <1>7, <2>1, <2>3
<1>8. ASSUME NEW q \in Run, NEW o \in Run, On(o) # On(r), Reaches(q, o)'
      PROVE  Reaches(q, o)
  <2>1. \/ args[q].host \in NamesIn(tailnet', machine[On(o)].node)
        \/ run'[q].stage = "delete" /\ machine[On(o)].node \in run'[q].listed
    BY <1>1, <1>4, <1>7, <1>8, NamesFound
  <2>2. machine[On(o)].node # 0
    <3>1. NamesIn(tailnet', 0) = {} /\ 0 \notin run'[q].listed
      BY DEF NamesIn, TypeOK, DeviceID, RunState
    <3> QED
      BY <2>1, <3>1
  <2>3. NamesIn(tailnet', machine[On(o)].node) = NamesOf(machine[On(o)].node)
    BY <1>1, <1>7, <1>8, <2>2
  <2>4. run'[q].stage = "delete" => run[q].stage = "delete" /\ run'[q].listed = run[q].listed
    BY <1>2, <1>3
  <2> QED
    BY <2>1, <2>3, <2>4 DEF Reaches
<1>9. ASSUME NEW o \in Run \ contested', NEW q \in Run, Active(o)', Active(q)', q # o
      PROVE  ~Rivals(q, o)'
  <2>1. Active(o) /\ Active(q) /\ ~Rivals(q, o)
    BY <1>1, <1>2, <1>3, <1>9 DEF IInv, Alone, Active
  <2>2. On(q) # On(o) /\ args[q].host # args[o].host
    BY <2>1 DEF Rivals
  <2>3. ~Reaches(q, o)'
    <3>1. CASE o = r
      BY <1>1, <1>4, <1>6, <1>9, <2>1, <3>1, NamesFound
    <3>2. CASE o # r
      <4>1. ~Rivals(r, o)
        BY <1>1, <1>3, <1>9, <2>1, <3>2 DEF IInv, Alone
      <4>2. On(o) # On(r)
        BY <4>1 DEF Rivals
      <4> QED
        BY <1>8, <2>1, <4>2 DEF Rivals
    <3> QED
      BY <3>1, <3>2
  <2>4. ~Reaches(o, q)'
    <3>1. CASE On(q) = On(r)
      <4>1. o # r
        BY <2>2, <3>1
      <4>2. ~Rivals(r, o)
        BY <1>1, <1>3, <1>9, <2>1, <4>1 DEF IInv, Alone
      <4>3. ~Rivals(o, r)
        BY <4>2 DEF Rivals
      <4>4. /\ args[o].host \notin NamesIn(tailnet', node)
            /\ run'[o].stage = "delete" => node \notin run'[o].listed
        BY <1>6, <4>1, <4>3
      <4> QED
        BY <1>1, <1>4, <3>1, <4>4, NamesFound
    <3>2. CASE On(q) # On(r)
      BY <1>8, <2>1, <3>2 DEF Rivals
    <3> QED
      BY <3>1, <3>2
  <2> QED
    BY <1>1, <1>4, <2>2, <2>3, <2>4 DEF Rivals
<1> QED
  BY <1>9 DEF Alone

\* Every step keeps uncontested runs alone.
LEMMA AloneStep ==
    ASSUME IInv, TypeOK', Next
    PROVE  Alone'
<1> USE DEF IInv
<1>1. ASSUME NEW r \in Run, Inject(r), ~Begin(r), ~ListDevices(r), ~TailscaleUp(r)
      PROVE  Alone'
  <2>1. \A q \in Run : Active(q)' => Active(q)
    BY <1>1, QuietStep DEF Active
  <2>2. \A q \in Run : run'[q].stage = "delete" =>
           run[q].stage = "delete" /\ run'[q].listed \subseteq run[q].listed
    BY <1>1, QuietStep
  <2> QED
    BY <1>1, <2>1, <2>2, QuietStep, AloneKept
<1>2. ASSUME NEW m \in Machine, Restart(m) \/ Recreate(m) PROVE Alone'
  <2>1. \A q \in Run : run'[q].stage = "delete" => run'[q] = run[q]
    BY <1>2, Restarted, Failing DEF NotRunning
  <2>2. \A q \in Run : Active(q)' => Active(q)
    <3>1. \A q \in Run : run[q].stage \in InContainer => Active(q)
      BY DEF Active, Ended, InContainer, InstallStage, ConfigureStage
    <3> QED
      BY <1>2, <3>1, Restarted DEF Active
  <2>3. \A o \in Machine : machine'[o].node = machine[o].node \/ machine'[o].node = 0
    BY <1>2, Restarted DEF StillLogged, SameFiles, Fresh
  <2>4. UNCHANGED <<args, contested, tailnet>>
    BY <1>2, Restarted
  <2> QED
    BY <2>1, <2>2, <2>3, <2>4, AloneKept
<1> QED
  BY <1>1, <1>2, AloneBegin, AloneList, AloneUp DEF Next

\* A step of a run concerns its own state and its own container.
LEMMA OnlyItsOwn ==
    ASSUME TypeOK, NEW r \in Run, Inject(r)
    PROVE  /\ \A q \in Run : q # r => run'[q] = run[q]
           /\ \A m \in Machine : m # On(r) => machine'[m] = machine[m]
           /\ UNCHANGED <<args, image>> /\ contested \subseteq contested'
<1>1. run \in [Run -> RunState] /\ machine \in [Machine -> MachineState]
  BY DEF TypeOK
<1>2. /\ UNCHANGED <<args, image>> /\ contested \subseteq contested'
      /\ (\E x : run' = [run EXCEPT ![r] = x])
      /\ (\E x : machine' = [machine EXCEPT ![On(r)] = x])
  <2>1. machine = [machine EXCEPT ![On(r)] = machine[On(r)]]
    BY <1>1
  <2>2. CASE Begin(r)
    BY <2>1, <2>2 DEF Begin, Goes, Ends
  <2>3. CASE CopyTools(r)
    BY <2>1, <2>3 DEF CopyTools, Goes, Ends
  <2>4. CASE CommandFails(r)
    BY <2>1, <2>4 DEF CommandFails, Fails
  <2>5. CASE InstallPackages(r)
    BY <2>5 DEF InstallPackages, Goes
  <2>6. CASE InstallScript(r)
    BY <2>6 DEF InstallScript, Goes
  <2>7. CASE ConfigureStartup(r)
    BY <2>7 DEF ConfigureStartup
  <2>8. CASE TruncateKeys(r)
    BY <2>8 DEF TruncateKeys, Goes
  <2>9. CASE AppendKeys(r)
    BY <2>9 DEF AppendKeys
  <2>10. CASE ListDevices(r)
    BY <2>1, <2>10 DEF ListDevices
  <2>11. CASE DeleteDevice(r)
    BY <2>1, <2>11 DEF DeleteDevice, Fails
  <2>12. CASE CreateKey(r)
    BY <2>1, <2>12 DEF CreateKey, Goes
  <2>13. CASE EnsureDaemon(r)
    BY <2>13 DEF EnsureDaemon, Goes
  <2>14. CASE TailscaleUp(r)
    BY <2>1, <2>14 DEF TailscaleUp, Fails
  <2>15. CASE StartServices(r)
    BY <2>15 DEF StartServices, Ends, Fails
  <2> QED
    BY <2>2, <2>3, <2>4, <2>5, <2>6, <2>7, <2>8, <2>9, <2>10, <2>11, <2>12, <2>13,
       <2>14, <2>15 DEF Inject
<1> QED
  BY <1>1, <1>2

\* Every step keeps devices apart.
LEMMA DevicesStep ==
    ASSUME IInv, TypeOK', Next
    PROVE  Devices'
<1> USE DEF IInv
<1>0. joined \in Nat /\ tailnet \subseteq [id : DeviceID, host : Host]
  BY DEF TypeOK
<1>1. ASSUME \/ \E r \in Run : \/ Inject(r) /\ ~Begin(r) /\ ~ListDevices(r) /\ ~TailscaleUp(r)
                               \/ Begin(r)
             \/ \E m \in Machine : Restart(m) \/ Recreate(m)
      PROVE  Devices'
  <2> DEFINE Fewer == /\ joined' = joined /\ tailnet' \subseteq tailnet
                      /\ \A q \in Run : run'[q].listed \subseteq run[q].listed
                      /\ \A m \in Machine : \/ machine'[m].node = machine[m].node
                                            \/ machine'[m].node = 0
  <2>1. ASSUME NEW r \in Run, Inject(r), ~Begin(r), ~ListDevices(r), ~TailscaleUp(r)
        PROVE  Fewer
    BY <2>1, QuietStep
  <2>2. ASSUME NEW r \in Run, Begin(r) PROVE Fewer
    <3>1. "copy" \in Stage /\ "failed" \in Ended
      BY DEF Stage, Ended
    <3>2. NotRunning("failed").listed = {}
      BY DEF NotRunning
    <3>3. \A q \in Run : run'[q].listed \subseteq run[q].listed
      BY <2>2, <3>1, <3>2, GoesOn, EndsSo DEF Begin
    <3>4. \A m \in Machine : machine'[m].node = machine[m].node
      BY <2>2, DeviceKept
    <3> QED
      BY <2>2, <3>3, <3>4 DEF Begin
  <2>3. ASSUME NEW m \in Machine, Restart(m) \/ Recreate(m) PROVE Fewer
    <3>1. \A q \in Run : run'[q].listed \subseteq run[q].listed
      BY <2>3, Restarted, Failing
    <3> QED
      BY <2>3, <3>1, Restarted DEF StillLogged, SameFiles, Fresh
  <2>4. Fewer
    BY <1>1, <2>1, <2>2, <2>3
  <2> QED
    BY <1>0, <2>4 DEF Devices
<1>2. ASSUME NEW r \in Run, ListDevices(r) PROVE Devices'
  <2>1. run'[r].listed = {d.id : d \in Namesakes(args[r].host)}
        /\ \A q \in Run : q # r => run'[q] = run[q]
    BY <1>2 DEF ListDevices, TypeOK, RunState
  <2>2. run'[r].listed \subseteq 1..joined
    BY <1>0, <2>1 DEF Namesakes, Devices, DeviceID
  <2>3. UNCHANGED <<machine, tailnet, joined>>
    BY <1>2 DEF ListDevices
  <2> QED
    BY <2>1, <2>2, <2>3 DEF Devices
<1>3. ASSUME NEW r \in Run, TailscaleUp(r) PROVE Devices'
  <2> DEFINE node == machine'[On(r)].node
             up   == [id |-> node, host |-> args[r].host]
  <2>1. /\ node \in DeviceID /\ joined' \in Nat /\ node <= joined' /\ joined <= joined'
        /\ \/ node = machine[On(r)].node /\ joined' = joined
           \/ node = joined + 1
        /\ tailnet' = {d \in tailnet : d.id # node} \cup {up}
        /\ \A m \in Machine : m # On(r) => machine'[m] = machine[m]
    BY <1>3, UpDevices
  <2>2. On(r) \in Machine
    BY OnTyped
  <2> HIDE DEF node
  <2>3. \A d \in tailnet' : d = up \/ (d \in tailnet /\ d.id # node)
    BY <2>1
  <2>4. \A d \in tailnet' : d.id <= joined'
    <3>1. \A d \in tailnet : d.id \in Nat /\ d.id <= joined
      BY <1>0 DEF Devices, DeviceID
    <3> QED
      BY <1>0, <2>1, <2>3, <3>1
  <2>5. \A d, e \in tailnet' : d.id = e.id => d = e
    BY <2>3 DEF Devices
  <2>6. \A m \in Machine : m # On(r) => machine'[m].node # node \/ node = 0
    <3>1. \A m \in Machine : machine[m].node <= joined /\ machine[m].node \in Nat
      BY DEF Devices, TypeOK, MachineState
    <3> QED
      BY <1>0, <2>1, <2>2, <3>1 DEF Devices, DeviceID
  <2>7. \A m \in Machine : machine'[m].node <= joined'
    <3>1. \A m \in Machine : machine[m].node <= joined /\ machine[m].node \in Nat
      BY DEF Devices, TypeOK, MachineState
    <3>2. \A m \in Machine : machine'[m].node = node \/ machine'[m].node = machine[m].node
      BY <2>1 DEF node
    <3> QED
      BY <1>0, <2>1, <3>1, <3>2 DEF DeviceID
  <2>8. \A m, o \in Machine : machine'[m].node = machine'[o].node /\ m # o =>
           machine'[m].node = 0
    BY <2>1, <2>2, <2>6 DEF Devices, node
  <2>9. \A q \in Run : run'[q].listed \subseteq 1..joined'
    <3>1. \A q \in Run : run'[q].listed \subseteq run[q].listed
      <4>1. AfterFailure(r).listed \subseteq run[r].listed
        BY <1>3, Failing DEF TailscaleUp, At, InContainer, ConfigureStage
      <4>2. "start" \in Stage
        BY DEF Stage, InContainer
      <4>3. NextScript(run[r], "start").listed = run[r].listed
        BY <4>2, OnTyped, NextTyped
      <4>4. Fails(r) \/ run' = [run EXCEPT ![r] = NextScript(run[r], "start")]
        BY <1>3 DEF TailscaleUp
      <4> QED
        BY <4>1, <4>3, <4>4, FailsSo DEF TypeOK
    <3>2. 1..joined \subseteq 1..joined'
      BY <1>0, <2>1
    <3> QED
      BY <3>1, <3>2 DEF Devices
  <2> QED
    BY <2>4, <2>5, <2>7, <2>8, <2>9 DEF Devices
<1> QED
  BY <1>1, <1>2, <1>3 DEF Next

\* Every step keeps the retries in order.
LEMMA RetriesStep ==
    ASSUME IInv, TypeOK', Next
    PROVE  Retries'
<1> USE DEF IInv
<1> DEFINE Stages == InstallStage \cup {"waiting", "copy"}
           Fine(x) == x.stage \in Stages \/ ~x.mixed => x.asRoot = x.retried
<1>1. ASSUME NEW r \in Run PROVE Fine(run[r])
  BY DEF Retries
<1>2. ASSUME NEW r \in Run, run[r].stage \in InContainer PROVE Fine(AfterFailure(r))
  BY <1>2, Failing, NotRunningSo DEF InstallStage
<1>3. "done" \in Ended /\ "failed" \in Ended /\
      {"copy", "packages", "script", "startup", "truncate", "append", "list", "delete",
       "daemon", "up", "start"} \subseteq Stage
  BY DEF Stage, InContainer, InstallStage, ConfigureStage, Ended
<1>4. Fine(NotRunning("done")) /\ Fine(NotRunning("failed"))
  BY DEF NotRunning
<1>5. ASSUME NEW r \in Run, Inject(r) PROVE Fine(run'[r])
  <2>1. ASSUME NEW stage \in Stage, Goes(r, stage),
               run[r].stage \in Stages \/ stage \notin Stages
        PROVE  Fine(run'[r])
    BY <1>1, <2>1, GoesOn
  <2>2. ASSUME run'[r].stage \notin Stages, run'[r].mixed = run[r].mixed,
               run'[r].asRoot = run[r].asRoot, run'[r].retried = run[r].retried
        PROVE  Fine(run'[r])
    BY <1>1, <2>2
  <2>3. CASE Begin(r)
    BY <1>3, <1>4, <2>1, <2>3, EndsSo DEF Begin
  <2>4. CASE CopyTools(r)
    BY <1>3, <1>4, <2>1, <2>4, EndsSo DEF CopyTools
  <2>5. CASE CommandFails(r)
    BY <1>2, <2>5, FailsSo DEF CommandFails
  <2>6. CASE InstallPackages(r) \/ InstallScript(r)
    BY <1>3, <2>1, <2>6 DEF InstallPackages, InstallScript, At, InstallStage
  <2>7. CASE ConfigureStartup(r)
    BY <2>7, StartupSo
  <2>8. CASE TruncateKeys(r) \/ CreateKey(r) \/ EnsureDaemon(r)
    <3>1. {"append", "daemon", "up"} \cap Stages = {}
      BY DEF InstallStage
    <3> QED
      BY <1>3, <2>1, <2>8, <3>1 DEF TruncateKeys, CreateKey, EnsureDaemon
  <2>13. CASE AppendKeys(r)
    <3>1. run[r] \in RunState /\ run \in [Run -> RunState]
      BY OnTyped DEF TypeOK
    <3>2. run' = [run EXCEPT ![r].stage = "list", ![r].account = Target(r)]
      BY <2>13 DEF AppendKeys
    <3>3. /\ run'[r].stage = "list" /\ run'[r].mixed = run[r].mixed
          /\ run'[r].asRoot = run[r].asRoot /\ run'[r].retried = run[r].retried
      BY <3>1, <3>2 DEF RunState
    <3> QED
      BY <2>2, <3>3 DEF InstallStage
  <2>9. CASE ListDevices(r)
    <3>1. run \in [Run -> RunState]
      BY DEF TypeOK
    <3>2. PICK L : run' = [run EXCEPT ![r].stage = "delete", ![r].listed = L]
      BY <2>9 DEF ListDevices
    <3>3. /\ run'[r].stage = "delete" /\ run'[r].mixed = run[r].mixed
          /\ run'[r].asRoot = run[r].asRoot /\ run'[r].retried = run[r].retried
      BY <3>1, <3>2 DEF RunState
    <3> QED
      BY <2>2, <3>3 DEF InstallStage
  <2>10. CASE DeleteDevice(r)
    <3>1. run[r].stage = "delete"
      BY <2>10 DEF DeleteDevice, At
    <3>2. CASE Fails(r)
      BY <1>2, <3>1, <3>2, FailsSo DEF InContainer, ConfigureStage
    <3>3. CASE ~Fails(r)
      <4>1. PICK id : run' = [run EXCEPT ![r].listed = @ \ {id}]
        BY <2>10, <3>3 DEF DeleteDevice
      <4>2. /\ run'[r].stage = "delete" /\ run'[r].mixed = run[r].mixed
            /\ run'[r].asRoot = run[r].asRoot /\ run'[r].retried = run[r].retried
        BY <3>1, <4>1 DEF TypeOK, RunState
      <4> QED
        BY <2>2, <4>2 DEF InstallStage
    <3> QED
      BY <3>2, <3>3
  <2>11. CASE TailscaleUp(r)
    <3>1. run[r].stage = "up"
      BY <2>11 DEF TailscaleUp, At
    <3>2. CASE Fails(r)
      BY <1>2, <3>1, <3>2, FailsSo DEF InContainer, ConfigureStage
    <3>3. CASE run' = [run EXCEPT ![r] = NextScript(@, "start")]
      <4>1. run' = [run EXCEPT ![r] = NextScript(run[r], "start")]
        BY <3>3 DEF TypeOK
      <4>2. /\ NextScript(run[r], "start").asRoot = run[r].retried
            /\ NextScript(run[r], "start").retried = run[r].retried
        <5>1. run[r] \in RunState /\ "start" \in Stage
          BY <1>3, OnTyped
        <5> HIDE DEF IInv, Stages, Fine
        <5> QED
          BY <5>1, NextTyped
      <4>3. run'[r].asRoot = run'[r].retried
        BY <4>1, <4>2 DEF TypeOK
      <4> QED
        BY <4>3
    <3> QED
      BY <2>11, <3>2, <3>3 DEF TailscaleUp
  <2>12. CASE StartServices(r)
    BY <1>2, <1>3, <1>4, <2>12, FailsSo, EndsSo DEF StartServices, At, InContainer
  <2> QED
    BY <1>5, <2>3, <2>4, <2>5, <2>6, <2>7, <2>8, <2>9, <2>10, <2>11, <2>12, <2>13
       DEF Inject
<1> QED
  <2>1. ASSUME NEW r \in Run, Inject(r) PROVE Retries'
    <3>1. \A q \in Run : q # r => run'[q] = run[q]
      BY <2>1, OnlyItsOwn
    <3> QED
      BY <1>1, <1>5, <2>1, <3>1 DEF Retries
  <2>2. ASSUME NEW m \in Machine, Restart(m) \/ Recreate(m) PROVE Retries'
    BY <1>1, <1>2, <2>2, Restarted DEF Retries
  <2> QED
    BY <2>1, <2>2 DEF Next

-----------------------------------------------------------------------------
(***************************************************************************)
(* What an uncontested run has achieved stays so.                          *)
(***************************************************************************)
\* Scripts that neither configure nor start had to be retried for run as whoever
\* the hook of the run does.
LEMMA SameUser ==
    ASSUME IInv, NEW r \in Run, Installed(r),
           run[r].stage \in ConfigureStage \cup {"start"}, run[r].hooked, ~run[r].mixed
    PROVE  By(r) = HookUser(machine[On(r)], image[On(r)])
BY DEF IInv, Retries, Installed, Startable, HookUser, By

\* What has been installed stays when the files do, if the log is written by
\* whom the hook runs as, or may be another's by now.
LEMMA InstalledKept ==
    ASSUME NEW r \in Run, Installed(r), UNCHANGED <<args, image>>,
           run[r].stage \in ConfigureStage \cup {"start"},
           run'[r].stage \in ConfigureStage \cup {"start"},
           run'[r].hooked = run[r].hooked, run'[r].retried = run[r].retried,
           LET s == machine[On(r)]
               t == machine'[On(r)]
           IN  /\ t.packages = s.packages /\ t.script = s.script
               /\ t.helper = s.helper /\ t.hook = s.hook
               /\ \/ run'[r].mixed
                  \/ run'[r].mixed = run[r].mixed
                     /\ (run[r].hooked /\ ~run[r].mixed
                           /\ OwnLog(s, HookUser(s, image[On(r)])) =>
                               OwnLog(t, HookUser(s, image[On(r)])))
    PROVE  Installed(r)'
<1>1. On(r)' = On(r)
  BY DEF On
<1>2. \A img : /\ Startable(machine'[On(r)], img) <=> Startable(machine[On(r)], img)
               /\ HookUser(machine'[On(r)], img) = HookUser(machine[On(r)], img)
  BY DEF Startable, HookUser
<1> QED
  BY <1>1, <1>2 DEF Installed, InstallStage, ConfigureStage

\* A step of another run.
LEMMA OthersAchieve ==
    ASSUME IInv, NEW r \in Run, Inject(r),
           NEW o \in Run \ contested', o # r
    PROVE  (Tooled(o) => Installed(o) /\ Opened(o))' /\ Named(o)'
<1> USE DEF IInv
<1>1. /\ run'[o] = run[o] /\ On(o)' = On(o) /\ UNCHANGED <<args, image>>
      /\ o \in Run \ contested /\ On(o) \in Machine
      /\ \A m \in Machine : m # On(r) => machine'[m] = machine[m]
  BY OnlyItsOwn, OnTyped DEF On
<1>2. CASE ~Active(o)
  <2>1. run[o].stage \notin InContainer
    BY <1>2 DEF Active, Ended, InContainer, InstallStage, ConfigureStage
  <2> QED
    BY <1>1, <2>1 DEF Installed, Opened, Named, InContainer, InstallStage, ConfigureStage
<1>3. CASE Active(o)
  <2>1. ~Rivals(o, r)
    <3>1. CASE Begin(r)
      BY <1>1, <1>3, <3>1 DEF Begin
    <3>2. CASE ~Begin(r)
      <4>1. Active(r)
        BY <3>2, QuietStep DEF Active, Ended, ListDevices, TailscaleUp, At
      <4> QED
        BY <1>1, <1>3, <4>1 DEF Alone, Rivals
    <3> QED
      BY <3>1, <3>2
  <2>2. /\ On(o) # On(r) /\ args[o].host # args[r].host
        /\ ~Reaches(r, o) /\ ~Reaches(o, r)
    BY <2>1 DEF Rivals
  <2>3. machine'[On(o)] = machine[On(o)]
    BY <1>1, <2>2
  <2> DEFINE h == args[o].host
             node == machine[On(o)].node
  <2>4. /\ \A d \in tailnet' \ tailnet :
              d.host # h /\ (run[o].stage = "delete" => d.id \notin run[o].listed)
        /\ \A d \in tailnet \ tailnet' : d.id # node
    <3>1. CASE TailscaleUp(r)
      <4> DEFINE new == machine'[On(r)].node
      <4>1. /\ tailnet' = {d \in tailnet : d.id # new} \cup {[id |-> new, host |-> args[r].host]}
            /\ new = machine[On(r)].node \/ new = joined + 1
            /\ \A d \in tailnet \ tailnet' : d.id = machine[On(r)].node
                                             /\ machine[On(r)].node # 0
        BY <3>1, UpDevices
      <4> HIDE DEF new
      <4>2. run[o].stage = "delete" => new \notin run[o].listed
        BY <2>2, <4>1 DEF Reaches, Devices, TypeOK
      <4>3. machine[On(r)].node # 0 => machine[On(r)].node # node
        BY <1>1, <2>2, OnTyped DEF Devices
      <4> QED
        BY <2>2, <4>1, <4>2, <4>3
    <3>2. CASE DeleteDevice(r)
      <4>1. PICK id \in run[r].listed : tailnet' = {d \in tailnet : d.id # id}
        BY <3>2 DEF DeleteDevice
      <4>2. id # node
        BY <2>2, <3>2, <4>1 DEF Reaches, DeleteDevice, At
      <4> QED
        BY <4>1, <4>2
    <3>3. CASE UNCHANGED tailnet
      BY <3>3
    <3> QED
      BY <3>1, <3>2, <3>3 DEF Inject, Begin, CopyTools, CommandFails, InstallPackages,
         InstallScript, ConfigureStartup, TruncateKeys, AppendKeys, ListDevices,
         CreateKey, EnsureDaemon, StartServices
  <2>5. Named(o)'
    <3>1. Named(o)
      BY <1>1 DEF Achieved
    <3>2. run'[o].stage = "delete" =>
             \A d \in tailnet' : d.id \in run'[o].listed <=> d.host = args'[o].host
      BY <1>1, <2>4, <3>1 DEF Named
    <3>3. {d \in tailnet' : d.host = h} \subseteq {d \in tailnet : d.host = h}
      BY <2>4
    <3>4. run'[o].stage \in {"daemon", "up"} => Namesakes(args[o].host)' = {}
      BY <1>1, <3>1, <3>3 DEF Named, Namesakes
    <3>5. run'[o].stage = "start" /\ Tooled(o)' =>
             {d \in tailnet' : d.host = h} = {[id |-> node, host |-> h]}
      <4> SUFFICES ASSUME run'[o].stage = "start", Tooled(o)'
                   PROVE  {d \in tailnet' : d.host = h} = {[id |-> node, host |-> h]}
        OBVIOUS
      <4>1. {d \in tailnet : d.host = h} = {[id |-> node, host |-> h]}
        BY <1>1, <2>3, <3>1 DEF Named, Namesakes, Tooled
      <4>2. [id |-> node, host |-> h] \in tailnet'
        BY <2>4, <4>1
      <4> QED
        BY <3>3, <4>1, <4>2
    <3> QED
      BY <1>1, <2>3, <3>2, <3>4, <3>5 DEF Named, Namesakes
  <2>6. (Tooled(o) => Installed(o) /\ Opened(o))'
    <3>1. Target(o)' = Target(o)
      BY <1>1 DEF Target, By
    <3> QED
      BY <1>1, <2>3, <3>1 DEF Achieved, Tooled, Installed, Opened, KeysOf
  <2> QED
    BY <2>5, <2>6
<1> QED
  BY <1>2, <1>3

\* A script of the run fails, and the tailnet stays as it is or the run does not
\* depend on it.
LEMMA FailingAchieves ==
    ASSUME IInv, NEW r \in Run \ contested, run[r].stage \in InContainer,
           run'[r] = AfterFailure(r), UNCHANGED <<args, image>>,
           Tooled(r)' => Tooled(r) /\ SameFiles(machine'[On(r)], machine[On(r)]),
           run[r].stage = "start" => tailnet' = tailnet
    PROVE  (Tooled(r) => Installed(r) /\ Opened(r))' /\ Named(r)'
<1> USE DEF IInv
<1>1. \/ run'[r].stage = "failed"
      \/ run'[r].stage = "packages"
      \/ /\ run'[r].stage = "truncate" /\ run[r].stage \in ConfigureStage
         /\ run'[r].hooked = run[r].hooked
         /\ run'[r].retried = run[r].retried /\ run'[r].mixed
      \/ /\ run'[r].stage = "start" /\ run[r].stage = "start"
         /\ run'[r].hooked = run[r].hooked /\ run'[r].account = run[r].account
         /\ run'[r].retried = run[r].retried /\ run'[r].mixed
  BY Failing DEF NotRunning
<1>2. On(r)' = On(r)
  BY DEF On
<1>3. Named(r)'
  <2>1. CASE run'[r].stage = "start" /\ Tooled(r)'
    <3>1. run[r].stage = "start" /\ Tooled(r) /\ machine'[On(r)].node = machine[On(r)].node
      BY <1>1, <2>1 DEF SameFiles, ConfigureStage
    <3>2. Namesakes(args[r].host) = {[id |-> machine[On(r)].node, host |-> args[r].host]}
      BY <3>1 DEF Achieved, Named
    <3>3. Namesakes(args[r].host)' = Namesakes(args[r].host)
      BY <3>1 DEF Namesakes
    <3> QED
      BY <1>2, <2>1, <3>1, <3>2, <3>3 DEF Named
  <2>2. CASE ~(run'[r].stage = "start" /\ Tooled(r)')
    BY <1>1, <2>2 DEF Named
  <2> QED
    BY <2>1, <2>2
<1>4. ASSUME Tooled(r)' PROVE Installed(r)' /\ Opened(r)'
  <2>1. /\ Installed(r) /\ Opened(r) /\ machine'[On(r)].keys = machine[On(r)].keys
    BY <1>4 DEF Achieved, SameFiles
  <2>2. Installed(r)'
    <3>1. CASE run'[r].stage \in {"failed", "packages"}
      BY <3>1 DEF Installed, ConfigureStage
    <3>2. CASE run'[r].stage \in {"truncate", "start"}
      BY <1>1, <1>4, <2>1, <3>2, InstalledKept DEF SameFiles, ConfigureStage
    <3> QED
      BY <1>1, <3>1, <3>2
  <2>3. Opened(r)'
    BY <1>1, <1>2, <2>1 DEF Opened, KeysOf
  <2> QED
    BY <2>2, <2>3
<1> QED
  BY <1>3, <1>4

\* What a run has achieved outlives a restart; a container made anew ends it.
LEMMA RestartAchieves ==
    ASSUME IInv, NEW m \in Machine, Restart(m) \/ Recreate(m)
    PROVE  Achieved'
<1> USE DEF IInv
<1> SUFFICES ASSUME NEW r \in Run \ contested'
             PROVE  (Tooled(r) => Installed(r) /\ Opened(r))' /\ Named(r)'
  BY DEF Achieved
<1>1. /\ \/ run'[r] = run[r] /\ (On(r) = m => run[r].stage \notin InContainer)
         \/ /\ run'[r] = AfterFailure(r) /\ On(r) = m /\ run[r].stage \in InContainer
      /\ \A o \in Machine : o # m => machine'[o] = machine[o]
      /\ Restart(m) => SameFiles(machine'[m], machine[m])
      /\ Recreate(m) => machine'[m] = Fresh
      /\ UNCHANGED <<args, image, tailnet, joined, contested>>
      /\ On(r)' = On(r) /\ On(r) \in Machine /\ r \in Run \ contested
  BY Restarted, OnTyped DEF On, StillLogged
<1>2. CASE On(r) = m
  <2>1. CASE run[r].stage \notin InContainer
    BY <1>1, <1>2, <2>1
       DEF Installed, Opened, Named, InContainer, InstallStage, ConfigureStage
  <2>2. CASE run[r].stage \in InContainer
    <3>1. run'[r] = AfterFailure(r)
      BY <1>1, <1>2, <2>2
    <3>2. Tooled(r)' => Tooled(r) /\ SameFiles(machine'[On(r)], machine[On(r)])
      BY <1>1, <1>2 DEF Tooled, SameFiles, Fresh
    <3> QED
      BY <1>1, <2>2, <3>1, <3>2, FailingAchieves
  <2> QED
    BY <2>1, <2>2
<1>3. CASE On(r) # m
  <2>1. run'[r] = run[r] /\ machine'[On(r)] = machine[On(r)]
    BY <1>1, <1>3
  <2>2. Named(r)'
    BY <1>1, <2>1 DEF Achieved, Named, Namesakes, Tooled
  <2>3. Tooled(r)' => Installed(r)' /\ Opened(r)'
    <3>1. Target(r)' = Target(r)
      BY <1>1, <2>1 DEF Target, By
    <3> QED
      BY <1>1, <2>1, <3>1 DEF Achieved, Installed, Opened, Tooled, KeysOf
  <2> QED
    BY <2>2, <2>3
<1> QED
  BY <1>2, <1>3

\* The hook that is written is one that starts the services.
LEMMA HookWritten ==
    ASSUME IInv, NEW r \in Run \ contested, At(r, "startup"),
           NEW t \in MachineState,
           SameFiles(t, [machine[On(r)] EXCEPT !.hook = Hook(r)])
    PROVE  Startable(t, image[On(r)]) /\ (t.hook = "plain" <=> ~run[r].retried)
<1> USE DEF IInv
<1>1. run[r].stage = "startup" /\ Tooled(r) /\ Privileged(r)
  BY DEF At, Tooled
<1>2. /\ machine[On(r)].packages /\ machine[On(r)].script
      /\ run[r].retried => machine[On(r)].helper
  BY <1>1 DEF Achieved, Installed
<1>3. run[r].asRoot = run[r].retried
  BY <1>1 DEF Retries, InstallStage
<1>4. /\ machine[On(r)] \in MachineState /\ image[On(r)] \in Image /\ run[r] \in RunState
  BY OnTyped
<1>5. /\ t.packages = machine[On(r)].packages /\ t.script = machine[On(r)].script
      /\ t.helper = machine[On(r)].helper /\ t.hook = Hook(r)
  BY <1>4 DEF SameFiles, MachineState
<1> QED
  BY <1>1, <1>2, <1>3, <1>5 DEF Hook, Startable, Privileged

-----------------------------------------------------------------------------
\* What every step of an uncontested run may build on.
LEMMA OwnStep ==
    ASSUME IInv, NEW r \in Run \ contested', Inject(r)
    PROVE  /\ r \in Run \ contested /\ UNCHANGED <<args, image>>
           /\ On(r)' = On(r) /\ On(r) \in Machine
           /\ machine[On(r)] \in MachineState /\ run[r] \in RunState
           /\ machine \in [Machine -> MachineState]
           /\ Tooled(r) => Installed(r) /\ Opened(r)
           /\ Named(r)
BY OnlyItsOwn, OnTyped DEF IInv, Achieved, On, TypeOK

\* What a run does for itself while it installs.
LEMMA OwnInstalls ==
    ASSUME IInv, NEW r \in Run \ contested', Inject(r),
           \/ Begin(r) \/ CopyTools(r) \/ CommandFails(r)
           \/ InstallPackages(r) \/ InstallScript(r) \/ ConfigureStartup(r)
    PROVE  (Tooled(r) => Installed(r) /\ Opened(r))' /\ Named(r)'
<1> DEFINE s == machine[On(r)]
<1>0. /\ r \in Run \ contested /\ UNCHANGED <<args, image>>
      /\ On(r)' = On(r) /\ On(r) \in Machine
      /\ machine[On(r)] \in MachineState /\ run[r] \in RunState
      /\ machine \in [Machine -> MachineState]
      /\ Tooled(r) => Installed(r) /\ Opened(r)
  BY OwnStep
<1>1. "failed" \in Ended /\
      {"copy", "packages", "script", "startup", "truncate"} \subseteq Stage
  BY DEF Stage, InContainer, InstallStage, ConfigureStage, Ended
<1>2. ASSUME run'[r].stage \in {"copy", "packages", "failed"}
      PROVE  (Tooled(r) => Installed(r) /\ Opened(r))' /\ Named(r)'
  BY <1>2 DEF Installed, Opened, Named, ConfigureStage
<1>3. NotRunning("failed").stage = "failed"
  BY DEF NotRunning
<1>4. CASE Begin(r)
  BY <1>1, <1>2, <1>3, <1>4, GoesOn, EndsSo DEF Begin, IInv
<1>5. CASE CopyTools(r)
  BY <1>1, <1>2, <1>3, <1>5, GoesOn, EndsSo DEF CopyTools, IInv
<1>6. CASE CommandFails(r)
  <2>1. /\ run'[r] = AfterFailure(r) /\ run[r].stage \in InContainer
        /\ UNCHANGED <<machine, tailnet>>
    BY <1>6, FailsSo DEF CommandFails, IInv
  <2>2. Tooled(r)' => Tooled(r) /\ SameFiles(machine'[On(r)], machine[On(r)])
    BY <1>0, <2>1 DEF Tooled, SameFiles
  <2> QED
    BY <1>0, <2>1, <2>2, FailingAchieves
<1>7. CASE InstallPackages(r)
  <2>1. run'[r].stage = "script"
    BY <1>1, <1>7, GoesOn DEF InstallPackages, IInv
  <2>2. machine'[On(r)].packages
    BY <1>0, <1>7 DEF InstallPackages, MachineState
  <2> QED
    BY <1>0, <2>1, <2>2 DEF Installed, Opened, Named, ConfigureStage
<1>8. CASE InstallScript(r)
  <2>1. run'[r].stage = "startup" /\ run'[r].retried = run[r].retried
    BY <1>1, <1>8, GoesOn DEF InstallScript, IInv
  <2>2. s.packages
    BY <1>0, <1>8 DEF InstallScript, At, Tooled, Installed
  <2>3. /\ machine'[On(r)].packages = s.packages /\ machine'[On(r)].script
        /\ machine'[On(r)].helper = (s.helper \/ run[r].retried)
    BY <1>0, <1>8 DEF InstallScript, MachineState
  <2> QED
    BY <1>0, <2>1, <2>2, <2>3 DEF Installed, Opened, Named, ConfigureStage
<1>9. CASE ConfigureStartup(r)
  <2>1. PICK hook \in {Hook(r), s.hook, "broken"} :
          /\ \E after \in IF image[On(r)].supervisor
                          THEN AfterHook([s EXCEPT !.hook = hook], image[On(r)])
                          ELSE {[s EXCEPT !.hook = hook]} :
                machine' = [machine EXCEPT ![On(r)] = after]
          /\ run' = [run EXCEPT ![r] =
                [NextScript(@, "truncate") EXCEPT
                    !.hooked = (hook = Hook(r)),
                    !.mixed  = ~OwnLog([s EXCEPT !.hook = hook],
                                       HookUser([s EXCEPT !.hook = hook], image[On(r)]))]]
    BY <1>9 DEF ConfigureStartup
  <2> DEFINE u == [s EXCEPT !.hook = hook]
  <2>2. hook \in {"none", "broken", "plain", "sudo", "root"}
    BY <1>0 DEF Hook, MachineState
  <2>3. u \in MachineState /\ image[On(r)] \in Image
    BY <1>0, <2>2, MachineTyped, OnTyped DEF IInv
  <2>4. hook = Hook(r) => u = [s EXCEPT !.hook = Hook(r)]
    OBVIOUS
  <2> HIDE DEF u
  <2> DEFINE img == image[On(r)]
             t   == machine'[On(r)]
  <2>5. /\ t \in MachineState /\ SameFiles(t, u)
        /\ OwnLog(u, HookUser(u, img)) => OwnLog(t, HookUser(t, img))
    <3>1. PICK v : /\ v \in AfterHook(u, img) \cup {u}
                   /\ machine' = [machine EXCEPT ![On(r)] = v]
      BY <2>1 DEF u
    <3>2. /\ v \in MachineState /\ SameFiles(v, u)
          /\ OwnLog(u, HookUser(u, img)) => OwnLog(v, HookUser(v, img))
      BY <2>3, <3>1, HookTyped DEF SameFiles
    <3> QED
      BY <1>0, <3>1, <3>2
  <2>6. /\ run'[r].stage = "truncate" /\ run'[r].hooked = (hook = Hook(r))
        /\ run'[r].retried = run[r].retried
        /\ run'[r].mixed \/ OwnLog(u, HookUser(u, img))
    <3> DEFINE x     == NextScript(run[r], "truncate")
               mixed == ~OwnLog(u, HookUser(u, img))
    <3>1. x \in RunState /\ x.stage = "truncate" /\ x.retried = run[r].retried
      BY <1>0, <1>1, NextTyped
    <3>2. run' = [run EXCEPT ![r] = [x EXCEPT !.hooked = (hook = Hook(r)), !.mixed = mixed]]
      BY <1>0, <2>1 DEF u, IInv, TypeOK
    <3> HIDE DEF x, mixed
    <3>3. /\ run'[r].stage = "truncate" /\ run'[r].hooked = (hook = Hook(r))
          /\ run'[r].retried = run[r].retried /\ run'[r].mixed = mixed
      BY <1>0, <3>1, <3>2 DEF RunState, IInv, TypeOK
    <3> QED
      BY <3>3 DEF mixed
  <2>7. run'[r].hooked => Startable(t, img) /\ (t.hook = "plain" <=> ~run[r].retried)
    <3>1. At(r, "startup")
      BY <1>9 DEF ConfigureStartup
    <3> QED
      BY <1>0, <2>4, <2>5, <2>6, <3>1, HookWritten
  <2>8. Installed(r)'
    BY <1>0, <2>5, <2>6, <2>7 DEF Installed, InstallStage
  <2> QED
    BY <1>0, <2>6, <2>8 DEF Opened, Named
<1> QED
  BY <1>4, <1>5, <1>6, <1>7, <1>8, <1>9

\* What a run does for itself while it configures.
LEMMA OwnConfigures ==
    ASSUME IInv, NEW r \in Run \ contested', Inject(r),
           \/ TruncateKeys(r) \/ AppendKeys(r) \/ ListDevices(r)
           \/ DeleteDevice(r) \/ CreateKey(r)
    PROVE  (Tooled(r) => Installed(r) /\ Opened(r))' /\ Named(r)'
<1> DEFINE s == machine[On(r)]
<1>0. /\ r \in Run \ contested /\ UNCHANGED <<args, image>>
      /\ On(r)' = On(r) /\ On(r) \in Machine
      /\ machine[On(r)] \in MachineState /\ run[r] \in RunState
      /\ machine \in [Machine -> MachineState] /\ run \in [Run -> RunState]
      /\ Installed(r) /\ Opened(r) /\ Named(r) /\ Target(r) \in Account
  BY OwnStep, OnTyped DEF IInv, TypeOK, TruncateKeys, AppendKeys, ListDevices, DeleteDevice,
     CreateKey, At, Tooled
<1>1. {"append", "list", "daemon"} \subseteq Stage
  BY DEF Stage, InContainer, ConfigureStage
<1>2. run[r].stage \in ConfigureStage
  BY DEF TruncateKeys, AppendKeys, ListDevices, DeleteDevice, CreateKey, At,
     ConfigureStage
\* The files of install.sh are left alone.
<1>3. ASSUME run'[r].stage \in ConfigureStage, run'[r].hooked = run[r].hooked,
             run'[r].retried = run[r].retried, run'[r].mixed = run[r].mixed,
             machine'[On(r)].hook = s.hook, machine'[On(r)].packages = s.packages,
             machine'[On(r)].script = s.script,
             machine'[On(r)].helper = s.helper, machine'[On(r)].log = s.log
      PROVE  Installed(r)'
  BY <1>0, <1>2, <1>3, InstalledKept DEF OwnLog
<1>4. CASE TruncateKeys(r)
  <2>1. /\ run'[r].stage = "append" /\ run'[r].hooked = run[r].hooked
        /\ run'[r].retried = run[r].retried /\ run'[r].mixed = run[r].mixed
        /\ run'[r].asRoot = run[r].asRoot
    BY <1>1, <1>4, GoesOn DEF TruncateKeys, IInv
  <2>2. /\ machine'[On(r)].keys[Target(r)] = {} /\ machine'[On(r)].packages = s.packages
        /\ machine'[On(r)].script = s.script /\ machine'[On(r)].helper = s.helper
        /\ machine'[On(r)].hook = s.hook /\ machine'[On(r)].log = s.log
    <3> DEFINE t == machine'[On(r)]
    <3>1. t = [s EXCEPT !.keys[Target(r)] = {}]
      BY <1>0, <1>4 DEF TruncateKeys
    <3>2. {} \in SUBSET Run /\ Target(r) \in Account /\ s \in MachineState
      BY <1>0
    <3> HIDE DEF t, s
    <3>3. /\ t.keys[Target(r)] = {} /\ t.packages = s.packages /\ t.script = s.script
          /\ t.helper = s.helper /\ t.hook = s.hook /\ t.log = s.log
      BY <3>1, <3>2 DEF MachineState
    <3> QED
      BY <3>3 DEF t, s
  <2>3. Installed(r)'
    BY <1>3, <2>1, <2>2 DEF ConfigureStage
  <2>4. Target(r)' = Target(r)
    BY <1>0, <2>1 DEF Target, By
  <2> QED
    BY <1>0, <2>1, <2>2, <2>3, <2>4 DEF Opened, Named
<1>5. CASE AppendKeys(r)
  <2>1. /\ run'[r].stage = "list" /\ run'[r].hooked = run[r].hooked
        /\ run'[r].retried = run[r].retried /\ run'[r].mixed = run[r].mixed
        /\ run'[r].account = Target(r)
    BY <1>0, <1>5 DEF AppendKeys, RunState
  <2>2. s.keys[Target(r)] = {}
    BY <1>0, <1>5 DEF AppendKeys, At, Opened
  <2>3. /\ machine'[On(r)].keys[Target(r)] = KeysOf(r)
        /\ machine'[On(r)].packages = s.packages
        /\ machine'[On(r)].script = s.script /\ machine'[On(r)].helper = s.helper
        /\ machine'[On(r)].hook = s.hook /\ machine'[On(r)].log = s.log
    <3> DEFINE t == machine'[On(r)]
    <3>1. t = [s EXCEPT !.keys[Target(r)] = KeysOf(r)]
      BY <1>0, <1>5, <2>2 DEF AppendKeys, MachineState
    <3>2. KeysOf(r) \in SUBSET Run /\ Target(r) \in Account /\ s \in MachineState
      BY <1>0 DEF KeysOf
    <3> HIDE DEF t, s
    <3>3. /\ t.keys[Target(r)] = KeysOf(r) /\ t.packages = s.packages
          /\ t.script = s.script /\ t.helper = s.helper /\ t.hook = s.hook
          /\ t.log = s.log
      BY <3>1, <3>2 DEF MachineState
    <3> QED
      BY <3>3 DEF t, s
  <2>4. Installed(r)'
    BY <1>3, <2>1, <2>3 DEF ConfigureStage
  <2> QED
    BY <1>0, <2>1, <2>3, <2>4 DEF Opened, Named, KeysOf
<1>6. CASE ListDevices(r)
  <2>1. /\ run'[r].stage = "delete" /\ run'[r].hooked = run[r].hooked
        /\ run'[r].retried = run[r].retried /\ run'[r].mixed = run[r].mixed
        /\ run'[r].account = run[r].account
        /\ run'[r].listed = {d.id : d \in Namesakes(args[r].host)}
        /\ run[r].stage = "list" /\ UNCHANGED <<machine, tailnet>>
    BY <1>0, <1>6 DEF ListDevices, At, RunState
  <2>2. \A d \in tailnet : d.id \in run'[r].listed <=> d.host = args[r].host
    <3>1. \A d, e \in tailnet : d.id = e.id => d = e
      BY DEF IInv, Devices
    <3> QED
      BY <2>1, <3>1 DEF Namesakes
  <2>3. Installed(r)'
    BY <1>3, <2>1 DEF ConfigureStage
  <2> QED
    BY <1>0, <2>1, <2>2, <2>3 DEF Opened, Named, KeysOf
<1>7. CASE DeleteDevice(r)
  <2>1. PICK id \in run[r].listed :
          /\ tailnet' = {d \in tailnet : d.id # id}
          /\ Fails(r) \/ run' = [run EXCEPT ![r].listed = @ \ {id}]
    BY <1>7 DEF DeleteDevice
  <2>2. machine' = machine /\ run[r].stage = "delete"
    BY <1>7 DEF DeleteDevice, At
  <2>3. CASE Fails(r)
    <3>1. run'[r] = AfterFailure(r)
      BY <2>3, FailsSo DEF IInv
    <3>2. Tooled(r)' => Tooled(r) /\ SameFiles(machine'[On(r)], machine[On(r)])
      BY <1>0, <2>2 DEF Tooled, SameFiles
    <3>3. run[r].stage \in InContainer
      BY <1>2 DEF InContainer
    <3> QED
      BY <1>0, <2>2, <3>1, <3>2, <3>3, FailingAchieves
  <2>4. CASE run' = [run EXCEPT ![r].listed = @ \ {id}]
    <3>1. /\ run'[r].stage = "delete" /\ run'[r].hooked = run[r].hooked
          /\ run'[r].retried = run[r].retried /\ run'[r].mixed = run[r].mixed
          /\ run'[r].account = run[r].account
          /\ run'[r].listed = run[r].listed \ {id}
      BY <1>0, <2>2, <2>4 DEF RunState
    <3>2. Installed(r)'
      BY <1>3, <2>2, <3>1 DEF ConfigureStage
    <3>3. \A d \in tailnet' : d.id \in run'[r].listed <=> d.host = args[r].host
      BY <1>0, <2>1, <2>2, <3>1 DEF Named
    <3> QED
      BY <1>0, <2>2, <3>1, <3>2, <3>3 DEF Opened, Named, KeysOf
  <2> QED
    BY <2>1, <2>3, <2>4
<1>8. CASE CreateKey(r)
  <2>1. /\ run'[r].stage = "daemon" /\ run'[r].hooked = run[r].hooked
        /\ run'[r].retried = run[r].retried /\ run'[r].mixed = run[r].mixed
        /\ run'[r].account = run[r].account
        /\ run[r].stage = "delete" /\ run[r].listed = {}
        /\ UNCHANGED <<machine, tailnet>>
    BY <1>1, <1>8, GoesOn DEF CreateKey, At, IInv
  <2>2. Namesakes(args[r].host) = {}
    BY <1>0, <2>1 DEF Named, Namesakes
  <2>3. Installed(r)'
    BY <1>3, <2>1 DEF ConfigureStage
  <2>4. Namesakes(args[r].host)' = {}
    BY <1>0, <2>1, <2>2 DEF Namesakes
  <2> QED
    BY <1>0, <2>1, <2>3, <2>4 DEF Opened, Named, KeysOf
<1> QED
  BY <1>4, <1>5, <1>6, <1>7, <1>8

\* What a run does for itself when it starts tailscaled and sshd.
LEMMA OwnStarts ==
    ASSUME IInv, NEW r \in Run \ contested', Inject(r),
           EnsureDaemon(r) \/ TailscaleUp(r) \/ StartServices(r)
    PROVE  (Tooled(r) => Installed(r) /\ Opened(r))' /\ Named(r)'
<1> DEFINE s == machine[On(r)]
           h == args[r].host
<1>0. /\ r \in Run \ contested /\ UNCHANGED <<args, image>>
      /\ On(r)' = On(r) /\ On(r) \in Machine
      /\ machine[On(r)] \in MachineState /\ run[r] \in RunState
      /\ machine \in [Machine -> MachineState] /\ run \in [Run -> RunState]
      /\ Tooled(r) /\ Installed(r) /\ Opened(r) /\ Named(r) /\ By(r) \in Account
  BY OwnStep, OnTyped DEF IInv, TypeOK, EnsureDaemon, TailscaleUp, StartServices, At, Tooled
<1>1. {"up", "start"} \subseteq Stage /\ "done" \in Ended
  BY DEF Stage, InContainer, ConfigureStage, Ended
<1>2. CASE EnsureDaemon(r)
  <2>1. /\ run'[r].stage = "up" /\ run'[r].hooked = run[r].hooked /\ run[r].stage = "daemon"
        /\ run'[r].retried = run[r].retried /\ run'[r].mixed = run[r].mixed
        /\ run'[r].account = run[r].account
    BY <1>1, <1>2, GoesOn DEF EnsureDaemon, At, IInv
  <2>2. SameFiles(machine'[On(r)], s) /\ Logged(s, machine'[On(r)], By(r))
    <3>1. PICK t \in WithDaemon(s, image[On(r)], By(r)) : machine' = [machine EXCEPT ![On(r)] = t]
      BY <1>2 DEF EnsureDaemon
    <3> QED
      BY <1>0, <3>1, ServicesTyped
  <2>3. Installed(r)'
    <3>1. run[r].hooked /\ ~run[r].mixed => By(r) = HookUser(s, image[On(r)])
      BY <1>0, <2>1, SameUser DEF ConfigureStage
    <3> QED
      BY <1>0, <2>1, <2>2, <3>1, InstalledKept
         DEF SameFiles, Logged, OwnLog, ConfigureStage
  <2>4. Namesakes(args[r].host)' = Namesakes(args[r].host)
    BY <1>0, <1>2 DEF EnsureDaemon, Namesakes
  <2> QED
    BY <1>0, <2>1, <2>2, <2>3, <2>4 DEF Opened, Named, SameFiles, KeysOf
<1>3. CASE TailscaleUp(r)
  <2> DEFINE node == machine'[On(r)].node
  <2>1. /\ tailnet' = {d \in tailnet : d.id # node} \cup {[id |-> node, host |-> h]}
        /\ machine'[On(r)].packages = s.packages /\ machine'[On(r)].tools = s.tools
        /\ machine'[On(r)].script = s.script /\ machine'[On(r)].helper = s.helper
        /\ machine'[On(r)].hook = s.hook /\ machine'[On(r)].keys = s.keys
        /\ machine'[On(r)].log = s.log
    BY <1>0, <1>3, UpDevices
  <2>2. run[r].stage = "up" /\ Namesakes(h) = {}
    BY <1>0, <1>3 DEF TailscaleUp, At, Named
  <2>4. \/ /\ run'[r].stage = "start" /\ run'[r].mixed = run[r].mixed
           /\ run'[r].hooked = run[r].hooked /\ run'[r].account = run[r].account
           /\ run'[r].retried = run[r].retried
        \/ run'[r].stage = "failed" \/ run'[r].stage = "packages"
        \/ /\ run'[r].stage = "truncate" /\ run'[r].mixed
           /\ run'[r].hooked = run[r].hooked /\ run'[r].retried = run[r].retried
    <3>1. CASE Fails(r)
      <4>1. run[r].stage \in InContainer
        BY <2>2 DEF InContainer, ConfigureStage
      <4> QED
        BY <2>2, <3>1, <4>1, Failing, FailsSo DEF IInv, NotRunning, ConfigureStage
    <3>2. CASE run' = [run EXCEPT ![r] = NextScript(@, "start")]
      <4>1. run' = [run EXCEPT ![r] = NextScript(run[r], "start")]
        BY <1>0, <3>2
      <4>2. run'[r] = NextScript(run[r], "start")
        BY <1>0, <4>1
      <4> QED
        BY <1>0, <1>1, <4>2, NextTyped
    <3> QED
      BY <1>3, <3>1, <3>2 DEF TailscaleUp
  <2>5. Installed(r)'
    <3>1. CASE run'[r].stage \in {"failed", "packages"}
      BY <3>1 DEF Installed, ConfigureStage
    <3>2. CASE run'[r].stage \in {"truncate", "start"}
      BY <1>0, <2>1, <2>2, <2>4, <3>2, InstalledKept DEF OwnLog, ConfigureStage
    <3> QED
      BY <2>4, <3>1, <3>2
  <2>6. Opened(r)'
    BY <1>0, <2>1, <2>2, <2>4 DEF Opened, KeysOf
  <2>7. {d \in tailnet' : d.host = h} = {[id |-> node, host |-> h]}
    <3>1. \A d \in tailnet : d.host # h
      BY <2>2 DEF Namesakes
    <3> HIDE DEF node
    <3> QED
      BY <2>1, <3>1
  <2>8. Named(r)'
    BY <1>0, <2>4, <2>7 DEF Named, Namesakes
  <2> QED
    BY <2>5, <2>6, <2>8
<1>4. CASE StartServices(r)
  <2>1. SameFiles(machine'[On(r)], s) /\ UNCHANGED tailnet
    <3>1. PICK t \in AfterStart(s, image[On(r)], By(r)) : machine' = [machine EXCEPT ![On(r)] = t]
      BY <1>4 DEF StartServices
    <3> QED
      BY <1>0, <1>4, <3>1, ServicesTyped DEF StartServices
  <2>2. CASE Ends(r, "done")
    <3>1. run'[r] = NotRunning("done")
      BY <1>1, <2>2, EndsSo DEF IInv
    <3>2. run'[r].stage = "done"
      BY <3>1 DEF NotRunning
    <3> QED
      BY <1>0, <3>2 DEF Installed, Opened, Named, ConfigureStage
  <2>3. CASE Fails(r)
    <3>1. run'[r] = AfterFailure(r) /\ run[r].stage \in InContainer
      BY <1>4, <2>3, FailsSo DEF IInv, StartServices, At, InContainer
    <3>2. Tooled(r)' => Tooled(r) /\ SameFiles(machine'[On(r)], machine[On(r)])
      BY <1>0, <2>1
    <3> QED
      BY <1>0, <2>1, <3>1, <3>2, FailingAchieves
  <2> QED
    BY <1>4, <2>2, <2>3 DEF StartServices
<1> QED
  BY <1>2, <1>3, <1>4

\* Every step keeps what uncontested runs have achieved.
LEMMA AchievedStep ==
    ASSUME IInv, TypeOK', Next
    PROVE  Achieved'
<1>1. ASSUME NEW r \in Run, Inject(r) PROVE Achieved'
  <2>1. ASSUME NEW o \in Run \ contested', o # r
        PROVE  (Tooled(o) => Installed(o) /\ Opened(o))' /\ Named(o)'
    BY <1>1, <2>1, OthersAchieve
  <2>2. ASSUME r \notin contested'
        PROVE  (Tooled(r) => Installed(r) /\ Opened(r))' /\ Named(r)'
    BY <1>1, <2>2, OwnInstalls, OwnConfigures, OwnStarts DEF Inject
  <2> QED
    BY <2>1, <2>2 DEF Achieved
<1> QED
  BY <1>1, RestartAchieves DEF Next

-----------------------------------------------------------------------------
(***************************************************************************)
(* The inductive invariant.                                                *)
(***************************************************************************)
LEMMA InvInit == Init => IInv
<1> SUFFICES ASSUME Init PROVE IInv
  OBVIOUS
<1>1. TypeOK
  BY TypeInit
<1>2. \A r \in Run : run[r] = NotRunning("waiting")
  BY DEF Init
<1>3. \A r \in Run : /\ run[r].stage = "waiting" /\ run[r].listed = {}
                     /\ run[r].asRoot = run[r].retried
  BY <1>2, NotRunningSo
<1>4. Devices
  <2>1. \A m, o \in Machine : /\ machine[m].node = 0 \/ machine[m].node = 1
                              /\ machine[m].node = machine[o].node /\ m # o =>
                                    machine[m].node = 0
    <3>1. CASE machine = [m \in Machine |-> Fresh]
      BY <3>1 DEF Fresh
    <3>2. ASSUME NEW own \in Machine,
                 machine = [m \in Machine |-> IF m # own THEN Fresh ELSE
                    [Fresh EXCEPT !.packages = TRUE, !.daemon = TRUE, !.node = 1]]
          PROVE  \A m \in Machine : machine[m].node = IF m = own THEN 1 ELSE 0
      BY <3>2 DEF Fresh
    <3> QED
      BY <3>1, <3>2 DEF Init
  <2>2. /\ joined = 1 \/ joined = 2
        /\ \A d \in tailnet : d.id <= joined
        /\ \A d, e \in tailnet : d.id = e.id => d = e
    BY DEF Init
  <2>3. \A m \in Machine : machine[m].node <= joined
    BY <2>1, <2>2
  <2> QED
    BY <1>3, <2>1, <2>2, <2>3 DEF Devices
<1>5. Alone
  BY <1>3 DEF Alone, Active
<1>6. Retries
  BY <1>3 DEF Retries
<1>7. Achieved
  BY <1>3 DEF Achieved, Installed, Opened, Named, ConfigureStage
<1> QED
  BY <1>1, <1>4, <1>5, <1>6, <1>7 DEF IInv

\* Every step keeps the invariant.
LEMMA InvStep == IInv /\ [Next]_vars => IInv'
<1>1. ASSUME IInv, Next PROVE IInv'
  <2>1. TypeOK'
    BY <1>1, TypeStep DEF IInv
  <2> QED
    BY <1>1, <2>1, DevicesStep, AloneStep, RetriesStep, AchievedStep DEF IInv
<1>2. ASSUME IInv, UNCHANGED vars PROVE IInv'
  <2>1. TypeOK' /\ Devices' /\ Retries'
    BY <1>2 DEF IInv, vars, TypeOK, Devices, Retries
  <2>2. Alone'
    BY <1>2 DEF IInv, vars, Alone, Active, Rivals, Reaches, NamesOf, On
  <2>3. Achieved'
    <3>1. \A r \in Run : On(r)' = On(r) /\ Target(r)' = Target(r)
      BY <1>2 DEF vars, On, Target, By
    <3>2. \A r \in Run : Tooled(r)' = Tooled(r) /\ Named(r)' = Named(r)
      BY <1>2, <3>1 DEF vars, Tooled, Named, Namesakes
    <3>3. \A r \in Run : (Installed(r) => Installed(r)') /\ (Opened(r) => Opened(r)')
      BY <1>2, <3>1 DEF vars, Installed, Opened, KeysOf
    <3> QED
      BY <1>2, <3>2, <3>3 DEF IInv, vars, Achieved
  <2> QED
    BY <2>1, <2>2, <2>3 DEF IInv
<1> QED
  BY <1>1, <1>2

\* The inductive invariant holds in every state.
THEOREM Invariance == Spec => []IInv
BY InvInit, InvStep, PTL DEF Spec

\* Every variable has its type, whatever fails and however runs interleave.
THEOREM TypeCorrect == Spec => []TypeOK
BY Invariance, PTL DEF IInv

-----------------------------------------------------------------------------
(***************************************************************************)
(* What a run leaves when it ends well.                                    *)
(***************************************************************************)

\* Only start.sh ends a run well, and then sshd runs; what the run has achieved
\* before is still so.
LEMMA Ending ==
    ASSUME IInv, Next, NEW r \in Run, EndsWell(r)
    PROVE  /\ StartServices(r) /\ run[r].stage = "start" /\ machine'[On(r)].sshd
           /\ machine'[On(r)].keys = machine[On(r)].keys
           /\ SameFiles(machine'[On(r)], machine[On(r)])
           /\ Logged(machine[On(r)], machine'[On(r)], By(r))
           /\ Tooled(r) /\ Installed(r) /\ Opened(r) /\ Named(r)
<1> USE DEF IInv
<1>1. run[r].stage # "done" /\ run'[r].stage = "done" /\ r \in Run \ contested
  BY DEF EndsWell
<1>2. "done" \notin {"failed", "packages", "truncate", "start"}
  OBVIOUS
<1>3. run[r].stage \in InContainer => AfterFailure(r).stage # "done"
  BY <1>2, Failing DEF NotRunning
<1>4. Inject(r)
  <2>1. ASSUME NEW q \in Run, q # r, Inject(q) PROVE FALSE
    BY <1>1, <2>1, OnlyItsOwn
  <2>2. ASSUME NEW m \in Machine, Restart(m) \/ Recreate(m) PROVE FALSE
    BY <1>1, <1>3, <2>2, Restarted
  <2> QED
    BY <2>1, <2>2 DEF Next
<1>5. {"copy", "packages", "script", "startup", "truncate", "append", "list",
       "daemon", "up", "start"} \subseteq Stage /\ "done" \in Ended /\ "failed" \in Ended
  BY DEF Stage, InContainer, InstallStage, ConfigureStage, Ended
<1>6. NotRunning("failed").stage = "failed"
  BY DEF NotRunning
<1>7. Fails(r) => run[r].stage \notin InContainer
  BY <1>1, <1>3, FailsSo
<1>8. ~Begin(r) /\ ~CopyTools(r)
  BY <1>1, <1>5, <1>6, GoesOn, EndsSo DEF Begin, CopyTools
<1>9. ~CommandFails(r) /\ ~InstallPackages(r) /\ ~InstallScript(r) /\ ~TruncateKeys(r)
      /\ ~CreateKey(r) /\ ~EnsureDaemon(r)
  BY <1>1, <1>5, <1>7, GoesOn DEF CommandFails, InstallPackages, InstallScript,
     TruncateKeys, CreateKey, EnsureDaemon
<1>10. ~ListDevices(r) /\ ~AppendKeys(r)
  BY <1>1 DEF ListDevices, AppendKeys, TypeOK, RunState
<1>11. ~DeleteDevice(r)
  <2>1. run[r].stage = "delete" /\ DeleteDevice(r) => ~Fails(r)
    BY <1>7 DEF InContainer, ConfigureStage
  <2> QED
    BY <1>1, <2>1 DEF DeleteDevice, At, TypeOK, RunState
<1>12. ~ConfigureStartup(r)
  BY <1>1, StartupSo
<1>13. ~TailscaleUp(r)
  <2>1. NextScript(run[r], "start").stage = "start"
    BY <1>5, OnTyped, NextTyped
  <2>2. TailscaleUp(r) => run[r].stage = "up" /\ ~Fails(r)
    BY <1>7 DEF TailscaleUp, At, InContainer, ConfigureStage
  <2> QED
    BY <1>1, <2>1, <2>2 DEF TailscaleUp, TypeOK
<1>14. StartServices(r)
  BY <1>4, <1>8, <1>9, <1>10, <1>11, <1>12, <1>13 DEF Inject
<1>15. run[r].stage = "start" /\ ~Fails(r)
  BY <1>7, <1>14 DEF StartServices, At, InContainer
<1>16. PICK t \in AfterStart(machine[On(r)], image[On(r)], By(r)) :
          machine' = [machine EXCEPT ![On(r)] = t] /\ t.sshd
  BY <1>14, <1>15 DEF StartServices
<1>17. /\ machine'[On(r)] = t /\ t.keys = machine[On(r)].keys
       /\ SameFiles(t, machine[On(r)]) /\ Logged(machine[On(r)], t, By(r))
  BY <1>16, OnTyped, ServicesTyped DEF TypeOK, SameFiles
<1> QED
  BY <1>1, <1>14, <1>15, <1>16, <1>17 DEF Achieved, StartServices, At, Tooled

\* A run that ends well leaves its container on the tailnet, the only device
\* with its name (configure-tailscale.sh:188-209).
THEOREM OneDevice == Spec => LeavesOneDevice
<1>1. ASSUME IInv, Next, NEW r \in Run, EndsWell(r)
      PROVE  /\ Cardinality(Namesakes(args[r].host)) = 1
             /\ NamesOf(machine[On(r)].node) = {args[r].host}
  <2> DEFINE node == machine[On(r)].node
             h    == args[r].host
             up   == [id |-> node, host |-> h]
  <2>1. {d \in tailnet : d.host = h} = {up}
    BY <1>1, Ending DEF Named, Namesakes
  <2>2. \A d, e \in tailnet : d.id = e.id => d = e
    BY <1>1 DEF IInv, Devices
  <2>3. up \in tailnet /\ up.id = node /\ up.host = h
    BY <2>1
  <2> HIDE DEF node, h, up
  <2>4. NamesOf(node) = {h}
    <3>1. {x \in tailnet : x.id = node} = {up}
      BY <2>2, <2>3
    <3> QED
      BY <2>3, <3>1 DEF NamesOf
  <2>5. Cardinality(Namesakes(h)) = 1
    BY <2>1, FS_Singleton DEF Namesakes
  <2> QED
    BY <2>4, <2>5 DEF node, h
<1>2. ASSUME IInv, [Next]_vars
      PROVE  [\A r \in Run : EndsWell(r) =>
                 /\ Cardinality(Namesakes(args[r].host)) = 1
                 /\ NamesOf(machine[On(r)].node) = {args[r].host}]_vars
  BY <1>1, <1>2
<1> QED
  BY <1>2, Invariance, PTL DEF Spec, LeavesOneDevice

\* sshd runs, and nobody's keys but the run's open the account they were written
\* for (configure-ssh.sh:103-169, start.sh:9-17).
THEOREM OwnKeys == Spec => LeavesItsKeys
<1>1. ASSUME IInv, Next, NEW r \in Run, EndsWell(r)
      PROVE  LET state == machine'[On(r)]
             IN  state.sshd /\ state.keys[run[r].account] = KeysOf(r)
  BY <1>1, Ending DEF Opened
<1>2. ASSUME IInv, [Next]_vars
      PROVE  [\A r \in Run : EndsWell(r) =>
                 LET state == machine'[On(r)]
                 IN  state.sshd /\ state.keys[run[r].account] = KeysOf(r)]_vars
  BY <1>1, <1>2
<1> QED
  BY <1>2, Invariance, PTL DEF Spec, LeavesItsKeys

\* The hook the run wrote has the rights to start the services after a restart,
\* and can open the log, unless that was another user's or configure or start
\* alone had to be retried as root (install.sh:57-182, start-tailscale.sh:33).
THEOREM HookStarts == Spec => SurvivesRestart
<1>1. ASSUME IInv, Next, NEW r \in Run, EndsWell(r), run[r].hooked
      PROVE  LET state == machine'[On(r)]
                 img   == image[On(r)]
             IN  /\ Startable(state, img)
                 /\ run[r].mixed \/ OwnLog(state, HookUser(state, img))
  <2> DEFINE s   == machine[On(r)]
             t   == machine'[On(r)]
             img == image[On(r)]
  <2>1. /\ SameFiles(t, s) /\ Logged(s, t, By(r)) /\ Installed(r)
        /\ run[r].stage = "start"
    BY <1>1, Ending
  <2>2. /\ Startable(s, img)
        /\ run[r].mixed \/ OwnLog(s, HookUser(s, img))
    BY <1>1, <2>1 DEF Installed
  <2>3. Startable(t, img) /\ HookUser(t, img) = HookUser(s, img)
    BY <2>1, <2>2 DEF SameFiles, Startable, HookUser
  <2>4. ~run[r].mixed => By(r) = HookUser(s, img)
    BY <1>1, <2>1, SameUser
  <2> QED
    BY <2>1, <2>2, <2>3, <2>4 DEF Logged, OwnLog
<1>2. ASSUME IInv, [Next]_vars
      PROVE  [\A r \in Run : EndsWell(r) /\ run[r].hooked =>
                 LET state == machine'[On(r)]
                     img   == image[On(r)]
                 IN  /\ Startable(state, img)
                     /\ run[r].mixed \/ OwnLog(state, HookUser(state, img))]_vars
  BY <1>1, <1>2
<1> QED
  BY <1>2, Invariance, PTL DEF Spec, SurvivesRestart

\* A run deletes no device but those of its name, however old its list is
\* (configure-tailscale.sh:188-198).
THEOREM OnlyNamesakes == Spec => DeletesNamesakes
<1>1. ASSUME IInv, Next, NEW r \in Run \ contested,
             run[r].stage = "delete", run'[r].listed # run[r].listed,
             NEW d \in tailnet \ tailnet'
      PROVE  d.host = args[r].host
  <2>1. \E q \in Run : Inject(q)
    BY <1>1, Restarted DEF Next, IInv
  <2>2. Inject(r)
    BY <1>1, <2>1, OnlyItsOwn DEF IInv
  <2>3. DeleteDevice(r)
    BY <1>1, <2>2 DEF Inject, Begin, CopyTools, CommandFails, InstallPackages,
       InstallScript, ConfigureStartup, TruncateKeys, AppendKeys, ListDevices,
       CreateKey, EnsureDaemon, TailscaleUp, StartServices, At
  <2>4. d.id \in run[r].listed
    BY <2>3 DEF DeleteDevice
  <2> QED
    BY <1>1, <2>4 DEF IInv, Achieved, Named
<1>2. ASSUME IInv, [Next]_vars
      PROVE  [\A r \in Run \ contested :
                 run[r].stage = "delete" /\ run'[r].listed # run[r].listed =>
                    \A d \in tailnet \ tailnet' : d.host = args[r].host]_vars
  BY <1>1, <1>2
<1> QED
  BY <1>2, Invariance, PTL DEF Spec, DeletesNamesakes
=============================================================================
