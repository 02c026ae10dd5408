---------------------------- MODULE ExecutorProofs ----------------------------
(***************************************************************************)
(* Proofs about Executor, for any exit statuses and any amount of text.    *)
(*                                                                         *)
(* What a result claims is true of the command because of the order in     *)
(* which pieces arrive: a piece of the output tells how far the script had *)
(* come, and once the process is gone nothing is delivered from afar.      *)
(* IInv states that order, and relates the fields of a collected result to *)
(* the process and the script they were taken from.                        *)
(***************************************************************************)
EXTENDS Executor, SearchLemmas, SequenceTheorems, TLAPS

Has(piece) == \E i \in 1..Len(out) : out[i] = piece

\* The process, the watcher and the handler.
Processes ==
    /\ call = "starting" => proc = "none"
    /\ call = "running" => proc # "none"
    /\ proc = "alive" => call = "running"
    /\ proc = "none" => command = "none" /\ exit = -1 /\ out = <<>>
    /\ proc = "killed" => expired

\* How far the script has come, from what its lines leave behind.
Progress ==
    /\ script \in {"connect", "cd", "start"} => command = "none"
    /\ script \in {"exit", "done"} => command = "ended"
    /\ script = "start" \/ mode # "path" => inPath
    /\ command = "none" => ~holds

\* Each marker arrives once, in its time, and says what the script has done.
Markers ==
    /\ Has("start") => inPath /\ script \notin {"connect", "cd", "start"}
    /\ Has("end") => command = "ended" /\ script \in {"exit", "done", "died"}
    /\ \A i, j \in 1..Len(out) :
          out[i] = out[j] /\ out[i] \in {"start", "end"} => i = j

\* What can become of the command's status after the end marker.
Endings ==
    Has("end") /\ proc # "killed" =>
        \/ proc = "alive" /\ script = "exit"
        \/ script = "done" /\ exit = status
        \/ mode = "local" /\ script = "died" /\ exit = -1
        \/ mode # "local" /\ exit = 255

\* Noise after the start marker is the last thing ssh says.
NoiseLast ==
    \A i, j \in 1..Len(out) :
        i < j /\ out[i] = "start" /\ out[j] = "noise" =>
            /\ mode # "local" /\ proc # "alive"
            /\ \A k \in j..Len(out) : out[k] # "end"

\* A collected result is true to what it was taken from.
Collected ==
    /\ call \in {"starting", "running", "draining"} => result = NoResult
    /\ call \in {"collected", "returned"} =>
          /\ result.correlated =>
                /\ command = "ended" /\ inPath
                /\ \A i \in 1..Len(result.stdout) : result.stdout[i] = "text"
                /\ result.exit_code # status =>
                      /\ result.error # {}
                      /\ \/ proc = "killed" /\ result.exit_code = -1
                         \/ mode = "local" /\ script = "died" /\ result.exit_code = -1
                         \/ mode # "local" /\ result.exit_code = 255
          /\ result.error = {} =>
                /\ ~result.timed_out
                /\ result.correlated => result.exit_code = 0 /\ status = 0
          /\ proc = "killed" =>
                result.timed_out /\ result.error # {} /\ result.exit_code = -1
    /\ call = "returned" /\ result.error = {} => result.correlated

IInv ==
    /\ TypeOK
    /\ Processes
    /\ Progress
    /\ Markers
    /\ Endings
    /\ NoiseLast
    /\ Collected

-----------------------------------------------------------------------------
(***************************************************************************)
(* unwrapCommandOutput.                                                    *)
(***************************************************************************)

\* What Unwrap returns lies between two markers, with no start marker before
\* and no end marker after.
LEMMA UnwrapFinds ==
    ASSUME NEW s \in Seq(Piece)
    PROVE  /\ Unwrap(s).output \in Seq(Piece)
           /\ Unwrap(s).correlated \in BOOLEAN
           /\ Unwrap(s).correlated =>
                \E f, e \in 1..Len(s) :
                    /\ f < e /\ s[f] = "start" /\ s[e] = "end"
                    /\ Unwrap(s).output = SubSeq(s, f + 1, e - 1)
<1> DEFINE Starts  == {i \in 1..Len(s) : s[i] = "start"}
           first   == IF Starts # {} THEN Min(Starts) ELSE 0
           payload == SubSeq(s, first + 1, Len(s))
           Ends    == {i \in 1..Len(payload) : payload[i] = "end"}
           last    == IF Ends # {} THEN Max(Ends) ELSE 0
<1>1. first \in 0..Len(s) /\ (first # 0 => s[first] = "start")
  <2>1. CASE Starts = {}
    BY <2>1
  <2>2. CASE Starts # {}
    <3>1. Len(s) \in Nat /\ Starts \in SUBSET (1..Len(s))
      OBVIOUS
    <3>2. Min(Starts) \in Starts
      BY <2>2, <3>1, FirstPlace
    <3> QED
      BY <2>2, <3>2
  <2> QED
    BY <2>1, <2>2
<1>2. /\ payload \in Seq(Piece)
      /\ Len(payload) = Len(s) - first
      /\ \A i \in 1..Len(payload) : payload[i] = s[first + i]
  <2>1. \A i \in first + 1..Len(s) : s[i] \in Piece
    BY <1>1
  <2> HIDE DEF first
  <2> QED
    BY <1>1, <2>1, SubSeqProperties, Len(s) \in Nat
<1> HIDE DEF first, payload
<1>3. last \in 0..Len(payload) /\ (last # 0 => payload[last] = "end")
  <2>1. CASE Ends = {}
    BY <1>2, <2>1
  <2>2. CASE Ends # {}
    <3>1. Len(payload) \in Nat /\ Ends \in SUBSET (1..Len(payload))
      BY <1>2
    <3>2. Max(Ends) \in Ends
      BY <2>2, <3>1, LastPlace
    <3> QED
      BY <2>2, <3>2
  <2> QED
    BY <2>1, <2>2
<1>4. Unwrap(s) = IF first = 0 THEN [output |-> s, correlated |-> FALSE]
                  ELSE IF last = 0 THEN [output |-> payload, correlated |-> FALSE]
                  ELSE [output |-> SubSeq(payload, 1, last - 1), correlated |-> TRUE]
  BY DEF Unwrap, SelectInSeq, SelectLastInSeq, first, payload
<1> HIDE DEF last
<1>5. ASSUME first # 0, last # 0
      PROVE  /\ SubSeq(payload, 1, last - 1) \in Seq(Piece)
             /\ SubSeq(payload, 1, last - 1) = SubSeq(s, first + 1, first + last - 1)
  <2>1. SubSeq(payload, 1, last - 1) \in Seq(Piece)
    BY <1>2, <1>3
  <2>2. SubSeq(payload, 1, last - 1) = SubSeq(s, first + 1, first + last - 1)
    BY <1>1, <1>2, <1>3, <1>5, Len(s) \in Nat
  <2> QED
    BY <2>1, <2>2
<1>6. ASSUME first # 0, last # 0
      PROVE  \E f, e \in 1..Len(s) :
                 /\ f < e /\ s[f] = "start" /\ s[e] = "end"
                 /\ Unwrap(s).output = SubSeq(s, f + 1, e - 1)
  <2>1. first \in 1..Len(s) /\ first + last \in 1..Len(s) /\ first < first + last
    BY <1>1, <1>2, <1>3, <1>6
  <2>2. s[first + last] = "end"
    BY <1>2, <1>3, <1>6
  <2> DEFINE e == first + last
  <2>3. Unwrap(s).output = SubSeq(s, first + 1, e - 1)
    <3>1. first \in Nat /\ last \in Nat
      BY <1>1, <1>2, <1>3
    <3> QED
      BY <1>4, <1>5, <1>6, <3>1
  <2> HIDE DEF e
  <2> QED
    BY <1>1, <1>6, <2>1, <2>2, <2>3 DEF e
<1> QED
  BY <1>2, <1>4, <1>5, <1>6, SMTT(30)

-----------------------------------------------------------------------------
(***************************************************************************)
(* Types.                                                                  *)
(***************************************************************************)
LEMMA NoResultTyped == NoResult \in Result
  BY StatusAssumption DEF NoResult, Result, ExitCode

\* What the handler collects is a result.
LEMMA ResultCollected ==
    ASSUME NEW r \in Result, NEW text \in Seq(Piece), NEW found \in BOOLEAN,
           NEW late \in BOOLEAN, NEW code \in ExitCode,
           NEW error \in SUBSET ErrorText
    PROVE  [r EXCEPT !.stdout = text, !.correlated = found, !.timed_out = late,
                     !.exit_code = code, !.error = error] \in Result
  BY DEF Result

\* Collecting fills in a result.
LEMMA CollectTyped == ASSUME TypeOK, Collect PROVE result' \in Result
<1>1. /\ Unwrap(out).output \in Seq(Piece)
      /\ Unwrap(out).correlated \in BOOLEAN
      /\ out \in Seq(Piece) /\ result \in Result
  BY UnwrapFinds DEF TypeOK
<1> DEFINE u     == Unwrap(out)
           text  == IF u.correlated THEN u.output ELSE out
           late  == RunFailed /\ expired
           code  == IF ExitError THEN IF proc = "killed" THEN -1 ELSE exit
                    ELSE IF u.correlated THEN status
                    ELSE IF RunFailed THEN -1 ELSE 0
           error == IF RunFailed THEN {"exec"} ELSE {}
<1>2. /\ text \in Seq(Piece) /\ late \in BOOLEAN
      /\ error \in SUBSET ErrorText
  BY <1>1 DEF ErrorText
<1>3. code \in ExitCode
  BY StatusAssumption DEF TypeOK, ExitCode
<1>4. result' = [result EXCEPT !.stdout = text, !.correlated = u.correlated,
                               !.timed_out = late, !.exit_code = code,
                               !.error = error]
  BY DEF Collect
<1> HIDE DEF text, late, code, error
<1> QED
  BY <1>1, <1>2, <1>3, <1>4, ResultCollected

\* Types hold at the start.
LEMMA TypeInit == Init => TypeOK
<1> SUFFICES ASSUME Init PROVE TypeOK
  OBVIOUS
<1>1. expired \in BOOLEAN /\ interrupted \in BOOLEAN /\ holds \in BOOLEAN
  BY Zenon DEF Init
<1>2. mode \in {"local", "host", "path"} /\ inPath \in BOOLEAN
  BY DEF Init
<1> QED
  BY <1>1, <1>2, StatusAssumption, NoResultTyped DEF Init, TypeOK, ExitCode

\* Every step keeps the types.
LEMMA TypeStep == TypeOK /\ [Next]_vars => TypeOK'
<1> SUFFICES ASSUME TypeOK, [Next]_vars PROVE TypeOK'
  OBVIOUS
<1> USE StatusAssumption DEF Piece, ExitCode, procVars, scriptVars, Goto
<1>1. CASE Handler
  <2>1. CASE RejectRequest
    <3>1. [NoResult EXCEPT !.error = {"request"}, !.isError = TRUE] \in Result
      BY NoResultTyped, ZenonT(40) DEF Result, ErrorText
    <3> QED
      BY <2>1, <3>1 DEF TypeOK, RejectRequest
  <2>2. CASE StartFails
    BY <2>2 DEF TypeOK, StartFails
  <2>3. CASE StartProcess
    BY <2>3 DEF TypeOK, StartProcess
  <2>4. CASE Collect
    BY <2>4, CollectTyped DEF TypeOK, Collect
  <2>5. CASE Report
    <3>1. result' \in Result
      BY <2>5, ZenonT(40) DEF TypeOK, Report, Result, ErrorText
    <3> QED
      BY <2>5, <3>1 DEF TypeOK, Report
  <2> QED
    BY <1>1, <2>1, <2>2, <2>3, <2>4, <2>5 DEF Handler
<1>2. CASE OS
  <2>1. CASE Expire
    BY <2>1 DEF TypeOK, Expire
  <2>2. CASE Kill
    BY <2>2 DEF TypeOK, Kill
  <2>3. CASE Reap
    BY <2>3 DEF TypeOK, Reap
  <2> QED
    BY <1>2, <2>1, <2>2, <2>3 DEF OS
<1>3. CASE Script
  <2>1. CASE Connect
    BY <2>1 DEF TypeOK, Connect, Step, Noise
  <2>2. CASE ChangeDirectory
    <3>1. out' \in Seq(Piece)
      BY <2>2 DEF TypeOK, ChangeDirectory, Noise
    <3>2. inPath' \in BOOLEAN /\ script' \in {"start", "command"}
      BY <2>2 DEF TypeOK, ChangeDirectory, Step
    <3>3. UNCHANGED <<mode, capture, call, expired, procVars, result, command, status, holds>>
      BY <2>2 DEF ChangeDirectory, Step
    <3> QED
      BY <3>1, <3>2, <3>3 DEF TypeOK
  <2>3. CASE PrintStart
    BY <2>3 DEF TypeOK, PrintStart, Step, Delivered
  <2>4. CASE StartCommand
    BY <2>4 DEF TypeOK, StartCommand, Step
  <2>5. CASE ShellDies
    <3>1. PICK st \in Status \cup {2, -1, 255} : Leaves(st)
      BY <2>5 DEF ShellDies
    <3> QED
      BY <2>5, <3>1 DEF TypeOK, ShellDies, Leaves
  <2>6. CASE WriteText
    BY <2>6 DEF TypeOK, WriteText, Delivered
  <2>7. CASE CommandEnds
    <3>1. holds' \in BOOLEAN
      BY <2>7, Zenon DEF TypeOK, CommandEnds
    <3> QED
      BY <2>7, <3>1 DEF TypeOK, CommandEnds
  <2>8. CASE Release
    <3>1. holds' \in BOOLEAN
      BY <2>8, Zenon DEF Release
    <3> QED
      BY <2>8, <3>1 DEF TypeOK, Release
  <2>9. CASE PrintEnd
    BY <2>9 DEF TypeOK, PrintEnd, Step, Delivered
  <2>10. CASE Exit
    BY <2>10 DEF TypeOK, Exit, Leaves
  <2>11. CASE SshEnds
    BY <2>11 DEF TypeOK, SshEnds
  <2>12. CASE SshFails
    BY <2>12 DEF TypeOK, SshFails, Noise
  <2> QED
    BY <1>3, <2>1, <2>2, <2>3, <2>4, <2>5, <2>6, <2>7, <2>8, <2>9, <2>10, <2>11,
       <2>12
    DEF Script
<1>4. CASE UNCHANGED vars
  BY <1>4 DEF TypeOK, vars
<1> QED
  BY <1>1, <1>2, <1>3, <1>4 DEF Next

-----------------------------------------------------------------------------
(***************************************************************************)
(* The inductive invariant.                                                *)
(***************************************************************************)
LEMMA InvInit == Init => IInv
<1> SUFFICES ASSUME Init PROVE IInv
  OBVIOUS
<1>1. TypeOK
  BY TypeInit
<1>2. Processes /\ Progress
  BY DEF Init, Processes, Progress
<1>3. Markers /\ NoiseLast
  BY DEF Init, Markers, NoiseLast, Has
<1>4. Endings
  BY DEF Init, Endings, Has
<1>5. Collected
  BY DEF Init, Collected
<1> QED
  BY <1>1, <1>2, <1>3, <1>4, <1>5 DEF IInv

\* Run returns: what is between two markers is the command's text, and the
\* fields come from the state the markers and the process vouch for.
LEMMA CollectStep == IInv /\ Collect => Collected'
<1> SUFFICES ASSUME IInv, Collect PROVE Collected'
  OBVIOUS
<1> USE DEF IInv
<1> DEFINE u     == Unwrap(out)
           text  == IF u.correlated THEN u.output ELSE out
           late  == RunFailed /\ expired
           code  == IF ExitError THEN IF proc = "killed" THEN -1 ELSE exit
                    ELSE IF u.correlated THEN status
                    ELSE IF RunFailed THEN -1 ELSE 0
           error == IF RunFailed THEN {"exec"} ELSE {}
<1>1. /\ result'.stdout = text
      /\ result'.correlated = u.correlated
      /\ result'.timed_out = late
      /\ result'.exit_code = code
      /\ result'.error = error
  BY DEF Collect, TypeOK, Result
<1>2. /\ call' = "collected"
      /\ UNCHANGED <<mode, expired, proc, exit, script, command, inPath, status>>
  BY DEF Collect, Goto, procVars, scriptVars
<1>3. proc \in {"none", "exited", "killed"}
  BY DEF Collect, TypeOK, Processes
<1>4. u.correlated =>
        /\ Has("start") /\ Has("end")
        /\ \A i \in 1..Len(text) : text[i] = "text"
  <2> SUFFICES ASSUME u.correlated
               PROVE  /\ Has("start") /\ Has("end")
                      /\ \A i \in 1..Len(u.output) : u.output[i] = "text"
    OBVIOUS
  <2>1. out \in Seq(Piece)
    BY DEF TypeOK
  <2>2. PICK f, e \in 1..Len(out) : /\ f < e /\ out[f] = "start" /\ out[e] = "end"
                                    /\ u.output = SubSeq(out, f + 1, e - 1)
    BY <2>1, UnwrapFinds
  <2>3. ASSUME NEW i \in f + 1..e - 1 PROVE out[i] = "text"
    BY <2>1, <2>2, <2>3 DEF Markers, NoiseLast, Piece
  <2>4. \A i \in 1..Len(u.output) : u.output[i] = "text"
    <3>1. e - 1 \in Int /\ f + 1 \in Int /\ f + 1 <= e
      BY <2>2
    <3>2. \A i \in f + 1..e - 1 : out[i] \in {"text"}
      BY <2>3
    <3>3. /\ Len(SubSeq(out, f + 1, e - 1)) = e - f - 1
          /\ \A i \in 1..e - f - 1 : SubSeq(out, f + 1, e - 1)[i] = out[f + i]
      BY <3>1, <3>2, <2>1, <2>2
    <3> QED
      BY <2>2, <2>3, <3>1, <3>3
  <2> QED
    BY <2>2, <2>4 DEF Has
<1>5. u.correlated /\ code # status =>
        /\ error # {}
        /\ \/ proc = "killed" /\ code = -1
           \/ mode = "local" /\ script = "died" /\ code = -1
           \/ mode # "local" /\ code = 255
  BY <1>3, <1>4 DEF Endings, ExitError, RunFailed, Processes
<1>6. error = {} => proc = "exited" /\ exit = 0 /\ ~late
  BY <1>3 DEF RunFailed
<1>7. error = {} /\ u.correlated => code = 0 /\ status = 0
  BY <1>4, <1>6 DEF ExitError, Endings
<1>8. proc = "killed" => late /\ error # {} /\ code = -1
  BY DEF RunFailed, ExitError, Processes
<1> HIDE DEF u, text, late, code, error
<1> QED
  BY <1>1, <1>2, <1>4, <1>5, <1>6, <1>7, <1>8 DEF Collected, Markers

\* Every step keeps the invariant.
LEMMA InvStep == IInv /\ [Next]_vars => IInv'
<1> SUFFICES ASSUME IInv, TypeOK', [Next]_vars PROVE IInv'
  BY TypeStep DEF IInv
<1> USE StatusAssumption
    DEF IInv, TypeOK, Processes, Progress, Markers, Endings, NoiseLast, Has,
        Piece, ExitCode, procVars, scriptVars, Goto
<1>1. CASE RejectRequest
  BY <1>1 DEF RejectRequest, NoResult, Collected
<1>2. CASE StartFails
  BY <1>2 DEF StartFails, Collected
<1>3. CASE StartProcess
  BY <1>3 DEF StartProcess, Collected
<1>4. CASE Collect
  BY <1>4, CollectStep DEF Collect
<1>5. CASE Report
  <2>1. CASE result.correlated
    BY <1>5, <2>1 DEF Report, Collected
  <2>2. CASE ~result.correlated
    <3> DEFINE error == IF mode # "local" /\ RunFailed THEN {"startup"}
                        ELSE result.error \cup {"marker"}
    <3>1. error # {}
      OBVIOUS
    <3>2. result' = [result EXCEPT !.isError = TRUE, !.error = error]
      BY <1>5, <2>2 DEF Report
    <3> HIDE DEF error
    <3>3. /\ result'.error # {}
          /\ result'.correlated = result.correlated
          /\ result'.timed_out = result.timed_out
          /\ result'.exit_code = result.exit_code
      BY <3>1, <3>2 DEF Result
    <3>4. /\ call = "collected" /\ call' = "returned"
          /\ UNCHANGED <<mode, capture, expired, procVars, scriptVars, out>>
      BY <1>5 DEF Report
    <3>5. Collected'
      BY <2>2, <3>3, <3>4 DEF Collected
    <3> QED
      BY <3>4, <3>5
  <2> QED
    BY <2>1, <2>2
<1>6. CASE Expire
  BY <1>6 DEF Expire, Collected
<1>7. CASE Kill
  BY <1>7 DEF Kill, Collected
<1>8. CASE Reap
  BY <1>8 DEF Reap, Collected
<1>9. CASE Connect
  BY <1>9 DEF Connect, ScriptAt, Step, Noise, Collected
<1>10. CASE ChangeDirectory
  <2>1. out' = out \/ out' = Append(out, "noise")
    BY <1>10 DEF ChangeDirectory, Noise
  <2>2. ~Has("start") /\ ~Has("end")
    BY <1>10 DEF ChangeDirectory, ScriptAt
  <2>3. ~Has("start")' /\ ~Has("end")'
    BY <2>1, <2>2, SMTT(40)
  <2>4. Markers' /\ Endings' /\ NoiseLast'
    BY <2>3
  <2> QED
    BY <1>10, <2>4 DEF ChangeDirectory, ScriptAt, Step, Collected
<1>11. CASE PrintStart
  BY <1>11 DEF PrintStart, ScriptAt, Step, Delivered, Collected
<1>12. CASE StartCommand
  BY <1>12 DEF StartCommand, ScriptAt, Step, Collected
<1>13. CASE ShellDies
  <2>1. CASE ScriptAt("command")
    <3>1. PICK st \in Status \cup {2, -1, 255} : Leaves(st)
      BY <1>13 DEF ShellDies
    <3> QED
      BY <1>13, <2>1, <3>1 DEF ShellDies, ScriptAt, Leaves, Collected
  <2>2. CASE ScriptAt("exit")
    BY <1>13, <2>2 DEF ShellDies, ScriptAt, Leaves, Collected
  <2> QED
    BY <1>13, <2>1, <2>2 DEF ShellDies
<1>14. CASE WriteText
  BY <1>14, SMTT(30) DEF WriteText, Delivered, Collected
<1>15. CASE CommandEnds
  BY <1>15 DEF CommandEnds, Collected
<1>16. CASE Release
  BY <1>16 DEF Release, Collected
<1>17. CASE PrintEnd
  BY <1>17 DEF PrintEnd, ScriptAt, Step, Delivered, Collected
<1>18. CASE Exit
  BY <1>18 DEF Exit, ScriptAt, Leaves, Collected
<1>19. CASE SshEnds
  BY <1>19 DEF SshEnds, Collected
<1>20. CASE SshFails
  BY <1>20 DEF SshFails, Noise, Collected
<1>21. CASE UNCHANGED vars
  BY <1>21 DEF vars, Collected
<1> QED
  BY <1>1, <1>2, <1>3, <1>4, <1>5, <1>6, <1>7, <1>8, <1>9, <1>10, <1>11, <1>12,
     <1>13, <1>14, <1>15, <1>16, <1>17, <1>18, <1>19, <1>20, <1>21
  DEF Next, Handler, OS, Script

\* IInv is an invariant of the executor.
THEOREM Invariance == Spec => []IInv
  BY InvInit, InvStep, PTL DEF Spec

-----------------------------------------------------------------------------
(***************************************************************************)
(* What follows from it.                                                   *)
(***************************************************************************)

\* The variables keep to their types, whatever the statuses of commands.
THEOREM TypeCorrect == Spec => []TypeOK
<1>1. IInv => TypeOK
  BY DEF IInv
<1> QED
  BY <1>1, Invariance, PTL

\* A correlated result is that of a command that had ended.
THEOREM Complete == Spec => []CorrelatedComplete
<1>1. IInv => CorrelatedComplete
  BY DEF IInv, Collected, CorrelatedComplete, Returned
<1> QED
  BY <1>1, Invariance, PTL

\* A correlated stdout has nothing in it but what the command and those it
\* started have written.
THEOREM Clean == Spec => []CorrelatedClean
<1>1. IInv => CorrelatedClean
  BY DEF IInv, Collected, CorrelatedClean, Returned
<1> QED
  BY <1>1, Invariance, PTL

\* No error means that the command ran to its end where it should have, with
\* status 0 and in time.
THEOREM NoErrorDone == Spec => []NoErrorMeansDone
<1>1. IInv => NoErrorMeansDone
  BY DEF IInv, Collected, NoErrorMeansDone, Returned
<1> QED
  BY <1>1, Invariance, PTL

\* The exit code of a correlated result is the command's, or an error says what
\* happened to the wrapper's shell, or to ssh, after the end marker.
THEOREM ExitCodeTrue == Spec => []ExitCodeHonest
<1>1. IInv => ExitCodeHonest
  BY DEF IInv, Collected, ExitCodeHonest, Returned
<1> QED
  BY <1>1, Invariance, PTL

\* A run the timeout has killed says so.
THEOREM KillTold == Spec => []KillReported
<1>1. IInv => KillReported
  BY DEF IInv, Collected, KillReported, Returned
<1> QED
  BY <1>1, Invariance, PTL
===============================================================================
