------------------------- MODULE SessionManagerProofs -------------------------
(***************************************************************************)
(* Proofs about SessionManager, for any sets of calls, IDs and remotes.    *)
(*                                                                         *)
(* The invariants of interest are not inductive: that two readers never    *)
(* share an open session rests on who holds the session's lock, and that   *)
(* rests on every path out of a call releasing it.  IInv adds what is      *)
(* needed; its parts say who works on which session and in which order a   *)
(* call's stages, its reader and its command go.                           *)
(***************************************************************************)
EXTENDS SessionManager, TLAPS

\* Before its first step under session.mu a call has left no trace.
Fresh ==
    /\ \A c \in Call : pc[c] = "idle" =>
          pipes[c] = "none" /\ shell[c] = "none"
    /\ \A c \in Call : pc[c] \in {"idle", "located", "locked"} =>
          reader[c] = "none" /\ c \notin ended

\* Whom a call works for: a session that exists, made for the same request.
Located ==
    /\ \A c \in Call : pc[c] \in {"located"} \cup Holding => session[c] # Nil
    /\ \A c \in Call : reader[c] # "none" => session[c] # Nil
    /\ \A c \in Call : session[c] # Nil =>
          /\ pipes[session[c]] # "none"
          /\ req[session[c]] = req[c]

\* The call that holds a session's lock is at work, and the other way round.
Locked ==
    /\ LockHeldByWorker
    /\ \A c \in Call : pc[c] \in Holding => mu[session[c]] = c

\* A command is executed for a call that has been given a reader and, as long
\* as the shell is there, waits for it or gives it up.
AtWork ==
    /\ \A s \in Call : job[s] # Nil =>
          /\ session[job[s]] = s
          /\ reader[job[s]] # "none"
          /\ shell[s] = "running" => pc[job[s]] \in {"awaiting", "closing"}
          /\ job[s] \notin ended
    /\ \A c \in Call : reader[c] = "output" => c \in ended
    /\ \A c \in Call : pc[c] \in {"awaiting", "closing"} => reader[c] # "none"

\* A reader is left behind only on a closed session.
ReaderAttended ==
    \A c \in Call : reader[c] = "reading" =>
        pc[c] \in {"awaiting", "closing"} \/ pipes[session[c]] = "closed"

ProcessState ==
    /\ \A s \in Call : pipes[s] = "closed" => shell[s] = "exited"
    /\ \A s \in Call : pipes[s] = "none" <=> shell[s] = "none"
    /\ \A s \in Call : job[s] # Nil => shell[s] # "none"

SweepMapped ==
    /\ \A i \in sweep : sessions[i] # Nil
    /\ doomed # Nil => ID(doomed) \in sweep /\ sessions[ID(doomed)] = doomed

Retired ==
    \A c \in Call : pc[c] = "error" /\ reader[c] # "none" =>
        pipes[session[c]] = "closed"

\* A session about to be closed has left the map already.
Abandoned ==
    \A c \in Call : pc[c] = "closing" => ~Mapped(session[c])

IInv ==
    /\ TypeOK
    /\ Fresh
    /\ Located
    /\ Locked
    /\ AtWork
    /\ ReaderAttended
    /\ ProcessState
    /\ MappedSessionsOpen
    /\ SweepMapped
    /\ Retired
    /\ Abandoned

-----------------------------------------------------------------------------
(***************************************************************************)
(* Types.                                                                  *)
(***************************************************************************)
LEMMA TypeInit == Init => TypeOK
  BY DEF Init, TypeOK, Request, Stage

\* Every step keeps the types.
LEMMA TypeStep == TypeOK /\ [Next]_vars => TypeOK'
<1> SUFFICES ASSUME TypeOK, [Next]_vars PROVE TypeOK'
  OBVIOUS
<1> USE DEF Stage, Request, shellVars, sweepVars, callVars
<1>1. ASSUME NEW c \in Call, Serve(c) PROVE TypeOK'
  <2>1. CASE Reject(c)
    BY <2>1 DEF TypeOK, Reject, Goto
  <2>2. CASE GetSession(c)
    BY <2>2 DEF TypeOK, GetSession, Goto
  <2>3. CASE CreateSession(c)
    BY <2>3 DEF TypeOK, CreateSession, Goto
  <2>4. CASE Lock(c)
    BY <2>4 DEF TypeOK, Lock, Goto
  <2>5. CASE WriteFails(c)
    BY <2>5 DEF TypeOK, WriteFails, Goto, Unlock
  <2>6. CASE WriteCommand(c)
    BY <2>6 DEF TypeOK, WriteCommand, Goto
  <2>7. CASE Succeed(c)
    BY <2>7 DEF TypeOK, Succeed, Goto, Unlock
  <2>8. CASE ForgetOnReadError(c)
    BY <2>8 DEF TypeOK, ForgetOnReadError, Forget, Goto
  <2>9. CASE ForgetOnTimeout(c)
    BY <2>9 DEF TypeOK, ForgetOnTimeout, Forget, Goto
  <2>10. CASE CloseAfterFailure(c)
    BY <2>10 DEF TypeOK, CloseAfterFailure, Shut, Goto, Unlock
  <2> QED
    BY <1>1, <2>1, <2>2, <2>3, <2>4, <2>5, <2>6, <2>7, <2>8, <2>9, <2>10 DEF Serve
<1>2. ASSUME NEW c \in Call, Read(c) PROVE TypeOK'
  <2>1. Deliver(c, "output") \/ Deliver(c, "error")
    BY <1>2 DEF Read, ReadEndMarker, ReadEOF, ReadClosed
  <2>2. ASSUME NEW w \in {"output", "error"}, Deliver(c, w) PROVE TypeOK'
    BY <2>2 DEF TypeOK, Deliver
  <2> QED
    BY <2>1, <2>2
<1>3. ASSUME NEW s \in Call, Execute(s) PROVE TypeOK'
  <2>1. CASE ShellFinishes(s)
    BY <2>1 DEF TypeOK, ShellFinishes
  <2>2. CASE ShellExits(s)
    BY <2>2 DEF TypeOK, ShellExits
  <2>3. CASE OrphanEnds(s)
    BY <2>3 DEF TypeOK, OrphanEnds
  <2> QED
    BY <1>3, <2>1, <2>2, <2>3 DEF Execute
<1>4. ASSUME NEW i \in SessionID, CloseSession(i) \/ AskAgain(i) PROVE TypeOK'
  <2>1. CASE CloseSession(i)
    BY <2>1 DEF TypeOK, CloseSession, Shut, Interrupt, ID
  <2>2. CASE AskAgain(i)
    BY <2>2 DEF TypeOK, AskAgain
  <2> QED
    BY <1>4, <2>1, <2>2
<1>5. ASSUME NEW s \in Call, HalfHourPasses(s) PROVE TypeOK'
  BY <1>5 DEF TypeOK, HalfHourPasses
<1>6. CASE Sweep
  <2>1. CASE SweepStart
    BY <2>1 DEF TypeOK, SweepStart
  <2>2. ASSUME NEW i \in SessionID, SweepSpares(i) PROVE TypeOK'
    BY <2>2 DEF TypeOK, SweepSpares
  <2>3. ASSUME NEW i \in SessionID, SweepCondemns(i) PROVE TypeOK'
    BY <2>3 DEF TypeOK, SweepCondemns
  <2>4. CASE SweepCloses
    BY <2>4 DEF TypeOK, SweepCloses, Shut, Interrupt, ID
  <2> QED
    BY <1>6, <2>1, <2>2, <2>3, <2>4 DEF Sweep
<1>7. CASE UNCHANGED vars
  BY <1>7 DEF TypeOK, vars
<1> QED
  BY <1>1, <1>2, <1>3, <1>4, <1>5, <1>6, <1>7 DEF Next, Work

-----------------------------------------------------------------------------
(***************************************************************************)
(* The inductive invariant.  Each action disturbs few of its parts, and    *)
(* the SMT solver finds which.                                             *)
(***************************************************************************)
LEMMA InvInit == Init => IInv
  BY TypeInit, NilAssumption
     DEF Init, IInv, Fresh, Located, Locked, LockHeldByWorker, Holding, AtWork,
         ReaderAttended, ProcessState, MappedSessionsOpen, SweepMapped, Retired,
         Abandoned, Mapped

\* A call that finds its session takes it over and changes nothing else.
LEMMA GetSessionFinds ==
    ASSUME TypeOK, NEW c \in Call, GetSession(c)
    PROVE  /\ pc[c] = "idle" /\ pc'[c] = "located"
           /\ \A d \in Call : d # c => pc'[d] = pc[d] /\ session'[d] = session[d]
           /\ session'[c] = sessions[req[c].id] /\ session'[c] # Nil
           /\ Raw(session'[c]) = req[c].remote
           /\ UNCHANGED <<req, reader, sessions, mu, pipes, shell, job, ended,
                          sweep, doomed, interrupted>>
  BY DEF TypeOK, GetSession, Goto, shellVars, sweepVars, Stage

\* It keeps the invariant: the session it finds is mapped, so it is open.
LEMMA GetSessionKeeps ==
    ASSUME IInv, TypeOK', NEW c \in Call, GetSession(c)
    PROVE  IInv'
<1>1. TypeOK
  BY DEF IInv
<1>2. /\ pc[c] = "idle" /\ pc'[c] = "located"
      /\ \A d \in Call : d # c => pc'[d] = pc[d] /\ session'[d] = session[d]
      /\ session'[c] = sessions[req[c].id] /\ session'[c] # Nil
      /\ Raw(session'[c]) = req[c].remote
      /\ UNCHANGED <<req, reader, sessions, mu, pipes, shell, job, ended,
                     sweep, doomed, interrupted>>
  BY <1>1, GetSessionFinds
<1>3. reader[c] = "none" /\ c \notin ended /\ Fresh'
  BY <1>2 DEF IInv, Fresh
<1>4. Located'
  <2>1. req \in [Call -> Request] /\ session'[c] \in Call
    BY <1>1, <1>2 DEF TypeOK, Request
  <2>2. pipes[session'[c]] = "open" /\ ID(session'[c]) = req[c].id
    BY <1>2, <2>1 DEF IInv, MappedSessionsOpen, Request
  <2>3. req[session'[c]] = req[c]
    BY <1>2, <2>1, <2>2 DEF ID, Raw, Request
  <2> QED
    BY <1>2, <2>2, <2>3 DEF IInv, Located, Holding
<1>5. Locked'
  <2>1. \A s \in Call : mu[s] # Nil => mu[s] \in Call /\ pc[mu[s]] \in Holding
    BY <1>1 DEF IInv, Locked, LockHeldByWorker, TypeOK
  <2>2. \A s \in Call : mu[s] # Nil => mu[s] # c
    BY <1>2, <2>1 DEF Holding
  <2>3. LockHeldByWorker'
    BY <1>2, <2>1, <2>2 DEF IInv, Locked, LockHeldByWorker
  <2> QED
    BY <1>2, <2>3 DEF IInv, Locked, Holding
<1>6. AtWork'
  <2>1. \A s \in Call : job[s] # Nil => job[s] \in Call /\ job[s] # c
    BY <1>1, <1>3 DEF IInv, AtWork, TypeOK
  <2> QED
    BY <1>2, <2>1 DEF IInv, AtWork
<1>7. ReaderAttended' /\ Retired'
  BY <1>2, <1>3 DEF IInv, ReaderAttended, Retired
<1>8. ProcessState' /\ MappedSessionsOpen' /\ SweepMapped'
  BY <1>2 DEF IInv, ProcessState, MappedSessionsOpen, SweepMapped, ID
<1>9. Abandoned'
  BY <1>2 DEF IInv, Abandoned, Mapped
<1> QED
  BY <1>3, <1>4, <1>5, <1>6, <1>7, <1>8, <1>9 DEF IInv

\* Every step keeps the invariant.
LEMMA InvStep == IInv /\ [Next]_vars => IInv'
<1> SUFFICES ASSUME IInv, [Next]_vars PROVE IInv'
  OBVIOUS
<1>t. TypeOK /\ TypeOK'
  BY TypeStep DEF IInv
<1> USE NilAssumption
    DEF IInv, TypeOK, Fresh, Located, Locked, LockHeldByWorker, Holding, AtWork,
        ReaderAttended, ProcessState, MappedSessionsOpen, SweepMapped, Retired,
        Abandoned, Mapped, ID, smFree, Stage, Request, callVars, shellVars,
        sweepVars
<1>1. ASSUME NEW c \in Call, Reject(c) PROVE IInv'
  BY <1>t, <1>1 DEF Reject, Goto
<1>2. ASSUME NEW c \in Call, GetSession(c) PROVE IInv'
  BY <1>t, <1>2, GetSessionKeeps
<1>3. ASSUME NEW c \in Call, CreateSession(c) PROVE IInv'
  BY <1>t, <1>3, SMTT(30) DEF CreateSession, Goto
<1>4. ASSUME NEW c \in Call, Lock(c) PROVE IInv'
  BY <1>t, <1>4 DEF Lock, Goto
<1>5. ASSUME NEW c \in Call, WriteFails(c) PROVE IInv'
  BY <1>t, <1>5 DEF WriteFails, Goto, Unlock
<1>6. ASSUME NEW c \in Call, WriteCommand(c) PROVE IInv'
  BY <1>t, <1>6, SMTT(30) DEF WriteCommand, Goto
<1>7. ASSUME NEW c \in Call, Succeed(c) PROVE IInv'
  BY <1>t, <1>7 DEF Succeed, Goto, Unlock
<1>8. ASSUME NEW c \in Call, ForgetOnReadError(c) PROVE IInv'
  BY <1>t, <1>8 DEF ForgetOnReadError, Forget, Goto
<1>9. ASSUME NEW c \in Call, ForgetOnTimeout(c) PROVE IInv'
  BY <1>t, <1>9 DEF ForgetOnTimeout, Forget, Goto
<1>10. ASSUME NEW c \in Call, CloseAfterFailure(c) PROVE IInv'
  BY <1>t, <1>10, SMTT(30) DEF CloseAfterFailure, Shut, Goto, Unlock
<1>11. ASSUME NEW c \in Call, ReadEndMarker(c) PROVE IInv'
  BY <1>t, <1>11 DEF ReadEndMarker, Deliver
<1>12. ASSUME NEW c \in Call, ReadEOF(c) PROVE IInv'
  BY <1>t, <1>12 DEF ReadEOF, Deliver
<1>13. ASSUME NEW c \in Call, ReadClosed(c) PROVE IInv'
  BY <1>t, <1>13 DEF ReadClosed, Deliver
<1>14. ASSUME NEW s \in Call, ShellFinishes(s) PROVE IInv'
  BY <1>t, <1>14 DEF ShellFinishes
<1>15. ASSUME NEW s \in Call, ShellExits(s) PROVE IInv'
  BY <1>t, <1>15 DEF ShellExits
<1>16. ASSUME NEW s \in Call, OrphanEnds(s) PROVE IInv'
  BY <1>t, <1>16 DEF OrphanEnds
<1>17. ASSUME NEW i \in SessionID, CloseSession(i) PROVE IInv'
  BY <1>t, <1>17 DEF CloseSession, Shut
<1>18. ASSUME NEW i \in SessionID, AskAgain(i) PROVE IInv'
  BY <1>t, <1>18 DEF AskAgain
<1>19. ASSUME NEW s \in Call, HalfHourPasses(s) PROVE IInv'
  BY <1>t, <1>19 DEF HalfHourPasses
<1>20. ASSUME SweepStart PROVE IInv'
  BY <1>t, <1>20 DEF SweepStart
<1>21. ASSUME NEW i \in SessionID, SweepSpares(i) PROVE IInv'
  BY <1>t, <1>21 DEF SweepSpares
<1>22. ASSUME NEW i \in SessionID, SweepCondemns(i) PROVE IInv'
  BY <1>t, <1>22 DEF SweepCondemns
<1>23. ASSUME SweepCloses PROVE IInv'
  BY <1>t, <1>23 DEF SweepCloses, Shut
<1>24. CASE UNCHANGED vars
  BY <1>t, <1>24 DEF vars
<1> HIDE DEF IInv
<1> QED
  BY <1>1, <1>2, <1>3, <1>4, <1>5, <1>6, <1>7, <1>8, <1>9, <1>10, <1>11, <1>12,
     <1>13, <1>14, <1>15, <1>16, <1>17, <1>18, <1>19, <1>20, <1>21, <1>22, <1>23, <1>24
     DEF Next, Work, Serve, Read, Execute, Sweep

\* The inductive invariant holds in every reachable state.
THEOREM Invariance == SessionSpec => []IInv
  BY InvInit, InvStep, PTL DEF SessionSpec

-----------------------------------------------------------------------------
(***************************************************************************)
(* What follows for every behaviour.                                       *)
(***************************************************************************)

\* Every variable keeps its type.
THEOREM TypeCorrect == SessionSpec => []TypeOK
  BY Invariance, PTL DEF IInv

\* A session in the map is open and filed under its own ID.
THEOREM MapCorrect == SessionSpec => []MappedSessionsOpen
  BY Invariance, PTL DEF IInv

\* The lock of a session is held by a call at work on that session, or free.
THEOREM LockCorrect == SessionSpec => []LockHeldByWorker
  BY Invariance, PTL DEF IInv, Locked

\* Two goroutines never read the output of one open session: both their calls
\* would hold its lock.
THEOREM SingleReader == SessionSpec => []OneReader
<1>1. IInv => OneReader
  BY NilAssumption DEF IInv, OneReader, ReaderAttended, Locked, Holding
<1> QED
  BY <1>1, Invariance, PTL

\* A command is executed only for a call with the session's own ID and target,
\* which holds the session's lock as long as the shell is there.
THEOREM TargetCorrect == SessionSpec => []RequestedTarget
<1>1. IInv => RequestedTarget
  BY NilAssumption
     DEF IInv, RequestedTarget, TypeOK, AtWork, Located, Locked, Holding
<1> QED
  BY <1>1, Invariance, PTL

\* A session whose call failed to read its output to the end is dead and not
\* in the map: no later call can read what is left of that output.
THEOREM FailedRetired == SessionSpec => []FailedSessionRetired
<1>1. IInv => FailedSessionRetired
  BY NilAssumption
     DEF IInv, FailedSessionRetired, TypeOK, Retired, ProcessState, Located,
         MappedSessionsOpen, Mapped
<1> QED
  BY <1>1, Invariance, PTL

\* A shell is given a command only after the previous one has ended: whoever
\* writes holds the lock, and the call whose command a running shell executes
\* would hold it too.
THEOREM Serial == SessionSpec => SerialShell
<1> DEFINE OneAtATime ==
      \A s \in Call : job[s] # Nil /\ job'[s] # job[s] => job'[s] = Nil
<1>1. ASSUME IInv, [Next]_vars PROVE OneAtATime
  <2> USE NilAssumption DEF IInv, TypeOK
  <2>1. ASSUME NEW c \in Call, WriteCommand(c) PROVE OneAtATime
    BY <1>1, <2>1 DEF WriteCommand, AtWork, Located, Locked, Holding
  <2>2. ASSUME NEW c \in Call, Serve(c), ~WriteCommand(c) PROVE OneAtATime
    BY <1>1, <2>2 DEF Serve, Reject, GetSession, CreateSession, Lock, WriteFails,
         Succeed, ForgetOnReadError, ForgetOnTimeout, Forget, CloseAfterFailure,
         shellVars
  <2>3. ASSUME NEW c \in Call, Read(c) PROVE OneAtATime
    BY <1>1, <2>3 DEF Read, ReadEndMarker, ReadEOF, ReadClosed, Deliver, shellVars
  <2>4. ASSUME NEW s \in Call, Execute(s) PROVE OneAtATime
    BY <1>1, <2>4 DEF Execute, ShellFinishes, ShellExits, OrphanEnds
  <2>5. ASSUME NEW i \in SessionID, CloseSession(i) \/ AskAgain(i)
       PROVE  OneAtATime
    BY <1>1, <2>5 DEF CloseSession, AskAgain, shellVars
  <2>6. ASSUME NEW s \in Call, HalfHourPasses(s) PROVE OneAtATime
    BY <1>1, <2>6 DEF HalfHourPasses, shellVars
  <2>7. CASE Sweep
    BY <1>1, <2>7 DEF Sweep, SweepStart, SweepSpares, SweepCondemns, SweepCloses,
         shellVars
  <2>8. CASE UNCHANGED vars
    BY <1>1, <2>8 DEF vars, shellVars
  <2> HIDE DEF OneAtATime
  <2> QED
    BY <1>1, <2>1, <2>2, <2>3, <2>4, <2>5, <2>6, <2>7, <2>8 DEF Next, Work
<1>2. IInv /\ [Next]_vars => [OneAtATime]_vars
  BY <1>1
<1> QED
  BY <1>2, Invariance, PTL DEF SessionSpec, SerialShell

-----------------------------------------------------------------------------
(***************************************************************************)
(* A failing call finds its own session in the map, and its deletion by ID *)
(* hits no other, unless the session was closed while the call waited.     *)
(***************************************************************************)
OInv ==
    /\ IInv
    /\ NoOrphanShell
    /\ \A c \in Call : pc[c] = "awaiting" /\ req[c].id \notin interrupted =>
          pipes[session[c]] = "open"

\* Its extension holds at the start...
LEMMA OInvInit == Init => OInv
  BY InvInit DEF Init, OInv, NoOrphanShell

\* A call that finds its session has none closed.
LEMMA OGetSession ==
    ASSUME OInv, IInv', NEW c \in Call, GetSession(c)
    PROVE  OInv'
<1>1. TypeOK
  BY DEF OInv, IInv
<1>2. /\ pc[c] = "idle" /\ pc'[c] = "located"
      /\ \A d \in Call : d # c => pc'[d] = pc[d] /\ session'[d] = session[d]
      /\ UNCHANGED <<req, sessions, pipes, interrupted>>
  BY <1>1, GetSessionFinds
<1>3. NoOrphanShell'
  BY <1>2 DEF OInv, NoOrphanShell, ID, Mapped
<1> QED
  BY <1>2, <1>3 DEF OInv

\* ... and every step keeps it.
LEMMA OInvStep == OInv /\ [Next]_vars => OInv'
<1> SUFFICES ASSUME OInv, [Next]_vars PROVE OInv'
  OBVIOUS
<1>i. IInv /\ IInv'
  BY InvStep DEF OInv
<1> USE NilAssumption
    DEF OInv, IInv, TypeOK, Mapped, NoOrphanShell, ID, Fresh, Located, Locked,
        LockHeldByWorker, Holding, MappedSessionsOpen, callVars, shellVars,
        sweepVars
<1>1. ASSUME NEW c \in Call, Reject(c) PROVE OInv'
  BY <1>i, <1>1 DEF Reject, Goto
<1>2. ASSUME NEW c \in Call, GetSession(c) PROVE OInv'
  BY <1>i, <1>2, OGetSession
<1>3. ASSUME NEW c \in Call, CreateSession(c) PROVE OInv'
  BY <1>i, <1>3, SMTT(30) DEF CreateSession, Goto
<1>4. ASSUME NEW c \in Call, Lock(c) PROVE OInv'
  BY <1>i, <1>4, SMTT(30) DEF Lock, Goto
<1>5. ASSUME NEW c \in Call, WriteFails(c) PROVE OInv'
  BY <1>i, <1>5 DEF WriteFails, Goto, Unlock
<1>6. ASSUME NEW c \in Call, WriteCommand(c) PROVE OInv'
  BY <1>i, <1>6 DEF WriteCommand, Goto
<1>7. ASSUME NEW c \in Call, Succeed(c) PROVE OInv'
  BY <1>i, <1>7, SMTT(30) DEF Succeed, Goto, Unlock
<1>8. ASSUME NEW c \in Call, ForgetOnReadError(c) PROVE OInv'
  BY <1>i, <1>8 DEF ForgetOnReadError, Forget, Goto
<1>9. ASSUME NEW c \in Call, ForgetOnTimeout(c) PROVE OInv'
  BY <1>i, <1>9 DEF ForgetOnTimeout, Forget, Goto
<1>10. ASSUME NEW c \in Call, CloseAfterFailure(c) PROVE OInv'
  BY <1>i, <1>10, SMTT(30) DEF CloseAfterFailure, Shut, Goto, Unlock
<1>11. ASSUME NEW c \in Call, ReadEndMarker(c) PROVE OInv'
  BY <1>i, <1>11 DEF ReadEndMarker, Deliver
<1>12. ASSUME NEW c \in Call, ReadEOF(c) PROVE OInv'
  BY <1>i, <1>12 DEF ReadEOF, Deliver
<1>13. ASSUME NEW c \in Call, ReadClosed(c) PROVE OInv'
  BY <1>i, <1>13 DEF ReadClosed, Deliver
<1>14. ASSUME NEW s \in Call, ShellFinishes(s) PROVE OInv'
  BY <1>i, <1>14 DEF ShellFinishes
<1>15. ASSUME NEW s \in Call, ShellExits(s) PROVE OInv'
  BY <1>i, <1>15 DEF ShellExits
<1>16. ASSUME NEW s \in Call, OrphanEnds(s) PROVE OInv'
  BY <1>i, <1>16 DEF OrphanEnds
<1>17. ASSUME NEW i \in SessionID, CloseSession(i) PROVE OInv'
  BY <1>i, <1>17 DEF CloseSession, Shut, Interrupt
<1>18. ASSUME NEW i \in SessionID, AskAgain(i) PROVE OInv'
  BY <1>i, <1>18 DEF AskAgain
<1>19. ASSUME NEW s \in Call, HalfHourPasses(s) PROVE OInv'
  BY <1>i, <1>19 DEF HalfHourPasses
<1>20. ASSUME SweepStart PROVE OInv'
  BY <1>i, <1>20 DEF SweepStart
<1>21. ASSUME NEW i \in SessionID, SweepSpares(i) PROVE OInv'
  BY <1>i, <1>21 DEF SweepSpares
<1>22. ASSUME NEW i \in SessionID, SweepCondemns(i) PROVE OInv'
  BY <1>i, <1>22 DEF SweepCondemns
<1>23. ASSUME SweepCloses PROVE OInv'
  BY <1>i, <1>23 DEF SweepCloses, Shut, Interrupt, SweepMapped
<1>24. CASE UNCHANGED vars
  BY <1>i, <1>24 DEF vars
<1> HIDE DEF OInv
<1> QED
  BY <1>1, <1>2, <1>3, <1>4, <1>5, <1>6, <1>7, <1>8, <1>9, <1>10, <1>11, <1>12,
     <1>13, <1>14, <1>15, <1>16, <1>17, <1>18, <1>19, <1>20, <1>21, <1>22, <1>23, <1>24
     DEF Next, Work, Serve, Read, Execute, Sweep

\* Every open shell is in the map, or about to be closed, or of an ID that was
\* closed under a waiting call.
THEOREM NoOrphan == SessionSpec => []NoOrphanShell
<1>1. OInv => NoOrphanShell
  BY DEF OInv
<1> QED
  BY <1>1, OInvInit, OInvStep, PTL DEF SessionSpec

-----------------------------------------------------------------------------
(***************************************************************************)
(* The session manager implements PersistentShell.                         *)
(***************************************************************************)
LEMMA RefinementInit == Init => Shells!Init
  BY DEF Init, Shells!Init, Targets, Serving, Given, Answers

\* Every step of the session manager is a step of PersistentShell or a stutter.
LEMMA RefinementStep ==
  IInv /\ [Next]_vars => [Shells!Next]_(Shells!vars)
<1> SUFFICES ASSUME IInv, [Next]_vars PROVE Shells!Next \/ UNCHANGED Shells!vars
  OBVIOUS
<1> USE NilAssumption DEF IInv, TypeOK, callVars, shellVars, sweepVars
<1>1. ASSUME NEW c \in Call, Reject(c)
     PROVE  Shells!Fail(c)
  <2>1. Answers[c] = "none" /\ Answers' = [Answers EXCEPT ![c] = "error"]
    BY <1>1 DEF Reject, Goto, Answers
  <2>2. UNCHANGED <<req, Targets, Given, ended>>
    BY <1>1 DEF Reject, Targets, Given
  <2>3. Given[c] = Nil /\ Nil \notin Serving /\ UNCHANGED <<Serving, job>>
    BY <1>1 DEF Reject, Given, Fresh, Serving
  <2> QED
    BY <1>1, <2>1, <2>2, <2>3 DEF Shells!Fail, Shells!Answer
<1>2. ASSUME NEW c \in Call, GetSession(c) PROVE UNCHANGED Shells!vars
  BY <1>2
     DEF GetSession, Goto, Fresh, Shells!vars, Targets, Serving, Given,
         Answers
<1>3. ASSUME NEW c \in Call, CreateSession(c)
     PROVE  Shells!Start(c)
  <2>1. Targets[c] = Nil /\ Targets' = [Targets EXCEPT ![c] = req[c]]
    BY <1>3 DEF CreateSession, Fresh, Targets
  <2>2. Serving' = Serving \cup {c}
    BY <1>3 DEF CreateSession, Serving
  <2>3. UNCHANGED <<req, job, Given, ended, Answers>>
    BY <1>3 DEF CreateSession, Goto, Fresh, Given, Answers
  <2> QED
    BY <1>3, <2>1, <2>2, <2>3 DEF Shells!Start
<1>4. ASSUME NEW c \in Call, Lock(c) PROVE UNCHANGED Shells!vars
  BY <1>4 DEF Lock, Goto, Shells!vars, Targets, Serving, Given, Answers
<1>5. ASSUME NEW c \in Call, WriteFails(c)
     PROVE  Shells!Fail(c)
  <2>1. Answers[c] = "none" /\ Answers' = [Answers EXCEPT ![c] = "error"]
    BY <1>5 DEF WriteFails, Goto, Answers
  <2>2. UNCHANGED <<req, Targets, Given, ended>>
    BY <1>5 DEF WriteFails, Targets, Given
  <2>3. Given[c] = Nil /\ Nil \notin Serving /\ UNCHANGED <<Serving, job>>
    BY <1>5 DEF WriteFails, Given, Fresh, Serving
  <2> QED
    BY <1>5, <2>1, <2>2, <2>3 DEF Shells!Fail, Shells!Answer
<1>6. ASSUME NEW c \in Call, WriteCommand(c)
     PROVE  Shells!Next
  <2>1. Answers[c] = "none" /\ UNCHANGED Answers
    BY <1>6 DEF WriteCommand, Goto, Answers
  <2>2. session[c] \in Call
    BY <1>6 DEF WriteCommand, Located, Holding
  <2>3. Given[c] = Nil /\ Given' = [Given EXCEPT ![c] = session[c]]
    BY <1>6 DEF WriteCommand, Fresh, Given
  <2>4. Targets[session[c]] = req[c]
    BY <1>6, <2>2 DEF WriteCommand, Located, Holding, Targets
  <2>5. session[c] \in Serving => job[session[c]] = Nil
    BY <1>6, <2>2 DEF WriteCommand, AtWork, Locked, Holding, Serving
  <2>6. job' = IF session[c] \in Serving THEN [job EXCEPT ![session[c]] = c]
               ELSE job
    BY <1>6, <2>2 DEF WriteCommand, Serving
  <2>7. UNCHANGED <<req, Targets, Serving, ended>>
    BY <1>6 DEF WriteCommand, Targets, Serving
  <2> QED
    BY <2>1, <2>2, <2>3, <2>4, <2>5, <2>6, <2>7 DEF Shells!Give, Shells!Next
<1>7. ASSUME NEW c \in Call, Succeed(c)
     PROVE  Shells!Succeed(c)
  <2>1. Answers[c] = "none" /\ Answers' = [Answers EXCEPT ![c] = "ok"]
    BY <1>7 DEF Succeed, Goto, Answers
  <2>2. c \in ended
    BY <1>7 DEF Succeed, AtWork
  <2>3. UNCHANGED <<req, Targets, Serving, job, Given, ended>>
    BY <1>7 DEF Succeed, Targets, Serving, Given
  <2> QED
    BY <1>7, <2>1, <2>2, <2>3 DEF Shells!Succeed, Shells!Answer
<1>8. ASSUME NEW c \in Call, ForgetOnReadError(c) PROVE UNCHANGED Shells!vars
  BY <1>8
     DEF ForgetOnReadError, Forget, Goto, Shells!vars, Targets, Serving,
         Given, Answers
<1>9. ASSUME NEW c \in Call, ForgetOnTimeout(c) PROVE UNCHANGED Shells!vars
  BY <1>9
     DEF ForgetOnTimeout, Forget, Goto, Shells!vars, Targets, Serving, Given,
         Answers
<1>10. ASSUME NEW c \in Call, CloseAfterFailure(c)
     PROVE  Shells!Fail(c)
  <2>1. Answers[c] = "none" /\ Answers' = [Answers EXCEPT ![c] = "error"]
    BY <1>10 DEF CloseAfterFailure, Shut, Goto, Answers
  <2>2. UNCHANGED <<req, Targets, Given, ended>>
    BY <1>10 DEF CloseAfterFailure, Shut, Targets, Given, Located
  <2>3. Given[c] = session[c] /\ session[c] \in Call
    BY <1>10 DEF CloseAfterFailure, Given, AtWork, Located, Holding
  <2>4. Serving' = Serving \ {session[c]} /\ job' = job
    BY <1>10, <2>3 DEF CloseAfterFailure, Shut, Serving
  <2> QED
    BY <1>10, <2>1, <2>2, <2>3, <2>4 DEF Shells!Fail, Shells!Answer
<1>11. ASSUME NEW c \in Call, Read(c) PROVE UNCHANGED Shells!vars
  BY <1>11
     DEF Read, ReadEndMarker, ReadEOF, ReadClosed, Deliver, Shells!vars,
         Targets, Serving, Given, Answers
<1>12. ASSUME NEW s \in Call, ShellFinishes(s)
     PROVE  Shells!Finish(s)
  <2>1. s \in Serving
    BY <1>12 DEF ShellFinishes, Serving
  <2>2. UNCHANGED <<req, Targets, Serving, Given, Answers>>
    BY <1>12 DEF ShellFinishes, Targets, Serving, Given, Answers
  <2> QED
    BY <1>12, <2>1, <2>2 DEF ShellFinishes, Shells!Finish
<1>13. ASSUME NEW s \in Call, ShellExits(s)
     PROVE  Shells!Stop(s)
  <2>1. s \in Serving /\ Serving' = Serving \ {s}
    BY <1>13 DEF ShellExits, Serving
  <2>2. UNCHANGED <<req, Targets, job, Given, ended, Answers>>
    BY <1>13 DEF ShellExits, Targets, Given, Answers
  <2> QED
    BY <1>13, <2>1, <2>2 DEF Shells!Stop
<1>14. ASSUME NEW s \in Call, OrphanEnds(s)
     PROVE  Shells!Abandon(s)
  <2>1. s \notin Serving
    BY <1>14 DEF OrphanEnds, Serving
  <2>2. UNCHANGED <<req, Targets, Serving, Given, ended, Answers>>
    BY <1>14 DEF OrphanEnds, Targets, Serving, Given, Answers
  <2> QED
    BY <1>14, <2>1, <2>2 DEF OrphanEnds, Shells!Abandon
<1>15. ASSUME NEW i \in SessionID, CloseSession(i)
     PROVE  Shells!Next \/ UNCHANGED Shells!vars
  <2>1. sessions[i] \in Call /\ pipes[sessions[i]] = "open"
    BY <1>15 DEF CloseSession, MappedSessionsOpen
  <2>2. Serving' = Serving \ {sessions[i]}
    BY <1>15, <2>1 DEF CloseSession, Shut, Serving
  <2>3. UNCHANGED <<req, Targets, job, Given, ended, Answers>>
    BY <1>15, <2>1 DEF CloseSession, Shut, Targets, Given, Answers
  <2>4. CASE sessions[i] \in Serving
    BY <2>1, <2>2, <2>3, <2>4 DEF Shells!Next, Shells!Stop
  <2>5. CASE sessions[i] \notin Serving
    BY <2>2, <2>3, <2>5 DEF Shells!vars
  <2> QED
    BY <2>4, <2>5
<1>16. ASSUME NEW i \in SessionID, AskAgain(i) PROVE UNCHANGED Shells!vars
  BY <1>16 DEF AskAgain, Shells!vars, Targets, Serving, Given, Answers
<1>17. ASSUME NEW s \in Call, HalfHourPasses(s) PROVE UNCHANGED Shells!vars
  BY <1>17 DEF HalfHourPasses, Shells!vars, Targets, Serving, Given, Answers
<1>18. ASSUME SweepStart PROVE UNCHANGED Shells!vars
  BY <1>18 DEF SweepStart, Shells!vars, Targets, Serving, Given, Answers
<1>19. ASSUME NEW i \in SessionID, SweepSpares(i) PROVE UNCHANGED Shells!vars
  BY <1>19 DEF SweepSpares, Shells!vars, Targets, Serving, Given, Answers
<1>20. ASSUME NEW i \in SessionID, SweepCondemns(i) PROVE UNCHANGED Shells!vars
  BY <1>20 DEF SweepCondemns, Shells!vars, Targets, Serving, Given, Answers
<1>21. ASSUME SweepCloses
     PROVE  Shells!Next \/ UNCHANGED Shells!vars
  <2>1. doomed \in Call /\ pipes[doomed] = "open"
    BY <1>21 DEF SweepCloses, MappedSessionsOpen, SweepMapped, ID
  <2>2. Serving' = Serving \ {doomed}
    BY <1>21, <2>1 DEF SweepCloses, Shut, Serving
  <2>3. UNCHANGED <<req, Targets, job, Given, ended, Answers>>
    BY <1>21, <2>1 DEF SweepCloses, Shut, Targets, Given, Answers
  <2>4. CASE doomed \in Serving
    BY <2>1, <2>2, <2>3, <2>4 DEF Shells!Next, Shells!Stop
  <2>5. CASE doomed \notin Serving
    BY <2>2, <2>3, <2>5 DEF Shells!vars
  <2> QED
    BY <2>4, <2>5
<1>22. CASE UNCHANGED vars
  BY <1>22 DEF vars, Shells!vars, Targets, Serving, Given, Answers
<1> HIDE DEF IInv, TypeOK
<1> QED
  BY <1>1, <1>2, <1>3, <1>4, <1>5, <1>6, <1>7, <1>8, <1>9, <1>10, <1>11, <1>12,
     <1>13, <1>14, <1>15, <1>16, <1>17, <1>18, <1>19, <1>20, <1>21, <1>22
     DEF Next, Work, Serve, Read, Execute, Sweep, Shells!Next

\* For every client the shared, locked, swept sessions are shells that execute
\* one command at a time and serve nobody after a call has failed in them.
THEOREM Refinement == SessionSpec => ImplementsPersistentShell
  BY RefinementInit, RefinementStep, Invariance, PTL
     DEF SessionSpec, ImplementsPersistentShell, Shells!Spec
=============================================================================
