-------------------------- MODULE CommandStreamProofs --------------------------
(***************************************************************************)
(* Proofs about CommandStream, for any number of calls, any amount of text *)
(* and whatever commands do.                                               *)
(*                                                                         *)
(* A result is right because of what can precede and follow a marker in    *)
(* the stream at each point of the script.  IInv states it: how far the    *)
(* shell has come, what the stream still carries then, and where the       *)
(* reader stands in it.                                                    *)
(***************************************************************************)
EXTENDS CommandStream, SearchLemmas, SequenceTheorems, TLAPS

AfterStart   == <<"command", "status", "end">>
AfterCommand == <<"status", "end">>
AfterStatus  == <<"end">>

\* How far the shell has come with the script of the current call.
Progress ==
    /\ stdin \in {Script, AfterStart, AfterCommand, AfterStatus, <<>>}
    /\ n = 0 => phase = "idle"
    /\ phase = "idle" => stdin = <<>> /\ ~foreground
    /\ foreground => stdin \in {AfterCommand, AfterStatus, <<>>}
    /\ foreground /\ stdin # AfterCommand => ran[n].read \/ ran[n].derailed
    /\ n \in Calls /\ ran[n].derailed => stdin = <<>>
    /\ window = IF stdin = Script THEN n - 1 ELSE n
    /\ phase = "waiting" /\ started => stdin # Script
    /\ phase = "waiting" /\ ~started => output = <<>>
    /\ stdin = Script => ran[n] = NoRecord

\* Where the status of the command is kept before the end marker has it.
Statuses ==
    ~foreground =>
        /\ stdin = AfterCommand => last = ran[n].status
        /\ stdin = AfterStatus /\ ~ran[n].read => saved = ran[n].status

\* Calls to come have left no trace.
Future ==
    \A c \in Calls : c > n =>
        /\ ~Ok(c)
        /\ ran[c] = NoRecord

At(i, kind) == i \in 1..Len(stdout) /\ stdout[i].kind = kind

\* What a background process writes.
Foreign(k, c) == k.kind = "text" /\ ~k.own /\ k.call = c

\* No call waits: only background processes have written since the last end.
Idle ==
    phase = "idle" => \A i \in 1..Len(stdout) : Foreign(stdout[i], n)

\* A start marker has the chunks of the call before it and its own behind it.
\* It was written in the middle of a line if a line is open before it.
StartMarker ==
    phase = "waiting" =>
        /\ stdin = Script => \A i \in 1..Len(stdout) : Foreign(stdout[i], n - 1)
        /\ \A i \in 1..Len(stdout) : At(i, "start") =>
              /\ stdout[i] = Printed("start", n, -1)
              /\ \A j \in 1..i - 1 : Foreign(stdout[j], n - 1)
              /\ \A j \in i + 1..Len(stdout) :
                    stdout[j].call = n /\ stdout[j].kind # "start"
              /\ ran[n].glued <=> i > 1 /\ ~stdout[i - 1].nl
        /\ started => /\ ~ran[n].glued
                      /\ \A i \in 1..Len(stdout) :
                            stdout[i].call = n /\ stdout[i].kind # "start"
                      /\ \A i \in 1..Len(output) : output[i].call = n
        /\ stdin # Script /\ ~started /\ ~ran[n].glued =>
              \E i \in 1..Len(stdout) : At(i, "start")

\* An end marker begins a line, has the status of the command unless the
\* command read lines of the script, and is the last word of the call.  It is
\* there once the script is read, unless the command kept the shell from it.
EndMarker ==
    phase = "waiting" =>
        /\ \A i \in 1..Len(stdout) : At(i, "end") =>
              /\ stdin = <<>> /\ ~foreground /\ ~ran[n].derailed
              /\ stdout[i].nl /\ stdout[i].call = n
              /\ i > 1 => stdout[i - 1].nl
              /\ \A j \in i + 1..Len(stdout) : stdout[j].kind = "text" /\ ~stdout[j].own
              /\ ~ran[n].read => stdout[i].status = ran[n].status
        /\ /\ stdin = <<>> /\ ~foreground
           /\ ~ran[n].read /\ ~ran[n].derailed /\ ~ran[n].glued
           => \E i \in 1..Len(stdout) : At(i, "end")

\* What is collected and what is still to be read is what the command wrote.
Whole ==
    phase = "waiting" /\ ~ran[n].glued => OwnText(ran[n].text, output \o stdout)

\* A result is final, and right.
Results ==
    /\ OutputIsolated
    /\ OutputWhole
    /\ ExitCodeKept
    /\ n \in Calls /\ Ok(n) => phase = "idle"

IInv ==
    /\ TypeOK
    /\ Progress
    /\ Statuses
    /\ Future
    /\ Idle
    /\ StartMarker
    /\ EndMarker
    /\ Whole
    /\ Results

-----------------------------------------------------------------------------
(***************************************************************************)
(* A command's own text in a stream that grows at its end and is taken     *)
(* from its start.                                                         *)
(***************************************************************************)
Own(k) == k.kind = "text" /\ k.own

\* No text is all of the command's text in what holds none.
LEMMA OwnNone ==
    ASSUME NEW s \in Seq(Chunk), \A i \in 1..Len(s) : ~Own(s[i])
    PROVE  OwnText(<<>>, s)
<1> DEFINE place == [i \in 1..0 |-> 1]
<1>1. Len(<<>>) = 0 /\ 1..0 = {}
  OBVIOUS
<1>2. place \in [1..Len(<<>>) -> 1..Len(s)]
  BY <1>1
<1>3. \A i \in 1..Len(<<>>) : FALSE
  BY <1>1
<1> HIDE DEF place
<1> QED
  BY <1>2, <1>3 DEF OwnText, Own

\* A chunk that is not the command's leaves its text as it was.
LEMMA OwnOther ==
    ASSUME NEW s \in Seq(Chunk), NEW t \in Seq(Chunk), NEW k \in Chunk,
           OwnText(t, s), ~Own(k)
    PROVE  OwnText(t, Append(s, k))
<1>1. PICK place \in [1..Len(t) -> 1..Len(s)] :
        /\ \A i, j \in 1..Len(t) : i < j => place[i] < place[j]
        /\ \A i \in 1..Len(t) : s[place[i]] = t[i]
        /\ \A m \in 1..Len(s) :
              s[m].kind = "text" /\ s[m].own <=> \E i \in 1..Len(t) : place[i] = m
  BY DEF OwnText
<1> DEFINE u == Append(s, k)
<1>2. /\ Len(u) = Len(s) + 1 /\ u[Len(s) + 1] = k
      /\ \A m \in 1..Len(s) : u[m] = s[m]
  OBVIOUS
<1> HIDE DEF u
<1>3. place \in [1..Len(t) -> 1..Len(u)]
  BY <1>2
<1>4. \A i \in 1..Len(t) : u[place[i]] = t[i]
  BY <1>1, <1>2
<1>5. ASSUME NEW m \in 1..Len(u)
      PROVE  u[m].kind = "text" /\ u[m].own <=> \E i \in 1..Len(t) : place[i] = m
  BY <1>1, <1>2, SMTT(40) DEF Own
<1> QED
  BY <1>1, <1>3, <1>4, <1>5 DEF OwnText, u

\* A chunk that is the command's is the last of its text.
LEMMA OwnMore ==
    ASSUME NEW s \in Seq(Chunk), NEW t \in Seq(Chunk), NEW k \in Chunk,
           OwnText(t, s), Own(k)
    PROVE  OwnText(Append(t, k), Append(s, k))
<1>1. PICK place \in [1..Len(t) -> 1..Len(s)] :
        /\ \A i, j \in 1..Len(t) : i < j => place[i] < place[j]
        /\ \A i \in 1..Len(t) : s[place[i]] = t[i]
        /\ \A m \in 1..Len(s) :
              s[m].kind = "text" /\ s[m].own <=> \E i \in 1..Len(t) : place[i] = m
  BY DEF OwnText
<1> DEFINE u == Append(s, k)
           v == Append(t, k)
           p == [i \in 1..Len(v) |-> IF i = Len(t) + 1 THEN Len(s) + 1 ELSE place[i]]
<1>2. /\ Len(u) = Len(s) + 1 /\ u[Len(s) + 1] = k
      /\ \A m \in 1..Len(s) : u[m] = s[m]
      /\ Len(v) = Len(t) + 1 /\ v[Len(t) + 1] = k
      /\ \A i \in 1..Len(t) : v[i] = t[i]
      /\ Len(s) \in Nat /\ Len(t) \in Nat
  OBVIOUS
<1> HIDE DEF u, v
<1>3. p \in [1..Len(v) -> 1..Len(u)]
  BY <1>2
<1>4. /\ p[Len(t) + 1] = Len(s) + 1
      /\ \A i \in 1..Len(t) : p[i] = place[i] /\ place[i] \in 1..Len(s)
  BY <1>2
<1> HIDE DEF p
<1>5. ASSUME NEW i \in 1..Len(v), NEW j \in 1..Len(v), i < j PROVE p[i] < p[j]
  <2>1. i \in 1..Len(t)
    BY <1>2, <1>5
  <2>2. CASE j = Len(t) + 1
    BY <1>2, <1>4, <2>1, <2>2
  <2>3. CASE j \in 1..Len(t)
    <3>1. place[i] < place[j]
      BY <1>1, <1>5, <2>1, <2>3
    <3> QED
      BY <1>4, <2>1, <2>3, <3>1
  <2> QED
    BY <1>2, <2>2, <2>3
<1>6. \A i \in 1..Len(v) : u[p[i]] = v[i]
  BY <1>1, <1>2, <1>4, SMTT(30)
<1>7. ASSUME NEW m \in 1..Len(u)
      PROVE  u[m].kind = "text" /\ u[m].own <=> \E i \in 1..Len(v) : p[i] = m
  <2>1. CASE m = Len(s) + 1
    BY <1>2, <1>4, <2>1, SMTT(40) DEF Own
  <2>2. CASE m \in 1..Len(s)
    <3>1. u[m].kind = "text" /\ u[m].own <=> \E i \in 1..Len(t) : place[i] = m
      BY <1>1, <1>2, <2>2
    <3>2. \A i \in 1..Len(v) : p[i] = m => i \in 1..Len(t)
      BY <1>2, <1>4, <2>2
    <3>3. \A i \in 1..Len(t) : i \in 1..Len(v) /\ (p[i] = m <=> place[i] = m)
      BY <1>2, <1>4
    <3> QED
      BY <3>1, <3>2, <3>3
  <2> QED
    BY <1>2, <2>1, <2>2
<1> QED
  BY <1>3, <1>5, <1>6, <1>7 DEF OwnText, u, v

\* What follows without the command's text can be left off...
LEMMA OwnPrefix ==
    ASSUME NEW s \in Seq(Chunk), NEW u \in Seq(Chunk), NEW t \in Seq(Chunk),
           OwnText(t, s \o u), \A i \in 1..Len(u) : ~Own(u[i])
    PROVE  OwnText(t, s)
<1>1. PICK place \in [1..Len(t) -> 1..Len(s \o u)] :
        /\ \A i, j \in 1..Len(t) : i < j => place[i] < place[j]
        /\ \A i \in 1..Len(t) : (s \o u)[place[i]] = t[i]
        /\ \A m \in 1..Len(s \o u) :
              (s \o u)[m].kind = "text" /\ (s \o u)[m].own
                  <=> \E i \in 1..Len(t) : place[i] = m
  BY DEF OwnText
<1> DEFINE w == s \o u
<1>2. /\ Len(w) = Len(s) + Len(u) /\ Len(s) \in Nat /\ Len(u) \in Nat
      /\ \A m \in 1..Len(s) : w[m] = s[m]
      /\ \A m \in Len(s) + 1..Len(w) : w[m] = u[m - Len(s)]
  OBVIOUS
<1> HIDE DEF w
<1>3. \A m \in Len(s) + 1..Len(w) : ~Own(w[m])
  BY <1>2
<1>4. ASSUME NEW i \in 1..Len(t) PROVE place[i] \in 1..Len(s)
  <2>1. place[i] \in 1..Len(w) /\ Own(w[place[i]])
    BY <1>1 DEF w, Own
  <2> QED
    BY <1>2, <1>3, <2>1
<1>5. place \in [1..Len(t) -> 1..Len(s)]
  BY <1>4
<1>6. \A i \in 1..Len(t) : s[place[i]] = t[i]
  BY <1>1, <1>2, <1>4 DEF w
<1>7. ASSUME NEW m \in 1..Len(s)
      PROVE  s[m].kind = "text" /\ s[m].own <=> \E i \in 1..Len(t) : place[i] = m
  <2>1. m \in 1..Len(w) /\ w[m] = s[m]
    BY <1>2
  <2> QED
    BY <1>1, <2>1 DEF w
<1> QED
  BY <1>1, <1>5, <1>6, <1>7 DEF OwnText

\* ... and so can what comes before.
LEMMA OwnSuffix ==
    ASSUME NEW s \in Seq(Chunk), NEW u \in Seq(Chunk), NEW t \in Seq(Chunk),
           OwnText(t, u \o s), \A i \in 1..Len(u) : ~Own(u[i])
    PROVE  OwnText(t, s)
<1>1. PICK place \in [1..Len(t) -> 1..Len(u \o s)] :
        /\ \A i, j \in 1..Len(t) : i < j => place[i] < place[j]
        /\ \A i \in 1..Len(t) : (u \o s)[place[i]] = t[i]
        /\ \A m \in 1..Len(u \o s) :
              (u \o s)[m].kind = "text" /\ (u \o s)[m].own
                  <=> \E i \in 1..Len(t) : place[i] = m
  BY DEF OwnText
<1> DEFINE w == u \o s
           p == [i \in 1..Len(t) |-> place[i] - Len(u)]
<1>2. /\ Len(w) = Len(u) + Len(s) /\ Len(s) \in Nat /\ Len(u) \in Nat
      /\ \A m \in 1..Len(u) : w[m] = u[m]
      /\ \A m \in 1..Len(s) : Len(u) + m \in 1..Len(w) /\ w[Len(u) + m] = s[m]
  OBVIOUS
<1> HIDE DEF w
<1>3. ASSUME NEW i \in 1..Len(t)
      PROVE  place[i] \in Int /\ p[i] = place[i] - Len(u) /\ p[i] \in 1..Len(s)
  <2>1. place[i] \in 1..Len(w) /\ Own(w[place[i]])
    BY <1>1 DEF w, Own
  <2> QED
    BY <1>2, <2>1
<1>4. p \in [1..Len(t) -> 1..Len(s)]
  BY <1>3
<1> HIDE DEF p
<1>5. \A i, j \in 1..Len(t) : i < j => p[i] < p[j]
  BY <1>1, <1>2, <1>3
<1>6. ASSUME NEW i \in 1..Len(t) PROVE s[p[i]] = t[i]
  <2>1. s[p[i]] = w[Len(u) + p[i]] /\ Len(u) + p[i] = place[i]
    BY <1>2, <1>3
  <2> QED
    BY <1>1, <2>1 DEF w
<1>7. ASSUME NEW m \in 1..Len(s)
      PROVE  s[m].kind = "text" /\ s[m].own <=> \E i \in 1..Len(t) : p[i] = m
  <2>1. Len(u) + m \in 1..Len(w) /\ w[Len(u) + m] = s[m]
    BY <1>2
  <2>2. s[m].kind = "text" /\ s[m].own <=> \E i \in 1..Len(t) : place[i] = Len(u) + m
    BY <1>1, <2>1 DEF w
  <2>3. \A i \in 1..Len(t) : place[i] = Len(u) + m <=> p[i] = m
    BY <1>2, <1>3
  <2> QED
    BY <2>2, <2>3
<1> QED
  BY <1>4, <1>5, <1>6, <1>7 DEF OwnText

-----------------------------------------------------------------------------
(***************************************************************************)
(* The reader's next line.                                                 *)
(***************************************************************************)
LEMMA LineFound ==
    ASSUME stdout \in Seq(Chunk)
    PROVE  /\ LineLength \in 0..Len(stdout)
           /\ LineLength = 0 => \A i \in 1..Len(stdout) : ~stdout[i].nl
           /\ LineLength > 0 => /\ stdout[LineLength].nl
                                /\ \A i \in 1..LineLength - 1 : ~stdout[i].nl
<1> DEFINE I == {i \in 1..Len(stdout) : stdout[i].nl}
<1>1. LineLength = IF I # {} THEN Min(I) ELSE 0
  BY DEF LineLength, SelectInSeq
<1>2. Len(stdout) \in Nat /\ I \in SUBSET (1..Len(stdout))
  OBVIOUS
<1>3. CASE I = {}
  BY <1>1, <1>2, <1>3
<1>4. CASE I # {}
  <2>1. Min(I) \in I /\ \A i \in I : Min(I) <= i
    BY <1>2, <1>4, FirstPlace
  <2> DEFINE m == Min(I)
  <2>2. LineLength = m
    BY <1>1, <1>4
  <2>3. m \in I /\ \A i \in I : m <= i
    BY <2>1
  <2> HIDE DEF m
  <2>4. m \in 1..Len(stdout) /\ stdout[m].nl
    BY <2>3
  <2>5. \A i \in 1..m - 1 : i \notin I
    BY <1>2, <2>3, <2>4
  <2>6. \A i \in 1..m - 1 : ~stdout[i].nl
    BY <1>2, <2>4, <2>5
  <2> QED
    BY <1>2, <2>2, <2>4, <2>6
<1> QED
  BY <1>3, <1>4

\* A line the reader takes is the stream's up to the first line end, and the
\* rest stays in the stream.
LEMMA LineRead ==
    ASSUME TypeOK, ReadLine
    PROVE  /\ phase = "waiting"
           /\ LineLength \in 1..Len(stdout)
           /\ stdout[LineLength].nl
           /\ \A i \in 1..LineLength - 1 : ~stdout[i].nl
           /\ NextLine \in Seq(Chunk) /\ Len(NextLine) = LineLength
           /\ \A i \in 1..LineLength : NextLine[i] = stdout[i]
           /\ stdout' \in Seq(Chunk) /\ Len(stdout') = Len(stdout) - LineLength
           /\ \A i \in 1..Len(stdout') : stdout'[i] = stdout[LineLength + i]
           /\ stdout = NextLine \o stdout'
<1>1. stdout \in Seq(Chunk) /\ Len(stdout) \in Nat
  BY DEF TypeOK
<1>2. /\ phase = "waiting"
      /\ LineLength \in 1..Len(stdout)
      /\ stdout[LineLength].nl
      /\ \A i \in 1..LineLength - 1 : ~stdout[i].nl
      /\ NextLine = SubSeq(stdout, 1, LineLength)
      /\ stdout' = SubSeq(stdout, LineLength + 1, Len(stdout))
  BY <1>1, LineFound DEF ReadLine, NextLine
<1> DEFINE L == LineLength
<1> HIDE DEF L
<1>3. /\ L \in 1..Len(stdout)
      /\ NextLine = SubSeq(stdout, 1, L)
      /\ stdout' = SubSeq(stdout, L + 1, Len(stdout))
  BY <1>2 DEF L
<1>4. /\ NextLine \in Seq(Chunk) /\ Len(NextLine) = L
      /\ \A i \in 1..L : NextLine[i] = stdout[i]
  <2>1. \A i \in 1..L : stdout[i] \in Chunk
    BY <1>1, <1>3
  <2> QED
    BY <1>1, <1>3, <2>1, SubSeqProperties
<1>5. /\ stdout' \in Seq(Chunk) /\ Len(stdout') = Len(stdout) - L
      /\ \A i \in 1..Len(stdout') : stdout'[i] = stdout[L + i]
  <2>1. \A i \in L + 1..Len(stdout) : stdout[i] \in Chunk
    BY <1>1, <1>3
  <2>2. L + 1 \in Int /\ (L + 1 <= Len(stdout) \/ L = Len(stdout))
    BY <1>1, <1>3
  <2>3. stdout' \in Seq(Chunk) /\ Len(stdout') = Len(stdout) - L
    BY <1>1, <1>3, <2>1, <2>2, SubSeqProperties
  <2>4. \A i \in 1..Len(stdout') : stdout'[i] = stdout[L + i]
    BY <1>1, <1>3, <2>3
  <2> QED
    BY <2>3, <2>4
<1>6. stdout = NextLine \o stdout'
  <2>1. SubSeq(stdout, 1, L) \o SubSeq(stdout, L + 1, Len(stdout)) = SubSeq(stdout, 1, Len(stdout))
    BY <1>1, <1>3, ConcatAdjacentSubSeq
  <2> QED
    BY <1>1, <1>3, <2>1, SubSeqFull
<1> QED
  BY <1>2, <1>4, <1>5, <1>6 DEF L

-----------------------------------------------------------------------------
(***************************************************************************)
(* Types.                                                                  *)
(***************************************************************************)
\* While a line of the script is left, its command runs or the call waits,
\* there is a call.
LEMMA InCall ==
    ASSUME TypeOK, Progress, stdin # <<>> \/ foreground \/ phase = "waiting"
    PROVE  n \in Calls
BY DEF TypeOK, Progress, Calls

\* The script is read line by line.
LEMMA Lines ==
    /\ Head(Script) = "start" /\ Tail(Script) = AfterStart
    /\ Head(AfterStart) = "command" /\ Tail(AfterStart) = AfterCommand
    /\ Head(AfterCommand) = "status" /\ Tail(AfterCommand) = AfterStatus
    /\ Head(AfterStatus) = "end" /\ Tail(AfterStatus) = <<>>
    /\ AfterStart # Script
    /\ AfterCommand \notin {Script, AfterStart}
    /\ AfterStatus \notin {Script, AfterStart, AfterCommand}
    /\ <<>> \notin {Script, AfterStart, AfterCommand, AfterStatus}
BY DEF Script, AfterStart, AfterCommand, AfterStatus

\* The script is a sequence of lines.
LEMMA ScriptTyped == Script \in Seq(Line) /\ <<>> \o Script = Script
BY DEF Script, Line

\* What is written to stdout is a chunk.
LEMMA ChunkTyped ==
    ASSUME TypeOK
    PROVE  /\ \A own, nl \in BOOLEAN : Text(own, nl) \in Chunk
           /\ \A kind \in {"start", "newline", "end"}, st \in Status \cup {-1} :
                 Printed(kind, n, st) \in Chunk
BY DEF TypeOK, Text, Printed, Chunk

\* Types hold at the start.
LEMMA TypeInit == Init => TypeOK
<1> SUFFICES ASSUME Init PROVE TypeOK
  OBVIOUS
<1>1. NoResult \in Result /\ NoRecord \in Record
  BY DEF NoResult, NoRecord, Result, Record
<1>2. /\ <<>> \in Seq(Chunk) /\ <<>> \in Seq(Line) /\ -1 \in Status \cup {-1}
      /\ {} \in SUBSET Calls /\ 0 \in 0..MaxCalls /\ 0 \in 0..MaxText
  BY BoundsAssumption
<1> HIDE DEF Calls, Chunk, Line
<1> QED
  BY <1>1, <1>2 DEF Init, TypeOK

\* The record of the current call changes in one of its fields.
LEMMA RecordTyped ==
    ASSUME TypeOK
    PROVE  /\ \A b \in BOOLEAN :
                 /\ [ran EXCEPT ![n].read = b] \in [Calls -> Record]
                 /\ [ran EXCEPT ![n].derailed = b] \in [Calls -> Record]
                 /\ [ran EXCEPT ![n].glued = b] \in [Calls -> Record]
           /\ \A st \in Status : [ran EXCEPT ![n].status = st] \in [Calls -> Record]
           /\ \A k \in Chunk :
                 [ran EXCEPT ![n].text = Append(@, k)] \in [Calls -> Record]
<1>1. ran \in [Calls -> Record]
  BY DEF TypeOK
<1> HIDE DEF Calls, Chunk
<1>2. ASSUME NEW b \in BOOLEAN
      PROVE  /\ [ran EXCEPT ![n].read = b] \in [Calls -> Record]
             /\ [ran EXCEPT ![n].derailed = b] \in [Calls -> Record]
             /\ [ran EXCEPT ![n].glued = b] \in [Calls -> Record]
  BY <1>1 DEF Record
<1>3. ASSUME NEW st \in Status PROVE [ran EXCEPT ![n].status = st] \in [Calls -> Record]
  BY <1>1 DEF Record
<1>4. ASSUME NEW k \in Chunk
      PROVE  [ran EXCEPT ![n].text = Append(@, k)] \in [Calls -> Record]
  <2>1. CASE n \in Calls
    <3>1. Append(ran[n].text, k) \in Seq(Chunk)
      BY <1>1, <2>1 DEF Record
    <3> QED
      BY <1>1, <2>1, <3>1 DEF Record
  <2>2. CASE n \notin Calls
    BY <1>1, <2>2
  <2> QED
    BY <2>1, <2>2
<1> QED
  BY <1>2, <1>3, <1>4

\* Every step keeps the types.
LEMMA TypeStep ==
    ASSUME TypeOK, Progress, [Next]_vars
    PROVE  TypeOK'
<1> USE DEF TypeOK
<1>1. CASE Issue
  <2>1. stdin' \in Seq(Line)
    BY <1>1, ScriptTyped DEF Issue, Progress
  <2>2. n' \in 0..MaxCalls /\ texts' \in 0..MaxText
    BY <1>1, BoundsAssumption DEF Issue
  <2>3. output' \in Seq(Chunk)
    BY <1>1 DEF Issue
  <2> QED
    BY <1>1, <2>1, <2>2, <2>3 DEF Issue
<1>2. CASE PrintStart
  <2>1. Tail(stdin) \in Seq(Line) /\ stdout' \in Seq(Chunk)
    BY <1>2, ChunkTyped DEF PrintStart, ShellReads, ShellAt
  <2>2. MidLine \in BOOLEAN
    BY DEF MidLine
  <2>3. ran' \in [Calls -> Record]
    BY <1>2, <2>2, RecordTyped DEF PrintStart
  <2> QED
    BY <1>2, <2>1, <2>3 DEF PrintStart, ShellReads, ShellAt
<1>3. CASE StartCommand
  BY <1>3 DEF StartCommand, ShellReads, ShellAt
<1>4. CASE CommandWrites
  <2>1. PICK nl \in BOOLEAN :
          /\ stdout' = Append(stdout, Text(TRUE, nl))
          /\ ran' = [ran EXCEPT ![n].text = Append(@, Text(TRUE, nl))]
    BY <1>4 DEF CommandWrites
  <2>2. Text(TRUE, nl) \in Chunk /\ stdout \in Seq(Chunk)
    BY ChunkTyped
  <2>3. ran' \in [Calls -> Record]
    BY <2>1, <2>2, RecordTyped
  <2>4. texts' \in 0..MaxText
    BY <1>4, BoundsAssumption DEF CommandWrites
  <2>5. stdout' \in Seq(Chunk)
    BY ONLY <2>1, <2>2, AppendProperties
  <2> QED
    BY <1>4, <2>3, <2>4, <2>5 DEF CommandWrites
<1>5. CASE BackgroundWrites
  <2>1. PICK nl \in BOOLEAN : stdout' = Append(stdout, Text(FALSE, nl))
    BY <1>5 DEF BackgroundWrites
  <2>2. Text(FALSE, nl) \in Chunk /\ stdout \in Seq(Chunk)
    BY ChunkTyped
  <2>4. stdout' \in Seq(Chunk)
    BY ONLY <2>1, <2>2, AppendProperties
  <2>3. texts' \in 0..MaxText
    BY <1>5, BoundsAssumption DEF BackgroundWrites
  <2> QED
    BY <1>5, <2>3, <2>4 DEF BackgroundWrites
<1>6. CASE CommandReads
  <2>1. ran' \in [Calls -> Record]
    BY <1>6, RecordTyped DEF CommandReads
  <2> QED
    BY <1>6, <2>1 DEF CommandReads
<1>7. CASE CommandEnds
  <2>1. ran' \in [Calls -> Record]
    BY <1>7, RecordTyped DEF CommandEnds
  <2>2. n \in Calls
    BY <1>7, InCall DEF CommandEnds
  <2> QED
    BY <1>7, <2>1, <2>2 DEF CommandEnds
<1>8. CASE SaveStatus
  BY <1>8, StatusAssumption DEF SaveStatus, ShellReads, ShellAt
<1>9. CASE PrintEnd
  <2>1. stdout' \in Seq(Chunk)
    BY <1>9, ChunkTyped DEF PrintEnd
  <2> QED
    BY <1>9, <2>1 DEF PrintEnd, ShellReads, ShellAt
<1>10. CASE Skip
  <2>1. stdout' \in Seq(Chunk)
    BY <1>10, LineRead DEF Skip
  <2>2. started' \in BOOLEAN
    BY <1>10 DEF Skip, IsStart
  <2> QED
    BY <1>10, <2>1, <2>2 DEF Skip, shellVars
<1>11. CASE CollectLine
  <2>1. stdout' \in Seq(Chunk) /\ NextLine \in Seq(Chunk)
    BY <1>11, LineRead DEF CollectLine
  <2> QED
    BY <1>11, <2>1 DEF CollectLine, shellVars
<1>12. CASE Succeed
  <2>1. stdout' \in Seq(Chunk) /\ NextLine[1] \in Chunk
    BY <1>12, LineRead DEF Succeed
  <2>2. NextLine[1].status \in Status \cup {-1}
    BY <2>1 DEF Chunk
  <2>3. [kind |-> "ok", output |-> output, exit_code |-> NextLine[1].status] \in Result
    BY <2>2 DEF Result
  <2>4. result' \in [Calls -> Result]
    BY <1>12, <2>3 DEF Succeed
  <2> QED
    BY <1>12, <2>1, <2>4 DEF Succeed, shellVars
<1>13. CASE Fail /\ UNCHANGED <<n, remote, shellVars, started, output, ran>>
            /\ stdout' \in Seq(Chunk)
  <2>1. ASSUME NEW kind \in {"beforeMarkers", "error"} PROVE Failed(kind) \in Result
    <3>1. Failed(kind) = [kind |-> kind, output |-> <<>>, exit_code |-> -1]
      BY DEF Failed, NoResult
    <3>2. <<>> \in Seq(Chunk) /\ -1 \in Status \cup {-1}
      OBVIOUS
    <3> QED
      BY <3>1, <3>2 DEF Result
  <2>2. result' \in [Calls -> Result]
    BY <1>13, <2>1 DEF Fail
  <2> QED
    BY <1>13, <2>2 DEF Fail, shellVars
<1>14. CASE BadStatus
  BY <1>13, <1>14, LineRead DEF BadStatus
<1>15. CASE GiveUp
  BY <1>13, <1>15 DEF GiveUp
<1>16. CASE UNCHANGED vars
  BY <1>16 DEF vars, shellVars
<1>17. CASE ReadIncomplete \/ DerailShell
  <2>1. Derail
    BY <1>17 DEF ReadIncomplete, DerailShell
  <2>2. ran' \in [Calls -> Record]
    BY <2>1, RecordTyped DEF Derail
  <2>3. stdin' \in Seq(Line)
    BY <2>1 DEF Derail
  <2> QED
    BY <2>1, <2>2, <2>3 DEF Derail
<1> QED
  BY <1>1, <1>2, <1>3, <1>4, <1>5, <1>6, <1>7, <1>8, <1>9, <1>10, <1>11, <1>12,
     <1>14, <1>15, <1>16, <1>17 DEF Next, Shell, Gateway

-----------------------------------------------------------------------------
(***************************************************************************)
(* The steps of the shell and its commands.                                *)
(***************************************************************************)
\* Where the shell is in the script of a call that waits...
LEMMA ScriptAt ==
    ASSUME TypeOK, Progress, NEW line, ShellAt(line)
    PROVE  /\ phase = "waiting" /\ n \in Calls /\ ~foreground
           /\ line = "start"   => stdin = Script
           /\ line = "command" => stdin = AfterStart
           /\ line = "status"  => stdin = AfterCommand
           /\ line = "end"     => stdin = AfterStatus
<1>1. n \in Calls /\ ~foreground /\ stdin # <<>>
  BY InCall DEF ShellAt
<1>2. phase = "waiting"
  BY <1>1 DEF ShellAt, Progress, TypeOK
<1> QED
  BY <1>1, <1>2, Lines DEF ShellAt, Progress

\* ... and each line it reads is gone.
LEMMA ScriptRead ==
    ASSUME TypeOK, Progress, NEW line, ShellReads(line)
    PROVE  /\ phase = "waiting" /\ n \in Calls /\ ~foreground
           /\ line = "start"   => stdin = Script       /\ stdin' = AfterStart
           /\ line = "command" => stdin = AfterStart   /\ stdin' = AfterCommand
           /\ line = "status"  => stdin = AfterCommand /\ stdin' = AfterStatus
           /\ line = "end"     => stdin = AfterStatus  /\ stdin' = <<>>
BY ScriptAt, Lines DEF ShellReads

\* A step that gives no result, or none that is ok, and writes the record of
\* the current call only.
LEMMA ResultsFrame ==
    ASSUME TypeOK, TypeOK', Results, Future, n' = n, n \in Calls, ~Ok(n)',
           \A c \in Calls : c # n => result'[c] = result[c] /\ ran'[c] = ran[c]
    PROVE  Results' /\ Future'
<1>1. \A c \in Calls : c # n => (Ok(c)' <=> Ok(c))
  BY DEF Ok
<1>2. OutputIsolated'
  BY <1>1 DEF Results, OutputIsolated, Ok
<1>3. OutputWhole'
  BY <1>1 DEF Results, OutputWhole, Ok
<1>4. ExitCodeKept'
  BY <1>1 DEF Results, ExitCodeKept, Ok
<1>5. Future'
  BY <1>1 DEF Future, TypeOK, Calls
<1> QED
  BY <1>2, <1>3, <1>4, <1>5 DEF Results

\* A step that leaves the results and the records as they are.
LEMMA ResultsKept ==
    ASSUME Results, Future, n' = n, phase' = phase, result' = result, ran' = ran
    PROVE  Results' /\ Future'
BY DEF Results, Future, OutputIsolated, OutputWhole, ExitCodeKept, Ok

\* A chunk is written behind the others.
LEMMA Appended ==
    ASSUME TypeOK, NEW k \in Chunk, stdout' = Append(stdout, k)
    PROVE  /\ Len(stdout') = Len(stdout) + 1 /\ Len(stdout) \in Nat
           /\ stdout'[Len(stdout) + 1] = k
           /\ \A i \in 1..Len(stdout) : stdout'[i] = stdout[i]
           /\ output \o stdout' = Append(output \o stdout, k)
           /\ output \o stdout \in Seq(Chunk)
<1>1. stdout \in Seq(Chunk) /\ output \in Seq(Chunk)
  BY DEF TypeOK
<1> QED
  BY <1>1

\* The steps of calls, shell, command and reader keep the invariant: a call
\* writes its script to an idle shell.
LEMMA StepIssue ==
    ASSUME IInv, TypeOK', Issue
    PROVE  IInv'
<1> USE DEF IInv
<1>1. /\ stdin = <<>> /\ ~foreground /\ stdin' = Script
      /\ window = n /\ n' = n + 1 /\ n \in Nat /\ n' \in Calls
  <2>1. phase = "idle" /\ n < MaxCalls /\ n' = n + 1 /\ stdin' = stdin \o Script
    BY DEF Issue
  <2>2. stdin = <<>> /\ ~foreground
    BY <2>1 DEF Progress
  <2>3. stdin' = Script /\ window = n
    BY <2>1, <2>2, Lines, ScriptTyped DEF Progress
  <2>4. n \in Nat /\ n + 1 \in Calls
    BY <2>1, BoundsAssumption DEF TypeOK, Calls
  <2> QED
    BY <2>1, <2>2, <2>3, <2>4
<1>2. /\ phase' = "waiting" /\ ~started' /\ output' = <<>>
      /\ UNCHANGED <<foreground, last, saved, window, stdout, result, ran>>
  BY DEF Issue
<1>3. ran[n'] = NoRecord /\ ~Ok(n')
  BY <1>1 DEF Future
<1>4. \A i \in 1..Len(stdout) : Foreign(stdout'[i], n' - 1) /\ n' - 1 = n
  BY <1>1, <1>2 DEF Issue, Idle
<1>5. Progress'
  <2>1. ~ran'[n'].derailed
    BY <1>2, <1>3 DEF NoRecord
  <2> QED
    BY <1>1, <1>2, <1>3, <2>1, Lines DEF Progress
<1>6. Statuses'
  BY <1>1, Lines DEF Statuses
<1>7. Future'
  BY <1>1, <1>2 DEF Future, Ok, Calls
<1>8. Idle'
  BY <1>2 DEF Idle
<1>9. StartMarker'
  BY <1>1, <1>2, <1>4 DEF StartMarker, At, Foreign
<1>10. EndMarker'
  BY <1>1, <1>2, <1>4, Lines DEF EndMarker, At, Foreign
<1>11. Whole'
  <2>1. OwnText(<<>>, stdout)
    BY <1>2, <1>4, OwnNone DEF TypeOK, Own, Foreign
  <2>2. output' \o stdout' = stdout
    BY <1>2 DEF TypeOK
  <2> QED
    BY <1>2, <1>3, <2>1, <2>2 DEF Whole, NoRecord
<1>12. Results'
  <2>1. ~Ok(n)'
    BY <1>2, <1>3 DEF Ok
  <2> QED
    BY <1>2, <1>3, <2>1 DEF Results, OutputIsolated, OutputWhole, ExitCodeKept, Ok
<1> QED
  BY <1>5, <1>6, <1>7, <1>8, <1>9, <1>10, <1>11, <1>12

\* The start marker is the command's first chunk.
LEMMA StepPrintStart ==
    ASSUME IInv, TypeOK', PrintStart
    PROVE  IInv'
<1> USE DEF IInv
<1>1. /\ stdin = Script /\ stdin' = AfterStart /\ ~foreground /\ phase = "waiting"
      /\ n \in Calls /\ ~started /\ output = <<>> /\ ran[n] = NoRecord
  BY ScriptRead DEF PrintStart, Progress
<1>2. /\ window' = n /\ ran' = [ran EXCEPT ![n].glued = MidLine]
      /\ UNCHANGED <<n, phase, foreground, last, saved, started, output, result>>
  BY DEF PrintStart
<1> DEFINE k == Printed("start", n, -1)
<1>3. stdout' = Append(stdout, k) /\ k \in Chunk
  BY ChunkTyped DEF PrintStart
<1>4. k.kind = "start" /\ k.nl /\ ~Own(k) /\ k.call = n
  BY DEF Printed, Own
<1>5. /\ Len(stdout') = Len(stdout) + 1 /\ Len(stdout) \in Nat
      /\ stdout'[Len(stdout) + 1] = k
      /\ \A i \in 1..Len(stdout) : stdout'[i] = stdout[i]
      /\ output \o stdout' = Append(output \o stdout, k)
      /\ output \o stdout \in Seq(Chunk)
  BY <1>3, Appended
<1>6. /\ \A c \in Calls : c # n => ran'[c] = ran[c]
      /\ ran'[n].glued = MidLine /\ ran'[n].text = <<>> /\ ~ran'[n].read
      /\ ~ran'[n].derailed
  BY <1>1, <1>2 DEF TypeOK, NoRecord, Record
<1>7. \A i \in 1..Len(stdout) : Foreign(stdout[i], n - 1)
  BY <1>1 DEF StartMarker
<1>8. MidLine <=> Len(stdout') > 1 /\ ~stdout'[Len(stdout') - 1].nl
  <2>1. stdout # <<>> <=> Len(stdout) > 0
    BY EmptySeq DEF TypeOK
  <2>2. Len(stdout) > 0 => Last(stdout) = stdout[Len(stdout)]
    BY DEF Last
  <2>3. Len(stdout) > 0 => Len(stdout') - 1 = Len(stdout)
                           /\ stdout'[Len(stdout)] = stdout[Len(stdout)]
    BY <1>5
  <2>4. Len(stdout) > 0 <=> Len(stdout') > 1
    BY <1>5
  <2> QED
    BY <2>1, <2>2, <2>3, <2>4 DEF MidLine
<1> HIDE DEF k
<1>9. Progress'
  BY <1>1, <1>2, <1>6, Lines DEF Progress, Calls
<1>10. Statuses'
  BY <1>1, Lines DEF Statuses
<1>11. Idle'
  BY <1>1, <1>2 DEF Idle
<1>12. StartMarker'
  <2>1. ASSUME NEW i \in 1..Len(stdout'), stdout'[i].kind = "start"
        PROVE  i = Len(stdout')
    BY <1>5, <1>7, <2>1 DEF Foreign
  <2>2. stdin' # Script
    BY <1>1, Lines
  <2>3. \A j \in 1..Len(stdout') - 1 : Foreign(stdout'[j], n - 1)
    BY <1>5, <1>7
  <2>4. Len(stdout') \in 1..Len(stdout') /\ stdout'[Len(stdout')].kind = "start"
    BY <1>4, <1>5
  <2>5. stdout'[Len(stdout')] = Printed("start", n, -1)
    BY <1>5 DEF k
  <2> QED
    BY <1>1, <1>2, <1>5, <1>6, <1>8, <2>1, <2>2, <2>3, <2>4, <2>5 DEF StartMarker, At
<1>13. EndMarker'
  <2>1. \A i \in 1..Len(stdout') : stdout'[i].kind # "end"
    BY <1>4, <1>5, <1>7 DEF Foreign
  <2> QED
    BY <1>1, <2>1, Lines DEF EndMarker, At
<1>14. Whole'
  <2>1. \A i \in 1..Len(stdout') : ~Own(stdout'[i])
    BY <1>4, <1>5, <1>7 DEF Foreign, Own
  <2>2. output' \o stdout' = stdout'
    BY <1>1, <1>2 DEF TypeOK
  <2>3. OwnText(<<>>, stdout')
    BY <2>1, OwnNone DEF TypeOK
  <2> QED
    BY <1>2, <1>6, <2>2, <2>3 DEF Whole
<1>15. Results' /\ Future'
  <2>1. ~Ok(n)'
    BY <1>1, <1>2 DEF Results, Ok
  <2> QED
    BY <1>1, <1>2, <1>6, <2>1, ResultsFrame
<1> QED
  BY <1>9, <1>10, <1>11, <1>12, <1>13, <1>14, <1>15

\* The command starts after its start marker.
LEMMA StepStartCommand ==
    ASSUME IInv, TypeOK', StartCommand
    PROVE  IInv'
<1> USE DEF IInv
<1>1. /\ stdin = AfterStart /\ stdin' = AfterCommand /\ ~foreground
      /\ phase = "waiting" /\ foreground' /\ n \in Calls
  BY ScriptRead DEF StartCommand
<1>2. UNCHANGED <<n, phase, window, stdout, last, saved, started, output, result, ran>>
  BY DEF StartCommand
<1>3. stdin \notin {Script, <<>>} /\ stdin' \notin {Script, <<>>}
  BY <1>1, Lines
<1>4. Progress'
  BY <1>1, <1>2, <1>3 DEF Progress
<1>5. Statuses' /\ Idle'
  BY <1>1, <1>2 DEF Statuses, Idle
<1>6. StartMarker'
  BY <1>1, <1>2, <1>3 DEF StartMarker, At
<1>7. EndMarker'
  BY <1>1, <1>2, <1>3 DEF EndMarker, At
<1>8. Whole'
  BY <1>2 DEF Whole
<1>9. Results' /\ Future'
  BY <1>2, ResultsKept
<1> QED
  BY <1>4, <1>5, <1>6, <1>7, <1>8, <1>9

\* More is written behind what the stream carries, and no start marker.
LEMMA StartMarkerGrows ==
    ASSUME TypeOK, Progress, StartMarker, TypeOK', UNCHANGED <<n, phase, started, output>>,
           ran'[n].glued = ran[n].glued, stdin' = Script <=> stdin = Script,
           Len(stdout') >= Len(stdout),
           \A i \in 1..Len(stdout) : stdout'[i] = stdout[i],
           \A i \in Len(stdout) + 1..Len(stdout') :
              /\ stdin = Script => Foreign(stdout'[i], n - 1)
              /\ stdin # Script => stdout'[i].kind # "start" /\ stdout'[i].call = n
    PROVE  StartMarker'
<1>1. Len(stdout) \in Nat /\ Len(stdout') \in Nat
  BY DEF TypeOK
<1>2. \A i \in 1..Len(stdout') : i \in 1..Len(stdout) \/ i \in Len(stdout) + 1..Len(stdout')
  BY <1>1
<1> SUFFICES ASSUME phase = "waiting" PROVE StartMarker'
  BY DEF StartMarker
<1>3. stdin' = Script => \A i \in 1..Len(stdout') : Foreign(stdout'[i], n - 1)
  BY <1>1, <1>2 DEF StartMarker
<1>4. ASSUME NEW i \in 1..Len(stdout'), stdout'[i].kind = "start"
      PROVE  /\ stdout'[i] = Printed("start", n, -1)
             /\ \A j \in 1..i - 1 : Foreign(stdout'[j], n - 1)
             /\ \A j \in i + 1..Len(stdout') :
                   stdout'[j].call = n /\ stdout'[j].kind # "start"
             /\ ran'[n].glued <=> i > 1 /\ ~stdout'[i - 1].nl
  <2>1. i \in 1..Len(stdout) /\ At(i, "start") /\ stdin # Script
    BY <1>1, <1>2, <1>4 DEF Foreign, At, StartMarker
  <2>2. /\ stdout[i] = Printed("start", n, -1)
        /\ \A j \in 1..i - 1 : Foreign(stdout[j], n - 1)
        /\ \A j \in i + 1..Len(stdout) : stdout[j].call = n /\ stdout[j].kind # "start"
        /\ ran[n].glued <=> i > 1 /\ ~stdout[i - 1].nl
    BY <2>1 DEF StartMarker
  <2>3. \A j \in 1..i - 1 : j \in 1..Len(stdout)
    BY <1>1, <2>1
  <2>4. i > 1 => i - 1 \in 1..i - 1
    BY <2>1
  <2>5. \A j \in i + 1..Len(stdout') :
           j \in i + 1..Len(stdout) \/ j \in Len(stdout) + 1..Len(stdout')
    BY <1>1, <2>1
  <2>6. \A j \in i + 1..Len(stdout) : j \in 1..Len(stdout)
    BY <1>1, <2>1
  <2> QED
    BY <2>1, <2>2, <2>3, <2>4, <2>5, <2>6
<1>5. started => /\ ~ran'[n].glued
                 /\ \A i \in 1..Len(stdout') :
                       stdout'[i].call = n /\ stdout'[i].kind # "start"
                 /\ \A i \in 1..Len(output) : output[i].call = n
  <2>1. started => stdin # Script
    BY DEF Progress
  <2> QED
    BY <1>2, <2>1 DEF StartMarker
<1>6. stdin' # Script /\ ~started /\ ~ran'[n].glued =>
         \E i \in 1..Len(stdout') : stdout'[i].kind = "start"
  BY <1>1 DEF StartMarker, At
<1> QED
  BY <1>3, <1>4, <1>5, <1>6 DEF StartMarker, At

\* The command's text comes between its markers.
LEMMA StepCommandWrites ==
    ASSUME IInv, TypeOK', CommandWrites
    PROVE  IInv'
<1> USE DEF IInv
<1>1. /\ foreground /\ n \in Calls /\ stdin # Script /\ window = n
      /\ stdin \in {AfterCommand, AfterStatus, <<>>} /\ phase # "idle"
  BY InCall, Lines DEF CommandWrites, Progress
<1>2. UNCHANGED <<n, phase, stdin, foreground, last, saved, window, started,
                  output, result>>
  BY DEF CommandWrites
<1>3. PICK nl \in BOOLEAN :
        /\ stdout' = Append(stdout, Text(TRUE, nl))
        /\ ran' = [ran EXCEPT ![n].text = Append(@, Text(TRUE, nl))]
  BY DEF CommandWrites
<1> DEFINE k == Text(TRUE, nl)
<1>4. k \in Chunk /\ k.kind = "text" /\ Own(k) /\ k.call = n
  BY <1>1, ChunkTyped DEF Text, Own
<1>5. stdout' = Append(stdout, k) /\ ran' = [ran EXCEPT ![n].text = Append(@, k)]
  BY <1>3
<1> HIDE DEF k
<1>6. /\ Len(stdout') = Len(stdout) + 1 /\ Len(stdout) \in Nat
      /\ stdout'[Len(stdout) + 1] = k
      /\ \A i \in 1..Len(stdout) : stdout'[i] = stdout[i]
      /\ output \o stdout' = Append(output \o stdout, k)
      /\ output \o stdout \in Seq(Chunk)
  BY <1>4, <1>5, Appended
<1>7. /\ \A c \in Calls : c # n => ran'[c] = ran[c]
      /\ ran'[n].text = Append(ran[n].text, k)
      /\ ran'[n].read = ran[n].read /\ ran'[n].glued = ran[n].glued
      /\ ran'[n].status = ran[n].status /\ ran[n].text \in Seq(Chunk)
      /\ ran'[n].derailed = ran[n].derailed
  BY <1>1, <1>5 DEF TypeOK, Record
<1>8. Progress'
  BY <1>1, <1>2, <1>7 DEF Progress
<1>9. Statuses' /\ Idle'
  BY <1>1, <1>2 DEF Statuses, Idle
<1>10. StartMarker'
  <2>1. \A i \in Len(stdout) + 1..Len(stdout') :
           stdout'[i].kind # "start" /\ stdout'[i].call = n
    BY <1>4, <1>6
  <2>2. Len(stdout') >= Len(stdout)
    BY <1>6
  <2> QED
    BY <1>1, <1>2, <1>6, <1>7, <2>1, <2>2, StartMarkerGrows
<1>11. EndMarker'
  BY <1>1, <1>2, <1>4, <1>6 DEF EndMarker, At
<1>12. Whole'
  BY <1>2, <1>4, <1>6, <1>7, OwnMore DEF Whole
<1>13. Results' /\ Future'
  <2>1. ~Ok(n)'
    BY <1>1, <1>2 DEF Results, Ok
  <2> QED
    BY <1>1, <1>2, <1>7, <2>1, ResultsFrame
<1> QED
  BY <1>8, <1>9, <1>10, <1>11, <1>12, <1>13

\* The background's text is nobody's.
LEMMA StepBackgroundWrites ==
    ASSUME IInv, TypeOK', BackgroundWrites
    PROVE  IInv'
<1> USE DEF IInv
<1>1. UNCHANGED <<n, phase, stdin, foreground, last, saved, window, started,
                  output, result, ran>>
  BY DEF BackgroundWrites
<1>2. PICK nl \in BOOLEAN : stdout' = Append(stdout, Text(FALSE, nl))
  BY DEF BackgroundWrites
<1> DEFINE k == Text(FALSE, nl)
<1>3. k \in Chunk /\ ~Own(k) /\ Foreign(k, window) /\ stdout' = Append(stdout, k)
  BY <1>2, ChunkTyped DEF Text, Own, Foreign
<1> HIDE DEF k
<1>4. /\ Len(stdout') = Len(stdout) + 1 /\ Len(stdout) \in Nat
      /\ stdout'[Len(stdout) + 1] = k
      /\ \A i \in 1..Len(stdout) : stdout'[i] = stdout[i]
      /\ output \o stdout' = Append(output \o stdout, k)
      /\ output \o stdout \in Seq(Chunk)
  BY <1>3, Appended
<1>5. Progress' /\ Statuses'
  BY <1>1 DEF Progress, Statuses
<1>6. Idle'
  <2>1. phase = "idle" => window = n
    BY Lines DEF Progress
  <2>2. \A i \in 1..Len(stdout') : i \in 1..Len(stdout) \/ i = Len(stdout) + 1
    BY <1>4
  <2> QED
    BY <1>1, <1>3, <1>4, <2>1, <2>2 DEF Idle
<1>7. StartMarker'
  <2>1. /\ stdin = Script => window = n - 1
        /\ stdin # Script => window = n
    BY DEF Progress
  <2>2. \A i \in Len(stdout) + 1..Len(stdout') : stdout'[i] = k
    BY <1>4
  <2>3. k.kind # "start" /\ k.call = window
    BY <1>3 DEF Foreign
  <2>4. Len(stdout') >= Len(stdout)
    BY <1>4
  <2> QED
    BY <1>1, <1>3, <1>4, <2>1, <2>2, <2>3, <2>4, StartMarkerGrows
<1>8. EndMarker'
  <2> SUFFICES ASSUME phase = "waiting" PROVE EndMarker'
    BY <1>1 DEF EndMarker
  <2>1. \A i \in 1..Len(stdout') : i \in 1..Len(stdout) \/ i = Len(stdout) + 1
    BY <1>4
  <2>2. stdout'[Len(stdout) + 1].kind = "text" /\ ~stdout'[Len(stdout) + 1].own
    BY <1>3, <1>4 DEF Foreign
  <2>3. ASSUME NEW i \in 1..Len(stdout'), stdout'[i].kind = "end"
        PROVE  /\ stdin = <<>> /\ ~foreground /\ ~ran[n].derailed
               /\ stdout'[i].nl /\ stdout'[i].call = n
               /\ i > 1 => stdout'[i - 1].nl
               /\ \A j \in i + 1..Len(stdout') :
                     stdout'[j].kind = "text" /\ ~stdout'[j].own
               /\ ~ran[n].read => stdout'[i].status = ran[n].status
    <3>1. i \in 1..Len(stdout) /\ stdout'[i] = stdout[i]
      BY <1>4, <2>1, <2>2, <2>3
    <3>2. /\ stdin = <<>> /\ ~foreground /\ ~ran[n].derailed
          /\ stdout[i].nl /\ stdout[i].call = n
          /\ i > 1 => stdout[i - 1].nl
          /\ \A j \in i + 1..Len(stdout) : stdout[j].kind = "text" /\ ~stdout[j].own
          /\ ~ran[n].read => stdout[i].status = ran[n].status
      BY <2>3, <3>1 DEF EndMarker, At
    <3>3. i > 1 => i - 1 \in 1..Len(stdout)
      BY <1>4, <3>1
    <3>4. \A j \in i + 1..Len(stdout') : j \in i + 1..Len(stdout) \/ j = Len(stdout) + 1
      BY <1>4, <3>1
    <3>5. \A j \in i + 1..Len(stdout) : j \in 1..Len(stdout)
      BY <1>4, <3>1
    <3> QED
      BY <1>4, <2>2, <3>1, <3>2, <3>3, <3>4, <3>5
  <2>4. (\E i \in 1..Len(stdout) : stdout[i].kind = "end")
           => \E i \in 1..Len(stdout') : stdout'[i].kind = "end"
    BY <1>4
  <2> QED
    BY <1>1, <2>3, <2>4 DEF EndMarker, At
<1>9. Whole'
  <2>1. CASE phase = "waiting" /\ ~ran[n].glued
    <3>1. ran[n].text \in Seq(Chunk)
      BY <2>1, InCall DEF TypeOK, Record
    <3> QED
      BY <1>1, <1>3, <1>4, <2>1, <3>1, OwnOther DEF Whole
  <2> QED
    BY <1>1, <2>1 DEF Whole
<1>10. Results' /\ Future'
  BY <1>1, ResultsKept
<1> QED
  BY <1>5, <1>6, <1>7, <1>8, <1>9, <1>10

\* The command takes a line of the script that is still to come.
LEMMA StepCommandReads ==
    ASSUME IInv, TypeOK', CommandReads
    PROVE  IInv'
<1> USE DEF IInv
<1>1. /\ foreground /\ n \in Calls /\ window = n /\ phase # "idle"
      /\ stdin \in {AfterCommand, AfterStatus}
      /\ stdin' \in {AfterStatus, <<>>}
  BY InCall, Lines DEF CommandReads, Progress
<1>2. /\ ran' = [ran EXCEPT ![n].read = TRUE]
      /\ UNCHANGED <<n, phase, foreground, last, saved, window, stdout, started,
                     output, result>>
  BY DEF CommandReads
<1>3. /\ \A c \in Calls : c # n => ran'[c] = ran[c]
      /\ ran'[n].read /\ ran'[n].derailed = ran[n].derailed
      /\ ran'[n].text = ran[n].text /\ ran'[n].glued = ran[n].glued
  BY <1>1, <1>2 DEF TypeOK, Record
<1>4. Progress'
  BY <1>1, <1>2, <1>3, Lines DEF Progress, Calls
<1>5. Statuses' /\ Idle'
  BY <1>1, <1>2 DEF Statuses, Idle
<1>6. StartMarker'
  BY <1>1, <1>2, <1>3, Lines DEF StartMarker, At
<1>7. EndMarker'
  BY <1>1, <1>2 DEF EndMarker, At
<1>8. Whole'
  BY <1>2, <1>3 DEF Whole
<1>9. Results' /\ Future'
  <2>1. ~Ok(n)'
    BY <1>1, <1>2 DEF Results, Ok
  <2> QED
    BY <1>1, <1>2, <1>3, <2>1, ResultsFrame
<1> QED
  BY <1>4, <1>5, <1>6, <1>7, <1>8, <1>9

\* The shell stops listening to the script, before the command or in it.
LEMMA StepDerail ==
    ASSUME IInv, TypeOK', ReadIncomplete \/ DerailShell
    PROVE  IInv'
<1> USE DEF IInv
<1>1. /\ n \in Calls /\ window = n /\ phase # "idle" /\ stdin # Script
      /\ foreground \/ stdin # <<>>
  <2>1. CASE ReadIncomplete
    BY <2>1, ScriptAt, Lines DEF ReadIncomplete, Progress
  <2>2. CASE DerailShell
    BY <2>2, InCall, Lines DEF DerailShell, Progress
  <2> QED
    BY <2>1, <2>2
<1>2. /\ stdin' = <<>> /\ ran' = [ran EXCEPT ![n].derailed = TRUE]
      /\ UNCHANGED <<n, phase, foreground, last, saved, window, stdout, started,
                     output, result>>
  BY DEF ReadIncomplete, DerailShell, Derail
<1>3. /\ \A c \in Calls : c # n => ran'[c] = ran[c]
      /\ ran'[n].derailed
      /\ ran'[n].text = ran[n].text /\ ran'[n].glued = ran[n].glued
  BY <1>1, <1>2 DEF TypeOK, Record
<1>4. Progress'
  BY <1>1, <1>2, <1>3, Lines DEF Progress, Calls
<1>5. Statuses' /\ Idle'
  BY <1>1, <1>2, Lines DEF Statuses, Idle
<1>6. StartMarker'
  BY <1>1, <1>2, <1>3, Lines DEF StartMarker, At
<1>7. EndMarker'
  BY <1>1, <1>2, <1>3 DEF EndMarker, At
<1>8. Whole'
  BY <1>2, <1>3 DEF Whole
<1>9. Results' /\ Future'
  <2>1. ~Ok(n)'
    BY <1>1, <1>2 DEF Results, Ok
  <2> QED
    BY <1>1, <1>2, <1>3, <2>1, ResultsFrame
<1> QED
  BY <1>4, <1>5, <1>6, <1>7, <1>8, <1>9

\* The shell goes on behind the command.
LEMMA StepCommandEnds ==
    ASSUME IInv, TypeOK', CommandEnds
    PROVE  IInv'
<1> USE DEF IInv
<1>1. /\ foreground /\ n \in Calls /\ window = n /\ phase # "idle"
      /\ stdin \in {AfterCommand, AfterStatus, <<>>} /\ stdin # Script
      /\ stdin # AfterCommand => ran[n].read \/ ran[n].derailed
      /\ ran[n].derailed => stdin = <<>>
  BY InCall, Lines DEF CommandEnds, Progress
<1>2. /\ ran' = [ran EXCEPT ![n].status = last'] /\ ~foreground'
      /\ UNCHANGED <<n, phase, stdin, saved, window, stdout, started, output, result>>
  BY DEF CommandEnds
<1>3. /\ \A c \in Calls : c # n => ran'[c] = ran[c]
      /\ ran'[n].read = ran[n].read /\ ran'[n].status = last'
      /\ ran'[n].derailed = ran[n].derailed
      /\ ran'[n].text = ran[n].text /\ ran'[n].glued = ran[n].glued
  BY <1>1, <1>2 DEF TypeOK, Record
<1>4. Progress'
  BY <1>1, <1>2, <1>3 DEF Progress
<1>5. Statuses'
  BY <1>1, <1>2, <1>3, Lines DEF Statuses
<1>6. Idle'
  BY <1>1, <1>2 DEF Idle
<1>7. StartMarker'
  BY <1>1, <1>2, <1>3 DEF StartMarker, At
<1>8. EndMarker'
  BY <1>1, <1>2, <1>3, Lines DEF EndMarker, At
<1>9. Whole'
  BY <1>2, <1>3 DEF Whole
<1>10. Results' /\ Future'
  <2>1. ~Ok(n)'
    BY <1>1, <1>2 DEF Results, Ok
  <2> QED
    BY <1>1, <1>2, <1>3, <2>1, ResultsFrame
<1> QED
  BY <1>4, <1>5, <1>6, <1>7, <1>8, <1>9, <1>10

\* The saved status is the command's.
LEMMA StepSaveStatus ==
    ASSUME IInv, TypeOK', SaveStatus
    PROVE  IInv'
<1> USE DEF IInv
<1>1. /\ stdin = AfterCommand /\ stdin' = AfterStatus /\ ~foreground
      /\ phase = "waiting" /\ n \in Calls
  BY ScriptRead DEF SaveStatus
<1>2. /\ saved' = last
      /\ UNCHANGED <<n, phase, foreground, window, stdout, started, output, result, ran>>
  BY DEF SaveStatus
<1>3. stdin \notin {Script, <<>>} /\ stdin' \notin {Script, <<>>, AfterCommand}
  BY <1>1, Lines
<1>4. Progress'
  BY <1>1, <1>2, <1>3 DEF Progress
<1>5. Statuses'
  BY <1>1, <1>2, <1>3 DEF Statuses
<1>6. Idle'
  BY <1>1, <1>2 DEF Idle
<1>7. StartMarker'
  BY <1>1, <1>2, <1>3 DEF StartMarker, At
<1>8. EndMarker'
  BY <1>1, <1>2, <1>3 DEF EndMarker, At
<1>9. Whole'
  BY <1>2 DEF Whole
<1>10. Results' /\ Future'
  BY <1>2, ResultsKept
<1> QED
  BY <1>4, <1>5, <1>6, <1>7, <1>8, <1>9, <1>10

\* The end marker is printed after all of the command's text.
LEMMA StepPrintEnd ==
    ASSUME IInv, TypeOK', PrintEnd
    PROVE  IInv'
<1> USE DEF IInv
<1>1. /\ stdin = AfterStatus /\ stdin' = <<>> /\ ~foreground
      /\ phase = "waiting" /\ n \in Calls
  BY ScriptRead DEF PrintEnd
<1>2. UNCHANGED <<n, phase, foreground, last, saved, window, started, output,
                  result, ran>>
  BY DEF PrintEnd
<1>3. stdin \notin {Script, <<>>, AfterCommand} /\ stdin' \notin {Script, AfterStatus, AfterCommand}
  BY <1>1, Lines
<1> DEFINE k == Printed("newline", n, -1)
           e == Printed("end", n, saved)
<1>4. /\ k \in Chunk /\ ~Own(k) /\ k.kind = "newline" /\ k.call = n /\ k.nl
      /\ e \in Chunk /\ ~Own(e) /\ e.kind = "end" /\ e.call = n /\ e.nl
      /\ e.status = saved
  <2>1. saved \in Status \cup {-1}
    BY DEF TypeOK
  <2>2. k \in Chunk /\ e \in Chunk
    BY <2>1, ChunkTyped
  <2> QED
    BY <2>2 DEF Printed, Own
<1>5. stdout' = stdout \o <<k, e>>
  BY DEF PrintEnd
<1> HIDE DEF k, e
<1>6. /\ Len(stdout') = Len(stdout) + 2 /\ Len(stdout) \in Nat
      /\ stdout'[Len(stdout) + 1] = k /\ stdout'[Len(stdout) + 2] = e
      /\ \A i \in 1..Len(stdout) : stdout'[i] = stdout[i]
  BY <1>4, <1>5 DEF TypeOK
<1>7. /\ output \o stdout' = Append(Append(output \o stdout, k), e)
      /\ output \o stdout \in Seq(Chunk) /\ Append(output \o stdout, k) \in Seq(Chunk)
  <2>1. output \in Seq(Chunk) /\ stdout \in Seq(Chunk) /\ <<k, e>> \in Seq(Chunk)
    BY <1>4 DEF TypeOK
  <2>2. output \o stdout' = (output \o stdout) \o <<k, e>>
    BY <1>5, <2>1
  <2>3. output \o stdout \in Seq(Chunk)
    BY <2>1
  <2> DEFINE w == output \o stdout
  <2> HIDE DEF w
  <2>4. w \in Seq(Chunk) => /\ w \o <<k, e>> = Append(Append(w, k), e)
                            /\ Append(w, k) \in Seq(Chunk)
    BY <1>4
  <2> QED
    BY <2>2, <2>3, <2>4 DEF w
<1>8. \A i \in 1..Len(stdout) : stdout[i].kind # "end"
  BY <1>1, <1>3 DEF EndMarker, At
<1>9. Progress'
  BY <1>1, <1>2, <1>3 DEF Progress
<1>10. Statuses' /\ Idle'
  BY <1>1, <1>2, <1>3 DEF Statuses, Idle
<1>11. StartMarker'
  BY <1>1, <1>2, <1>3, <1>4, <1>6, StartMarkerGrows
<1>12. EndMarker'
  <2>1. (~ran[n].read => e.status = ran[n].status) /\ ~ran[n].derailed
    BY <1>1, <1>3, <1>4 DEF Statuses, Progress
  <2>2. ASSUME NEW i \in 1..Len(stdout'), stdout'[i].kind = "end"
        PROVE  i = Len(stdout')
    BY <1>4, <1>6, <1>8, <2>2
  <2>3. Len(stdout') \in 1..Len(stdout') /\ stdout'[Len(stdout')] = e
        /\ Len(stdout') - 1 = Len(stdout) + 1
    BY <1>6
  <2> QED
    BY <1>1, <1>2, <1>4, <1>6, <2>1, <2>2, <2>3 DEF EndMarker, At
<1>13. Whole'
  <2>1. CASE ~ran[n].glued
    <3>1. ran[n].text \in Seq(Chunk)
      BY <1>1 DEF TypeOK, Record
    <3>2. OwnText(ran[n].text, Append(output \o stdout, k))
      BY <1>1, <1>4, <1>7, <2>1, <3>1, OwnOther DEF Whole
    <3>3. OwnText(ran[n].text, output \o stdout')
      BY <1>4, <1>7, <3>1, <3>2, OwnOther
    <3> QED
      BY <1>2, <3>3 DEF Whole
  <2> QED
    BY <1>2, <2>1 DEF Whole
<1>14. Results' /\ Future'
  BY <1>2, ResultsKept
<1> QED
  BY <1>9, <1>10, <1>11, <1>12, <1>13, <1>14

-----------------------------------------------------------------------------
(***************************************************************************)
(* The steps of the reader.                                                *)
(***************************************************************************)
\* What is left of the stream when the reader has taken a line of it.
LEMMA LineTaken ==
    ASSUME TypeOK, ReadLine
    PROVE  /\ LineLength \in Nat \ {0} /\ Len(stdout') \in Nat
           /\ Len(stdout) = LineLength + Len(stdout')
           /\ \A i \in 1..Len(stdout') : /\ LineLength + i \in 1..Len(stdout)
                                         /\ stdout'[i] = stdout[LineLength + i]
           /\ \A i \in 1..Len(stdout) :
                 i > LineLength => /\ i - LineLength \in 1..Len(stdout')
                                   /\ stdout'[i - LineLength] = stdout[i]
<1>1. /\ LineLength \in 1..Len(stdout) /\ Len(stdout) \in Nat
      /\ stdout' \in Seq(Chunk) /\ Len(stdout') = Len(stdout) - LineLength
      /\ \A i \in 1..Len(stdout') : stdout'[i] = stdout[LineLength + i]
  <2>1. stdout \in Seq(Chunk)
    BY DEF TypeOK
  <2> QED
    BY LineRead, <2>1
<1> DEFINE L == LineLength
<1> HIDE DEF L
<1>2. /\ L \in 1..Len(stdout) /\ Len(stdout') = Len(stdout) - L
      /\ \A i \in 1..Len(stdout') : stdout'[i] = stdout[L + i]
  BY <1>1 DEF L
<1>3. \A i \in 1..Len(stdout) : i > L => /\ i - L \in 1..Len(stdout')
                                         /\ L + (i - L) = i
  BY <1>1, <1>2
<1> DEFINE m == Len(stdout)
<1>4. m \in Nat /\ L \in 1..m /\ Len(stdout') = m - L
  BY <1>1, <1>2
<1> HIDE DEF m
<1>5. L \in Nat \ {0} /\ Len(stdout') \in Nat /\ m = L + Len(stdout')
  BY <1>4
<1>6. \A i \in 1..Len(stdout') : L + i \in 1..m
  BY <1>4, <1>5
<1> QED
  BY <1>2, <1>3, <1>5, <1>6 DEF L, m

\* No end marker is taken with the line, and what follows it starts a line:
\* what is known of the end marker stays true.
LEMMA EndMarkerKept ==
    ASSUME TypeOK, EndMarker, ReadLine,
           UNCHANGED <<n, phase, stdin, foreground, ran>>,
           /\ stdin = <<>> /\ ~foreground
           /\ ~ran[n].read /\ ~ran[n].derailed /\ ~ran[n].glued
           => \A i \in 1..LineLength : stdout[i].kind # "end"
    PROVE  EndMarker'
<1>1. /\ LineLength \in Nat \ {0} /\ Len(stdout') \in Nat
      /\ Len(stdout) = LineLength + Len(stdout')
      /\ \A i \in 1..Len(stdout') : /\ LineLength + i \in 1..Len(stdout)
                                    /\ stdout'[i] = stdout[LineLength + i]
      /\ \A i \in 1..Len(stdout) :
            i > LineLength => /\ i - LineLength \in 1..Len(stdout')
                              /\ stdout'[i - LineLength] = stdout[i]
  BY LineTaken
<1> DEFINE L == LineLength
<1> SUFFICES ASSUME phase = "waiting" PROVE EndMarker'
  BY DEF EndMarker
<1>2. ASSUME NEW i \in 1..Len(stdout'), stdout'[i].kind = "end"
      PROVE  /\ stdin = <<>> /\ ~foreground /\ ~ran[n].derailed
             /\ stdout'[i].nl /\ stdout'[i].call = n
             /\ i > 1 => stdout'[i - 1].nl
             /\ \A j \in i + 1..Len(stdout') :
                   stdout'[j].kind = "text" /\ ~stdout'[j].own
             /\ ~ran[n].read => stdout'[i].status = ran[n].status
  <2>1. L + i \in 1..Len(stdout) /\ stdout'[i] = stdout[L + i] /\ L \in Nat
    BY <1>1
  <2> HIDE DEF L
  <2>2. At(L + i, "end")
    BY <1>2, <2>1 DEF At
  <2>3. /\ stdin = <<>> /\ ~foreground /\ ~ran[n].derailed
        /\ stdout[L + i].nl /\ stdout[L + i].call = n
        /\ L + i > 1 => stdout[L + i - 1].nl
        /\ \A j \in L + i + 1..Len(stdout) : stdout[j].kind = "text" /\ ~stdout[j].own
        /\ ~ran[n].read => stdout[L + i].status = ran[n].status
    BY <2>1, <2>2 DEF EndMarker
  <2>4. i > 1 => /\ L + i > 1 /\ i - 1 \in 1..Len(stdout')
                 /\ L + i - 1 = L + (i - 1)
    BY <1>1, <2>1
  <2>5. \A j \in i + 1..Len(stdout') : L + j \in L + i + 1..Len(stdout)
                                       /\ j \in 1..Len(stdout')
    BY <1>1, <2>1 DEF L
  <2>6. i > 1 => stdout'[i - 1].nl
    <3> SUFFICES ASSUME i > 1 PROVE stdout'[i - 1].nl
      OBVIOUS
    <3>1. stdout'[i - 1] = stdout[L + (i - 1)]
      BY <1>1, <2>4 DEF L
    <3> QED
      BY <2>3, <2>4, <3>1
  <2>7. ASSUME NEW j \in i + 1..Len(stdout')
        PROVE  stdout'[j].kind = "text" /\ ~stdout'[j].own
    <3>1. stdout'[j] = stdout[L + j]
      BY <1>1, <2>5 DEF L
    <3> QED
      BY <2>3, <2>5, <3>1
  <2> QED
    BY <2>1, <2>3, <2>6, <2>7
<1>3. /\ stdin = <<>> /\ ~foreground
      /\ ~ran[n].read /\ ~ran[n].derailed /\ ~ran[n].glued
      => \E i \in 1..Len(stdout') : stdout'[i].kind = "end"
  <2> SUFFICES ASSUME stdin = <<>>, ~foreground, ~ran[n].read, ~ran[n].derailed,
                      ~ran[n].glued
               PROVE  \E i \in 1..Len(stdout') : stdout'[i].kind = "end"
    OBVIOUS
  <2>1. PICK i \in 1..Len(stdout) : stdout[i].kind = "end"
    BY DEF EndMarker, At
  <2>2. i > LineLength
    BY <1>1, <2>1
  <2> QED
    BY <1>1, <2>1, <2>2
<1> QED
  BY <1>2, <1>3 DEF EndMarker, At

\* Until the start marker is read, nothing of the command's own is taken.
LEMMA SkippedForeign ==
    ASSUME TypeOK, Progress, StartMarker, ReadLine, ~started, ~ran[n].glued
    PROVE  \A i \in 1..LineLength : stdout[i].kind = "start" \/ Foreign(stdout[i], n - 1)
<1>1. phase = "waiting" /\ LineLength \in 1..Len(stdout) /\ Len(stdout) \in Nat
      /\ \A i \in 1..LineLength - 1 : ~stdout[i].nl
  BY LineRead DEF TypeOK
<1>2. CASE stdin = Script
  BY <1>1, <1>2 DEF StartMarker
<1>3. CASE stdin # Script
  <2>1. PICK i \in 1..Len(stdout) : stdout[i].kind = "start"
    BY <1>1, <1>3 DEF StartMarker, At
  <2>2. stdout[i].nl /\ \A j \in 1..i - 1 : Foreign(stdout[j], n - 1)
    BY <1>1, <2>1 DEF StartMarker, At, Printed
  <2>3. LineLength <= i
    BY <1>1, <2>1, <2>2
  <2>4. \A j \in 1..LineLength : j = i \/ j \in 1..i - 1
    BY <1>1, <2>1, <2>3
  <2> QED
    BY <2>1, <2>2, <2>4
<1> QED
  BY <1>2, <1>3

\* What is skipped before the start marker is not the command's.
LEMMA StepSkip ==
    ASSUME IInv, TypeOK', Skip
    PROVE  IInv'
<1> USE DEF IInv
<1>1. /\ ReadLine /\ ~started /\ started' = IsStart(NextLine)
      /\ UNCHANGED <<n, phase, remote, stdin, foreground, last, saved, left, window,
                     texts, output, result, ran>>
  BY DEF Skip, shellVars
<1>2. /\ phase = "waiting" /\ output = <<>> /\ n \in Calls
      /\ NextLine \in Seq(Chunk) /\ Len(NextLine) = LineLength
      /\ \A i \in 1..LineLength : NextLine[i] = stdout[i]
      /\ stdout = NextLine \o stdout'
      /\ stdout[LineLength].nl
      /\ LineLength \in 1..Len(stdout)
  BY <1>1, LineRead, InCall DEF Progress
<1>3. /\ LineLength \in Nat \ {0} /\ Len(stdout') \in Nat
      /\ Len(stdout) = LineLength + Len(stdout')
      /\ \A i \in 1..Len(stdout') : /\ LineLength + i \in 1..Len(stdout)
                                    /\ stdout'[i] = stdout[LineLength + i]
      /\ \A i \in 1..Len(stdout) :
            i > LineLength => /\ i - LineLength \in 1..Len(stdout')
                              /\ stdout'[i - LineLength] = stdout[i]
  BY <1>1, LineTaken
<1>4. IsStart(NextLine) => LineLength = 1 /\ stdout[1] = Printed("start", n, -1)
  BY <1>2 DEF IsStart
<1>5. IsStart(NextLine) => stdin # Script /\ ~ran[n].glued
  <2>1. IsStart(NextLine) => 1 \in 1..Len(stdout) /\ stdout[1].kind = "start"
    BY <1>2, <1>4 DEF Printed
  <2>2. IsStart(NextLine) => stdin # Script
    BY <1>2, <2>1 DEF StartMarker, Foreign
  <2>3. IsStart(NextLine) => ~ran[n].glued
    BY <1>2, <2>1 DEF StartMarker, At
  <2> QED
    BY <2>2, <2>3
<1>6. Progress'
  BY <1>1, <1>2, <1>5 DEF Progress
<1>7. Statuses' /\ Idle'
  BY <1>1, <1>2 DEF Statuses, Idle
<1>8. StartMarker'
  <2>1. stdin = Script => \A i \in 1..Len(stdout') : Foreign(stdout'[i], n - 1)
    BY <1>2, <1>3 DEF StartMarker
  <2>2. ASSUME NEW i \in 1..Len(stdout'), stdout'[i].kind = "start"
        PROVE  /\ stdout'[i] = Printed("start", n, -1)
               /\ \A j \in 1..i - 1 : Foreign(stdout'[j], n - 1)
               /\ \A j \in i + 1..Len(stdout') :
                     stdout'[j].call = n /\ stdout'[j].kind # "start"
               /\ ran[n].glued <=> i > 1 /\ ~stdout'[i - 1].nl
    <3> DEFINE L == LineLength
    <3>1. L + i \in 1..Len(stdout) /\ stdout'[i] = stdout[L + i] /\ L \in Nat \ {0}
      BY <1>3
    <3>2. stdout[L].nl
      BY <1>2
    <3> HIDE DEF L
    <3>3. /\ stdout[L + i] = Printed("start", n, -1)
          /\ \A j \in 1..L + i - 1 : Foreign(stdout[j], n - 1)
          /\ \A j \in L + i + 1..Len(stdout) :
                stdout[j].call = n /\ stdout[j].kind # "start"
          /\ ran[n].glued <=> L + i > 1 /\ ~stdout[L + i - 1].nl
      BY <1>2, <2>2, <3>1, SMTT(40) DEF StartMarker, At
    <3>4. \A j \in 1..i - 1 : j \in 1..Len(stdout') /\ L + j \in 1..L + i - 1
      BY <1>3, <3>1
    <3>5. \A j \in i + 1..Len(stdout') : j \in 1..Len(stdout')
                                         /\ L + j \in L + i + 1..Len(stdout)
      BY <1>3, <3>1 DEF L
    <3>6. L + i > 1 /\ (i = 1 => L + i - 1 = L)
      BY <3>1
    <3>7. i > 1 => i - 1 \in 1..Len(stdout') /\ L + i - 1 = L + (i - 1)
      <4>1. Len(stdout') \in Nat /\ i \in 1..Len(stdout') /\ L \in Nat
        BY <1>3, <3>1
      <4> QED
        BY <4>1
    <3>8. ran[n].glued <=> i > 1 /\ ~stdout'[i - 1].nl
      BY <1>3, <3>2, <3>3, <3>6, <3>7 DEF L
    <3>9. stdout'[i] = Printed("start", n, -1)
      BY <3>1, <3>3
    <3>10. ASSUME NEW j \in 1..i - 1 PROVE Foreign(stdout'[j], n - 1)
      <4>1. stdout'[j] = stdout[L + j]
        BY <1>3, <3>4 DEF L
      <4> QED
        BY <3>3, <3>4, <4>1
    <3>11. ASSUME NEW j \in i + 1..Len(stdout')
           PROVE  stdout'[j].call = n /\ stdout'[j].kind # "start"
      <4>1. stdout'[j] = stdout[L + j]
        BY <1>3, <3>5 DEF L
      <4> QED
        BY <3>3, <3>5, <4>1
    <3> QED
      BY <3>8, <3>9, <3>10, <3>11
  <2>3. IsStart(NextLine) =>
           /\ ~ran[n].glued
           /\ \A i \in 1..Len(stdout') : stdout'[i].call = n /\ stdout'[i].kind # "start"
           /\ \A i \in 1..Len(output) : output[i].call = n
    <3> SUFFICES ASSUME IsStart(NextLine)
                 PROVE  \A i \in 1..Len(stdout') :
                           stdout'[i].call = n /\ stdout'[i].kind # "start"
      BY <1>2, <1>5
    <3>1. 1 \in 1..Len(stdout) /\ stdout[1].kind = "start"
      BY <1>2, <1>4 DEF Printed
    <3>2. \A j \in 1 + 1..Len(stdout) : stdout[j].call = n /\ stdout[j].kind # "start"
      BY <1>2, <3>1 DEF StartMarker, At
    <3>3. \A i \in 1..Len(stdout') : 1 + i \in 1 + 1..Len(stdout)
                                     /\ stdout'[i] = stdout[1 + i]
      BY <1>3, <1>4
    <3> QED
      BY <3>2, <3>3
  <2>4. ASSUME stdin # Script, ~IsStart(NextLine), ~ran[n].glued
        PROVE  \E i \in 1..Len(stdout') : stdout'[i].kind = "start"
    <3>1. PICK i \in 1..Len(stdout) : stdout[i].kind = "start"
      BY <1>1, <1>2, <2>4 DEF StartMarker, At
    <3>2. /\ stdout[i] = Printed("start", n, -1)
          /\ i > 1 => stdout[i - 1].nl
      BY <1>2, <2>4, <3>1 DEF StartMarker, At
    <3>3. \A j \in 1..LineLength - 1 : ~stdout[j].nl
      BY <1>1, LineRead
    <3>4. i # 1
      <4>1. ASSUME i = 1 PROVE FALSE
        <5>1. LineLength = 1
          BY <1>2, <1>3, <3>2, <3>3, <4>1 DEF Printed
        <5>2. NextLine = <<Printed("start", n, -1)>>
          BY <1>2, <3>2, <4>1, <5>1
        <5> QED
          BY <2>4, <5>2 DEF IsStart
      <4> QED
        BY <4>1
    <3>5. i > LineLength
      <4>1. stdout[i - 1].nl /\ stdout[i].nl /\ i - 1 \in 1..Len(stdout)
        BY <3>2, <3>4 DEF Printed
      <4>2. i - 1 >= LineLength
        BY <1>3, <3>1, <3>3, <4>1
      <4> QED
        BY <1>3, <3>1, <4>2
    <3> QED
      BY <1>3, <3>1, <3>5
  <2> QED
    BY <1>1, <2>1, <2>2, <2>3, <2>4 DEF StartMarker, At
<1>9. EndMarker'
  <2>1. ~ran[n].glued => \A i \in 1..LineLength : stdout[i].kind # "end"
    BY <1>1, SkippedForeign DEF Foreign
  <2> QED
    BY <1>1, <2>1, EndMarkerKept
<1>10. Whole'
  <2>1. CASE ~ran[n].glued
    <3>1. \A i \in 1..Len(NextLine) : ~Own(NextLine[i])
      BY <1>1, <1>2, <2>1, SkippedForeign DEF Foreign, Own
    <3>2. ran[n].text \in Seq(Chunk) /\ stdout' \in Seq(Chunk)
      BY <1>2 DEF TypeOK, Record
    <3>3. output \o stdout = NextLine \o stdout' /\ output' \o stdout' = stdout'
      BY <1>1, <1>2 DEF TypeOK
    <3>4. OwnText(ran[n].text, stdout')
      BY <1>2, <2>1, <3>1, <3>2, <3>3, OwnSuffix DEF Whole
    <3> QED
      BY <1>1, <3>3, <3>4 DEF Whole
  <2> QED
    BY <1>1, <2>1 DEF Whole
<1>11. Results' /\ Future'
  BY <1>1, ResultsKept
<1> QED
  BY <1>6, <1>7, <1>8, <1>9, <1>10, <1>11

\* What is collected is the command's text that was read, in its order.
LEMMA StepCollectLine ==
    ASSUME IInv, TypeOK', CollectLine
    PROVE  IInv'
<1> USE DEF IInv
<1>1. /\ ReadLine /\ started /\ ~IsEnd(NextLine) /\ output' = output \o NextLine
      /\ UNCHANGED <<n, phase, remote, stdin, foreground, last, saved, left, window,
                     texts, started, result, ran>>
  BY DEF CollectLine, shellVars
<1>2. /\ phase = "waiting" /\ n \in Calls /\ stdin # Script
      /\ NextLine \in Seq(Chunk) /\ Len(NextLine) = LineLength
      /\ \A i \in 1..LineLength : NextLine[i] = stdout[i]
      /\ stdout = NextLine \o stdout'
      /\ LineLength \in 1..Len(stdout)
      /\ \A i \in 1..LineLength - 1 : ~stdout[i].nl
  BY <1>1, LineRead, InCall DEF Progress
<1>3. /\ LineLength \in Nat \ {0} /\ Len(stdout') \in Nat
      /\ Len(stdout) = LineLength + Len(stdout')
      /\ \A i \in 1..Len(stdout') : /\ LineLength + i \in 1..Len(stdout)
                                    /\ stdout'[i] = stdout[LineLength + i]
  BY <1>1, LineTaken
<1>4. /\ ~ran[n].glued
      /\ \A i \in 1..Len(stdout) : stdout[i].call = n /\ stdout[i].kind # "start"
      /\ \A i \in 1..Len(output) : output[i].call = n
  BY <1>1, <1>2 DEF StartMarker
<1>5. Progress'
  BY <1>1, <1>2 DEF Progress
<1>6. Statuses' /\ Idle'
  BY <1>1, <1>2 DEF Statuses, Idle
<1>7. StartMarker'
  <2>1. \A i \in 1..Len(stdout') : stdout'[i].call = n /\ stdout'[i].kind # "start"
    BY <1>3, <1>4
  <2>2. \A i \in 1..Len(NextLine) : NextLine[i].call = n
    BY <1>2, <1>3, <1>4
  <2>3. \A i \in 1..Len(output') : output'[i].call = n
    <3>1. output \in Seq(Chunk) /\ NextLine \in Seq(Chunk)
      BY <1>2 DEF TypeOK
    <3>2. /\ Len(output') = Len(output) + Len(NextLine)
          /\ \A i \in 1..Len(output) : output'[i] = output[i]
          /\ \A i \in Len(output) + 1..Len(output') : output'[i] = NextLine[i - Len(output)]
      BY <1>1, <3>1
    <3>3. \A i \in Len(output) + 1..Len(output') : i - Len(output) \in 1..Len(NextLine)
      BY <3>1, <3>2
    <3>4. \A i \in 1..Len(output') : i \in 1..Len(output) \/ i \in Len(output) + 1..Len(output')
      BY <3>1, <3>2
    <3> QED
      BY <1>4, <2>2, <3>2, <3>3, <3>4
  <2> QED
    BY <1>1, <1>2, <1>4, <2>1, <2>3 DEF StartMarker, At
<1>8. EndMarker'
  <2>1. ASSUME NEW i \in 1..LineLength, stdout[i].kind = "end" PROVE FALSE
    <3>1. i \in 1..Len(stdout) /\ stdout[i].nl /\ (i > 1 => stdout[i - 1].nl)
      <4>1. i \in 1..Len(stdout)
        BY <1>2, <1>3
      <4> QED
        BY <1>2, <2>1, <4>1 DEF EndMarker, At
    <3>2. i = 1
      BY <1>2, <1>3, <3>1
    <3>3. NextLine[1].kind = "end" /\ NextLine[1].call = n
      BY <1>2, <1>4, <2>1, <3>1, <3>2
    <3> QED
      BY <1>1, <3>3 DEF IsEnd
  <2> QED
    BY <1>1, <2>1, EndMarkerKept
<1>9. Whole'
  <2>1. output \in Seq(Chunk) /\ NextLine \in Seq(Chunk) /\ stdout' \in Seq(Chunk)
    BY <1>2 DEF TypeOK
  <2>2. (output \o NextLine) \o stdout' = output \o (NextLine \o stdout')
    BY <2>1, ConcatAssociative
  <2>3. output' \o stdout' = output \o stdout
    BY <1>1, <1>2, <2>2
  <2> QED
    BY <1>1, <2>3 DEF Whole
<1>10. Results' /\ Future'
  BY <1>1, ResultsKept
<1> QED
  BY <1>5, <1>6, <1>7, <1>8, <1>9, <1>10

\* The line of the end marker is the marker, and what follows it is foreign.
LEMMA EndTaken ==
    ASSUME IInv, ReadLine, started, IsEnd(NextLine)
    PROVE  /\ phase = "waiting" /\ n \in Calls /\ stdin = <<>> /\ ~foreground
           /\ ~ran[n].derailed
           /\ \A i \in 1..Len(stdout') : Foreign(stdout'[i], n)
           /\ ~ran[n].read => NextLine[1].status = ran[n].status
           /\ OwnText(ran[n].text, output)
           /\ \A i \in 1..Len(output) : output[i].call = n
           /\ NextLine[1] \in Chunk
<1> USE DEF IInv
<1>1. /\ phase = "waiting" /\ n \in Calls
      /\ LineLength \in 1..Len(stdout)
      /\ \A i \in 1..LineLength - 1 : ~stdout[i].nl
      /\ \A i \in 1..LineLength : NextLine[i] = stdout[i]
      /\ NextLine \in Seq(Chunk) /\ Len(NextLine) = LineLength
  BY LineRead, InCall
<1>2. 1 \in 1..Len(stdout) /\ 1 \in 1..LineLength /\ NextLine[1] = stdout[1]
  BY <1>1
<1>3. stdout[1].kind = "end"
  BY <1>2 DEF IsEnd
<1>4. /\ stdin = <<>> /\ ~foreground /\ ~ran[n].derailed /\ stdout[1].nl
      /\ \A j \in 1 + 1..Len(stdout) : stdout[j].kind = "text" /\ ~stdout[j].own
      /\ ~ran[n].read => stdout[1].status = ran[n].status
  BY <1>1, <1>2, <1>3 DEF EndMarker, At
<1>5. LineLength = 1
  BY <1>1, <1>2, <1>4
<1>6. /\ ~ran[n].glued
      /\ \A i \in 1..Len(stdout) : stdout[i].call = n /\ stdout[i].kind # "start"
      /\ \A i \in 1..Len(output) : output[i].call = n
  BY <1>1 DEF StartMarker
<1>7. \A i \in 1..Len(stdout') : Foreign(stdout'[i], n)
  <2>1. \A i \in 1..Len(stdout') : /\ 1 + i \in 1..Len(stdout) /\ 1 + i \in 1 + 1..Len(stdout)
                                   /\ stdout'[i] = stdout[1 + i]
    BY <1>5, LineTaken
  <2> QED
    BY <1>4, <1>6, <2>1 DEF Foreign
<1>8. OwnText(ran[n].text, output)
  <2>1. \A i \in 1..Len(stdout) : i = 1 \/ i \in 1 + 1..Len(stdout)
    BY DEF TypeOK
  <2>2. \A i \in 1..Len(stdout) : ~Own(stdout[i])
    BY <1>3, <1>4, <2>1 DEF Own
  <2>3. ran[n].text \in Seq(Chunk) /\ output \in Seq(Chunk) /\ stdout \in Seq(Chunk)
    BY <1>1 DEF TypeOK, Record
  <2> QED
    BY <1>1, <1>6, <2>2, <2>3, OwnPrefix DEF Whole
<1>9. NextLine[1] \in Chunk
  BY <1>1, <1>2
<1> QED
  BY <1>1, <1>2, <1>4, <1>6, <1>7, <1>8, <1>9

\* When the end marker has been read, all of the command's text has been.
LEMMA StepSucceed ==
    ASSUME IInv, TypeOK', Succeed
    PROVE  IInv'
<1> USE DEF IInv
<1>1. /\ ReadLine /\ started /\ IsEnd(NextLine) /\ phase' = "idle"
      /\ result' = [result EXCEPT ![n] =
            [kind |-> "ok", output |-> output, exit_code |-> NextLine[1].status]]
      /\ UNCHANGED <<n, remote, stdin, foreground, last, saved, left, window, texts,
                     started, output, ran>>
  BY DEF Succeed, shellVars
<1>2. /\ n \in Calls /\ stdin = <<>> /\ ~foreground
      /\ \A i \in 1..Len(stdout') : Foreign(stdout'[i], n)
      /\ ~ran[n].read => NextLine[1].status = ran[n].status
      /\ OwnText(ran[n].text, output)
      /\ \A i \in 1..Len(output) : output[i].call = n
  BY <1>1, EndTaken
<1>3. /\ result'[n].output = output /\ result'[n].exit_code = NextLine[1].status
      /\ \A c \in Calls : c # n => result'[c] = result[c]
  BY <1>1, <1>2 DEF TypeOK
<1>4. Progress'
  BY <1>1, <1>2, Lines DEF Progress, Calls
<1>5. Statuses' /\ Idle' /\ StartMarker' /\ EndMarker' /\ Whole'
  BY <1>1, <1>2, Lines DEF Statuses, Idle, StartMarker, EndMarker, Whole
<1>6. Future'
  BY <1>1, <1>2, <1>3 DEF Future, Ok, Calls
<1>7. OutputIsolated'
  BY <1>1, <1>2, <1>3 DEF Results, OutputIsolated, Ok
<1>8. OutputWhole'
  BY <1>1, <1>2, <1>3 DEF Results, OutputWhole, Ok
<1>9. ExitCodeKept'
  BY <1>1, <1>2, <1>3 DEF Results, ExitCodeKept, Ok
<1> QED
  BY <1>1, <1>4, <1>5, <1>6, <1>7, <1>8, <1>9 DEF Results

\* The session is closed: only the results matter from then on.
LEMMA StepFail ==
    ASSUME IInv, TypeOK', Fail, phase = "waiting",
           UNCHANGED <<n, remote, shellVars, started, output, ran>>
    PROVE  IInv'
<1> USE DEF IInv
<1>1. n \in Calls /\ phase' = "closed"
      /\ UNCHANGED <<stdin, foreground, last, saved, window>>
  BY InCall DEF Fail, shellVars
<1>2. /\ ~Ok(n)'
      /\ \A c \in Calls : c # n => result'[c] = result[c]
  <2>1. \A kind : Failed(kind).kind = kind
    BY DEF Failed, NoResult
  <2>2. PICK kind \in {"beforeMarkers", "error"} :
          result' = [result EXCEPT ![n] = Failed(kind)]
    BY DEF Fail
  <2> QED
    BY <1>1, <2>1, <2>2 DEF Ok, TypeOK
<1>3. Progress'
  BY <1>1 DEF Progress, Calls
<1>4. Statuses' /\ Idle' /\ StartMarker' /\ EndMarker' /\ Whole'
  BY <1>1 DEF Statuses, Idle, StartMarker, EndMarker, Whole
<1>5. Results' /\ Future'
  BY <1>1, <1>2, ResultsFrame
<1> QED
  BY <1>3, <1>4, <1>5

-----------------------------------------------------------------------------
(***************************************************************************)
(* The theorems.                                                           *)
(***************************************************************************)
LEMMA InvInit == Init => IInv
<1> SUFFICES ASSUME Init PROVE IInv
  OBVIOUS
<1> USE DEF Init
<1>1. TypeOK
  BY TypeInit
<1>2. n = 0 /\ \A c \in Calls : c > n /\ ran[c] = NoRecord /\ result[c] = NoResult
  BY DEF Calls
<1>3. \A c \in Calls : ~Ok(c)
  BY <1>2 DEF Ok, NoResult
<1>4. Progress
  BY Lines DEF Progress
<1>5. Statuses
  BY Lines DEF Statuses
<1>6. Future /\ Results
  BY <1>2, <1>3 DEF Future, Results, OutputIsolated, OutputWhole, ExitCodeKept
<1>7. Idle /\ StartMarker /\ EndMarker /\ Whole
  BY DEF Idle, StartMarker, EndMarker, Whole
<1> QED
  BY <1>1, <1>4, <1>5, <1>6, <1>7 DEF IInv

\* Every step keeps the invariant.
LEMMA InvStep ==
    ASSUME IInv, [Next]_vars
    PROVE  IInv'
<1>1. TypeOK'
  BY TypeStep DEF IInv
<1>2. CASE BadStatus
  <2>1. phase = "waiting"
    BY <1>2 DEF BadStatus, ReadLine
  <2> QED
    BY <1>1, <1>2, <2>1, StepFail DEF BadStatus
<1>3. CASE GiveUp
  BY <1>1, <1>3, StepFail DEF GiveUp
<1>4. CASE UNCHANGED vars
  <2>1. UNCHANGED <<n, phase, stdin, foreground, last, saved, window, stdout,
                    started, output, result, ran>>
    BY <1>4 DEF vars, shellVars
  <2>2. Progress' /\ Statuses' /\ Future' /\ Idle'
    BY <2>1 DEF IInv, Progress, Statuses, Future, Idle, Ok
  <2>3. StartMarker' /\ EndMarker' /\ Whole'
    BY <2>1 DEF IInv, StartMarker, EndMarker, Whole, At
  <2>4. Results'
    BY <2>1, ResultsKept DEF IInv
  <2> QED
    BY <1>1, <2>2, <2>3, <2>4 DEF IInv
<1> QED
  BY <1>1, <1>2, <1>3, <1>4, StepIssue, StepPrintStart, StepStartCommand,
     StepCommandWrites, StepBackgroundWrites, StepCommandReads, StepDerail, StepCommandEnds,
     StepSaveStatus, StepPrintEnd, StepSkip, StepCollectLine, StepSucceed
     DEF Next, Shell, Gateway

\* The inductive invariant: how far the shell, the stream and the reader are
\* (session.go:187-303).
THEOREM Invariance == Spec => []IInv
BY InvInit, InvStep, PTL DEF Spec

\* Every variable keeps its type.
THEOREM TypeCorrect == Spec => []TypeOK
<1>1. IInv => TypeOK
  BY DEF IInv
<1> QED
  BY <1>1, Invariance, PTL

\* A result holds nothing that was written before its own command was
\* announced, whatever background processes write and wherever the start
\* marker lands (session.go:216-252).
THEOREM Isolated == Spec => []OutputIsolated
<1>1. IInv => OutputIsolated
  BY DEF IInv, Results
<1> QED
  BY <1>1, Invariance, PTL

\* A result holds all its command wrote, in order (session.go:249-250).
THEOREM Unbroken == Spec => []OutputWhole
<1>1. IInv => OutputWhole
  BY DEF IInv, Results
<1> QED
  BY <1>1, Invariance, PTL

\* The exit code of a result is that of its command, unless the command read
\* lines of the script (session.go:195-200).
THEOREM StatusKept == Spec => []ExitCodeKept
<1>1. IInv => ExitCodeKept
  BY DEF IInv, Results
<1> QED
  BY <1>1, Invariance, PTL

\* When the shell has said all it will and the reader still waits, the command
\* read lines of the script, was incomplete, did something to the shell that
\* keeps it from printing, or its start marker is in the middle of a line
\* (session.go:195-200, 216-252).
THEOREM Answered == Spec => []AnsweredUnlessDisturbed
<1>1. ASSUME IInv, Deaf PROVE ran[n].read \/ ran[n].derailed \/ ran[n].glued
  <2>1. \A i \in 1..Len(stdout) : ~stdout[i].nl
    BY <1>1, LineFound DEF IInv, TypeOK, Deaf
  <2> QED
    BY <1>1, <2>1 DEF IInv, EndMarker, Deaf, At
<1>2. IInv => AnsweredUnlessDisturbed
  BY <1>1 DEF AnsweredUnlessDisturbed
<1> QED
  BY <1>2, Invariance, PTL

-----------------------------------------------------------------------------
(***************************************************************************)
(* A session keeps the promises of ShellSession.                           *)
(***************************************************************************)
\* A call is answered once, and the next one follows a success; a command has
\* no status until it has ended, and one that was started or complete has one
\* then.
Unended == stdin \in {Script, AfterStart} \/ foreground

Answering ==
    /\ phase = "idle" => n = 0 \/ Ok(n)
    /\ phase = "waiting" => result[n] = NoResult
    /\ \A c \in Calls : c > n => result[c] = NoResult
    /\ n > 0 => /\ Unended => ran[n].status = -1
                /\ ran[n].status = -1 => Unended \/ ran[n].derailed

LEMMA AnsweringInit ==
    ASSUME Init
    PROVE  Answering
BY DEF Init, Answering, Unended, Calls

\* A step of the shell or its command leaves the results as they are.
LEMMA AnsweringShell ==
    ASSUME IInv, Answering, Shell
    PROVE  Answering'
<1> USE DEF IInv
<1>1. UNCHANGED <<n, phase, result>>
  BY DEF Shell, PrintStart, StartCommand, ReadIncomplete, CommandWrites, CommandReads,
         DerailShell, Derail, CommandEnds, SaveStatus, PrintEnd, BackgroundWrites
<1>2. n > 0 => n \in Calls /\ ran[n] \in Record
  <2>1. n > 0 => n \in Calls
    BY DEF TypeOK, Calls
  <2>2. ran \in [Calls -> Record]
    BY DEF TypeOK
  <2> QED
    BY <2>1, <2>2
<1>3. ASSUME n > 0
      PROVE  /\ Unended' => ran'[n].status = -1
             /\ ran'[n].status = -1 => Unended' \/ ran'[n].derailed
  <2>1. /\ Unended => ran[n].status = -1
        /\ ran[n].status = -1 => Unended \/ ran[n].derailed
    BY <1>3 DEF Answering
  <2>2. CASE PrintStart
    <3>1. /\ stdin = Script /\ stdin' = AfterStart
          /\ ran'[n].status = ran[n].status /\ ran'[n].derailed = ran[n].derailed
      BY <1>2, <1>3, <2>2, ScriptRead DEF PrintStart, TypeOK
    <3> QED
      BY <1>1, <2>1, <3>1 DEF Unended
  <2>3. CASE StartCommand
    <3>1. stdin = AfterStart /\ foreground' /\ ran' = ran
      BY <2>3, ScriptRead DEF StartCommand
    <3> QED
      BY <1>1, <2>1, <3>1 DEF Unended
  <2>4. CASE CommandWrites
    <3>1. foreground /\ foreground' /\ ran'[n].status = ran[n].status
      BY <1>2, <1>3, <2>4 DEF CommandWrites, TypeOK
    <3> QED
      BY <1>1, <2>1, <3>1 DEF Unended
  <2>5. CASE CommandReads
    <3>1. foreground /\ foreground' /\ ran'[n].status = ran[n].status
      BY <1>2, <1>3, <2>5 DEF CommandReads, TypeOK
    <3> QED
      BY <1>1, <2>1, <3>1 DEF Unended
  <2>6. CASE CommandEnds
    <3>1. /\ foreground /\ ~foreground' /\ stdin' = stdin /\ ran'[n].status = last'
          /\ last' \in Nat
      BY <1>2, <1>3, <2>6, StatusAssumption DEF CommandEnds, TypeOK
    <3>2. stdin \notin {Script, AfterStart}
      BY <3>1, Lines DEF Progress
    <3> QED
      BY <1>1, <3>1, <3>2 DEF Unended
  <2>7. CASE SaveStatus
    <3>1. /\ stdin = AfterCommand /\ stdin' = AfterStatus /\ ran' = ran
          /\ foreground' = foreground
      BY <2>7, ScriptRead DEF SaveStatus
    <3> QED
      BY <1>1, <2>1, <3>1, Lines DEF Unended
  <2>8. CASE PrintEnd
    <3>1. /\ stdin = AfterStatus /\ stdin' = <<>> /\ ran' = ran
          /\ foreground' = foreground
      BY <2>8, ScriptRead DEF PrintEnd
    <3> QED
      BY <1>1, <2>1, <3>1, Lines DEF Unended
  <2>9. CASE BackgroundWrites
    BY <1>1, <2>1, <2>9 DEF BackgroundWrites, Unended
  <2>10. CASE ReadIncomplete \/ DerailShell
    <3>1. /\ Unended /\ stdin' = <<>> /\ foreground' = foreground
      BY <2>10, ScriptAt DEF ReadIncomplete, DerailShell, Derail, Unended
    <3>2. ran'[n].status = ran[n].status /\ ran'[n].derailed
      <4>1. ran' = [ran EXCEPT ![n].derailed = TRUE] /\ ran \in [Calls -> Record]
        BY <2>10 DEF ReadIncomplete, DerailShell, Derail, TypeOK
      <4> QED
        BY <1>2, <1>3, <4>1 DEF Record
    <3> QED
      BY <1>1, <2>1, <3>1, <3>2
  <2> QED
    BY <2>2, <2>3, <2>4, <2>5, <2>6, <2>7, <2>8, <2>9, <2>10 DEF Shell
<1> QED
  BY <1>1, <1>3 DEF Answering, Ok

\* Every step keeps it.
LEMMA AnsweringStep ==
    ASSUME IInv, Answering, [Next]_vars
    PROVE  Answering'
<1> USE DEF IInv
<1>1. CASE Shell
  BY <1>1, AnsweringShell
<1>2. CASE Issue
  <2>1. /\ n' = n + 1 /\ phase' = "waiting" /\ stdin' = stdin \o Script
        /\ UNCHANGED <<foreground, result, ran>> /\ phase = "idle" /\ n + 1 \in Calls
        /\ n \in Nat
    BY <1>2, BoundsAssumption DEF Issue, TypeOK, Calls
  <2>2. stdin' = Script
    BY <2>1, ScriptTyped DEF Progress
  <2>3. ran[n + 1].status = -1
    BY <2>1 DEF Future, NoRecord
  <2>4. \A c \in Calls : c > n + 1 => c > n
    BY <2>1 DEF Calls
  <2> QED
    BY <2>1, <2>2, <2>3, <2>4 DEF Answering, Unended
<1>3. CASE Skip \/ CollectLine
  <2>1. UNCHANGED <<n, phase, stdin, foreground, result, ran>>
    BY <1>3 DEF Skip, CollectLine, shellVars
  <2> QED
    BY <2>1 DEF Answering, Unended, Ok
<1>4. CASE Succeed
  <2>1. /\ n \in Calls /\ phase' = "idle" /\ result'[n].kind = "ok"
        /\ \A c \in Calls : c # n => result'[c] = result[c]
        /\ UNCHANGED <<n, stdin, foreground, ran>>
    BY <1>4, EndTaken DEF Succeed, shellVars, TypeOK
  <2> QED
    BY <2>1 DEF Answering, Unended, Ok, Calls
<1>5. CASE BadStatus \/ GiveUp
  <2>1. /\ n \in Calls /\ phase' = "closed"
        /\ UNCHANGED <<n, stdin, foreground, ran>>
    BY <1>5, InCall DEF BadStatus, GiveUp, ReadLine, Fail, shellVars
  <2>2. \A c \in Calls : c # n => result'[c] = result[c]
    BY <1>5, <2>1 DEF BadStatus, GiveUp, Fail, TypeOK
  <2> QED
    BY <2>1, <2>2 DEF Answering, Unended, Calls
<1>6. CASE UNCHANGED vars
  BY <1>6 DEF vars, shellVars, Answering, Unended, Ok
<1> QED
  BY <1>1, <1>2, <1>3, <1>4, <1>5, <1>6 DEF Next, Gateway

LEMMA RefinementInit == Init => Session!Init
<1> SUFFICES ASSUME Init PROVE Session!Init
  OBVIOUS
<1>1. phase # "closed"
  BY DEF Init
<1>2. Wrote = [c \in Calls |-> <<>>] /\ EndedAs = [c \in Calls |-> -1] /\ Readers = {}
  BY DEF Init, Wrote, EndedAs, Readers, NoRecord
<1> QED
  BY <1>1, <1>2 DEF Init, Session!Init, Calls

\* Every step of a session is one of ShellSession or a stutter: a step of the
\* shell or its command...
LEMMA RefinementShell ==
    ASSUME IInv, Answering, Shell
    PROVE  Session!Next \/ UNCHANGED Session!vars
<1> USE DEF IInv
<1>1. UNCHANGED <<n, phase, result>>
  BY DEF Shell, PrintStart, StartCommand, ReadIncomplete, CommandWrites, CommandReads,
         DerailShell, Derail, CommandEnds, SaveStatus, PrintEnd, BackgroundWrites
<1>2. ASSUME UNCHANGED ran PROVE UNCHANGED Session!vars
  BY <1>1, <1>2 DEF Session!vars, Wrote, EndedAs, Readers
<1>3. ASSUME foreground
      PROVE  /\ n \in Calls /\ n > 0 /\ ran \in [Calls -> Record] /\ EndedAs[n] = -1
             /\ Session!Executing
  <2>1. n \in Calls
    BY <1>3, InCall
  <2>2. n > 0 /\ ran[n].status = -1
    BY <1>3, <2>1 DEF Answering, Unended, Calls
  <2> QED
    BY <2>1, <2>2 DEF EndedAs, Session!Executing, TypeOK
<1>4. CASE PrintStart
  <2>1. ran' = [ran EXCEPT ![n].glued = MidLine] /\ ran \in [Calls -> Record]
    BY <1>4 DEF PrintStart, TypeOK
  <2>2. Wrote' = Wrote /\ EndedAs' = EndedAs /\ Readers' = Readers
    BY <2>1 DEF Wrote, EndedAs, Readers, Record
  <2> QED
    BY <1>1, <2>2 DEF Session!vars
<1>5. CASE CommandWrites
  <2>1. PICK nl \in BOOLEAN :
          foreground /\ ran' = [ran EXCEPT ![n].text = Append(@, Text(TRUE, nl))]
    BY <1>5 DEF CommandWrites
  <2>2. /\ Text(TRUE, nl) \in {k \in Chunk : k.kind = "text" /\ k.own}
    BY ChunkTyped DEF Text
  <2>3. /\ Wrote' = [Wrote EXCEPT ![n] = Append(@, Text(TRUE, nl))]
        /\ EndedAs' = EndedAs /\ Readers' = Readers
    BY <1>3, <2>1 DEF Wrote, EndedAs, Readers, Record
  <2> QED
    BY <1>1, <1>3, <2>1, <2>2, <2>3 DEF Session!Next, Session!Write
<1>6. CASE CommandReads
  <2>1. foreground /\ ran' = [ran EXCEPT ![n].read = TRUE]
    BY <1>6 DEF CommandReads
  <2>2. Wrote' = Wrote /\ EndedAs' = EndedAs /\ Readers' = Readers \cup {n}
    BY <1>3, <2>1 DEF Wrote, EndedAs, Readers, Record
  <2> QED
    BY <1>1, <1>3, <2>1, <2>2 DEF Session!Next, Session!Meddle
<1>7. CASE CommandEnds
  <2>1. foreground /\ last' \in Status /\ ran' = [ran EXCEPT ![n].status = last']
    BY <1>7 DEF CommandEnds
  <2>2. Wrote' = Wrote /\ EndedAs' = [EndedAs EXCEPT ![n] = last'] /\ Readers' = Readers
    BY <1>3, <2>1 DEF Wrote, EndedAs, Readers, Record
  <2> QED
    BY <1>1, <1>3, <2>1, <2>2 DEF Session!Next, Session!End
<1>8. CASE StartCommand \/ SaveStatus \/ PrintEnd \/ BackgroundWrites
  BY <1>2, <1>8 DEF StartCommand, SaveStatus, PrintEnd, BackgroundWrites
<1>9. CASE ReadIncomplete \/ DerailShell
  <2>1. ran' = [ran EXCEPT ![n].derailed = TRUE] /\ ran \in [Calls -> Record]
    BY <1>9 DEF ReadIncomplete, DerailShell, Derail, TypeOK
  <2>2. Wrote' = Wrote /\ EndedAs' = EndedAs /\ Readers' = Readers
    BY <2>1 DEF Wrote, EndedAs, Readers, Record
  <2> QED
    BY <1>1, <2>2 DEF Session!vars
<1> QED
  BY <1>4, <1>5, <1>6, <1>7, <1>8, <1>9 DEF Shell

\* ... or one of the gateway.
LEMMA RefinementStep ==
    ASSUME IInv, Answering, [Next]_vars
    PROVE  Session!Next \/ UNCHANGED Session!vars
<1> USE DEF IInv
<1>1. CASE Shell
  BY <1>1, RefinementShell
<1>2. CASE Issue
  <2>1. /\ n' = n + 1 /\ n < MaxCalls /\ phase = "idle" /\ phase' = "waiting"
        /\ UNCHANGED <<result, ran>>
    BY <1>2 DEF Issue
  <2>2. n > 0 => result[n].kind = "ok"
    BY <2>1 DEF Answering, Ok
  <2>3. Wrote' = Wrote /\ EndedAs' = EndedAs /\ Readers' = Readers
    BY <2>1 DEF Wrote, EndedAs, Readers
  <2> QED
    BY <2>1, <2>2, <2>3 DEF Session!Next, Session!Begin
<1>3. CASE Skip \/ CollectLine
  <2>1. UNCHANGED <<n, phase, result, ran>>
    BY <1>3 DEF Skip, CollectLine
  <2> QED
    BY <2>1 DEF Session!vars, Wrote, EndedAs, Readers
<1>4. CASE Succeed
  <2> DEFINE answer == [kind |-> "ok", output |-> output, exit_code |-> NextLine[1].status]
  <2>1. /\ ReadLine /\ started /\ IsEnd(NextLine) /\ phase' = "idle"
        /\ result' = [result EXCEPT ![n] = answer]
        /\ UNCHANGED <<n, ran>>
    BY <1>4 DEF Succeed
  <2>2. /\ phase = "waiting" /\ n \in Calls /\ stdin = <<>> /\ ~foreground
        /\ ~ran[n].derailed
        /\ ~ran[n].read => NextLine[1].status = ran[n].status
        /\ OwnText(ran[n].text, output)
        /\ \A i \in 1..Len(output) : output[i].call = n
    BY <2>1, EndTaken
  <2>3. result[n] = NoResult /\ n > 0 /\ ran[n].status # -1
    BY <2>2, Lines DEF Answering, Unended, Calls
  <2>4. result'[n] = answer /\ answer.kind = "ok" /\ answer.output = output
        /\ answer.exit_code = NextLine[1].status
    BY <2>1, <2>2 DEF TypeOK
  <2> HIDE DEF answer
  <2>5. Wrote[n] = ran[n].text /\ EndedAs[n] = ran[n].status /\ (n \in Readers <=> ran[n].read)
    BY <2>2 DEF Wrote, EndedAs, Readers
  <2>6. Wrote' = Wrote /\ EndedAs' = EndedAs /\ Readers' = Readers
    BY <2>1 DEF Wrote, EndedAs, Readers
  <2>7. Session!Answer
    BY <2>1, <2>2, <2>3, <2>4, <2>6 DEF Session!Answer
  <2>8. ~Session!Executing
    BY <2>3, <2>5 DEF Session!Executing
  <2>9. ShownFor(n, Wrote[n], result'[n].output)
    BY <2>2, <2>4, <2>5 DEF ShownFor
  <2> QED
    BY <2>1, <2>2, <2>4, <2>5, <2>7, <2>8, <2>9 DEF Session!Next, Session!Succeed
<1>5. CASE BadStatus \/ GiveUp
  <2>1. /\ phase = "waiting" /\ n \in Calls /\ phase' = "closed" /\ UNCHANGED <<n, ran>>
        /\ Fail
    BY <1>5, InCall DEF BadStatus, GiveUp, ReadLine, Fail
  <2>2. PICK kind \in {"beforeMarkers", "error"} :
          result' = [result EXCEPT ![n] = Failed(kind)]
    BY <2>1 DEF Fail
  <2>3. result'[n] = Failed(kind) /\ Failed(kind).kind = kind
    BY <2>1, <2>2 DEF Failed, NoResult, TypeOK
  <2>4. result[n] = NoResult /\ n > 0
    BY <2>1 DEF Answering, Calls
  <2>5. Wrote' = Wrote /\ EndedAs' = EndedAs /\ Readers' = Readers
    BY <2>1 DEF Wrote, EndedAs, Readers
  <2>6. Session!Answer
    BY <2>1, <2>2, <2>3, <2>4, <2>5 DEF Session!Answer
  <2> QED
    BY <2>1, <2>3, <2>6 DEF Session!Next, Session!Fail
<1>6. CASE UNCHANGED vars
  BY <1>6 DEF vars, Session!vars, Wrote, EndedAs, Readers
<1> QED
  BY <1>1, <1>2, <1>3, <1>4, <1>5, <1>6 DEF Next, Gateway

\* Whatever the script, the markers and the reader meet in the streams, a call
\* sees commands that are executed one after the other, and a result that is
\* final, whole, its own, and not given before the command's end
\* (session.go:165-331).
THEOREM Refinement == Spec => ImplementsShellSession
<1>1. Init => IInv /\ Answering
  BY InvInit, AnsweringInit
<1>2. IInv /\ Answering /\ [Next]_vars => IInv' /\ Answering'
  BY InvStep, AnsweringStep
<1>3. IInv /\ Answering /\ [Next]_vars => [Session!Next]_(Session!vars)
  BY RefinementStep
<1> QED
  BY <1>1, <1>2, <1>3, RefinementInit, PTL DEF Spec, ImplementsShellSession, Session!Spec

-----------------------------------------------------------------------------
(***************************************************************************)
(* Commands that do not read stdin, and what half a line takes.            *)
(***************************************************************************)
\* Nobody writes what the habits do not have.
Orderly ==
    /\ \A c \in Calls : ~ran[c].read
    /\ "derail" \notin Habits => \A c \in Calls : ~ran[c].derailed
    /\ "partial" \notin Habits => \A i \in 1..Len(stdout) : stdout[i].nl
    /\ "background" \notin Habits =>
          left = {} /\ \A i \in 1..Len(stdout) : stdout[i].kind = "text" => stdout[i].own

LEMMA OrderlyInit ==
    ASSUME Init
    PROVE  Orderly
BY DEF Init, Orderly, NoRecord

\* A step that writes one chunk, or two, or takes a line.
LEMMA OrderlyAppended ==
    ASSUME IInv, Orderly, NEW k \in Chunk, stdout' = Append(stdout, k),
           "partial" \notin Habits => k.nl,
           "background" \notin Habits => left' = {} /\ (k.kind = "text" => k.own),
           \A c \in Calls : ~ran'[c].read,
           "derail" \notin Habits => \A c \in Calls : ~ran'[c].derailed
    PROVE  Orderly'
<1>1. /\ Len(stdout') = Len(stdout) + 1 /\ Len(stdout) \in Nat
      /\ stdout'[Len(stdout) + 1] = k
      /\ \A i \in 1..Len(stdout) : stdout'[i] = stdout[i]
  BY Appended DEF IInv
<1>2. \A i \in 1..Len(stdout') : i \in 1..Len(stdout) \/ i = Len(stdout) + 1
  BY <1>1
<1> QED
  BY <1>1, <1>2 DEF Orderly

LEMMA OrderlyStep ==
    ASSUME "stdin" \notin Habits, IInv, Orderly, [Next]_vars
    PROVE  Orderly'
<1> USE DEF IInv
<1>1. CASE PrintStart
  <2>1. Printed("start", n, -1) \in Chunk
    BY ChunkTyped
  <2>2. \A c \in Calls : ran'[c].read = ran[c].read /\ ran'[c].derailed = ran[c].derailed
    BY <1>1 DEF PrintStart, TypeOK, Record
  <2>3. stdout' = Append(stdout, Printed("start", n, -1)) /\ left' = left
    BY <1>1 DEF PrintStart
  <2> QED
    BY <2>1, <2>2, <2>3, OrderlyAppended DEF Orderly, Printed
<1>2. CASE CommandWrites
  <2>1. PICK nl \in BOOLEAN :
          /\ stdout' = Append(stdout, Text(TRUE, nl)) /\ left' = left
          /\ ran' = [ran EXCEPT ![n].text = Append(@, Text(TRUE, nl))]
          /\ "partial" \notin Habits => nl
    BY <1>2 DEF CommandWrites
  <2>2. \A c \in Calls : ran'[c].read = ran[c].read /\ ran'[c].derailed = ran[c].derailed
    BY <2>1 DEF TypeOK, Record
  <2>3. Text(TRUE, nl) \in Chunk /\ Text(TRUE, nl).nl = nl /\ Text(TRUE, nl).own
    BY ChunkTyped DEF Text
  <2> QED
    BY <2>1, <2>2, <2>3, OrderlyAppended DEF Orderly
<1>3. CASE BackgroundWrites
  <2>1. PICK nl \in BOOLEAN :
          /\ stdout' = Append(stdout, Text(FALSE, nl)) /\ UNCHANGED <<left, ran>>
          /\ "partial" \notin Habits => nl
          /\ left # {}
    BY <1>3 DEF BackgroundWrites
  <2>2. Text(FALSE, nl) \in Chunk /\ Text(FALSE, nl).nl = nl
    BY ChunkTyped DEF Text
  <2> QED
    BY <2>1, <2>2, OrderlyAppended DEF Orderly
<1>4. CASE PrintEnd
  <2> DEFINE newline == Printed("newline", n, -1)
             marker  == Printed("end", n, saved)
             s == Append(stdout, newline)
  <2>1. /\ newline \in Chunk /\ marker \in Chunk
        /\ newline.nl /\ marker.nl /\ newline.kind # "text" /\ marker.kind # "text"
    BY ChunkTyped DEF Printed, TypeOK
  <2>2. stdout' = stdout \o <<newline, marker>> /\ UNCHANGED <<left, ran>>
    BY <1>4 DEF PrintEnd
  <2> HIDE DEF newline, marker
  <2>3. /\ Len(stdout') = Len(stdout) + 2 /\ Len(stdout) \in Nat
        /\ stdout'[Len(stdout) + 1] = newline /\ stdout'[Len(stdout) + 2] = marker
        /\ \A i \in 1..Len(stdout) : stdout'[i] = stdout[i]
    BY <2>1, <2>2 DEF TypeOK
  <2>4. \A i \in 1..Len(stdout') :
           i \in 1..Len(stdout) \/ i = Len(stdout) + 1 \/ i = Len(stdout) + 2
    BY <2>3
  <2>5. "partial" \notin Habits => \A i \in 1..Len(stdout') : stdout'[i].nl
    BY <2>1, <2>3, <2>4 DEF Orderly
  <2>6. "background" \notin Habits =>
           \A i \in 1..Len(stdout') : stdout'[i].kind = "text" => stdout'[i].own
    BY <2>1, <2>3, <2>4 DEF Orderly
  <2> QED
    BY <2>2, <2>5, <2>6 DEF Orderly
<1>5. CASE CommandEnds
  <2>1. \A c \in Calls : ran'[c].read = ran[c].read /\ ran'[c].derailed = ran[c].derailed
    BY <1>5 DEF CommandEnds, TypeOK, Record
  <2>2. stdout' = stdout /\ ("background" \notin Habits => left' = left)
    BY <1>5 DEF CommandEnds
  <2> QED
    BY <2>1, <2>2 DEF Orderly
<1>6. CASE Skip \/ CollectLine \/ Succeed \/ BadStatus
  <2>1. ReadLine /\ UNCHANGED <<left, ran>>
    BY <1>6 DEF Skip, CollectLine, Succeed, BadStatus, shellVars
  <2>2. \A i \in 1..Len(stdout') : /\ LineLength + i \in 1..Len(stdout)
                                    /\ stdout'[i] = stdout[LineLength + i]
    BY <2>1, LineTaken
  <2> QED
    BY <2>1, <2>2 DEF Orderly
<1>7. CASE StartCommand \/ SaveStatus \/ Issue \/ GiveUp \/ UNCHANGED vars
  <2>1. UNCHANGED <<left, ran, stdout>>
    BY <1>7 DEF StartCommand, SaveStatus, Issue, GiveUp, shellVars, vars
  <2> QED
    BY <2>1 DEF Orderly
<1>8. ~CommandReads
  BY DEF CommandReads
<1>9. CASE ReadIncomplete \/ DerailShell
  <2>1. /\ "derail" \in Habits /\ UNCHANGED <<left, stdout>>
        /\ ran' = [ran EXCEPT ![n].derailed = TRUE]
    BY <1>9 DEF ReadIncomplete, DerailShell, Derail
  <2>2. \A c \in Calls : ran'[c].read = ran[c].read
    BY <2>1 DEF TypeOK, Record
  <2> QED
    BY <2>1, <2>2 DEF Orderly
<1> QED
  BY <1>1, <1>2, <1>3, <1>4, <1>5, <1>6, <1>7, <1>8, <1>9 DEF Next, Shell, Gateway

\* The exit code of every result is that of its command, as output_schema.go:42
\* says, if commands do not read the script (session.go:195-200).
THEOREM StatusOwn ==
    ASSUME "stdin" \notin Habits
    PROVE  Spec => []ExitCodeOwn
<1>1. Init => IInv /\ Orderly
  BY InvInit, OrderlyInit
<1>2. IInv /\ Orderly /\ [Next]_vars => IInv' /\ Orderly'
  BY InvStep, OrderlyStep
<1>3. IInv /\ Orderly => ExitCodeOwn
  BY DEF IInv, Results, ExitCodeKept, ExitCodeOwn, Orderly
<1> QED
  BY <1>1, <1>2, <1>3, PTL DEF Spec

\* A start marker begins a line, unless a process in the background may leave a
\* line open.
Unglued == \A c \in Calls : ~ran[c].glued

LEMMA UngluedStep ==
    ASSUME IInv, Orderly, Unglued, [Next]_vars,
           "partial" \notin Habits \/ "background" \notin Habits
    PROVE  Unglued'
<1> USE DEF IInv
<1>1. CASE PrintStart
  <2>1. stdin = Script /\ phase = "waiting"
    BY <1>1, ScriptRead DEF PrintStart
  <2>2. \A i \in 1..Len(stdout) : Foreign(stdout[i], n - 1)
    BY <2>1 DEF StartMarker
  <2>3. ~MidLine
    <3>1. SUFFICES ASSUME stdout # <<>> PROVE Last(stdout).nl
      BY DEF MidLine
    <3>2. Len(stdout) \in 1..Len(stdout)
      BY <3>1 DEF TypeOK
    <3>3. stdout[Len(stdout)].kind = "text" /\ ~stdout[Len(stdout)].own
      BY <2>2, <3>2 DEF Foreign
    <3>4. stdout[Len(stdout)].nl
      BY <3>2, <3>3 DEF Orderly
    <3> QED
      BY <3>4 DEF Last
  <2>4. ran' = [ran EXCEPT ![n].glued = MidLine] /\ ran \in [Calls -> Record]
    BY <1>1 DEF PrintStart, TypeOK
  <2>5. \A c \in Calls : ran'[c].glued \in {ran[c].glued, MidLine}
    BY <2>4 DEF Record
  <2> QED
    BY <2>3, <2>5 DEF Unglued
<1>2. CASE CommandWrites \/ CommandReads \/ CommandEnds \/ ReadIncomplete \/ DerailShell
  <2>1. ran \in [Calls -> Record]
    BY DEF TypeOK
  <2>2. CASE CommandWrites
    <3>1. PICK nl \in BOOLEAN :
            ran' = [ran EXCEPT ![n].text = Append(@, Text(TRUE, nl))]
      BY <2>2 DEF CommandWrites
    <3> QED
      BY <2>1, <3>1 DEF Unglued, Record
  <2>3. CASE CommandReads
    BY <2>1, <2>3 DEF CommandReads, Unglued, Record
  <2>4. CASE CommandEnds
    BY <2>1, <2>4 DEF CommandEnds, Unglued, Record
  <2>5. CASE ReadIncomplete \/ DerailShell
    BY <2>1, <2>5 DEF ReadIncomplete, DerailShell, Derail, Unglued, Record
  <2> QED
    BY <1>2, <2>2, <2>3, <2>4, <2>5
<1>3. CASE ~(PrintStart \/ CommandWrites \/ CommandReads \/ CommandEnds
             \/ ReadIncomplete \/ DerailShell)
  <2>1. ran' = ran
    BY <1>3 DEF Next, Shell, Gateway, StartCommand, SaveStatus, PrintEnd,
                BackgroundWrites, Issue, Skip, CollectLine, Succeed, BadStatus, GiveUp, vars
  <2> QED
    BY <2>1 DEF Unglued
<1> QED
  BY <1>1, <1>2, <1>3

\* Every command that has ended is answered without waiting for the timeout, if
\* commands are complete, do not read the script and leave the shell and its
\* output as they are, and what they leave in the background writes whole lines
\* or there is nothing left (session.go:195-200, 216-252).
THEOREM AnsweredOrderly ==
    ASSUME "stdin" \notin Habits, "derail" \notin Habits,
           "partial" \notin Habits \/ "background" \notin Habits
    PROVE  Spec => []~Deaf
<1>1. Init => IInv /\ Orderly /\ Unglued
  <2>1. Init => Unglued
    BY DEF Init, Unglued, NoRecord
  <2> QED
    BY <2>1, InvInit, OrderlyInit
<1>2. IInv /\ Orderly /\ Unglued /\ [Next]_vars => IInv' /\ Orderly' /\ Unglued'
  BY InvStep, OrderlyStep, UngluedStep
<1>3. IInv /\ Orderly /\ Unglued => ~Deaf
  <2> SUFFICES ASSUME IInv, Orderly, Unglued, Deaf PROVE FALSE
    OBVIOUS
  <2>1. n \in Calls /\ ~ran[n].read /\ ~ran[n].derailed /\ ~ran[n].glued
    BY InCall DEF IInv, Deaf, Orderly, Unglued
  <2>2. \A i \in 1..Len(stdout) : ~stdout[i].nl
    BY LineFound DEF IInv, TypeOK, Deaf
  <2> QED
    BY <2>1, <2>2 DEF IInv, EndMarker, Deaf, At
<1> QED
  BY <1>1, <1>2, <1>3, PTL DEF Spec
===============================================================================
