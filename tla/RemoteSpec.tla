------------------------------ MODULE RemoteSpec ------------------------------
(***************************************************************************)
(* src/terminal_mcp/remote/remote.go: the remote argument,                 *)
(* [user@]host[:port][/path], as ssh gets it.  A string is a sequence of   *)
(* characters.  Go's TrimSpace and Quote and what bash makes of a quoted   *)
(* word are modelled for the characters the properties tell apart.         *)
(***************************************************************************)
EXTENDS Naturals, Sequences, SequencesExt

CONSTANT Character  \* of which remote arguments are made

ASSUME CharacterAssumption == {"/", "-", "p"} \subseteq Character

Chars == Seq(Character)
Digit == {"0", "1", "2", "3", "4", "5", "6", "7", "8", "9"}
Space == {" ", "\n", "\t"}

\* Line ends and tabs stand for all the characters strconv.Quote does not leave
\* as they are but for quotes and backslashes; a dollar or a backquote starts
\* an expansion within a shell's double quotes.
Unprinted == {"\n", "\t"}
Backquote == "backquote"
Expanding == {"$", Backquote}

SpecState == [raw : Chars, target : Chars, port : Chars, path : Chars]

Remote(raw, target, port, path) ==
    [raw |-> raw, target |-> target, port |-> port, path |-> path]

NoRemote == Remote(<<>>, <<>>, <<>>, <<>>)    \* the command runs locally

\* An error: there is no host.
Malformed == Remote(<<"/">>, <<>>, <<>>, <<>>)

TrimSpace(s) ==
    LET kept == {i \in DOMAIN s : s[i] \notin Space}
    IN  IF kept = {} THEN <<>> ELSE SubSeq(s, Min(kept), Max(kept))

isDigits(s) == s # <<>> /\ Range(s) \subseteq Digit

\* The path starts at the given place; the last colon of what follows the last
\* "@" before it starts a port, if a host stands before it and only digits after.
Divide(raw, slash) ==
    LET address == IF slash = 0 THEN raw ELSE SubSeq(raw, 1, slash - 1)
        path    == SubSeq(raw, Len(address) + 1, Len(raw))
        at      == SelectLastInSeq(address, LAMBDA ch : ch = "@")
        host    == SubSeq(address, at + 1, Len(address))
        colon   == SelectLastInSeq(host, LAMBDA ch : ch = ":")
        port    == SubSeq(host, colon + 1, Len(host))
    IN  IF raw = <<>> THEN NoRemote
        ELSE IF address = <<>> THEN Malformed
        ELSE IF colon > 1 /\ isDigits(port)
        THEN Remote(raw, SubSeq(address, 1, at + colon - 1), port, path)
        ELSE Remote(raw, address, <<>>, path)

\* Mutant of Parse: the last slash starts the path.
ParseLastSlash(arg) ==
    LET raw == TrimSpace(arg)
    IN  Divide(raw, SelectLastInSeq(raw, LAMBDA ch : ch = "/"))

\* The first slash starts the path.
Parse(arg) ==
    LET raw == TrimSpace(arg)
    IN  Divide(raw, SelectInSeq(raw, LAMBDA ch : ch = "/"))

\* The arguments of ssh that depend on the remote.
SSHArgs(spec) ==
    (IF spec.port = <<>> THEN <<>> ELSE << <<"-", "p">>, spec.port >>) \o <<spec.target>>

DoubleQuote == "\""

\* Mutant of shellQuote: quotes are put around the path, and that is all.
shellQuotePlain(s) == <<DoubleQuote>> \o s \o <<DoubleQuote>>

\* A character of a Go string literal.
Escape(ch) == CASE ch \in {DoubleQuote, "\\"} -> <<"\\", ch>>
                [] ch = "\n" -> <<"\\", "n">>
                [] ch = "\t" -> <<"\\", "t">>
                [] OTHER -> <<ch>>

\* strconv.Quote: a Go string literal, given to a shell.
shellQuote(s) ==
    <<DoubleQuote>> \o FlattenSeq([i \in DOMAIN s |-> Escape(s[i])]) \o <<DoubleQuote>>

\* bash reads the next character of a word with double quotes: a backslash
\* stands for itself except before the characters it escapes.
Unquote(state, ch) ==
    CASE state.escaped ->
           [state EXCEPT !.escaped = FALSE,
                         !.word = @ \o (IF ch \in {DoubleQuote, "\\"} \cup Expanding
                                        THEN <<ch>> ELSE <<"\\", ch>>)]
      [] ~state.escaped /\ state.open /\ ch = "\\" ->
           [state EXCEPT !.escaped = TRUE]
      [] ~state.escaped /\ ch = DoubleQuote -> [state EXCEPT !.open = ~@]
      [] ~state.escaped /\ ch \in Expanding ->
           [state EXCEPT !.word = Append(@, "expansion")]
      [] OTHER -> [state EXCEPT !.word = Append(@, ch)]

Unread == [word |-> <<>>, open |-> FALSE, escaped |-> FALSE]

ShellWord(quoted) == FoldLeft(Unquote, Unread, quoted).word

\* The directory Command changes to, none if there is no path.
Directory(spec) == IF spec.path = <<>> THEN <<>> ELSE ShellWord(shellQuote(spec.path))

-----------------------------------------------------------------------------
(***************************************************************************)
(* The documented form (remote.go:9, tools.go:49), as a relation.          *)
(***************************************************************************)
IsUser(s) == s # <<>> => Len(s) > 1 /\ Last(s) = "@" /\ "/" \notin Range(s)
IsHost(s) == s # <<>> /\ Range(s) \cap {"@", ":", "/"} = {}
IsPort(s) == s # <<>> => Head(s) = ":" /\ isDigits(Tail(s))
IsPath(s) == s # <<>> => Head(s) = "/"

\* However a string reads as user, host, port and path, which end at the places
\* i, j, k and the end, Parse finds them.
ParsesAsDocumented(raw) ==
    LET Part(from, to) == SubSeq(raw, from + 1, to)
    IN  \A i \in 0..Len(raw) : IsUser(Part(0, i)) =>
        \A j \in i..Len(raw) : IsHost(Part(i, j)) =>
        \A k \in j..Len(raw) : IsPort(Part(j, k)) /\ IsPath(Part(k, Len(raw))) =>
            Parse(raw) = Remote(raw, Part(0, j), Part(j + 1, k), Part(k, Len(raw)))
=============================================================================
