------------------------------ MODULE MCGateway ------------------------------
(***************************************************************************)
(* The calls and environments of Gateway.cfg.                              *)
(***************************************************************************)
EXTENDS Gateway

Call(tool) ==
    [tool |-> tool, command |-> "pwd", remote |-> Missing, shell |-> Missing,
     timeout |-> Missing, session_id |-> Missing, action |-> Missing]

\* Remote arguments: every combination of these parts, the parts of which some
\* make no remote of the documented form.
Users == {<<>>, <<"u", "@">>, <<"u", ":", "2", "@">>}
Hosts == {<<>>, <<"h">>, <<" ", "h">>, <<":", ":", "1">>}
Ports == {<<>>, <<":", "2">>, <<":", "2", "x">>}
Paths == {<<>>, <<"/">>, <<"/", "@", "/", ":", "2">>, <<"/", "a", " ", "b">>,
          <<"/", "\"", "\\", "n">>, <<"/", Backquote, "$">>, <<"/", "\t", "\n", "a">>,
          <<"/", "a", "\n">>}

MCCharacters ==
    {"-", "p"} \cup UNION {Range(s) : s \in Users \cup Hosts \cup Ports \cup Paths}

Remotes == {u \o h \o p \o d : u \in Users, h \in Hosts, p \in Ports, d \in Paths}

Asked == {Missing, "zsh"}

\* Half seconds; with Second = 10, 12 seconds are below MaxDuration and 13 are not.
Halves == {Missing, -2, 0, 1, 2, 3, 24, 26, 600}

MCRequests ==
         {[Call("execute_command") EXCEPT !.remote = r] : r \in Remotes}
    \cup {[Call("execute_command") EXCEPT !.timeout = n, !.shell = sh] :
            n \in Halves, sh \in Asked}
    \cup {[Call(tool) EXCEPT !.command = c, !.session_id = id] :
            tool \in {"execute_command", "persistent_shell"},
            c \in {Missing, ""}, id \in {Missing, "", "s1"}}
    \cup {[Call("persistent_shell") EXCEPT !.session_id = id, !.timeout = n] :
            id \in {Missing, "", "s1"}, n \in Halves}
    \cup {[Call("persistent_shell") EXCEPT !.session_id = "s1", !.remote = r,
                                           !.shell = sh] :
            sh \in Asked,
            r \in {<<>>, <<"/">>, <<"h">>, <<" ", "h">>,
                   <<"u", "@", "h", ":", "2", "/", "\"">>}}
    \cup {[Call("session_manager") EXCEPT !.action = a, !.session_id = id] :
            a \in {Missing, "", "list", "close", "open"}, id \in {Missing, "", "s1"}}

MCEnvironments ==
    {[timeout |-> Missing, shell |-> ""], [timeout |-> -1, shell |-> Missing],
     [timeout |-> 13, shell |-> "dash"]}
=============================================================================
