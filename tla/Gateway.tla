------------------------------- MODULE Gateway -------------------------------
(***************************************************************************)
(* The gateway: the container of Entrypoint and, while its script is the   *)
(* tunnel client, the MCP server of ToolServer as that client's child.     *)
(* What the server knows is lost with the container: sessions are kept in  *)
(* memory only.                                                            *)
(***************************************************************************)
EXTENDS Entrypoint, ToolServer

vars == <<entrypointVars, serverVars>>

Init == EntrypointInit /\ ServerInit

\* The container takes the server with it when it ends.
ContainerStep ==
    /\ EntrypointNext
    /\ IF phase = "serving" /\ phase' # "serving" THEN NoServer
       ELSE UNCHANGED serverVars

ServerStep ==
    /\ phase = "serving"
    /\ ServerNext
    /\ UNCHANGED entrypointVars

Next == ContainerStep \/ ServerStep

\* The script's steps are taken, and Docker starts the container again; nobody
\* has to call the server or to let it fail.
FairSpec == Init /\ [][Next]_vars /\ WF_vars(Script /\ UNCHANGED serverVars)

-----------------------------------------------------------------------------
(***************************************************************************)
(* Invariants.                                                             *)
(***************************************************************************)
\* The variables have the values the code gives them: the container's state,
\* durations that fit, and a call that is served before it is answered.  The
\* bounds on polls are those of the script's loop (entrypoint.sh:28).
TypeOK ==
    /\ EntrypointTypeOK
    /\ phase # "serving" => config = Nil
    /\ config # Nil => config.timeout \in Durations
    /\ config # Nil => config.shell \in Shells
    /\ sessions \in [SessionIDs -> SessionState \cup {Nil}]
    /\ request # Nil => request.tool \in Tools
    /\ config = Nil => request = Nil /\ sessions = [id \in SessionIDs |-> Nil]
    /\ process # Nil => request # Nil /\ process.timeout \in Durations
    /\ reply # Nil => request # Nil /\ reply.isError \in BOOLEAN

\* A remote that can be read as [user@]host[:port][/path] in some way is read
\* so, whatever stands in the path, and there is only one such way: a slash, a
\* colon or an @ of one part is never taken for the start of another
\* (remote.go:9, the remote argument of tools.go:49).
GrammarParsed ==
    request # Nil /\ process = Nil /\ reply = Nil =>
        ParsesAsDocumented(TrimSpace(Text(request.remote)))

\* The remote shell changes to the very path that was given, although Go quotes
\* it and the shell unquotes it by different rules (remote.go:84 and 99).  Not
\* for a character with which the shell's expansions start, nor for one that Go
\* writes in a way the shell does not know.
CdGoesToPath ==
    process # Nil =>
        LET path == Parse(Text(request.remote)).path
        IN  Range(path) \cap (Expanding \cup Unprinted) = {} => process.directory = path

\* A command gets the time that was asked for, to the second below, if that is
\* a second or more and can be represented, and the default time if none or a
\* senseless one was asked for, in both tools (executor.go:67, tools.go:134).
DeadlineAsAsked ==
    process # Nil =>
        LET asked == request.timeout
        IN  IF asked = Missing \/ asked <= 0 THEN process.timeout = config.timeout
            ELSE asked >= 2 /\ asked * (Second \div 2) <= MaxDuration =>
                     /\ process.timeout <= asked * (Second \div 2)
                     /\ process.timeout + Second > asked * (Second \div 2)

\* A structured result has every field its tool's output schema requires, in a
\* validation error too; one that is no error has values of the schema's enums;
\* and a call that lacks a required argument, or has an unknown action, is
\* answered with an error (tools.go:36-92, output_schema.go).
SchemasKept ==
    reply # Nil =>
        /\ reply.structured # Nil =>
              OutputRequired[request.tool] \subseteq DOMAIN reply.structured
        /\ ~reply.isError =>
              /\ \A name \in InputRequired[request.tool] : ~NoText(request[name])
              /\ \A name \in DOMAIN OutputEnum \cap DOMAIN reply.structured :
                    reply.structured[name] \in OutputEnum[name]
              /\ request.tool = "session_manager" =>
                    \A info \in reply.structured.sessions :
                        SessionFields \subseteq DOMAIN info

\* A command's result tells the process that ran it, although the session was
\* perhaps created by another call that asked for another shell: the mode, the
\* shell of a local command, the target ssh was given, the directory and the
\* time (executor.go:213-253, session.go:258-287).
ResultNamesProcess ==
    reply # Nil /\ process # Nil /\ reply.structured # Nil =>
        LET told == reply.structured
        IN  /\ told.execution_mode =
                  IF process.args = <<>> THEN "local" ELSE "remote"
            /\ told.execution_mode = "local" =>
                  told.shell = process.program /\ told.target = <<>>
            /\ told.execution_mode = "remote" =>
                  process.program = "ssh" /\ told.target = Last(process.args)
            /\ told.resolved_target = told.target
            /\ told.remote_path = Parse(told.requested_remote).path
            /\ told.timeout_seconds = process.timeout

-----------------------------------------------------------------------------
(***************************************************************************)
(* Action and temporal properties.                                         *)
(***************************************************************************)

\* A session that lives on keeps its shell, its program and its target, and a
\* command it is given has asked for that target, perhaps many calls after the
\* one that created it (session.go:71-77).
SessionNeverMoves ==
    [][\A id \in SessionIDs : sessions'[id] # Nil =>
          /\ sessions[id] # Nil => sessions'[id] = sessions[id]
          /\ (process' # process /\ process' # Nil /\ request.tool = "persistent_shell"
                /\ request.session_id = id) =>
                /\ sessions'[id].remote = Parse(Text(request.remote))
                /\ process'.program = sessions'[id].program.program
      ]_vars

\* How many steps without a fault the script is from serving, at most, if it can
\* join.  Without tailscaled it has to end first.
Distance ==
    LET toDown == MaxPolls + 4
        toPoll == MaxPolls - polls
    IN  CASE phase = "serving"  -> 0
          [] phase = "joining"  -> IF tailscaled THEN 1 ELSE toDown + 1
          [] phase = "waiting"  -> toPoll + (IF tailscaled THEN 2 ELSE toDown + 2)
          [] phase = "starting" -> toDown - 1
          [] phase = "down"     -> toDown

\* What lets a gateway serve again is never lost, a key is not used up for
\* nothing, and every step that is no fault brings a configured gateway nearer:
\* no retry goes in a circle, with tailscaled dead or alive
\* (entrypoint.sh:10-47).
EachStepNearer ==
    [][configured /\ (identity \/ authkey) =>
          /\ configured' /\ (identity' \/ authkey')
          /\ entrypointVars' # entrypointVars /\ faults' = faults =>
                Distance' < Distance
      ]_vars

\* A configured gateway whose node is on the tailnet, or whose key is still
\* good, serves again after whatever has happened, with a key that is good only
\* once (entrypoint.sh:28-47, docker-compose.yml:5 and 25).
ComesBack == configured /\ (identity \/ authkey) ~> phase = "serving"
=============================================================================
