----------------------------- MODULE ShellSession -----------------------------
(***************************************************************************)
(* What a session promises about its commands, without the script, the     *)
(* markers and the pipes: commands are executed one after the other, in    *)
(* the order of the calls; a call is answered with a result after its      *)
(* command has ended, and the result shows all the command wrote, nothing  *)
(* from before, and its status; a call that fails is the session's last;   *)
(* an answer is final.  CommandStream implements this.                     *)
(***************************************************************************)
EXTENDS Naturals, Sequences

CONSTANTS
    MaxCalls,       \* a bound on the calls
    Status,         \* exit statuses of commands
    Running,        \* no status: the command has not ended
    Piece,          \* what a command writes at once
    NoResult,       \* the call has not been answered
    Shows(_, _, _)  \* an output shows, for a call, what its command wrote

VARIABLES
    call,           \* the current call
    open,           \* the session takes calls
    wrote,          \* what the command of each call has written
    status,         \* with which status it has ended
    meddled,        \* the calls whose command read the session's own commands
    result          \* the results of the calls

vars == <<call, open, wrote, status, meddled, result>>

Init ==
    /\ call    = 0
    /\ open    = TRUE
    /\ wrote   = [c \in 1..MaxCalls |-> <<>>]
    /\ status  = [c \in 1..MaxCalls |-> Running]
    /\ meddled = {}
    /\ result  = [c \in 1..MaxCalls |-> NoResult]

-----------------------------------------------------------------------------
\* The next call, if the one before has succeeded.
Begin ==
    /\ open
    /\ call < MaxCalls
    /\ call > 0 => result[call].kind = "ok"
    /\ call' = call + 1
    /\ UNCHANGED <<open, wrote, status, meddled, result>>

\* Its command does something as long as it has not ended, even when the call
\* has failed.
Executing == call > 0 /\ status[call] = Running

Write ==
    /\ Executing
    /\ \E piece \in Piece : wrote' = [wrote EXCEPT ![call] = Append(@, piece)]
    /\ UNCHANGED <<call, open, status, meddled, result>>

Meddle ==
    /\ Executing
    /\ meddled' = meddled \cup {call}
    /\ UNCHANGED <<call, open, wrote, status, result>>

End ==
    /\ Executing
    /\ \E st \in Status : status' = [status EXCEPT ![call] = st]
    /\ UNCHANGED <<call, open, wrote, meddled, result>>

\* The call is answered, once.
Answer ==
    /\ open
    /\ call > 0
    /\ result[call] = NoResult
    /\ result' = [result EXCEPT ![call] = result'[call]]
    /\ UNCHANGED <<call, wrote, status, meddled>>

Succeed ==
    /\ ~Executing
    /\ Answer
    /\ open' = open
    /\ result'[call].kind = "ok"
    /\ Shows(call, wrote[call], result'[call].output)
    /\ call \notin meddled => result'[call].exit_code = status[call]

Fail ==
    /\ Answer
    /\ open' = FALSE
    /\ result'[call].kind \notin {"none", "ok"}

Next == Begin \/ Write \/ Meddle \/ End \/ Succeed \/ Fail

Spec == Init /\ [][Next]_vars
=============================================================================
