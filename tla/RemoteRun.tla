------------------------------ MODULE RemoteRun ------------------------------
(***************************************************************************)
(* What `rsrs login` promises about the command it runs (src/command/      *)
(* login.rs, src/endpoint/process.rs), without queues, frames and tasks.   *)
(*                                                                         *)
(* The remote process applies the environment, starts the command, and the *)
(* command exits; the login process is told, logs out, the remote process  *)
(* ends, and login returns: each once, in this order.  If a part of the    *)
(* session breaks the order stays; but the remote process may then end     *)
(* before, login may return without waiting for that, or with an error.    *)
(***************************************************************************)
VARIABLES env,      \* the environment of the login side is set
          child,    \* the command: "none", "run" or "exited"
          told,     \* the exit status has come back
          login,    \* "in", "out" (it logs out), "done" or "err" (it returned)
          server,   \* the remote process: "up" or "gone"
          broken    \* a task, the connection or the terminal has failed

vars == <<env, child, told, login, server, broken>>

\* A login may lack from the start what it needs: a terminal.
Init == /\ env = FALSE /\ child = "none" /\ told = FALSE
        /\ login = "in" /\ server = "up" /\ broken \in BOOLEAN

SetEnv == /\ server = "up" /\ child = "none" /\ ~env
          /\ env' = TRUE
          /\ UNCHANGED <<child, told, login, server, broken>>

Start == /\ server = "up" /\ child = "none" /\ env
         /\ child' = "run"
         /\ UNCHANGED <<env, told, login, server, broken>>

Exit == /\ child = "run"
        /\ child' = "exited"
        /\ UNCHANGED <<env, told, login, server, broken>>

Tell == /\ child = "exited" /\ ~told
        /\ told' = TRUE
        /\ UNCHANGED <<env, child, login, server, broken>>

Logout == /\ login = "in" /\ told
          /\ login' = "out"
          /\ UNCHANGED <<env, child, told, server, broken>>

End == /\ server = "up" /\ (login # "in" \/ broken)
       /\ server' = "gone"
       /\ UNCHANGED <<env, child, told, login, broken>>

Return == /\ login = "out" /\ (server = "gone" \/ broken)
          /\ login' = "done"
          /\ UNCHANGED <<env, child, told, server, broken>>

Break == /\ ~broken
         /\ broken' = TRUE
         /\ UNCHANGED <<env, child, told, login, server>>

\* The error and its cause may be one step: a call on the terminal fails.
Fail == /\ login \in {"in", "out"}
        /\ login' = "err" /\ broken' = TRUE
        /\ UNCHANGED <<env, child, told, server>>

Next == SetEnv \/ Start \/ Exit \/ Tell \/ Logout \/ End \/ Return \/ Break \/ Fail

Spec == Init /\ [][Next]_vars
=============================================================================
