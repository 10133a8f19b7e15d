----------------------------- MODULE MCSession ------------------------------
(* Model-checking instances of Session.  The other constants are numbers and  *)
(* are given in the configurations.                                           *)
EXTENDS Session

\* `rsrs login` at a terminal; `rsrs login cmd` in a script; `rsrs login -tt cmd` in a
\* script; `rsrs login -N` at a terminal.
Shell(faults, chunks, resizes) ==
    [command |-> "shell", disable |-> FALSE, force |-> 0, tty |-> TRUE,
     faults |-> faults, chunks |-> chunks, resizes |-> resizes]
Script(faults, chunks, resizes) ==
    [Shell(faults, chunks, resizes) EXCEPT !.command = "program", !.tty = FALSE]
ForcedPty(faults, chunks, resizes) == [Script(faults, chunks, resizes) EXCEPT !.force = 2]
NoCommand(faults, chunks, resizes) == [Shell(faults, chunks, resizes) EXCEPT !.command = "none"]

NoData == {Script({}, 0, 0)}
OneChunk == {Script({}, 1, 0)}
Forced == {ForcedPty({}, 0, 0)}

\* Two chunks, in either direction or both; a chunk and what fails on its way; two
\* resizes; what fails while the command starts and exits, with a resize or without.
Sessions ==
    {Shell({}, 2, 0), Shell({"terminal", "spawn", "stdin", "stdout"}, 1, 0),
     Shell({}, 0, 2), Shell({"terminal", "pty"}, 0, 1), Shell({"terminal", "link"}, 0, 0),
     Script(FaultKinds \ {"link"}, 0, 0), ForcedPty({"link"}, 1, 1),
     NoCommand(FaultKinds, 1, 1)}
=============================================================================
