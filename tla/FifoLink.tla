------------------------------ MODULE FifoLink ------------------------------
(***************************************************************************)
(* What a session promises for one direction of a remote command's stdio:  *)
(* the bytes come out as they went in, in order, none missing in between   *)
(* and none twice, and end-of-file comes out only after all of them.       *)
(* A link may stop delivering; it never delivers anything else.            *)
(***************************************************************************)
EXTENDS Naturals, Sequences

CONSTANT Data   \* the chunks that travel

VARIABLES sent,     \* chunks put in, in order
          closed,   \* nothing more will be put in
          got,      \* chunks that came out, in order
          eof       \* end-of-file came out

vars == <<sent, closed, got, eof>>

Init == /\ sent = <<>>
        /\ closed = FALSE
        /\ got = <<>>
        /\ eof = FALSE

Put(d) == /\ ~closed
          /\ sent' = Append(sent, d)
          /\ UNCHANGED <<closed, got, eof>>

Close == /\ ~closed
         /\ closed' = TRUE
         /\ UNCHANGED <<sent, got, eof>>

Get == /\ ~eof
       /\ Len(got) < Len(sent)
       /\ got' = Append(got, sent[Len(got) + 1])
       /\ UNCHANGED <<sent, closed, eof>>

End == /\ closed
       /\ got = sent
       /\ ~eof
       /\ eof' = TRUE
       /\ UNCHANGED <<sent, closed, got>>

Next == (\E d \in Data : Put(d)) \/ Close \/ Get \/ End

Spec == Init /\ [][Next]_vars
=============================================================================
