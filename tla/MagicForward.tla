---------------------------- MODULE MagicForward -----------------------------
(***************************************************************************)
(* forward_until_magic of src/command/open.rs: what a freshly launched     *)
(* remote prints goes to the local terminal until the magic number, which  *)
(* is swallowed; the byte after it is the daemon's to read.  The stream    *)
(* arrives in pieces of any length.                                        *)
(***************************************************************************)
EXTENDS Naturals, Sequences

CONSTANTS Bytes,    \* the bytes a stream is made of
          Magic,    \* the magic number
          MaxLen    \* bound: length of the stream

ASSUME MagicAssumption == Magic \in Seq(Bytes) /\ Magic # <<>> /\ MaxLen \in Nat

VARIABLES input,     \* the whole stream
          pos,       \* how much of it has been read
          matched,   \* matched_len: whole_buf starts with that much of Magic
          out,       \* what was written to out_stream
          result     \* "run", "found" or "eof"

vars == <<input, pos, matched, out, result>>

Take(s, n) == SubSeq(s, 1, n)
StartsWith(s, t) == Len(t) <= Len(s) /\ Take(s, Len(t)) = t
From(s, i) == SubSeq(s, i + 1, Len(s))                  \* s[i..], i counted from 0

Init == /\ input \in UNION {[1 .. n -> Bytes] : n \in 0 .. MaxLen}
        /\ pos = 0 /\ matched = 0 /\ out = <<>> /\ result = "run"

\* Where the loop over start positions stops: the first suffix of the buffer that
\* may still become the magic number, or the end of the buffer.
IsStart(buf, i) == buf[i + 1] = Magic[1] /\ StartsWith(Magic, From(buf, i))
\* Mutant: the last start position in place of the first.
StartIdxLast(buf) ==
    CHOOSE i \in 1 .. Len(buf) :
        /\ i < Len(buf) => IsStart(buf, i)
        /\ \A j \in (i + 1) .. (Len(buf) - 1) : ~IsStart(buf, j)
        /\ i = Len(buf) => \A j \in 1 .. (i - 1) : ~IsStart(buf, j)

StartIdx(buf) ==
    CHOOSE i \in 1 .. Len(buf) :
        /\ i < Len(buf) => IsStart(buf, i)
        /\ \A j \in 1 .. (i - 1) : ~IsStart(buf, j)

\* Mutants: one byte of the mismatch is not written; the read may fill a whole
\* buffer whatever it already holds.
ReadShortWrite(n) ==
    /\ result = "run" /\ matched < Len(Magic)
    /\ n <= Len(Magic) - matched /\ pos + n <= Len(input)
    /\ LET buf == Take(Magic, matched) \o SubSeq(input, pos + 1, pos + n)
       IN  IF StartsWith(Magic, buf)
           THEN matched' = Len(buf) /\ UNCHANGED out
           ELSE /\ matched' = Len(buf) - StartIdx(buf)
                /\ out' = out \o Take(buf, StartIdx(buf) - 1)
    /\ pos' = pos + n
    /\ UNCHANGED <<input, result>>

ReadTooMuch(n) ==
    /\ result = "run" /\ matched < Len(Magic) /\ pos + n <= Len(input)
    /\ LET buf == Take(Magic, matched) \o SubSeq(input, pos + 1, pos + n)
       IN  IF StartsWith(Magic, buf)
           THEN matched' = Len(buf) /\ UNCHANGED out
           ELSE /\ matched' = Len(buf) - StartIdx(buf)
                /\ out' = out \o Take(buf, StartIdx(buf))
    /\ pos' = pos + n
    /\ UNCHANGED <<input, result>>

\* One pass of the loop: the read returns n bytes, at most what the buffer holds.
Read(n) ==
    /\ result = "run" /\ matched < Len(Magic)
    /\ n <= Len(Magic) - matched /\ pos + n <= Len(input)
    /\ LET buf == Take(Magic, matched) \o SubSeq(input, pos + 1, pos + n)
       IN  IF StartsWith(Magic, buf)
           THEN matched' = Len(buf) /\ UNCHANGED out
           ELSE /\ matched' = Len(buf) - StartIdx(buf)
                /\ out' = out \o Take(buf, StartIdx(buf))
    /\ pos' = pos + n
    /\ UNCHANGED <<input, result>>

Eof == /\ result = "run" /\ matched < Len(Magic) /\ pos = Len(input)
       /\ result' = "eof"
       /\ UNCHANGED <<input, pos, matched, out>>

Found == /\ result = "run" /\ matched = Len(Magic)
         /\ result' = "found"
         /\ UNCHANGED <<input, pos, matched, out>>

Next == (\E n \in 1 .. Len(Magic) : Read(n)) \/ Eof \/ Found

Spec == Init /\ [][Next]_vars /\ WF_vars(Next)

-----------------------------------------------------------------------------
\* The reference: after how many bytes of s the magic number first ends, if it
\* occurs at all.
EndsAt(s, n) == n >= Len(Magic) /\ SubSeq(s, n - Len(Magic) + 1, n) = Magic
Occurs(s) == \E n \in 0 .. Len(s) : EndsAt(s, n)
FirstEnd(s) == CHOOSE n \in 0 .. Len(s) : EndsAt(s, n) /\ \A m \in 0 .. (n - 1) : ~EndsAt(s, m)

\* No byte is lost, invented or moved while the loop runs: what was written and
\* what is held back make up what was read.
NothingLost == out \o Take(Magic, matched) = Take(input, pos)

\* The loop never reads past the first magic number, in whatever pieces the
\* stream arrives: the bytes after it are still there for the daemon that gets
\* the file descriptor.
NoOverRead == Occurs(input) => pos <= FirstEnd(input)

\* It ends, with "found" exactly when the stream has the magic number, and then
\* everything before it, and nothing of it, has been written.
FindsFirst ==
    <>(IF Occurs(input)
       THEN result = "found" /\ out = Take(input, FirstEnd(input) - Len(Magic))
       ELSE result = "eof")
=============================================================================
