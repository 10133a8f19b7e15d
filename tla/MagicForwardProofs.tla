------------------------- MODULE MagicForwardProofs -------------------------
(***************************************************************************)
(* Proofs about MagicForward, for every magic number, every stream and     *)
(* every way it is cut into reads: nothing is lost and nothing behind the  *)
(* first magic number is read.                                             *)
(*                                                                         *)
(* The argument: what is held back, the last `matched` bytes read, is a    *)
(* beginning of the magic number (Held), everything before it is written   *)
(* (Written), and no magic number begins before it (NoneBefore).           *)
(***************************************************************************)
EXTENDS MagicForward, TLAPS, SequenceTheorems, WellFoundedInduction

L == Len(Magic)
Base == pos - matched                \* where the bytes held back begin

MagicAt(s) == s + L <= Len(input) /\ \A k \in 1 .. L : input[s + k] = Magic[k]

LoopType == /\ input \in Seq(Bytes) /\ out \in Seq(Bytes)
            /\ pos \in 0 .. Len(input) /\ matched \in 0 .. L /\ matched <= pos
            /\ result \in {"run", "found", "eof"}
Held == \A k \in 1 .. matched : input[Base + k] = Magic[k]
Written == out = SubSeq(input, 1, Base)
NoneBefore == \A s \in 0 .. (Base - 1) : ~MagicAt(s)
Ended == /\ result = "found" => matched = L
         /\ result = "eof" => pos = Len(input) /\ matched < L

LoopInv == LoopType /\ Held /\ Written /\ NoneBefore /\ Ended

-----------------------------------------------------------------------------
(* Sequences and numbers.                                                   *)

\* The magic number is a sequence of at least one byte.
LEMMA MagicSeq == Magic \in Seq(Bytes) /\ L \in Nat /\ L > 0
<1>1. Magic \in Seq(Bytes) /\ Magic # <<>>
  BY MagicAssumption
<1>2. QED
  BY <1>1, EmptySeq, LenProperties DEF L

\* A set of numbers that is not empty has a least member.
LEMMA Least ==
  ASSUME NEW T \in SUBSET Nat, T # {}
  PROVE  \E x \in T : \A y \in T : x <= y
<1> DEFINE less == {ss \in Nat \X Nat : ss[1] < ss[2]}
<1>1. IsWellFoundedOn(less, Nat)
  BY NatLessThanWellFounded, Zenon DEF OpToRel
<1>2. \E x \in T : \A y \in T : <<y, x>> \notin less
  <2> HIDE DEF less
  <2>1. QED
    BY <1>1, WFMin
<1>3. \A x, y \in T : <<y, x>> \notin less => x <= y
  OBVIOUS
<1>4. QED
  BY <1>2, <1>3

\* A stretch of a sequence between two bounds (of which nothing else is said, so that the
\* provers see the bounds as they are).
LEMMA Piece ==
  ASSUME NEW s \in Seq(Bytes), NEW m \in Int, NEW e \in Int, \A i \in m .. e : s[i] \in Bytes
  PROVE  /\ SubSeq(s, m, e) \in Seq(Bytes)
         /\ Len(SubSeq(s, m, e)) = IF m <= e THEN e - m + 1 ELSE 0
         /\ \A i \in 1 .. e - m + 1 : SubSeq(s, m, e)[i] = s[m + i - 1]
BY SubSeqProperties

\* A stretch of a given length, element by element.
LEMMA Stretch ==
  ASSUME NEW s \in Seq(Bytes), NEW a \in Nat, NEW n \in Nat, a + n <= Len(s),
         NEW m, m = a + 1, NEW e, e = a + n
  PROVE  /\ SubSeq(s, m, e) \in Seq(Bytes) /\ Len(SubSeq(s, m, e)) = n
         /\ \A k \in 1 .. n : SubSeq(s, m, e)[k] = s[a + k]
<1>1. Len(s) \in Nat /\ m \in Int /\ e \in Int /\ (m <= e <=> n > 0) /\ e - m + 1 = n
  BY LenProperties
<1>2. \A i \in m .. e : s[i] \in Bytes
  BY <1>1, ElementOfSeq
<1>3. /\ SubSeq(s, m, e) \in Seq(Bytes)
      /\ Len(SubSeq(s, m, e)) = IF m <= e THEN e - m + 1 ELSE 0
      /\ \A i \in 1 .. e - m + 1 : SubSeq(s, m, e)[i] = s[m + i - 1]
  BY <1>1, <1>2, Piece
<1>4. \A i \in 1 .. n : m + i - 1 = a + i
  OBVIOUS
<1>5. QED
  BY <1>1, <1>3, <1>4

\* starts_with, element by element.
LEMMA Prefix ==
  ASSUME NEW s \in Seq(Bytes), NEW t \in Seq(Bytes)
  PROVE  StartsWith(s, t) <=> Len(t) <= Len(s) /\ \A k \in 1 .. Len(t) : s[k] = t[k]
<1> SUFFICES ASSUME Len(t) <= Len(s)
             PROVE  SubSeq(s, 1, Len(t)) = t <=> \A k \in 1 .. Len(t) : s[k] = t[k]
  BY DEF StartsWith, Take
<1>1. \A k \in 1 .. Len(t) : s[k] \in Bytes
  BY ElementOfSeq, LenProperties
<1>2. /\ SubSeq(s, 1, Len(t)) \in Seq(Bytes) /\ Len(SubSeq(s, 1, Len(t))) = Len(t)
      /\ \A k \in 1 .. Len(t) : SubSeq(s, 1, Len(t))[k] = s[k]
  <2>1. Len(t) \in Nat
    BY LenProperties
  <2>2. QED
    BY <1>1, <2>1, SubSeqProperties
<1>3. QED
  BY <1>2, SeqEqual

-----------------------------------------------------------------------------
(* One pass of the loop.                                                    *)

\* The search for a start position finds one.
LEMMA StartIdxIsFirst ==
  ASSUME NEW buf \in Seq(Bytes), buf # <<>>
  PROVE  /\ StartIdx(buf) \in 1 .. Len(buf)
         /\ StartIdx(buf) < Len(buf) => IsStart(buf, StartIdx(buf))
         /\ \A j \in 1 .. (StartIdx(buf) - 1) : ~IsStart(buf, j)
<1> DEFINE T == {i \in 1 .. Len(buf) : i = Len(buf) \/ IsStart(buf, i)}
<1>1. Len(buf) \in Nat /\ Len(buf) > 0
  BY EmptySeq, LenProperties
<1>2. T \in SUBSET Nat /\ Len(buf) \in T
  BY <1>1
<1>3. PICK i \in T : \A j \in T : i <= j
  BY <1>2, Least
<1>4. /\ i \in 1 .. Len(buf) /\ (i < Len(buf) => IsStart(buf, i))
      /\ \A j \in 1 .. (i - 1) : ~IsStart(buf, j)
  BY <1>1, <1>3
<1>5. QED
  BY <1>4 DEF StartIdx

\* What the buffer holds after a read is the stretch of the stream behind what was
\* written.
LEMMA Buffer ==
  ASSUME LoopType, Held, NEW n \in 1 .. L, n <= L - matched, pos + n <= Len(input)
  PROVE  LET buf == Take(Magic, matched) \o SubSeq(input, pos + 1, pos + n)
         IN  /\ buf \in Seq(Bytes) /\ buf # <<>> /\ Len(buf) = matched + n
             /\ \A k \in 1 .. matched + n : buf[k] = input[Base + k]
<1> DEFINE a == SubSeq(Magic, 1, matched)
           b == SubSeq(input, pos + 1, pos + n)
<1>1. /\ pos \in Nat /\ matched \in Nat /\ n \in Nat /\ Len(input) \in Nat /\ n >= 1
      /\ L \in Nat /\ matched <= L /\ matched <= pos
  BY MagicSeq, LenProperties DEF LoopType
<1>2. a \in Seq(Bytes) /\ Len(a) = matched /\ \A k \in 1 .. matched : a[k] = Magic[k]
  <2>1. \A k \in 1 .. matched : Magic[k] \in Bytes
    BY <1>1, MagicSeq, ElementOfSeq DEF L
  <2>2. QED
    BY <1>1, <2>1, SubSeqProperties
<1>3. b \in Seq(Bytes) /\ Len(b) = n /\ \A k \in 1 .. n : b[k] = input[pos + k]
  BY <1>1, Stretch DEF LoopType
<1> HIDE DEF a, b
<1>4. /\ a \o b \in Seq(Bytes) /\ Len(a \o b) = matched + n
      /\ \A k \in 1 .. matched + n : (a \o b)[k] = IF k <= matched THEN a[k] ELSE b[k - matched]
  BY <1>2, <1>3, ConcatProperties, ZenonT(60)
<1>5. \A k \in 1 .. matched + n : (a \o b)[k] = input[Base + k]
  <2>1. TAKE k \in 1 .. matched + n
  <2>2. CASE k <= matched
    <3>1. k \in 1 .. matched
      BY <1>1, <2>2
    <3>2. (a \o b)[k] = a[k]
      BY <1>4, <2>2
    <3>3. QED
      BY <1>2, <3>1, <3>2 DEF Held
  <2>3. CASE k > matched
    <3>1. k - matched \in 1 .. n /\ pos + (k - matched) = Base + k
      BY <1>1, <2>3 DEF Base
    <3>2. QED
      BY <1>1, <1>3, <1>4, <2>3, <3>1
  <2>4. k <= matched \/ k > matched
    BY <1>1
  <2>5. QED
    BY <2>2, <2>3, <2>4
<1>6. a \o b # <<>>
  BY <1>1, <1>4, EmptySeq
<1>7. QED
  BY <1>4, <1>5, <1>6 DEF Take, a, b

\* The written part grows by what leaves the buffer.
LEMMA WrittenGrows ==
  ASSUME NEW s \in Seq(Bytes), NEW b \in Nat, NEW buf \in Seq(Bytes), NEW i \in 1 .. Len(buf),
         b + Len(buf) <= Len(s), \A k \in 1 .. Len(buf) : buf[k] = s[b + k]
  PROVE  SubSeq(s, 1, b) \o SubSeq(buf, 1, i) = SubSeq(s, 1, b + i)
<1> DEFINE x == SubSeq(s, 1, b)
           y == SubSeq(buf, 1, i)
           z == SubSeq(s, 1, b + i)
<1>1. Len(buf) \in Nat /\ Len(s) \in Nat /\ i \in Nat
  BY LenProperties
<1>2. x \in Seq(Bytes) /\ Len(x) = b /\ \A k \in 1 .. b : x[k] = s[k]
  <2>1. \A k \in 1 .. b : s[k] \in Bytes
    BY <1>1, ElementOfSeq
  <2>2. QED
    BY <2>1, SubSeqProperties
<1>3. y \in Seq(Bytes) /\ Len(y) = i /\ \A k \in 1 .. i : y[k] = buf[k]
  <2>1. \A k \in 1 .. i : buf[k] \in Bytes
    BY <1>1, ElementOfSeq
  <2>2. QED
    BY <1>1, <2>1, SubSeqProperties
<1>4. z \in Seq(Bytes) /\ Len(z) = b + i /\ \A k \in 1 .. b + i : z[k] = s[k]
  <2>1. \A k \in 1 .. b + i : s[k] \in Bytes
    BY <1>1, ElementOfSeq
  <2>2. QED
    BY <1>1, <2>1, SubSeqProperties
<1>5. /\ x \o y \in Seq(Bytes) /\ Len(x \o y) = b + i
      /\ \A k \in 1 .. b + i : (x \o y)[k] = IF k <= b THEN x[k] ELSE y[k - b]
  BY <1>2, <1>3, ConcatProperties
<1>6. \A k \in 1 .. b + i : (x \o y)[k] = z[k]
  <2>1. TAKE k \in 1 .. b + i
  <2>2. CASE k <= b
    BY <1>2, <1>4, <1>5, <2>2
  <2>3. CASE k > b
    <3>1. k - b \in 1 .. i /\ b + (k - b) = k
      BY <1>1, <2>3
    <3>2. QED
      BY <1>1, <1>3, <1>4, <1>5, <2>3, <3>1
  <2>4. QED
    BY <1>1, <2>2, <2>3
<1>7. QED
  BY <1>4, <1>5, <1>6, SeqEqual

\* A pass that leaves the buffer a beginning of the magic number writes nothing; any
\* other writes what can no longer become one, and keeps the rest.
LEMMA ReadStep == ASSUME LoopInv, NEW n \in 1 .. L, Read(n) PROVE LoopInv'
<1> DEFINE buf == Take(Magic, matched) \o SubSeq(input, pos + 1, pos + n)
<1>1. /\ pos \in Nat /\ matched \in Nat /\ n \in Nat /\ n >= 1 /\ Len(input) \in Nat
      /\ L \in Nat /\ L > 0 /\ matched <= L /\ matched <= pos /\ Base \in Nat /\ Base + matched = pos
  BY MagicSeq, LenProperties DEF LoopInv, LoopType, Base
<1>2. /\ n <= L - matched /\ pos + n <= Len(input) /\ result = "run"
      /\ pos' = pos + n /\ input' = input /\ result' = result
  BY DEF Read, L
<1>3. /\ buf \in Seq(Bytes) /\ buf # <<>> /\ Len(buf) = matched + n
      /\ \A k \in 1 .. matched + n : buf[k] = input[Base + k]
  BY <1>2, Buffer DEF LoopInv
<1>4. StartsWith(Magic, buf) <=> \A k \in 1 .. matched + n : Magic[k] = buf[k]
  <2>1. Len(buf) <= Len(Magic)
    BY <1>1, <1>2, <1>3 DEF L
  <2> HIDE DEF buf
  <2>2. QED
    BY <1>3, <2>1, MagicSeq, Prefix
<1>5. IF StartsWith(Magic, buf)
      THEN matched' = Len(buf) /\ out' = out
      ELSE matched' = Len(buf) - StartIdx(buf) /\ out' = out \o Take(buf, StartIdx(buf))
  BY DEF Read
<1> HIDE DEF buf
<1>6. CASE StartsWith(Magic, buf)
  <2>1. matched' = matched + n /\ out' = out /\ Base' = Base
    BY <1>1, <1>2, <1>3, <1>5, <1>6 DEF Base
  <2>2. LoopType'
    BY <1>1, <1>2, <2>1 DEF LoopInv, LoopType, L
  <2>3. Held'
    BY <1>2, <1>3, <1>4, <1>6, <2>1 DEF Held
  <2>4. Written' /\ NoneBefore'
    BY <1>2, <2>1 DEF LoopInv, Written, NoneBefore, MagicAt, L
  <2>5. Ended'
    BY <1>2 DEF Ended
  <2>6. QED
    BY <2>2, <2>3, <2>4, <2>5 DEF LoopInv
<1>7. CASE ~StartsWith(Magic, buf)
  <2> DEFINE i == StartIdx(buf)
  <2>1. /\ i \in 1 .. matched + n
        /\ i < matched + n => IsStart(buf, i)
        /\ \A j \in 1 .. (i - 1) : ~IsStart(buf, j)
    BY <1>3, StartIdxIsFirst
  <2> HIDE DEF i
  <2>2. matched' = matched + n - i /\ out' = out \o SubSeq(buf, 1, i)
    <3>1. matched' = Len(buf) - i /\ out' = out \o Take(buf, i)
      BY <1>5, <1>7 DEF i
    <3>2. Len(buf) = matched + n
      BY <1>3
    <3>3. matched' = matched + n - i
      BY <1>1, <2>1, <3>1, <3>2
    <3>4. out' = out \o SubSeq(buf, 1, i)
      BY <3>1, Zenon DEF Take
    <3>5. QED
      BY <3>3, <3>4
  <2>3. Base' = Base + i /\ i \in Nat
    BY <1>1, <1>2, <2>1, <2>2 DEF Base
  <2>4. Written'
    <3>1. Base + Len(buf) <= Len(input)
      BY <1>1, <1>2, <1>3
    <3>2. input \in Seq(Bytes) /\ out = SubSeq(input, 1, Base) /\ i \in 1 .. Len(buf)
      BY <1>3, <2>1 DEF LoopInv, LoopType, Written
    <3>3. SubSeq(input, 1, Base) \o SubSeq(buf, 1, i) = SubSeq(input, 1, Base + i)
      <4>1. Base \in Nat /\ buf \in Seq(Bytes)
        BY <1>1, <1>3
      <4>2. \A k \in 1 .. Len(buf) : buf[k] = input[Base + k]
        BY <1>3
      <4>3. QED
        BY <3>1, <3>2, <4>1, <4>2, WrittenGrows
    <3>4. QED
      BY <1>2, <2>2, <2>3, <3>2, <3>3 DEF Written
  <2>5. LoopType'
    <3>1. out' \in Seq(Bytes)
      <4>1. out' = SubSeq(input, 1, Base + i)
        BY <1>2, <2>3, <2>4 DEF Written
      <4>2. Base + i \in Nat /\ Base + i <= Len(input)
        BY <1>1, <1>2, <2>1, <2>3
      <4>3. \A k \in 1 .. (Base + i) : input[k] \in Bytes
        BY <1>1, <4>2, ElementOfSeq DEF LoopInv, LoopType
      <4>4. QED
        BY <4>1, <4>2, <4>3, SubSeqProperties
    <3>2. QED
      BY <1>1, <1>2, <2>1, <2>2, <3>1 DEF LoopInv, LoopType, L
  <2>6. \A j \in 1 .. matched + n - 1 :
           /\ From(buf, j) \in Seq(Bytes) /\ Len(From(buf, j)) = matched + n - j
           /\ \A k \in 1 .. (matched + n - j) : From(buf, j)[k] = buf[j + k]
    <3>1. TAKE j \in 1 .. matched + n - 1
    <3>2. /\ j \in Nat /\ matched + n - j \in Nat /\ Len(buf) = j + (matched + n - j)
          /\ j + (matched + n - j) <= Len(buf)
      BY <1>1, <1>3
    <3>3. QED
      BY <1>3, <3>2, Stretch, SMTT(30) DEF From
  <2>7. \A j \in 1 .. matched + n - 1 :
           StartsWith(Magic, From(buf, j)) <=>
               \A k \in 1 .. (matched + n - j) : Magic[k] = buf[j + k]
    <3>1. TAKE j \in 1 .. matched + n - 1
    <3>2. Len(From(buf, j)) <= Len(Magic)
      BY <1>1, <1>2, <2>6 DEF L
    <3>3. /\ From(buf, j) \in Seq(Bytes) /\ Len(From(buf, j)) = matched + n - j
          /\ \A k \in 1 .. (matched + n - j) : From(buf, j)[k] = buf[j + k]
      BY <2>6, Zenon
    <3>4. StartsWith(Magic, From(buf, j)) <=>
              /\ Len(From(buf, j)) <= Len(Magic)
              /\ \A k \in 1 .. Len(From(buf, j)) : Magic[k] = From(buf, j)[k]
      BY <3>3, MagicSeq, Prefix, Zenon
    <3>5. QED
      BY <3>2, <3>3, <3>4
  <2>8. Held'
    <3>1. SUFFICES ASSUME NEW k \in 1 .. (matched + n - i)
                   PROVE  input[Base + i + k] = Magic[k]
      BY <1>2, <2>2, <2>3 DEF Held
    <3>2. i \in 1 .. matched + n - 1 /\ i + k \in 1 .. matched + n
      BY <1>1, <2>1, <2>3
    <3>3. StartsWith(Magic, From(buf, i))
      BY <1>1, <2>1, <3>2 DEF IsStart
    <3>4. Magic[k] = buf[i + k]
      BY <2>7, <3>2, <3>3
    <3>5. buf[i + k] = input[Base + (i + k)] /\ Base + (i + k) = Base + i + k
      BY <1>1, <1>3, <2>3, <3>2
    <3>6. QED
      BY <3>4, <3>5
  <2>9. NoneBefore'
    <3>0. \A s : MagicAt(s)' <=> MagicAt(s)
      BY <1>2 DEF MagicAt, L
    <3>1. SUFFICES ASSUME NEW s \in 0 .. (Base' - 1), MagicAt(s) PROVE FALSE
      BY <3>0, Zenon DEF NoneBefore
    <3>2. \A k \in 1 .. L : input[s + k] = Magic[k]
      BY <3>1 DEF MagicAt
    <3>3. CASE s < Base
      BY <1>1, <2>3, <3>1, <3>3 DEF LoopInv, NoneBefore
    <3>4. CASE s = Base
      <4>1. \A k \in 1 .. matched + n : Magic[k] = buf[k]
        <5>1. TAKE k \in 1 .. matched + n
        <5>2. k \in 1 .. L /\ buf[k] = input[Base + k]
          BY <1>1, <1>2, <1>3
        <5>3. QED
          BY <3>2, <3>4, <5>2
      <4>2. QED
        BY <1>4, <1>7, <4>1
    <3>5. CASE s > Base
      <4> DEFINE j == s - Base
      <4>1. j \in 1 .. (i - 1) /\ j \in 1 .. matched + n - 1 /\ s = Base + j
        BY <1>1, <2>1, <2>3, <3>5
      <4> HIDE DEF j
      <4>2. \A k \in 1 .. (matched + n - j) : Magic[k] = buf[j + k]
        <5>1. TAKE k \in 1 .. (matched + n - j)
        <5>2. k \in 1 .. L /\ j + k \in 1 .. matched + n /\ s + k = Base + (j + k)
          BY <1>1, <1>2, <4>1
        <5>3. QED
          BY <1>3, <3>2, <5>2
      <4>3. buf[j + 1] = Magic[1]
        <5>1. 1 \in 1 .. (matched + n - j)
          BY <1>1, <4>1
        <5>2. QED
          BY <4>2, <5>1
      <4>4. IsStart(buf, j)
        BY <2>7, <4>1, <4>2, <4>3 DEF IsStart
      <4>5. QED
        BY <2>1, <4>1, <4>4
    <3>6. QED
      BY <1>1, <2>3, <3>3, <3>4, <3>5
  <2>10. Ended'
    BY <1>2 DEF Ended
  <2>11. QED
    BY <2>4, <2>5, <2>8, <2>9, <2>10 DEF LoopInv
<1>8. QED
  BY <1>6, <1>7

LEMMA LoopInit == Init => LoopInv
<1> SUFFICES ASSUME Init PROVE LoopInv
  OBVIOUS
<1>1. input \in Seq(Bytes)
  <2>1. PICK n \in 0 .. MaxLen : input \in [1 .. n -> Bytes]
    BY DEF Init
  <2>2. n \in Nat
    BY <2>1, MagicAssumption
  <2>3. QED
    BY <2>1, <2>2
<1>2. pos = 0 /\ matched = 0 /\ out = <<>> /\ result = "run"
  BY DEF Init
<1>3. LoopType
  BY <1>1, <1>2, MagicSeq, LenProperties, EmptySeq DEF LoopType
<1>4. Base = 0
  BY <1>2 DEF Base
<1>5. Held /\ NoneBefore /\ Ended
  BY <1>2, <1>4 DEF Held, NoneBefore, Ended
<1>6. Written
  BY <1>2, <1>4, SubSeqEmpty DEF Written
<1>7. QED
  BY <1>3, <1>5, <1>6 DEF LoopInv

LEMMA LoopStep == LoopInv /\ [Next]_vars => LoopInv'
<1> SUFFICES ASSUME LoopInv, [Next]_vars PROVE LoopInv'
  OBVIOUS
<1>1. ASSUME NEW n \in 1 .. Len(Magic), Read(n) PROVE LoopInv'
  BY <1>1, ReadStep DEF L
<1>2. ASSUME UNCHANGED <<input, pos, matched, out>>, result' \in {"run", "found", "eof"}, Ended'
      PROVE  LoopInv'
  BY <1>2 DEF LoopInv, LoopType, Held, Written, NoneBefore, MagicAt, Base, L
<1>3. CASE Eof
  <2>1. Ended'
    BY <1>3 DEF Eof, Ended, L
  <2>2. QED
    BY <1>2, <1>3, <2>1 DEF Eof
<1>4. CASE Found
  <2>1. Ended'
    BY <1>4 DEF Found, Ended, L
  <2>2. QED
    BY <1>2, <1>4, <2>1 DEF Found
<1>5. CASE UNCHANGED vars
  <2>1. Ended'
    BY <1>5 DEF vars, LoopInv, Ended, L
  <2>2. QED
    BY <1>2, <1>5, <2>1 DEF vars, LoopInv, LoopType
<1>6. QED
  BY <1>1, <1>3, <1>4, <1>5 DEF Next

-----------------------------------------------------------------------------
(* What follows.                                                            *)

\* What forward_until_magic keeps true in every pass of its loop.
THEOREM LoopInvariant == Spec => []LoopInv
  BY LoopInit, LoopStep, PTL DEF Spec

\* What was written and what is held back is what was read.
LEMMA InvNothingLost == LoopInv => NothingLost
<1> SUFFICES ASSUME LoopInv PROVE NothingLost
  OBVIOUS
<1>1. /\ input \in Seq(Bytes) /\ pos \in Nat /\ matched \in Nat /\ Base \in Nat
      /\ Base + matched = pos /\ Len(input) \in Nat /\ pos <= Len(input)
      /\ matched <= Len(Magic) /\ Len(Magic) \in Nat
  BY MagicSeq, LenProperties DEF LoopInv, LoopType, Base, L
<1> DEFINE m == SubSeq(Magic, 1, matched)
<1>2. m \in Seq(Bytes) /\ Len(m) = matched /\ \A k \in 1 .. matched : m[k] = Magic[k]
  <2>1. \A k \in 1 .. matched : Magic[k] \in Bytes
    BY <1>1, MagicSeq, ElementOfSeq
  <2>2. QED
    BY <1>1, <2>1, SubSeqProperties
<1>3. \A k \in 1 .. Len(m) : m[k] = input[Base + k]
  BY <1>2 DEF LoopInv, Held
<1>4. CASE matched = 0
  <2>1. m = <<>> /\ Base = pos
    BY <1>1, <1>4, SubSeqEmpty
  <2>2. out \o <<>> = out
    BY ConcatEmptySeq DEF LoopInv, LoopType
  <2>3. QED
    BY <2>1, <2>2 DEF LoopInv, Written, NothingLost, Take
<1>5. CASE matched > 0
  <2>1. SubSeq(m, 1, matched) = m
    BY <1>2, SubSeqFull
  <2> HIDE DEF m
  <2>2. SubSeq(input, 1, Base) \o SubSeq(m, 1, matched) = SubSeq(input, 1, Base + matched)
    <3>1. matched \in 1 .. Len(m) /\ Base + Len(m) <= Len(input)
      BY <1>1, <1>2, <1>5
    <3>2. QED
      BY <1>1, <1>2, <1>3, <3>1, WrittenGrows
  <2>3. out \o m = SubSeq(input, 1, pos)
    BY <1>1, <2>1, <2>2 DEF LoopInv, Written
  <2>4. QED
    BY <2>3 DEF NothingLost, Take, m
<1>6. QED
  BY <1>1, <1>4, <1>5

\* No byte is lost, invented or moved, for any magic number, stream and reads.
THEOREM MagicNothingLost == Spec => []NothingLost
  BY LoopInvariant, InvNothingLost, PTL

\* The two ways to say where a magic number is.
LEMMA EndsMagicAt ==
  ASSUME LoopInv, NEW n \in 0 .. Len(input)
  PROVE  EndsAt(input, n) <=> n >= L /\ MagicAt(n - L)
<1>1. n \in Nat /\ Len(input) \in Nat /\ L \in Nat /\ L > 0 /\ input \in Seq(Bytes)
  BY MagicSeq, LenProperties DEF LoopInv, LoopType
<1>2. SUFFICES ASSUME n >= L
               PROVE  SubSeq(input, n - L + 1, n) = Magic <=> \A k \in 1 .. L : input[n - L + k] = Magic[k]
  BY <1>1 DEF EndsAt, MagicAt, L
<1> DEFINE w == SubSeq(input, n - L + 1, n)
<1>3. w \in Seq(Bytes) /\ Len(w) = L /\ \A k \in 1 .. L : w[k] = input[n - L + k]
  <2>1. \A k \in (n - L + 1) .. n : input[k] \in Bytes
    BY <1>1, <1>2, ElementOfSeq
  <2>2. n - L + 1 \in Int /\ n \in Int /\ n - L + 1 <= n /\ n - (n - L + 1) + 1 = L
    BY <1>1, <1>2
  <2>3. /\ SubSeq(input, n - L + 1, n) \in Seq(Bytes)
        /\ Len(SubSeq(input, n - L + 1, n)) = n - (n - L + 1) + 1
        /\ \A k \in 1 .. n - (n - L + 1) + 1 :
              SubSeq(input, n - L + 1, n)[k] = input[n - L + 1 + k - 1]
    BY <2>1, <2>2, SubSeqProperties
  <2>4. \A k \in 1 .. L : n - L + 1 + k - 1 = n - L + k
    BY <1>1
  <2>5. QED
    BY <2>2, <2>3, <2>4
<1> HIDE DEF w
<1>4. w = Magic <=> \A k \in 1 .. L : w[k] = Magic[k]
  BY <1>3, MagicSeq, SeqEqual DEF L
<1>5. QED
  BY <1>3, <1>4 DEF w

\* The reference is well defined: a magic number that occurs has a first end.
LEMMA FirstEndIsFirst ==
  ASSUME LoopInv, Occurs(input)
  PROVE  /\ FirstEnd(input) \in 0 .. Len(input) /\ EndsAt(input, FirstEnd(input))
         /\ \A m \in 0 .. (FirstEnd(input) - 1) : ~EndsAt(input, m)
<1> DEFINE T == {n \in 0 .. Len(input) : EndsAt(input, n)}
<1>1. Len(input) \in Nat
  BY LenProperties DEF LoopInv, LoopType
<1>2. T \in SUBSET Nat /\ T # {}
  BY <1>1 DEF Occurs
<1>3. PICK x \in T : \A y \in T : x <= y
  BY <1>2, Least
<1>4. /\ x \in 0 .. Len(input) /\ EndsAt(input, x)
      /\ \A m \in 0 .. (x - 1) : ~EndsAt(input, m)
  BY <1>1, <1>3
<1>5. QED
  BY <1>4 DEF FirstEnd

\* Every magic number ends behind what has been read, or with it.
LEMMA NoneRead ==
  ASSUME LoopInv, NEW n \in 0 .. Len(input), EndsAt(input, n)
  PROVE  n >= pos + (L - matched)
<1>1. /\ n \in Nat /\ L \in Nat /\ pos \in Nat /\ matched \in Nat /\ matched <= pos
  BY MagicSeq, LenProperties DEF LoopInv, LoopType
<1>2. n >= L /\ MagicAt(n - L)
  BY EndsMagicAt
<1>3. ~(n - L \in 0 .. (Base - 1))
  BY <1>2 DEF LoopInv, NoneBefore
<1>4. QED
  BY <1>1, <1>2, <1>3 DEF Base

LEMMA InvNoOverRead == LoopInv => NoOverRead
<1> SUFFICES ASSUME LoopInv, Occurs(input) PROVE pos <= FirstEnd(input)
  BY DEF NoOverRead
<1>1. FirstEnd(input) \in 0 .. Len(input) /\ EndsAt(input, FirstEnd(input))
  BY FirstEndIsFirst
<1>2. FirstEnd(input) >= pos + (L - matched)
  BY <1>1, NoneRead
<1>3. QED
  BY <1>1, <1>2, MagicSeq, LenProperties DEF LoopInv, LoopType

\* The byte after the first magic number is never read, for any magic number, stream
\* and reads.
THEOREM MagicNoOverRead == Spec => []NoOverRead
  BY LoopInvariant, InvNoOverRead, PTL

\* What the loop has returned is right: it says "found" when it stands right behind
\* the first magic number with everything before it written, and "eof" when there is
\* none.
ResultIsRight ==
  /\ result = "found" => /\ Occurs(input) /\ pos = FirstEnd(input)
                         /\ out = Take(input, FirstEnd(input) - Len(Magic))
  /\ result = "eof" => ~Occurs(input)

LEMMA InvResult == LoopInv => ResultIsRight
<1> SUFFICES ASSUME LoopInv PROVE ResultIsRight
  OBVIOUS
<1>1. /\ L \in Nat /\ L > 0 /\ pos \in Nat /\ matched \in Nat /\ matched <= pos
      /\ Len(input) \in Nat /\ pos <= Len(input)
  BY MagicSeq, LenProperties DEF LoopInv, LoopType
<1>2. ASSUME result = "found"
      PROVE  /\ Occurs(input) /\ pos = FirstEnd(input)
             /\ out = Take(input, FirstEnd(input) - Len(Magic))
  <2>1. matched = L
    BY <1>2 DEF LoopInv, Ended
  <2>2. MagicAt(pos - L) /\ pos \in 0 .. Len(input) /\ pos >= L
    BY <1>1, <2>1 DEF LoopInv, Held, Base, MagicAt
  <2>3. EndsAt(input, pos)
    BY <2>2, EndsMagicAt
  <2>4. Occurs(input)
    BY <2>2, <2>3 DEF Occurs
  <2>5. /\ FirstEnd(input) \in 0 .. Len(input) /\ FirstEnd(input) >= pos
        /\ ~(pos \in 0 .. (FirstEnd(input) - 1))
    BY <1>1, <2>1, <2>3, <2>4, FirstEndIsFirst, NoneRead
  <2>6. pos = FirstEnd(input)
    BY <1>1, <2>5
  <2>7. QED
    BY <2>1, <2>4, <2>6 DEF LoopInv, Written, Base, Take, L
<1>3. ASSUME result = "eof" PROVE ~Occurs(input)
  <2>1. pos = Len(input) /\ matched < L
    BY <1>3 DEF LoopInv, Ended
  <2>2. QED
    BY <1>1, <2>1, NoneRead DEF Occurs
<1>4. QED
  BY <1>2, <1>3 DEF ResultIsRight

\* forward_until_magic is partially correct, for any magic number, stream and reads.
THEOREM MagicResult == Spec => []ResultIsRight
  BY LoopInvariant, InvResult, PTL
=============================================================================
