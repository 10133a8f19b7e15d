-------------------------- MODULE SessionDataProofs --------------------------
(***************************************************************************)
(* Proofs about what a session carries: that each direction of a remote    *)
(* command's stdio implements FifoLink, and that the last size of the      *)
(* terminal is not overtaken, for queues of any capacity, any amount of    *)
(* data and any set of faults.                                             *)
(***************************************************************************)
EXTENDS SessionOrderProofs, Integers

-----------------------------------------------------------------------------
(* One direction of a session as a row of places.                           *)

\* The places whose frames can still reach the sink, unless a process stops.
Live(s) == {i \in 1 .. 10 : /\ ends[Other(s)].sink # "end"
                            /\ i >= 2 => Open(Other(s))
                            /\ i >= 6 => ~ReaderGone(Other(s)) /\ net[s].sender = "run"
                            /\ i >= 8 => Open(s)}

\* The frames that have their turn: Spawn, the chunks of the t that were put in, and
\* the end after them.
Bears(f) == f.t \in {"Spawn", "Output", "Shutdown"}
Number(t, f) == IF f.t = "Output" THEN (IF f.v \in 1 .. t THEN f.v ELSE t + 2)
                ELSE IF f.t = "Shutdown" THEN t + 1 ELSE 0

\* The frames of a place are those after a and up to b, in order.
Carries(t, q, a, b) ==
    /\ \A i \in 1 .. Len(q) : Bears(q[i]) => a < Number(t, q[i]) /\ Number(t, q[i]) <= b
    /\ \A i, j \in 1 .. Len(q) :
           i < j /\ Bears(q[i]) /\ Bears(q[j]) => Number(t, q[i]) < Number(t, q[j])
    /\ \A n \in a + 1 .. b : \E i \in 1 .. Len(q) : Bears(q[i]) /\ Number(t, q[i]) = n

\* Place i carries what comes after c[i - 1] up to c[i].
Linked(P, L, t, c) ==
    \A i \in 1 .. 10 : c[i - 1] <= c[i] /\ (i \in L => Carries(t, P[i], c[i - 1], c[i]))

Item == Frame \cup {None}
Rows == [0 .. 10 -> Int]
Filled(P) == \A i \in 1 .. 10 : P[i] \in Seq(Item)

-----------------------------------------------------------------------------
(* A row of places, whatever it stands for.                                 *)

\* A frame moves from place p + 1 to place p; the first frame of a place leaves the
\* row; a frame joins it.
Others(P, Q, A) == \A i \in (1 .. 10) \ A : Q[i] = P[i]
Flows(P, Q, p) == /\ P[p + 1] # <<>> /\ Others(P, Q, {p, p + 1})
                  /\ Q[p] = Append(P[p], Head(P[p + 1])) /\ Q[p + 1] = Tail(P[p + 1])
Leaves(P, Q, p) == P[p] # <<>> /\ Others(P, Q, {p}) /\ Q[p] = Tail(P[p])
Joins(P, Q, p, f) == Others(P, Q, {p}) /\ Q[p] = Append(P[p], f)

\* Numbers are numbers.
LEMMA NumberType ==
  ASSUME NEW t \in Nat, NEW f \in Item
  PROVE  Number(t, f) \in Nat
BY FrameValue DEF Item, Number, None, F

\* The next frame in turn joins a place.
LEMMA CarriesNext ==
  ASSUME NEW t \in Nat, NEW q \in Seq(Item), NEW a \in Int, NEW b \in Int, NEW f \in Item,
         a <= b, Carries(t, q, a, b), Bears(f) => Number(t, f) = b + 1
  PROVE  Carries(t, Append(q, f), a, IF Bears(f) THEN b + 1 ELSE b)
<1> DEFINE r == Append(q, f)
           e == IF Bears(f) THEN b + 1 ELSE b
<1>1. /\ r \in Seq(Item) /\ Len(r) = Len(q) + 1 /\ Len(q) \in Nat
      /\ \A i \in 1 .. Len(q) : r[i] = q[i] /\ q[i] \in Item
      /\ r[Len(q) + 1] = f
  BY AppendProperties, ElementOfSeq, LenProperties
<1>2. \A i \in 1 .. Len(q) : Number(t, q[i]) \in Nat
  BY <1>1, NumberType
<1>3. \A i \in 1 .. Len(r) : i \in 1 .. Len(q) \/ i = Len(q) + 1
  BY <1>1
<1>4. \A i \in 1 .. Len(r) : Bears(r[i]) => a < Number(t, r[i]) /\ Number(t, r[i]) <= e
  <2>1. \A i \in 1 .. Len(q) : Bears(q[i]) => a < Number(t, q[i]) /\ Number(t, q[i]) <= b
    BY DEF Carries
  <2>2. QED
    BY <1>1, <1>2, <1>3, <2>1
<1>5. \A i, j \in 1 .. Len(r) :
          i < j /\ Bears(r[i]) /\ Bears(r[j]) => Number(t, r[i]) < Number(t, r[j])
  <2>1. \A i, j \in 1 .. Len(q) :
            i < j /\ Bears(q[i]) /\ Bears(q[j]) => Number(t, q[i]) < Number(t, q[j])
    BY DEF Carries
  <2>2. \A i \in 1 .. Len(q) : Bears(q[i]) => Number(t, q[i]) <= b
    BY DEF Carries
  <2>3. ASSUME NEW i \in 1 .. Len(r), NEW j \in 1 .. Len(r), i < j, Bears(r[i]), Bears(r[j])
        PROVE  Number(t, r[i]) < Number(t, r[j])
    <3>1. i \in 1 .. Len(q) /\ r[i] = q[i]
      BY <1>1, <2>3
    <3>2. CASE j \in 1 .. Len(q)
      BY <1>1, <2>1, <2>3, <3>1, <3>2
    <3>3. CASE j = Len(q) + 1
      <4>1. Number(t, q[i]) <= b /\ Number(t, q[i]) \in Nat
        BY <1>2, <2>2, <2>3, <3>1
      <4>2. Number(t, r[j]) = b + 1
        BY <1>1, <2>3, <3>3
      <4>3. QED
        BY <3>1, <4>1, <4>2
    <3>4. QED
      BY <1>3, <3>2, <3>3
  <2>4. QED
    BY <2>3
<1>6. \A n \in a + 1 .. e : \E i \in 1 .. Len(r) : Bears(r[i]) /\ Number(t, r[i]) = n
  <2>1. \A n \in a + 1 .. b : \E i \in 1 .. Len(q) : Bears(q[i]) /\ Number(t, q[i]) = n
    BY DEF Carries
  <2>2. \A n \in a + 1 .. e : n \in a + 1 .. b \/ (n = b + 1 /\ Bears(f))
    OBVIOUS
  <2>3. QED
    BY <1>1, <2>1, <2>2
<1>7. QED
  BY <1>4, <1>5, <1>6 DEF Carries

\* The first frame of a place is the next in turn, and the others come after it.
LEMMA CarriesFirst ==
  ASSUME NEW t \in Nat, NEW q \in Seq(Item), NEW a \in Int, NEW b \in Int,
         q # <<>>, Carries(t, q, a, b)
  PROVE  /\ Bears(Head(q)) => Number(t, Head(q)) = a + 1 /\ a + 1 <= b
         /\ Carries(t, Tail(q), IF Bears(Head(q)) THEN a + 1 ELSE a, b)
<1> DEFINE r == Tail(q)
           e == IF Bears(Head(q)) THEN a + 1 ELSE a
<1>1. /\ r \in Seq(Item) /\ Len(r) = Len(q) - 1 /\ Len(q) \in Nat /\ Len(q) >= 1
      /\ \A i \in 1 .. Len(r) : r[i] = q[i + 1]
      /\ \A i \in 1 .. Len(q) : q[i] \in Item
      /\ Head(q) = q[1]
  BY HeadTailProperties, ElementOfSeq, LenProperties, EmptySeq
<1>2. \A i \in 1 .. Len(q) : Number(t, q[i]) \in Nat
  BY <1>1, NumberType
<1>3. /\ \A i \in 1 .. Len(q) : Bears(q[i]) => a < Number(t, q[i]) /\ Number(t, q[i]) <= b
      /\ \A i, j \in 1 .. Len(q) :
             i < j /\ Bears(q[i]) /\ Bears(q[j]) => Number(t, q[i]) < Number(t, q[j])
      /\ \A n \in a + 1 .. b : \E i \in 1 .. Len(q) : Bears(q[i]) /\ Number(t, q[i]) = n
  BY DEF Carries
<1>4. Bears(q[1]) => Number(t, q[1]) = a + 1 /\ a + 1 <= b
  <2> SUFFICES ASSUME Bears(q[1]) PROVE Number(t, q[1]) = a + 1 /\ a + 1 <= b
    OBVIOUS
  <2>1. a < Number(t, q[1]) /\ Number(t, q[1]) <= b /\ Number(t, q[1]) \in Nat
    BY <1>1, <1>2, <1>3
  <2>2. PICK i \in 1 .. Len(q) : Bears(q[i]) /\ Number(t, q[i]) = a + 1
    BY <1>3, <2>1
  <2>3. i = 1 \/ (1 < i /\ Number(t, q[1]) < Number(t, q[i]))
    BY <1>1, <1>3, <2>2
  <2>4. QED
    BY <2>1, <2>2, <2>3
<1>5. \A i \in 1 .. Len(r) : i + 1 \in 1 .. Len(q) /\ 1 < i + 1
  BY <1>1
<1>6. \A i \in 1 .. Len(r) : Bears(r[i]) => e < Number(t, r[i]) /\ Number(t, r[i]) <= b
  BY <1>1, <1>2, <1>3, <1>4, <1>5
<1>7. \A i, j \in 1 .. Len(r) :
          i < j /\ Bears(r[i]) /\ Bears(r[j]) => Number(t, r[i]) < Number(t, r[j])
  <2>1. \A i, j \in 1 .. Len(r) : i < j => i + 1 < j + 1
    BY <1>1
  <2>2. QED
    BY <1>1, <1>3, <1>5, <2>1
<1>8. \A n \in e + 1 .. b : \E i \in 1 .. Len(r) : Bears(r[i]) /\ Number(t, r[i]) = n
  <2> SUFFICES ASSUME NEW n \in e + 1 .. b
               PROVE  \E i \in 1 .. Len(r) : Bears(r[i]) /\ Number(t, r[i]) = n
    OBVIOUS
  <2>1. PICK i \in 1 .. Len(q) : Bears(q[i]) /\ Number(t, q[i]) = n
    BY <1>3
  <2>2. i # 1
    BY <1>4, <2>1
  <2>3. i - 1 \in 1 .. Len(r) /\ r[i - 1] = q[i]
    BY <1>1, <2>2
  <2>4. QED
    BY <2>1, <2>3
<1>9. QED
  BY <1>1, <1>4, <1>6, <1>7, <1>8 DEF Carries

\* An empty place carries nothing.
LEMMA CarriesEmpty ==
  ASSUME NEW t, NEW q, q = <<>>, NEW a \in Int, NEW b \in Int
  PROVE  (a = b => Carries(t, q, a, b)) /\ (Carries(t, q, a, b) /\ a <= b => a = b)
<1>1. Len(q) = 0 /\ 1 .. 0 = {}
  OBVIOUS
<1>2. ASSUME a = b PROVE Carries(t, q, a, b)
  BY <1>1, <1>2 DEF Carries
<1>3. ASSUME Carries(t, q, a, b), a < b PROVE FALSE
  <2>1. a + 1 \in a + 1 .. b
    BY <1>3
  <2>2. QED
    BY <1>1, <1>3, <2>1 DEF Carries
<1>4. QED
  BY <1>2, <1>3

\* A row is changed at one place.
LEMMA RowUpdate ==
  ASSUME NEW c \in Rows, NEW p \in 0 .. 10, NEW n \in Int
  PROVE  /\ [c EXCEPT ![p] = n] \in Rows /\ [c EXCEPT ![p] = n][p] = n
         /\ \A i \in 0 .. 10 : i # p => [c EXCEPT ![p] = n][i] = c[i]
  BY DEF Rows

\* What a row says of each place.
LEMMA RowPlaces ==
  ASSUME NEW P, NEW L, NEW t, NEW c \in Rows, Linked(P, L, t, c)
  PROVE  /\ \A i \in 0 .. 10 : c[i] \in Int
         /\ \A i \in 1 .. 10 : i - 1 \in 0 .. 10 /\ c[i - 1] \in Int /\ c[i] \in Int
         /\ \A i \in 1 .. 10 : c[i - 1] <= c[i] /\ (i \in L => Carries(t, P[i], c[i - 1], c[i]))
<1>1. \A i \in 0 .. 10 : c[i] \in Int
  BY DEF Rows
<1>2. \A i \in 1 .. 10 : i - 1 \in 0 .. 10 /\ i \in 0 .. 10
  OBVIOUS
<1>3. QED
  BY <1>1, <1>2 DEF Linked

\* A row with given ends.
Row(t, P, L, a, b) == \E c \in Rows : Linked(P, L, t, c) /\ c[0] = a /\ c[10] = b

\* A row of places is one with its own ends.
LEMMA RowOf ==
  ASSUME NEW t, NEW P, NEW L, NEW c \in Rows, Linked(P, L, t, c)
  PROVE  Row(t, P, L, c[0], c[10])
<1> SUFFICES \E d \in Rows : Linked(P, L, t, d) /\ d[0] = c[0] /\ d[10] = c[10]
  BY DEF Row
<1> WITNESS c \in Rows
<1>1. QED
  OBVIOUS

\* The rows are numbers that do not decrease.
LEMMA RowOrder ==
  ASSUME NEW P, NEW L, NEW t, NEW c \in Rows, Linked(P, L, t, c)
  PROVE  \A i \in 0 .. 10 : c[i] \in Int /\ c[0] <= c[i] /\ c[i] <= c[10]
<1>1. \A i \in 0 .. 10 : c[i] \in Int
  BY DEF Rows
<1>2. \A i \in 1 .. 10 : c[i - 1] <= c[i]
  BY DEF Linked
<1>3. /\ c[0] <= c[1] /\ c[1] <= c[2] /\ c[2] <= c[3] /\ c[3] <= c[4] /\ c[4] <= c[5]
      /\ c[5] <= c[6] /\ c[6] <= c[7] /\ c[7] <= c[8] /\ c[8] <= c[9] /\ c[9] <= c[10]
  <2>1. c[1 - 1] <= c[1] /\ c[2 - 1] <= c[2] /\ c[3 - 1] <= c[3] /\ c[4 - 1] <= c[4]
    BY <1>2
  <2>2. c[5 - 1] <= c[5] /\ c[6 - 1] <= c[6] /\ c[7 - 1] <= c[7]
    BY <1>2
  <2>3. c[8 - 1] <= c[8] /\ c[9 - 1] <= c[9] /\ c[10 - 1] <= c[10]
    BY <1>2
  <2>4. QED
    BY <2>1, <2>2, <2>3
<1>4. \A i \in 0 .. 10 : i = 0 \/ i = 1 \/ i = 2 \/ i = 3 \/ i = 4 \/ i = 5 \/ i = 6
                         \/ i = 7 \/ i = 8 \/ i = 9 \/ i = 10
  OBVIOUS
<1>5. QED
  BY <1>1, <1>3, <1>4

\* What is lost at a place that is no longer live need not be accounted for.
LEMMA RowKept ==
  ASSUME NEW P, NEW Q, NEW L, NEW M, NEW t, NEW c, Linked(P, L, t, c),
         M \subseteq L, \A i \in M : Q[i] = P[i]
  PROVE  Linked(Q, M, t, c)
  BY DEF Linked

\* A frame moves on.
LEMMA RowFlows ==
  ASSUME NEW t \in Nat, NEW P, NEW Q, NEW L, NEW M, NEW c \in Rows, NEW p \in 1 .. 9,
         Filled(P), Linked(P, L, t, c), Flows(P, Q, p), M \subseteq L, p \in M => p + 1 \in L
  PROVE  Row(t, Q, M, c[0], c[10])
<1>1. PICK q \in 2 .. 10 : q = p + 1
  OBVIOUS
<1>2. /\ p \in 0 .. 10 /\ p \in 1 .. 10 /\ q \in 1 .. 10 /\ q \in 0 .. 10 /\ q - 1 = p /\ p # q
      /\ p - 1 \in 0 .. 10 /\ p - 1 # p /\ 0 # p /\ 10 # p
  BY <1>1
<1>3. /\ c[p - 1] \in Int /\ c[p] \in Int /\ c[q] \in Int /\ c[p - 1] <= c[p] /\ c[p] <= c[q]
      /\ p \in L => Carries(t, P[p], c[p - 1], c[p])
      /\ q \in L => Carries(t, P[q], c[p], c[q])
  <2>1. c[q - 1] <= c[q] /\ (q \in L => Carries(t, P[q], c[q - 1], c[q]))
    BY <1>2, RowPlaces
  <2>2. QED
    BY <1>2, <2>1, RowPlaces
<1> DEFINE f == Head(P[q])
           n == IF q \in L /\ Bears(f) THEN c[p] + 1 ELSE c[p]
           d == [c EXCEPT ![p] = n]
<1>4. n \in Int
  BY <1>3
<1>5. d \in Rows /\ d[p] = n /\ \A i \in 0 .. 10 : i # p => d[i] = c[i]
  BY <1>2, <1>4, RowUpdate
<1>6. /\ P[p] \in Seq(Item) /\ P[q] \in Seq(Item) /\ P[q] # <<>> /\ f \in Item
      /\ Q[p] = Append(P[p], f) /\ Q[q] = Tail(P[q])
  BY <1>1, <1>2, HeadTailProperties DEF Flows, Filled
<1>7. q \in L => /\ Bears(f) => Number(t, f) = c[p] + 1 /\ c[p] + 1 <= c[q]
                 /\ Carries(t, Q[q], n, c[q])
  BY <1>3, <1>6, CarriesFirst
<1>8. p \in M => Carries(t, Q[p], c[p - 1], n)
  <2> SUFFICES ASSUME p \in M PROVE Carries(t, Q[p], c[p - 1], n)
    OBVIOUS
  <2>1. p \in L /\ q \in L
    BY <1>1
  <2>2. Carries(t, Append(P[p], f), c[p - 1], IF Bears(f) THEN c[p] + 1 ELSE c[p])
    BY <1>3, <1>6, <1>7, <2>1, CarriesNext
  <2>3. QED
    BY <1>6, <2>1, <2>2
<1>9. c[p - 1] <= n /\ n <= c[q]
  BY <1>3, <1>7
<1> HIDE DEF d
<1>10. Linked(Q, M, t, d)
  <2> SUFFICES ASSUME NEW i \in 1 .. 10
               PROVE  d[i - 1] <= d[i] /\ (i \in M => Carries(t, Q[i], d[i - 1], d[i]))
    BY DEF Linked
  <2>1. CASE i = p
    <3>1. d[p - 1] = c[p - 1]
      BY <1>2, <1>5
    <3>2. QED
      BY <1>5, <1>8, <1>9, <2>1, <3>1
  <2>2. CASE i = q
    <3>1. d[q] = c[q] /\ d[q - 1] = n
      BY <1>2, <1>5
    <3>2. QED
      BY <1>7, <1>9, <2>2, <3>1
  <2>3. CASE i # p /\ i # q
    <3>1. i \in 0 .. 10 /\ i - 1 \in 0 .. 10 /\ i - 1 # p
      BY <1>1, <2>3
    <3>2. d[i] = c[i] /\ d[i - 1] = c[i - 1]
      BY <1>5, <2>3, <3>1
    <3>3. Q[i] = P[i]
      BY <1>1, <2>3 DEF Flows, Others
    <3>4. QED
      BY <3>2, <3>3, RowPlaces
  <2>4. QED
    BY <2>1, <2>2, <2>3
<1>11. d[0] = c[0] /\ d[10] = c[10]
  BY <1>2, <1>5
<1>12. QED
  BY <1>5, <1>10, <1>11, RowOf

\* A frame without a turn leaves.
LEMMA RowLeaves ==
  ASSUME NEW t \in Nat, NEW P, NEW Q, NEW L, NEW M, NEW c \in Rows, NEW p \in 1 .. 10,
         Filled(P), Linked(P, L, t, c), Leaves(P, Q, p),
         M \subseteq L, p \in M => ~Bears(Head(P[p]))
  PROVE  Linked(Q, M, t, c)
<1>1. c[p - 1] \in Int /\ c[p] \in Int /\ (p \in L => Carries(t, P[p], c[p - 1], c[p]))
  BY RowPlaces
<1>2. P[p] \in Seq(Item) /\ P[p] # <<>> /\ Q[p] = Tail(P[p])
  BY DEF Filled, Leaves
<1>3. p \in M => Carries(t, Q[p], c[p - 1], c[p])
  BY <1>1, <1>2, CarriesFirst
<1>4. QED
  BY <1>3 DEF Linked, Leaves, Others

\* A frame without a turn joins.
LEMMA RowJoins ==
  ASSUME NEW t \in Nat, NEW P, NEW Q, NEW L, NEW M, NEW c \in Rows, NEW p \in 1 .. 10,
         NEW f \in Item,
         Filled(P), Linked(P, L, t, c), Joins(P, Q, p, f),
         M \subseteq L, ~Bears(f)
  PROVE  Linked(Q, M, t, c)
<1>1. /\ c[p - 1] \in Int /\ c[p] \in Int /\ c[p - 1] <= c[p]
      /\ p \in L => Carries(t, P[p], c[p - 1], c[p])
  BY RowPlaces
<1>2. P[p] \in Seq(Item) /\ Q[p] = Append(P[p], f)
  BY DEF Filled, Joins
<1>3. p \in M => Carries(t, Q[p], c[p - 1], c[p])
  BY <1>1, <1>2, CarriesNext
<1>4. QED
  BY <1>3 DEF Linked, Joins, Others

\* The first frame leaves the row with its turn.
LEMMA RowFirst ==
  ASSUME NEW t \in Nat, NEW P, NEW Q, NEW L, NEW M, NEW c \in Rows,
         Filled(P), Linked(P, L, t, c), Leaves(P, Q, 1),
         M \subseteq L, 1 \in L, Bears(Head(P[1]))
  PROVE  /\ Number(t, Head(P[1])) = c[0] + 1 /\ c[0] + 1 <= c[10]
         /\ Row(t, Q, M, c[0] + 1, c[10])
<1> DEFINE d == [c EXCEPT ![0] = c[0] + 1]
<1>1. c[0] \in Int /\ c[1] \in Int /\ c[10] \in Int /\ c[1] <= c[10] /\ c[0] + 1 \in Int
  BY RowOrder
<1>2. Carries(t, P[1], c[0], c[1])
  <2>1. 1 - 1 = 0
    OBVIOUS
  <2>2. QED
    BY <2>1, RowPlaces
<1>3. P[1] \in Seq(Item) /\ P[1] # <<>> /\ Q[1] = Tail(P[1])
  BY DEF Filled, Leaves
<1>4. /\ Number(t, Head(P[1])) = c[0] + 1 /\ c[0] + 1 <= c[1]
      /\ Carries(t, Tail(P[1]), c[0] + 1, c[1])
  BY <1>1, <1>2, <1>3, CarriesFirst
<1>5. d \in Rows /\ d[0] = c[0] + 1 /\ \A i \in 1 .. 10 : d[i] = c[i]
  BY <1>1, RowUpdate
<1> HIDE DEF d
<1>6. Linked(Q, M, t, d)
  <2> SUFFICES ASSUME NEW i \in 1 .. 10
               PROVE  d[i - 1] <= d[i] /\ (i \in M => Carries(t, Q[i], d[i - 1], d[i]))
    BY DEF Linked
  <2>1. CASE i = 1
    BY <1>3, <1>4, <1>5, <2>1
  <2>2. CASE i # 1
    <3>1. d[i] = c[i] /\ d[i - 1] = c[i - 1] /\ Q[i] = P[i]
      BY <1>5, <2>2 DEF Leaves, Others
    <3>2. QED
      BY <3>1, RowPlaces
  <2>3. QED
    BY <2>1, <2>2
<1>7. c[0] + 1 <= c[10]
  BY <1>1, <1>4
<1>8. QED
  BY <1>4, <1>5, <1>6, <1>7, RowOf

\* The next frame in turn joins at the end.
LEMMA RowLast ==
  ASSUME NEW t \in Nat, NEW P, NEW Q, NEW L, NEW M, NEW c \in Rows, NEW f \in Item,
         Filled(P), Linked(P, L, t, c), Joins(P, Q, 10, f),
         M \subseteq L, Bears(f), Number(t, f) = c[10] + 1
  PROVE  Row(t, Q, M, c[0], c[10] + 1)
<1> DEFINE d == [c EXCEPT ![10] = c[10] + 1]
<1>1. /\ c[9] \in Int /\ c[10] \in Int /\ c[10] + 1 \in Int /\ c[9] <= c[10] /\ c[9] <= c[10] + 1
      /\ 10 \in L => Carries(t, P[10], c[9], c[10])
  <2>1. 10 - 1 = 9
    OBVIOUS
  <2>2. c[9] \in Int /\ c[10] \in Int /\ c[9] <= c[10]
    BY <2>1, RowPlaces
  <2>3. 10 \in L => Carries(t, P[10], c[9], c[10])
    BY <2>1, RowPlaces
  <2>4. QED
    BY <2>2, <2>3
<1>2. d \in Rows /\ d[10] = c[10] + 1 /\ \A i \in 0 .. 9 : d[i] = c[i]
  BY <1>1, RowUpdate
<1>3. P[10] \in Seq(Item) /\ Q[10] = Append(P[10], f)
  BY DEF Filled, Joins
<1>4. 10 \in M => Carries(t, Q[10], c[9], c[10] + 1)
  BY <1>1, <1>3, CarriesNext
<1> HIDE DEF d
<1>5. Linked(Q, M, t, d)
  <2> SUFFICES ASSUME NEW i \in 1 .. 10
               PROVE  d[i - 1] <= d[i] /\ (i \in M => Carries(t, Q[i], d[i - 1], d[i]))
    BY DEF Linked
  <2>1. CASE i = 10
    <3>1. d[i - 1] = c[9] /\ d[i] = c[10] + 1
      BY <1>2, <2>1
    <3>2. QED
      BY <1>1, <1>4, <2>1, <3>1
  <2>2. CASE i # 10
    <3>1. d[i] = c[i] /\ d[i - 1] = c[i - 1]
      BY <1>2, <2>2
    <3>2. Q[i] = P[i]
      BY <2>2 DEF Joins, Others
    <3>3. QED
      BY <3>1, <3>2, RowPlaces
  <2>3. QED
    BY <2>1, <2>2
<1>6. d[0] = c[0]
  BY <1>2
<1>7. QED
  BY <1>2, <1>5, <1>6, RowOf

\* One more chunk changes no number of what was put in before.
LEMMA RowMore ==
  ASSUME NEW t \in Nat, NEW P, NEW L, NEW c \in Rows,
         Filled(P), Linked(P, L, t, c), c[10] <= t
  PROVE  Linked(P, L, t + 1, c)
<1> SUFFICES ASSUME NEW i \in 1 .. 10, i \in L PROVE Carries(t + 1, P[i], c[i - 1], c[i])
  BY DEF Linked
<1> DEFINE q == P[i]
<1>1. c[i] \in Int /\ c[i] <= t
  BY RowOrder
<1>2. Carries(t, q, c[i - 1], c[i])
  BY RowPlaces
<1>3. q \in Seq(Item)
  BY DEF Filled
<1> HIDE DEF q
<1>4. \A k \in 1 .. Len(q) : q[k] \in Item
  BY <1>3, ElementOfSeq
<1>5. \A k \in 1 .. Len(q) : Bears(q[k]) => Number(t, q[k]) <= t
  <2>1. \A k \in 1 .. Len(q) : Bears(q[k]) => Number(t, q[k]) <= c[i]
    BY <1>2 DEF Carries
  <2>2. \A k \in 1 .. Len(q) : Number(t, q[k]) \in Nat
    BY <1>4, NumberType
  <2>3. QED
    BY <1>1, <2>1, <2>2
<1>6. \A f \in Item : Bears(f) /\ Number(t, f) <= t => Number(t + 1, f) = Number(t, f)
  BY DEF Number, Bears
<1>7. \A k \in 1 .. Len(q) : Bears(q[k]) => Number(t + 1, q[k]) = Number(t, q[k])
  BY <1>4, <1>5, <1>6
<1>8. Carries(t + 1, q, c[i - 1], c[i])
  BY <1>2, <1>7 DEF Carries
<1>9. QED
  BY <1>8 DEF q

\* The connection breaks: the wire may lose all it carries, and nobody can write to it.
LEMMA RowCut ==
  ASSUME NEW t \in Nat, NEW P, NEW Q, NEW L, NEW M, NEW c \in Rows,
         Linked(P, L, t, c), Others(P, Q, {5}), Q[5] = <<>>,
         M \subseteq L, \A i \in M : i < 6
  PROVE  Row(t, Q, M, c[0], c[10])
<1> DEFINE d == [c EXCEPT ![5] = c[4]]
<1>1. c[4] \in Int /\ c[4] <= c[6]
  <2>1. 5 - 1 = 4 /\ 6 - 1 = 5
    OBVIOUS
  <2>2. c[4] \in Int /\ c[5] \in Int /\ c[6] \in Int /\ c[4] <= c[5] /\ c[5] <= c[6]
    BY <2>1, RowPlaces
  <2>3. QED
    BY <2>2
<1>2. d \in Rows /\ d[5] = c[4] /\ \A i \in 0 .. 10 : i # 5 => d[i] = c[i]
  BY <1>1, RowUpdate
<1> HIDE DEF d
<1>3. Linked(Q, M, t, d)
  <2> SUFFICES ASSUME NEW i \in 1 .. 10
               PROVE  d[i - 1] <= d[i] /\ (i \in M => Carries(t, Q[i], d[i - 1], d[i]))
    BY DEF Linked
  <2>1. CASE i = 5
    <3>1. d[i - 1] = c[4] /\ d[i] = c[4]
      BY <1>2, <2>1
    <3>2. Carries(t, Q[5], c[4], c[4])
      BY <1>1, CarriesEmpty
    <3>3. QED
      BY <1>1, <2>1, <3>1, <3>2
  <2>2. CASE i = 6
    <3>1. d[i - 1] = c[4] /\ d[i] = c[6] /\ i \notin M
      BY <1>2, <2>2
    <3>2. QED
      BY <1>1, <3>1
  <2>3. CASE i # 5 /\ i # 6
    <3>1. d[i] = c[i] /\ d[i - 1] = c[i - 1]
      BY <1>2, <2>3
    <3>2. Q[i] = P[i]
      BY <2>3 DEF Others
    <3>3. QED
      BY <3>1, <3>2, RowPlaces
  <2>4. QED
    BY <2>1, <2>2, <2>3
<1>4. d[0] = c[0] /\ d[10] = c[10]
  BY <1>2
<1>5. QED
  BY <1>2, <1>3, <1>4, RowOf

\* Spawn is sent: the first of all.
LEMMA RowOpens ==
  ASSUME NEW t \in Nat, NEW P, NEW Q, NEW L, NEW M, NEW c \in Rows, NEW f \in Item,
         Filled(P), Linked(P, L, t, c), Joins(P, Q, 9, f),
         M \subseteq L, P[10] = <<>>,
         c[0] = -1, c[10] = -1, f.t = "Spawn"
  PROVE  Row(t, Q, M, -1, 0)
<1> DEFINE d == [i \in 0 .. 10 |-> IF i < 9 THEN -1 ELSE 0]
<1>1. ASSUME NEW i \in 0 .. 10 PROVE c[i] = -1
  <2>1. c[i] \in Int /\ -1 <= c[i] /\ c[i] <= -1
    BY RowOrder
  <2>2. QED
    BY <2>1
<1>2. Bears(f) /\ Number(t, f) = 0
  BY DEF Bears, Number
<1>3. ASSUME NEW i \in 1 .. 10, i \in L PROVE Carries(t, P[i], -1, -1)
  <2>1. c[i] = -1 /\ c[i - 1] = -1
    BY <1>1, RowPlaces
  <2>2. QED
    BY <1>3, <2>1, RowPlaces
<1>4. d \in Rows /\ \A i \in 0 .. 10 : d[i] = IF i < 9 THEN -1 ELSE 0
  BY DEF Rows
<1> HIDE DEF d
<1>5. Linked(Q, M, t, d)
  <2> SUFFICES ASSUME NEW i \in 1 .. 10
               PROVE  d[i - 1] <= d[i] /\ (i \in M => Carries(t, Q[i], d[i - 1], d[i]))
    BY DEF Linked
  <2>1. CASE i < 9
    BY <1>3, <1>4, <2>1, SMTT(30) DEF Joins, Others
  <2>2. CASE i = 9
    <3>1. P[9] \in Seq(Item) /\ Q[9] = Append(P[9], f)
      BY DEF Filled, Joins
    <3>2. 9 \in L => Carries(t, P[9], -1, -1)
      BY <1>3
    <3>3. 9 \in M => Carries(t, Q[9], -1, -1 + 1)
      <4>1. -1 \in Int /\ -1 <= -1 /\ Number(t, f) = -1 + 1
        BY <1>2
      <4>2. QED
        BY <1>2, <3>1, <3>2, <4>1, CarriesNext
    <3>4. -1 + 1 = 0 /\ d[i - 1] = -1 /\ d[i] = 0
      BY <1>4, <2>2
    <3>5. QED
      BY <2>2, <3>3, <3>4
  <2>3. CASE i = 10
    <3>1. Q[10] = <<>>
      BY DEF Joins, Others
    <3>2. Carries(t, Q[10], 0, 0)
      BY <3>1, CarriesEmpty
    <3>3. d[i - 1] = 0 /\ d[i] = 0
      BY <1>4, <2>3
    <3>4. QED
      BY <2>3, <3>2, <3>3
  <2>4. QED
    BY <2>1, <2>2, <2>3
<1>6. QED
  BY <1>4, <1>5, RowOf

\* Spawn is taken by the remote router: nothing was before it.
LEMMA RowSpawns ==
  ASSUME NEW t \in Nat, NEW P, NEW Q, NEW L, NEW M, NEW c \in Rows,
         Filled(P), Linked(P, L, t, c), Leaves(P, Q, 3),
         M \subseteq L, {1, 2, 3} \subseteq L,
         P[1] = <<>>, P[2] = <<>>, c[0] = -1, Head(P[3]).t = "Spawn"
  PROVE  Row(t, Q, M, 0, c[10])
<1> DEFINE d == [i \in 0 .. 10 |-> IF i < 3 THEN 0 ELSE c[i]]
<1>1. \A i \in 0 .. 10 : c[i] \in Int
  BY RowPlaces
<1>2. /\ c[0] <= c[1] /\ Carries(t, P[1], c[0], c[1])
      /\ c[1] <= c[2] /\ Carries(t, P[2], c[1], c[2])
      /\ Carries(t, P[3], c[2], c[3])
  <2>1. 1 - 1 = 0 /\ 2 - 1 = 1 /\ 3 - 1 = 2
    OBVIOUS
  <2>2. QED
    BY <2>1, RowPlaces
<1>3. c[1] = -1 /\ c[2] = -1
  <2>1. c[0] \in Int /\ c[1] \in Int /\ c[2] \in Int
    BY <1>1
  <2>2. c[0] = c[1] /\ c[1] = c[2]
    BY <1>2, <2>1, CarriesEmpty
  <2>3. QED
    BY <2>2
<1>4. 0 <= c[3] /\ Carries(t, Tail(P[3]), 0, c[3])
  <2>1. P[3] \in Seq(Item) /\ P[3] # <<>>
    BY DEF Filled, Leaves
  <2>2. Bears(Head(P[3]))
    BY DEF Bears
  <2>3. c[3] \in Int /\ Carries(t, P[3], -1, c[3])
    BY <1>1, <1>2, <1>3
  <2>4. -1 + 1 = 0 /\ -1 \in Int
    OBVIOUS
  <2>5. QED
    BY <2>1, <2>2, <2>3, <2>4, CarriesFirst
<1>5. d \in Rows /\ \A i \in 0 .. 10 : d[i] = IF i < 3 THEN 0 ELSE c[i]
  BY <1>1 DEF Rows
<1> HIDE DEF d
<1>6. Linked(Q, M, t, d)
  <2> SUFFICES ASSUME NEW i \in 1 .. 10
               PROVE  d[i - 1] <= d[i] /\ (i \in M => Carries(t, Q[i], d[i - 1], d[i]))
    BY DEF Linked
  <2>1. CASE i < 3
    <3>1. Q[i] = <<>>
      <4>1. i = 1 \/ i = 2
        BY <2>1
      <4>2. QED
        BY <4>1 DEF Leaves, Others
    <3>2. Carries(t, Q[i], 0, 0)
      BY <3>1, CarriesEmpty
    <3>3. d[i - 1] = 0 /\ d[i] = 0
      BY <1>5, <2>1
    <3>4. QED
      BY <3>2, <3>3
  <2>2. CASE i = 3
    BY <1>4, <1>5, <2>2 DEF Leaves
  <2>3. CASE i > 3
    <3>1. d[i] = c[i] /\ d[i - 1] = c[i - 1] /\ Q[i] = P[i]
      BY <1>5, <2>3 DEF Leaves, Others
    <3>2. QED
      BY <3>1, RowPlaces
  <2>4. QED
    BY <2>1, <2>2, <2>3
<1>7. QED
  BY <1>5, <1>6, RowOf

\* What has no turn.  The size of the terminal, too, joins a row or leaves it only in a
\* step of its own: the window-change task sends it, a sink applies it, a router knows
\* nobody who waits for it.
Unheard(x) == RouterLookup(x) /\ ~Registered(x)
Resizes == WinchPush \/ \E x \in Side : SinkResize(x) \/ Unheard(x)
Aside(f) == ~Bears(f) /\ (f.t = "WindowSizeChange" => Resizes)

\* What may become of a row in a step that neither puts a chunk in nor takes one out.
RowMove(P, Q, L, M) ==
    \/ \A i \in M : Q[i] = P[i]
    \/ \E p \in 1 .. 9 : Flows(P, Q, p) /\ (p \in M => p + 1 \in L)
    \/ \E p \in 1 .. 10 : Leaves(P, Q, p) /\ (p \in M => Aside(Head(P[p])))
    \/ \E p \in 1 .. 10, f \in Item : Joins(P, Q, p, f) /\ Aside(f)
    \/ Others(P, Q, {5}) /\ Q[5] = <<>> /\ \A i \in M : i < 6

\* It stays a row, with the same ends.
LEMMA RowMoves ==
  ASSUME NEW t \in Nat, NEW P, NEW Q, NEW L, NEW M, NEW a, NEW b,
         Filled(P), Row(t, P, L, a, b), RowMove(P, Q, L, M), M \subseteq L
  PROVE  Row(t, Q, M, a, b)
<1>1. PICK c \in Rows : Linked(P, L, t, c) /\ c[0] = a /\ c[10] = b
  BY DEF Row
<1>2. ASSUME Linked(Q, M, t, c) PROVE Row(t, Q, M, a, b)
  BY <1>1, <1>2, RowOf
<1>3. CASE \A i \in M : Q[i] = P[i]
  BY <1>1, <1>2, <1>3, RowKept
<1>4. CASE \E p \in 1 .. 9 : Flows(P, Q, p) /\ (p \in M => p + 1 \in L)
  <2>1. PICK p \in 1 .. 9 : Flows(P, Q, p) /\ (p \in M => p + 1 \in L)
    BY <1>4
  <2>2. Row(t, Q, M, c[0], c[10])
    BY <1>1, <2>1, RowFlows
  <2>3. QED
    BY <1>1, <2>2
<1>5. CASE \E p \in 1 .. 10 : Leaves(P, Q, p) /\ (p \in M => Aside(Head(P[p])))
  <2>1. PICK p \in 1 .. 10 : Leaves(P, Q, p) /\ (p \in M => ~Bears(Head(P[p])))
    BY <1>5 DEF Aside
  <2>2. QED
    BY <1>1, <1>2, <2>1, RowLeaves
<1>6. CASE \E p \in 1 .. 10, f \in Item : Joins(P, Q, p, f) /\ Aside(f)
  <2>1. PICK p \in 1 .. 10, f \in Item : Joins(P, Q, p, f) /\ ~Bears(f)
    BY <1>6 DEF Aside
  <2>2. QED
    BY <1>1, <1>2, <2>1, RowJoins
<1>7. CASE Others(P, Q, {5}) /\ Q[5] = <<>> /\ \A i \in M : i < 6
  <2>1. Row(t, Q, M, c[0], c[10])
    BY <1>1, <1>7, RowCut
  <2>2. QED
    BY <1>1, <2>1
<1>8. QED
  BY <1>3, <1>4, <1>5, <1>6, <1>7 DEF RowMove

-----------------------------------------------------------------------------
(* The places of a session.                                                 *)

\* The places before a step.
LEMMA PlacesNow ==
  ASSUME NEW s
  PROVE  /\ Places(s)[1] = ends[Other(s)].chan
         /\ Places(s)[2] = JobFor(Other(s), "chan")
         /\ Places(s)[3] = Cmds(net[Other(s)].handler, "Recv")
         /\ Places(s)[4] = Slot(net[Other(s)].in)
         /\ Places(s)[5] = net[s].wire /\ Places(s)[6] = Slot(net[s].out)
         /\ Places(s)[7] = net[s].peer /\ Places(s)[8] = JobFor(s, "peer")
         /\ Places(s)[9] = Cmds(net[s].handler, "Send")
         /\ Places(s)[10] = Slot(ends[s].data)
  BY DEF Places

\* The same after a step.
LEMMA PlacesNext ==
  ASSUME NEW s
  PROVE  /\ Places(s)'[1] = ends'[Other(s)].chan
         /\ Places(s)'[2] = JobFor(Other(s), "chan")'
         /\ Places(s)'[3] = Cmds(net'[Other(s)].handler, "Recv")
         /\ Places(s)'[4] = Slot(net'[Other(s)].in)
         /\ Places(s)'[5] = net'[s].wire /\ Places(s)'[6] = Slot(net'[s].out)
         /\ Places(s)'[7] = net'[s].peer /\ Places(s)'[8] = JobFor(s, "peer")'
         /\ Places(s)'[9] = Cmds(net'[s].handler, "Send")
         /\ Places(s)'[10] = Slot(ends'[s].data)
  BY DEF Places

\* The handler queue seen from one of its kinds of commands.
LEMMA CmdsEnds ==
  ASSUME NEW q \in Seq(Command), NEW k
  PROVE  /\ Cmds(q, k) \in Seq(Item) /\ (q = <<>> <=> Cmds(q, k) = <<>>)
         /\ \A c \in Command : /\ Cmds(Append(q, c), k) = Append(Cmds(q, k), Told(c, k))
                               /\ Told(c, k) \in Item
         /\ q # <<>> => /\ Head(q) \in Command /\ Head(Cmds(q, k)) = Told(Head(q), k)
                        /\ Cmds(Tail(q), k) = Tail(Cmds(q, k))
<1>1. ASSUME NEW c \in Command PROVE Told(c, k) \in Item
  BY <1>1, CommandFrame DEF Told, Item, Command, Recv, Send, SourceCmd, SinkCmd
<1>2. ASSUME NEW r \in Seq(Command)
      PROVE  /\ Cmds(r, k) \in Seq(Item) /\ Len(Cmds(r, k)) = Len(r) /\ Len(r) \in Nat
             /\ \A i \in 1 .. Len(r) : Cmds(r, k)[i] = Told(r[i], k)
  <2>1. \A i \in 1 .. Len(r) : Told(r[i], k) \in Item
    BY <1>1, ElementOfSeq
  <2>2. QED
    BY <2>1 DEF Cmds
<1>3. /\ Cmds(q, k) \in Seq(Item) /\ Len(Cmds(q, k)) = Len(q) /\ Len(q) \in Nat
      /\ \A i \in 1 .. Len(q) : Cmds(q, k)[i] = Told(q[i], k)
  BY <1>2
<1>4. q = <<>> <=> Cmds(q, k) = <<>>
  BY <1>3, EmptySeq
<1>5. ASSUME NEW c \in Command PROVE Cmds(Append(q, c), k) = Append(Cmds(q, k), Told(c, k))
  <2> DEFINE a == Cmds(Append(q, c), k)
             b == Append(Cmds(q, k), Told(c, k))
  <2>1. /\ Append(q, c) \in Seq(Command) /\ Len(Append(q, c)) = Len(q) + 1
        /\ \A i \in 1 .. Len(q) : Append(q, c)[i] = q[i]
        /\ Append(q, c)[Len(q) + 1] = c
    BY AppendProperties
  <2>2. /\ Len(b) = Len(q) + 1 /\ DOMAIN b = 1 .. Len(q) + 1
        /\ \A i \in 1 .. Len(q) : b[i] = Told(q[i], k)
        /\ b[Len(q) + 1] = Told(c, k) /\ b \in Seq(Item)
    BY <1>1, <1>3, AppendProperties
  <2>3. /\ a \in Seq(Item) /\ Len(a) = Len(q) + 1
        /\ \A i \in 1 .. Len(q) + 1 : a[i] = Told(Append(q, c)[i], k)
    BY <1>2, <2>1
  <2>4. \A i \in 1 .. Len(q) + 1 : i \in 1 .. Len(q) \/ i = Len(q) + 1
    BY <1>3
  <2>5. \A i \in 1 .. Len(q) + 1 : b[i] = Told(Append(q, c)[i], k)
    BY <2>1, <2>2, <2>4
  <2> HIDE DEF a, b
  <2>6. a = b
    BY <2>2, <2>3, <2>5, SeqEqual
  <2>7. QED
    BY <2>6 DEF a, b
<1>6. ASSUME q # <<>>
      PROVE  /\ Head(q) \in Command /\ Head(Cmds(q, k)) = Told(Head(q), k)
             /\ Cmds(Tail(q), k) = Tail(Cmds(q, k))
  <2>1. /\ Head(q) = q[1] /\ Head(q) \in Command /\ 1 \in 1 .. Len(q)
        /\ Tail(q) \in Seq(Command) /\ Len(Tail(q)) = Len(q) - 1
        /\ \A i \in 1 .. Len(q) - 1 : Tail(q)[i] = q[i + 1]
    BY <1>3, <1>6, EmptySeq, HeadTailProperties
  <2>2. Head(Cmds(q, k)) = Told(Head(q), k)
    BY <1>3, <1>4, <1>6, <2>1, HeadTailProperties
  <2> DEFINE a == Cmds(Tail(q), k)
             b == Tail(Cmds(q, k))
  <2>3. /\ b \in Seq(Item) /\ Len(b) = Len(q) - 1 /\ DOMAIN b = 1 .. Len(q) - 1
        /\ \A i \in 1 .. Len(q) - 1 : b[i] = Cmds(q, k)[i + 1]
    BY <1>3, <1>4, <1>6, HeadTailProperties
  <2>4. \A i \in 1 .. Len(q) - 1 : i + 1 \in 1 .. Len(q)
    BY <1>3
  <2>5. /\ a \in Seq(Item) /\ Len(a) = Len(q) - 1
        /\ \A i \in 1 .. Len(q) - 1 : a[i] = Told(Tail(q)[i], k)
    BY <1>2, <2>1
  <2>6. \A i \in 1 .. Len(q) - 1 : b[i] = Told(Tail(q)[i], k)
    BY <1>3, <2>1, <2>3, <2>4
  <2> HIDE DEF a, b
  <2>7. a = b
    BY <2>3, <2>5, <2>6, SeqEqual
  <2>8. QED
    BY <2>1, <2>2, <2>7 DEF a, b
<1>7. QED
  BY <1>1, <1>3, <1>4, <1>5, <1>6

\* A task holds one frame or none.
LEMMA SlotEnds ==
  /\ Slot(None) = <<>>
  /\ \A f \in Frame : /\ Slot(f) = <<f>> /\ Slot(f) # <<>> /\ Head(Slot(f)) = f
                      /\ Tail(Slot(f)) = <<>> /\ Slot(f) = Append(Slot(None), f)
  /\ \A f \in Item : Slot(f) \in Seq(Item)
<1>1. \A f \in Frame : f # None
  BY FrameValue DEF None, F, FrameTypes, ChannelData
<1>2. QED
  BY <1>1 DEF Slot, Item

\* The job of the router, if it is for whom one looks at.
LEMMA JobEnds ==
  ASSUME NetOK, NEW s \in Side, NEW to \in {"chan", "peer"}
  PROVE  /\ JobFor(s, to) \in Seq(Item)
         /\ net[s].job.to = to => /\ net[s].job.f \in Frame /\ JobFor(s, to) # <<>>
                                  /\ Head(JobFor(s, to)) = net[s].job.f
                                  /\ Tail(JobFor(s, to)) = <<>>
         /\ net[s].job.to # to => JobFor(s, to) = <<>>
<1>1. net[s].job \in [to : {"chan", "peer"}, f : Frame] \cup {NoJob}
  BY DEF NetOK, NetType, NetRecord
<1>2. NoJob.to = "none"
  BY DEF NoJob
<1>3. net[s].job.to = to => net[s].job.f \in Frame
  BY <1>1, <1>2
<1>4. CASE net[s].job.to = to
  <2>1. JobFor(s, to) = <<net[s].job.f>>
    BY <1>4 DEF JobFor
  <2>2. net[s].job.f \in Frame /\ net[s].job.f \in Item
    BY <1>3, <1>4 DEF Item
  <2>3. QED
    BY <1>4, <2>1, <2>2
<1>5. CASE net[s].job.to # to
  BY <1>5 DEF JobFor
<1>6. QED
  BY <1>4, <1>5

\* All places hold frames.
LEMMA PlacesFilled ==
  ASSUME NetOK, EndsOK, NEW s \in Side
  PROVE  Filled(Places(s))
<1>1. Other(s) \in Side
  BY Sides
<1>2. \A q : q \in Seq(Frame) => q \in Seq(Item)
  BY SeqMonotonic DEF Item
<1>3. Places(s)[1] \in Seq(Item) /\ Places(s)[10] \in Seq(Item)
  BY <1>1, <1>2, EndsParts, SlotEnds, PlacesNow DEF Item
<1>4. /\ Places(s)[2] \in Seq(Item) /\ Places(s)[8] \in Seq(Item)
  BY <1>1, JobEnds, PlacesNow
<1>5. Places(s)[3] \in Seq(Item) /\ Places(s)[9] \in Seq(Item)
  <2>1. net[Other(s)].handler \in Seq(Command) /\ net[s].handler \in Seq(Command)
    BY <1>1, NetParts
  <2>2. Cmds(net[Other(s)].handler, "Recv") \in Seq(Item) /\ Cmds(net[s].handler, "Send") \in Seq(Item)
    BY <2>1, CmdsEnds
  <2>3. QED
    BY <2>2, PlacesNow
<1>6. Places(s)[4] \in Seq(Item) /\ Places(s)[6] \in Seq(Item)
  <2>1. net[Other(s)].in \in Item /\ net[s].out \in Item
    BY <1>1, NetParts DEF Item
  <2>2. Slot(net[Other(s)].in) \in Seq(Item) /\ Slot(net[s].out) \in Seq(Item)
    BY <2>1, SlotEnds
  <2>3. QED
    BY <2>2, PlacesNow
<1>7. Places(s)[5] \in Seq(Item) /\ Places(s)[7] \in Seq(Item)
  BY <1>1, <1>2, NetParts, PlacesNow
<1>8. \A i \in 1 .. 10 : \/ i = 1 \/ i = 2 \/ i = 3 \/ i = 4 \/ i = 5 \/ i = 6 \/ i = 7
                          \/ i = 8 \/ i = 9 \/ i = 10
  OBVIOUS
<1>9. QED
  BY <1>3, <1>4, <1>5, <1>6, <1>7, <1>8 DEF Filled

-----------------------------------------------------------------------------
(* The commands that start sources and sinks.                               *)

Has(q, c) == \E i \in 1 .. Len(q) : q[i] = c
Two(q, c) == \E i, j \in 1 .. Len(q) : i # j /\ q[i] = c /\ q[j] = c

\* A command in a queue that grows or gives its first.
LEMMA HasCommands ==
  ASSUME NEW S, NEW q \in Seq(S), NEW c
  PROVE  /\ \A d : /\ Has(Append(q, d), c) <=> Has(q, c) \/ d = c
                   /\ Two(Append(q, d), c) => Two(q, c) \/ (Has(q, c) /\ d = c)
         /\ q # <<>> => /\ Head(q) = c => Has(q, c)
                        /\ Has(Tail(q), c) => Has(q, c)
                        /\ Two(Tail(q), c) => Two(q, c)
                        /\ Head(q) = c /\ Has(Tail(q), c) => Two(q, c)
         /\ ~Has(<<>>, c) /\ ~Two(<<>>, c)
<1>1. Len(q) \in Nat
  OBVIOUS
<1>2. ASSUME NEW d
      PROVE  /\ Has(Append(q, d), c) <=> Has(q, c) \/ d = c
             /\ Two(Append(q, d), c) => Two(q, c) \/ (Has(q, c) /\ d = c)
  <2>1. /\ Len(Append(q, d)) = Len(q) + 1 /\ Append(q, d)[Len(q) + 1] = d
        /\ \A i \in 1 .. Len(q) : Append(q, d)[i] = q[i]
    OBVIOUS
  <2>2. Has(Append(q, d), c) <=> Has(q, c) \/ d = c
    BY <1>1, <2>1 DEF Has
  <2>3. Two(Append(q, d), c) => Two(q, c) \/ (Has(q, c) /\ d = c)
    BY <1>1, <2>1 DEF Has, Two
  <2>4. QED
    BY <2>2, <2>3
<1>3. ASSUME q # <<>>
      PROVE  /\ Head(q) = c => Has(q, c)
             /\ Has(Tail(q), c) => Has(q, c)
             /\ Two(Tail(q), c) => Two(q, c)
             /\ Head(q) = c /\ Has(Tail(q), c) => Two(q, c)
  <2>1. /\ Len(q) >= 1 /\ Head(q) = q[1] /\ Len(Tail(q)) = Len(q) - 1
        /\ \A i \in 1 .. Len(q) - 1 : Tail(q)[i] = q[i + 1]
    BY <1>1, <1>3, HeadTailProperties, EmptySeq
  <2>2. 1 \in 1 .. Len(q) /\ \A i \in 1 .. Len(q) - 1 : i + 1 \in 1 .. Len(q) /\ i + 1 # 1
    BY <1>1, <2>1
  <2>3. Head(q) = c => Has(q, c)
    BY <2>1, <2>2 DEF Has
  <2>4. Has(Tail(q), c) => Has(q, c)
    BY <2>1, <2>2 DEF Has
  <2>5. Two(Tail(q), c) => Two(q, c)
    <3>1. SUFFICES ASSUME NEW i \in 1 .. Len(q) - 1, NEW j \in 1 .. Len(q) - 1, i # j,
                          q[i + 1] = c, q[j + 1] = c
                   PROVE  Two(q, c)
      BY <2>1 DEF Two
    <3>2. i + 1 # j + 1
      BY <3>1
    <3>3. QED
      BY <2>2, <3>1, <3>2 DEF Two
  <2>6. Head(q) = c /\ Has(Tail(q), c) => Two(q, c)
    BY <2>1, <2>2 DEF Has, Two
  <2>7. QED
    BY <2>3, <2>4, <2>5, <2>6
<1>4. ~Has(<<>>, c) /\ ~Two(<<>>, c)
  BY DEF Has, Two
<1>5. QED
  BY <1>2, <1>3, <1>4

\* Who starts the sinks and the sources.
Starts(s, k) == IF s = "Local" THEN (k = SinkCmd /\ MainSink) \/ (k = SourceCmd /\ MainSource)
                ELSE (k = SinkCmd /\ ProcSink) \/ (k = SourceCmd /\ ProcSource)
Fewer(s, k) == /\ Has(net'[s].handler, k) => Has(net[s].handler, k)
               /\ Two(net'[s].handler, k) => Two(net[s].handler, k)

\* No other step puts such a command in a handler queue.
LEMMA HandlerSteps ==
  ASSUME TypeOK, Inv, Next, NEW s \in Side, NEW k \in {SinkCmd, SourceCmd}
  PROVE  Fewer(s, k) \/ (Starts(s, k) /\ net'[s].handler = Append(net[s].handler, k))
<1>1. NetOK /\ EndsOK /\ WinchOK /\ LoginOK /\ RemoteOK
  BY DEF TypeOK
<1>2. net[s].handler \in Seq(Command)
  BY <1>1, NetParts
<1>3. ASSUME net'[s].handler = net[s].handler PROVE Fewer(s, k)
  BY <1>3 DEF Fewer
<1>4. ASSUME NEW c, c # k, net'[s].handler = Append(net[s].handler, c) PROVE Fewer(s, k)
  BY <1>2, <1>4, HasCommands DEF Fewer
<1>5. ASSUME net[s].handler # <<>>, net'[s].handler = Tail(net[s].handler) PROVE Fewer(s, k)
  BY <1>2, <1>5, HasCommands DEF Fewer
<1>6. ASSUME net'[s].handler = <<>> PROVE Fewer(s, k)
  BY <1>2, <1>6, HasCommands DEF Fewer
<1>7. \A f : Send(f) # k /\ Recv(f) # k
  BY DEF Send, Recv, SinkCmd, SourceCmd
<1>8. ASSUME NEW x \in Side, x # s, Still(Other(x)) PROVE Fewer(s, k)
  <2>1. Other(x) = s
    BY <1>8 DEF Side, Other
  <2>2. QED
    BY <1>3, <1>8, <2>1 DEF Still, Becomes
<1>9. ASSUME NEW x \in Side, Router(x) PROVE Fewer(s, k)
  <2>1. RouterMove(x)
    BY <1>9, RouterMoves
  <2>2. CASE x = s
    BY <1>3, <1>5, <1>6, <2>1, <2>2 DEF RouterMove, Takes, Popped, PoppedFor, Delivered,
       Forwarded, Ended, Becomes
  <2>3. CASE x # s
    BY <1>8, <2>1, <2>3 DEF RouterMove, Popped, PoppedFor, Delivered, Forwarded, Ended
  <2>4. QED
    BY <2>2, <2>3
<1>10. ASSUME NEW x \in Side, Sender(x) \/ Receiver(x) PROVE Fewer(s, k)
  <2>1. SenderMove(x) \/ ReceiverMove(x) \/ Quiet
    BY <1>1, <1>10, SenderMoves, ReceiverMoves
  <2>2. CASE SenderMove(x)
    <3>1. CASE x = s
      BY <1>3, <2>2, <3>1 DEF SenderMove, Taken, Written, SenderEnded, Becomes
    <3>2. CASE x # s
      BY <1>8, <2>2, <3>2 DEF SenderMove, Taken, Written, SenderEnded
    <3>3. QED
      BY <3>1, <3>2
  <2>3. CASE ReceiverMove(x)
    <3>1. CASE x = s
      BY <1>3, <1>4, <1>7, <2>3, <3>1 DEF ReceiverMove, Received, Pushed, Dropped, Becomes
    <3>2. CASE x # s
      <4>1. CASE Received(x, Other(x))
        BY <1>3, <3>2, <4>1 DEF Received, Becomes, Side, Other
      <4>2. QED
        BY <1>8, <2>3, <3>2, <4>1 DEF ReceiverMove, Pushed, Dropped
    <3>3. QED
      BY <3>1, <3>2
  <2>4. CASE Quiet
    BY <1>3, <2>4, Sides DEF Quiet, Still, Becomes
  <2>5. QED
    BY <2>1, <2>2, <2>3, <2>4
<1>11. ASSUME NEW x \in Side, NEW c, Sends(x, c), x # s \/ c # k PROVE Fewer(s, k)
  <2>1. Enqueued(x, c)
    BY <1>1, <1>11, SendsEffect
  <2>2. QED
    BY <1>4, <1>8, <1>11, <2>1 DEF Enqueued, Becomes
<1>12. ASSUME Sends(s, k) PROVE net'[s].handler = Append(net[s].handler, k)
  BY <1>1, <1>12, SendsEffect DEF Enqueued, Becomes
<1>13. ASSUME UNCHANGED net PROVE Fewer(s, k)
  BY <1>3, <1>13
<1> DEFINE G == Fewer(s, k) \/ (Starts(s, k) /\ net'[s].handler = Append(net[s].handler, k))
<1>14. ASSUME Main PROVE G
  <2>1. CASE MainSink
    <3>1. Sends("Local", SinkCmd)
      BY <2>1 DEF MainSink, MainSends
    <3>2. QED
      BY <1>11, <1>12, <2>1, <3>1, Sides DEF Starts
  <2>2. CASE MainSource
    <3>1. Sends("Local", SourceCmd)
      BY <2>2 DEF MainSource, MainSends
    <3>2. QED
      BY <1>11, <1>12, <2>2, <3>1, Sides DEF Starts
  <2>3. CASE MainSetEnv \/ MainSpawn \/ MainExitPeer \/ MainExitSelf
    <3>1. \E f : Sends("Local", Send(f)) \/ Sends("Local", Recv(f))
      BY <2>3 DEF MainSetEnv, MainSpawn, MainExitPeer, MainExitSelf, MainSends
    <3>2. QED
      BY <1>7, <1>11, <3>1, Sides
  <2>4. CASE \/ MainRegister \/ MainEnterFail \/ MainSize \/ MainSizeFail \/ MainStatus
             \/ MainDone \/ MainFail
    BY <1>13, <2>4 DEF MainRegister, MainEnterFail, MainSize, MainSizeFail, MainStatus,
       MainDone, MainFail
  <2>5. QED
    BY <1>14, <2>1, <2>2, <2>3, <2>4 DEF Main
<1>15. ASSUME Proc PROVE G
  <2>1. CASE ProcSink
    <3>1. Sends("Remote", SinkCmd)
      BY <2>1 DEF ProcSink
    <3>2. QED
      BY <1>11, <1>12, <2>1, <3>1, Sides DEF Starts
  <2>2. CASE ProcSource
    <3>1. Sends("Remote", SourceCmd)
      BY <2>2 DEF ProcSource
    <3>2. QED
      BY <1>11, <1>12, <2>2, <3>1, Sides DEF Starts
  <2>3. CASE ProcExit
    BY <1>7, <1>11, <2>3, Sides DEF ProcExit
  <2>4. CASE ProcSpawn \/ ProcSpawnFail \/ ProcReap \/ ProcFail
    BY <1>13, <2>4 DEF ProcSpawn, ProcSpawnFail, ProcReap, ProcFail
  <2>5. QED
    BY <1>15, <2>1, <2>2, <2>3, <2>4 DEF Proc
<1>16. ASSUME NEW x \in Side, Source(x) \/ Sink(x) PROVE Fewer(s, k)
  BY <1>7, <1>11, <1>13, <1>16
  DEF Source, SourcePush, SourceFail, Sink, SinkFail, SinkResize, SinkShutdown, SinkTakes
<1>17. ASSUME Winch PROVE Fewer(s, k)
  BY <1>7, <1>11, <1>13, <1>17, Sides DEF Winch, WinchStart, WinchTake, WinchPush, WinchFail
<1>18. ASSUME LinkDown PROVE Fewer(s, k)
  BY <1>1, <1>3, <1>18, CutEffect DEF Cut, Becomes
<1>19. ASSUME Env \/ ChildReader \/ Writer \/ Shutdown, ~LinkDown PROVE Fewer(s, k)
  BY <1>13, <1>19 DEF Env, ReadStdin, ReadEnd, Reads, Resize, ChildIO, ChildGoes, StderrFail,
     Abort, Exits, ChildReader, ReadChild, ReadFail, Writer, WriteStdout, WriteChild, SinkTakes,
     Shutdown, RemoteShutdown, LocalShutdown
<1>20. QED
  BY <1>9, <1>10, <1>14, <1>15, <1>16, <1>17, <1>18, <1>19 DEF Next

-----------------------------------------------------------------------------
(* Either end starts, reads, writes and ends once.                          *)

\* What side s has read, what of it has come out, and whether its end has.
Total(s) == IF s = "Local" THEN io.typed ELSE io.outRead
Got(s) == IF s = "Local" THEN io.inGot ELSE io.outGot
Eof(s) == IF s = "Local" THEN io.inEof ELSE io.outEof

\* The sink's command, or the source's, is still to be sent.
SinkDue(s) == IF s = "Local" THEN login.at \in {"size", "sink"}
                             ELSE remote.proc \in {"spawn", "sink"}
SourceDue(s) == IF s = "Local" THEN BeforeSpawn \/ login.at = "source"
                               ELSE remote.proc \in {"none", "spawn", "sink", "source"}

\* The ChannelReceiver waits for its one Sink command, the source for its one Source
\* command; the source then holds one frame at a time, and the last one is Shutdown.
Once(s) == LET h == net[s].handler  e == ends[s] IN
    /\ Has(h, SinkCmd) => e.sink = "queued" /\ ~Two(h, SinkCmd)
    /\ SinkDue(s) => e.sink = "held"
    /\ Has(h, SourceCmd) \/ SourceDue(s) => e.source = "none"
    /\ Has(h, SourceCmd) => ~SourceDue(s) /\ ~Two(h, SourceCmd)
    /\ e.source = "none" => e.data = None /\ Total(s) = 0
    /\ e.data # None => e.source = "read"
    /\ e.data.t = "Shutdown" => e.data = F("Shutdown", 0)
    /\ ~Open(s) => net[s].job = NoJob
    /\ Eof(Other(s)) => e.sink = "end"
    /\ e.sink = "none" => IF s = "Local" THEN login.at # "spawn" ELSE remote.proc = "none"
OnceInv == /\ \A s \in Side : Once(s)
           /\ remote.proc = "none" => ends["Remote"].chan = <<>> /\ io.inGot = <<>>

\* What a step does to the ChannelReceiver of side s.
SinkStep(s) ==
    \/ ends'[s].sink = ends[s].sink
    \/ /\ ends'[s].sink = "held" /\ ends[s].sink = "none"
       /\ IF s = "Local" THEN MainRegister ELSE RouterSpawn(s)
    \/ ends'[s].sink = "queued" /\ Starts(s, SinkCmd)
    \/ ends'[s].sink = "run" /\ RouterSink(s)
    \/ /\ ends'[s].sink = "end" /\ ends[s].sink \in {"held", "queued", "run"}
       /\ ends[s].sink = "queued" => net'[s].handler = <<>>
       /\ ~SinkDue(s)'

\* What a step does to the source of side s.
SourceBecomes(s, source, data, total) ==
    ends'[s].source = source /\ ends'[s].data = data /\ Total(s)' = total
SourceStep(s) == LET e == ends[s]  t == Total(s) IN
    \/ SourceBecomes(s, e.source, e.data, t)
    \/ RouterSource(s) /\ SourceBecomes(s, "read", e.data, t)
    \/ /\ e.source = "read" /\ e.data = None
       /\ \/ SourceBecomes(s, "read", F("Output", t + 1), t + 1)
          \/ SourceBecomes(s, "read", F("Shutdown", 0), t)
          \/ SourceBecomes(s, "end", None, t)
    \/ /\ e.data # None
       /\ \/ SourceBecomes(s, "end", None, t)
          \/ SourceBecomes(s, e.source, None, t) /\ e.data.t # "Shutdown"

\* Every step is one of them, and nothing reaches a sink before it is there.
EndStep(s) == /\ SinkStep(s) /\ SourceStep(s)
              /\ ends[s].sink = "none" => /\ ends'[s].chan = ends[s].chan
                                          /\ Got(Other(s))' = Got(Other(s))
              /\ Eof(Other(s))' => Eof(Other(s)) \/ ends'[s].sink = "end"
IoSame(s) == /\ Total(s)' = Total(s) /\ Got(Other(s))' = Got(Other(s))
             /\ Eof(Other(s))' = Eof(Other(s))

\* The source and the sink of one side are left alone.
LEMMA EndSame ==
  ASSUME NEW s \in Side, ends'[s] = ends[s], IoSame(s)
  PROVE  EndStep(s)
  BY Sides DEF IoSame, EndStep, SinkStep, SourceStep, SourceBecomes

\* The steps of the main task and of process::run towards the two commands.
LEMMA DueSteps ==
  ASSUME TypeOK, Inv, Next, NEW s \in Side
  PROVE  /\ SinkDue(s)' => \/ SinkDue(s)
                           \/ IF s = "Local" THEN MainRegister ELSE RouterSpawn(s)
         /\ SourceDue(s)' => SourceDue(s)
         /\ login'.at = "spawn" => login.at = "spawn" \/ MainSink
         /\ Starts(s, SinkCmd) => SinkDue(s) /\ ~SinkDue(s)'
         /\ Starts(s, SourceCmd) => SourceDue(s) /\ ~SourceDue(s)'
<1>1. LoginOK /\ RemoteOK
  BY DEF TypeOK
<1>2. /\ login'.at \in {"size", "sink"} => login.at \in {"size", "sink"} \/ MainRegister
      /\ BeforeSpawn' \/ login'.at = "source" => BeforeSpawn \/ login.at = "source"
      /\ login'.at = "spawn" => login.at = "spawn" \/ MainSink
  <2>1. CASE Main
    BY <1>1, <2>1, ZenonT(60)
    DEF BeforeSpawn, Main, MainSends, MainAt, MainTo, MainSetEnv, AfterSetEnv,
       MainEnterFail, MainSize, MainSizeFail, MainSink, MainSpawn, MainSource, MainStatus,
       MainExitPeer, MainExitSelf, MainDone, MainFail, MainRegister, Entered, Left, LoginOK
  <2>2. CASE \E x \in Side : RouterProcessExit(x)
    BY <1>1, <2>2 DEF BeforeSpawn, RouterProcessExit, LoginOK
  <2>3. CASE PanicHook("Local")
    BY <1>1, <2>3 DEF BeforeSpawn, PanicHook, Left, LoginOK
  <2>4. QED
    BY <2>1, <2>2, <2>3, LoginSteps DEF BeforeSpawn
<1>3. /\ MainSink => login.at = "sink" /\ login'.at = "spawn"
      /\ MainSource => login.at = "source" /\ login'.at = "wait"
  BY <1>1 DEF MainSink, MainSource, MainSends, MainAt, MainTo, LoginOK
<1>4. /\ ProcSink => remote.proc = "sink" /\ remote'.proc = "source"
      /\ ProcSource => remote.proc = "source" /\ remote'.proc = "wait"
  BY <1>1 DEF ProcSink, ProcSource, ProcAt, ProcTo, RemoteOK
<1>5. /\ remote'.proc \in {"spawn", "sink"}
             => remote.proc \in {"spawn", "sink"} \/ RouterSpawn("Remote")
      /\ remote'.proc \in {"none", "spawn", "sink", "source"}
             => remote.proc \in {"none", "spawn", "sink", "source"}
  <2>1. CASE Proc
    BY <1>1, <2>1 DEF Proc, ProcAt, ProcTo, ProcSpawn, ProcSpawnFail, ProcSink, ProcSource,
       ProcReap, ProcExit, ProcFail, RemoteOK
  <2>2. CASE \E x \in Side : RouterSetEnv(x) \/ SinkResize(x)
    BY <1>1, <2>2 DEF RouterSetEnv, SinkResize, RemoteOK
  <2>3. CASE \E x \in Side : RouterSpawn(x)
    BY <1>1, <2>3, SpawnTaken
  <2>4. CASE ChildGoes
    BY <1>1, <2>4 DEF ChildGoes, RemoteOK
  <2>5. QED
    BY <2>1, <2>2, <2>3, <2>4, RemoteSteps
<1>6. CASE s = "Local"
  BY <1>2, <1>3, <1>6 DEF SinkDue, SourceDue, Starts, BeforeSpawn, SinkCmd, SourceCmd
<1>7. CASE s = "Remote"
  BY <1>2, <1>4, <1>5, <1>7 DEF SinkDue, SourceDue, Starts, SinkCmd, SourceCmd
<1>8. QED
  BY <1>6, <1>7, Sides

\* What the session does at either end.
LEMMA EndSteps ==
  ASSUME TypeOK, Inv, OnceInv, Next, NEW s \in Side
  PROVE  EndStep(s)
<1>1. /\ LoginOK /\ RemoteOK /\ NetOK /\ EndsOK /\ IoOK
      /\ \A o \in Side : ends[o] \in EndsRecord
      /\ ends = [o \in Side |-> ends[o]]
  BY DEF TypeOK, EndsOK, EndsType
<1>2. ASSUME UNCHANGED io PROVE IoSame(s)
  BY <1>2 DEF IoSame, Total, Got, Eof
<1>3. ASSUME ends' = ends, IoSame(s) PROVE EndStep(s)
  BY <1>3, EndSame
<1>4. ASSUME NEW x \in Side, x # s, NEW e, ends' = [ends EXCEPT ![x] = e], IoSame(s)
      PROVE  EndStep(s)
  <2>1. ends'[s] = ends[s]
    BY <1>1, <1>4
  <2>2. QED
    BY <1>4, <2>1, EndSame
<1>5. ASSUME NEW x \in Side, DropReceiver(x), ends[x].sink \in {"held", "queued", "run"},
             ends[x].sink = "queued" => net'[x].handler = <<>>,
             ~SinkDue(x)', IoSame(s) \/ (s = x /\ Total(s)' = Total(s))
      PROVE  EndStep(s)
  <2> DEFINE e == [ends[x] EXCEPT !.sink = "end", !.chan = <<>>]
  <2>1. ends' = [ends EXCEPT ![x] = e]
    BY <1>5 DEF DropReceiver
  <2>2. CASE x = s
    <3>1. ends'[s] = e
      BY <1>1, <2>1, <2>2
    <3>2. /\ e.sink = "end" /\ e.source = ends[s].source /\ e.data = ends[s].data
      BY <1>1, <2>2 DEF EndsRecord
    <3>3. SinkStep(s)
      BY <1>5, <2>2, <3>1, <3>2 DEF SinkStep
    <3>4. SourceStep(s)
      BY <1>5, <2>2, <3>1, <3>2 DEF SourceStep, SourceBecomes, IoSame
    <3>5. QED
      BY <1>5, <2>2, <3>1, <3>2, <3>3, <3>4 DEF EndStep
  <2>3. CASE x # s
    BY <1>4, <1>5, <2>1, <2>3
  <2>4. QED
    BY <2>2, <2>3
<1>6. ASSUME NEW x \in Side, NEW c, ends[x].sink # "none",
             ends' = [ends EXCEPT ![x].chan = c], IoSame(s) \/ (s = x /\ Total(s)' = Total(s)),
             Eof(Other(s))' = Eof(Other(s))
      PROVE  EndStep(s)
  <2> DEFINE e == [ends[x] EXCEPT !.chan = c]
  <2>1. ends' = [ends EXCEPT ![x] = e]
    BY <1>6
  <2>2. CASE x = s
    <3>1. ends'[s] = e
      BY <1>1, <2>1, <2>2
    <3>2. e.sink = ends[s].sink /\ e.source = ends[s].source /\ e.data = ends[s].data
      BY <1>1, <2>2 DEF EndsRecord
    <3>3. SinkStep(s) /\ SourceStep(s)
      BY <1>6, <3>1, <3>2 DEF SinkStep, SourceStep, SourceBecomes, IoSame
    <3>4. QED
      BY <1>6, <2>2, <3>3 DEF EndStep
  <2>3. CASE x # s
    BY <1>4, <1>6, <2>1, <2>3
  <2>4. QED
    BY <2>2, <2>3
<1>7. ASSUME NEW x \in Side, NEW k, ends' = [ends EXCEPT ![x].sink = k], IoSame(s),
             \/ /\ k = "held" /\ ends[x].sink = "none"
                /\ IF x = "Local" THEN MainRegister ELSE RouterSpawn(x)
             \/ k = "queued" /\ Starts(x, SinkCmd)
             \/ k = "run" /\ RouterSink(x)
      PROVE  EndStep(s)
  <2> DEFINE e == [ends[x] EXCEPT !.sink = k]
  <2>1. ends' = [ends EXCEPT ![x] = e]
    BY <1>7
  <2>2. CASE x = s
    <3>1. ends'[s] = e
      BY <1>1, <2>1, <2>2
    <3>2. /\ e.sink = k /\ e.source = ends[s].source /\ e.data = ends[s].data
          /\ e.chan = ends[s].chan
      BY <1>1, <2>2 DEF EndsRecord
    <3>3. SinkStep(s)
      BY <1>7, <2>2, <3>1, <3>2 DEF SinkStep
    <3>4. SourceStep(s)
      BY <1>7, <3>1, <3>2 DEF SourceStep, SourceBecomes, IoSame
    <3>5. QED
      BY <1>7, <3>1, <3>2, <3>3, <3>4 DEF EndStep, IoSame
  <2>3. CASE x # s
    BY <1>4, <1>7, <2>1, <2>3
  <2>4. QED
    BY <2>2, <2>3
<1>8. ASSUME NEW x \in Side, NEW e, ends' = [ends EXCEPT ![x] = e], e.sink = ends[x].sink,
             e.chan = ends[x].chan, Got(Other(s))' = Got(Other(s)),
             Eof(Other(s))' = Eof(Other(s)), x # s => Total(s)' = Total(s),
             x = s /\ ends'[s] = e => SourceStep(s)
      PROVE  EndStep(s)
  <2>1. CASE x = s
    <3>1. ends'[s] = e
      BY <1>1, <1>8, <2>1
    <3>2. SinkStep(s)
      BY <1>8, <2>1, <3>1 DEF SinkStep
    <3>3. QED
      BY <1>8, <2>1, <3>1, <3>2 DEF EndStep
  <2>2. CASE x # s
    BY <1>4, <1>8, <2>2 DEF IoSame
  <2>3. QED
    BY <2>1, <2>2
<1>9. ASSUME NEW x \in Side, Router(x) PROVE EndStep(s)
  <2>1. UNCHANGED io /\ IoSame(s)
    BY <1>2, <1>9 DEF Router, RouterSetEnv, RouterSpawn, RouterLookup, RouterProcessExit,
       RouterExit, RouterSend, RouterSource, RouterSink, RouterDeliver, RouterForward, RouterFail
  <2>2. CASE RouterSpawn(x)
    <3>1. x = "Remote" /\ ends[x].sink = "none"
      BY <2>2, SpawnTaken DEF Inv, Silent
    <3>2. ends' = [ends EXCEPT ![x].sink = "held"]
      BY <2>2 DEF RouterSpawn
    <3>3. QED
      BY <1>7, <2>1, <2>2, <3>1, <3>2
  <2>3. CASE RouterSource(x)
    <3> DEFINE e == [ends[x] EXCEPT !.source = "read"]
    <3>1. ends' = [ends EXCEPT ![x] = e]
      BY <2>3 DEF RouterSource
    <3>2. /\ e.sink = ends[x].sink /\ e.chan = ends[x].chan
          /\ e.source = "read" /\ e.data = ends[x].data
      BY <1>1 DEF EndsRecord
    <3>3. x = s /\ ends'[s] = e => SourceStep(s)
      BY <2>1, <2>3, <3>2 DEF SourceStep, SourceBecomes, IoSame
    <3>4. QED
      BY <1>8, <2>1, <3>1, <3>2, <3>3 DEF IoSame
  <2>4. CASE RouterSink(x)
    BY <1>7, <2>1, <2>4 DEF RouterSink
  <2>5. CASE RouterDeliver(x)
    BY <1>6, <2>1, <2>5 DEF RouterDeliver, Registered, IoSame
  <2>6. CASE RouterExit(x) \/ RouterFail(x)
    <3>1. CASE ends[x].sink = "queued"
      <4>1. \E how : RouterEnds(x, how)
        BY <2>6 DEF RouterExit, RouterFail
      <4>2. net'[x].handler = <<>> /\ DropReceiver(x)
        BY <1>1, <3>1, <4>1, EndsEffect DEF RouterEnds, Ended, Becomes
      <4>3. ~SinkDue(x)
        BY <3>1 DEF OnceInv, Once
      <4>4. SinkDue(x)' => SinkDue(x)
        BY <2>6, <1>1 DEF RouterExit, RouterFail, SinkDue, PanicHook, Left, LoginOK
      <4>5. QED
        BY <1>5, <2>1, <3>1, <4>2, <4>3, <4>4
    <3>2. CASE ends[x].sink # "queued"
      BY <1>3, <2>1, <2>6, <3>2 DEF RouterExit, RouterFail, RouterEnds
    <3>3. QED
      BY <3>1, <3>2
  <2>7. CASE RouterSetEnv(x) \/ RouterLookup(x) \/ RouterProcessExit(x) \/ RouterSend(x)
             \/ RouterForward(x)
    BY <1>3, <2>1, <2>7
    DEF RouterSetEnv, RouterLookup, RouterProcessExit, RouterSend, RouterForward
  <2>8. QED
    BY <1>9, <2>2, <2>3, <2>4, <2>5, <2>6, <2>7 DEF Router
<1>10. ASSUME NEW x \in Side, Sender(x) \/ Receiver(x) PROVE EndStep(s)
  BY <1>2, <1>3, <1>10 DEF Sender, SenderTake, SenderWrite, SenderFail, SenderDone, Receiver,
     ReceiverRead, ReceiverEof, ReceiverPush, ReceiverFail
<1>11. ASSUME NEW x \in Side, Source(x) PROVE EndStep(s)
  <2>1. UNCHANGED io /\ IoSame(s) /\ ends[x].data # None
    BY <1>2, <1>11 DEF Source, SourcePush, SourceFail
  <2> DEFINE e == [ends[x] EXCEPT !.data = None]
             f == [ends[x] EXCEPT !.source = "end", !.data = None]
  <2>2. /\ e.sink = ends[x].sink /\ e.chan = ends[x].chan
        /\ e.source = ends[x].source /\ e.data = None
        /\ f.sink = ends[x].sink /\ f.chan = ends[x].chan /\ f.source = "end" /\ f.data = None
    BY <1>1 DEF EndsRecord
  <2>3. \/ ends' = [ends EXCEPT ![x] = e] /\ ends[x].data.t # "Shutdown"
        \/ ends' = [ends EXCEPT ![x] = f]
    BY <1>11 DEF Source, SourcePush, SourceFail, SourceEnds
  <2> HIDE DEF e, f
  <2>4. x = s /\ ends'[s] = e /\ ends[x].data.t # "Shutdown" => SourceStep(s)
    BY <2>1, <2>2 DEF SourceStep, SourceBecomes, IoSame
  <2>5. x = s /\ ends'[s] = f => SourceStep(s)
    BY <2>1, <2>2 DEF SourceStep, SourceBecomes, IoSame
  <2>6. CASE ends' = [ends EXCEPT ![x] = e] /\ ends[x].data.t # "Shutdown"
    BY <1>8, <2>1, <2>2, <2>4, <2>6 DEF IoSame
  <2>7. CASE ends' = [ends EXCEPT ![x] = f]
    BY <1>8, <2>1, <2>2, <2>5, <2>7 DEF IoSame
  <2>8. QED
    BY <2>3, <2>6, <2>7
<1>12. ASSUME ReadStdin \/ ReadChild \/ \E x \in Side : ReadEnd(x) \/ ReadFail(x) PROVE EndStep(s)
  <2>1. PICK x \in Side :
            \/ \E v : /\ Reads(x, F("Output", v)) /\ v = Total(x) + 1 /\ Total(x)' = v
                      /\ Total(Other(x))' = Total(Other(x))
            \/ Reads(x, F("Shutdown", 0)) /\ UNCHANGED io
            \/ ReadFail(x)
    BY <1>1, <1>12, Sides DEF ReadStdin, ReadChild, ReadEnd, Total, IoOK
  <2>2. Got(Other(s))' = Got(Other(s)) /\ Eof(Other(s))' = Eof(Other(s))
    BY <1>1, <1>12 DEF ReadStdin, ReadChild, ReadEnd, ReadFail, Got, Eof, IoOK
  <2>3. ends[x].source = "read" /\ ends[x].data = None
    BY <2>1 DEF Reads, Reading, ReadFail
  <2>4. x # s => Total(s)' = Total(s)
    <3>1. x # s => s = Other(x)
      BY DEF Side, Other
    <3>2. UNCHANGED io => Total(s)' = Total(s)
      BY DEF Total
    <3>3. QED
      BY <2>1, <3>1, <3>2 DEF ReadFail
  <2>5. PICK e : /\ ends' = [ends EXCEPT ![x] = e]
                 /\ e.sink = ends[x].sink /\ e.chan = ends[x].chan
                 /\ \/ /\ e.source = "read" /\ e.data = F("Output", Total(x) + 1)
                       /\ Total(x)' = Total(x) + 1
                    \/ /\ e.source = "read" /\ e.data = F("Shutdown", 0)
                       /\ UNCHANGED io
                    \/ e.source = "end" /\ e.data = None /\ UNCHANGED io
    <3>1. ASSUME NEW f, Reads(x, f)
          PROVE  /\ ends' = [ends EXCEPT ![x] = [ends[x] EXCEPT !.data = f]]
                 /\ [ends[x] EXCEPT !.data = f].sink = ends[x].sink
                 /\ [ends[x] EXCEPT !.data = f].chan = ends[x].chan
                 /\ [ends[x] EXCEPT !.data = f].source = "read"
                 /\ [ends[x] EXCEPT !.data = f].data = f
      BY <1>1, <2>3, <3>1 DEF Reads, EndsRecord
    <3>2. CASE ReadFail(x)
      <4> DEFINE e == [ends[x] EXCEPT !.source = "end"]
      <4>1. ends' = [ends EXCEPT ![x] = e] /\ UNCHANGED io
        BY <3>2 DEF ReadFail
      <4>2. /\ e.sink = ends[x].sink /\ e.chan = ends[x].chan
            /\ e.source = "end" /\ e.data = None
        BY <1>1, <2>3 DEF EndsRecord
      <4>3. QED
        BY <4>1, <4>2
    <3>3. CASE Reads(x, F("Shutdown", 0)) /\ UNCHANGED io
      <4> DEFINE e == [ends[x] EXCEPT !.data = F("Shutdown", 0)]
      <4>1. /\ ends' = [ends EXCEPT ![x] = e] /\ e.sink = ends[x].sink
            /\ e.chan = ends[x].chan /\ e.source = "read" /\ e.data = F("Shutdown", 0)
        BY <3>1, <3>3
      <4> HIDE DEF e
      <4>2. QED
        BY <3>3, <4>1
    <3>4. CASE \E v : Reads(x, F("Output", v)) /\ v = Total(x) + 1 /\ Total(x)' = v
      <4> DEFINE e == [ends[x] EXCEPT !.data = F("Output", Total(x) + 1)]
      <4>1. /\ ends' = [ends EXCEPT ![x] = e] /\ e.sink = ends[x].sink
            /\ e.chan = ends[x].chan /\ e.source = "read" /\ e.data = F("Output", Total(x) + 1)
            /\ Total(x)' = Total(x) + 1
        BY <3>1, <3>4
      <4> HIDE DEF e
      <4>2. QED
        BY <4>1
    <3>5. QED
      BY <2>1, <3>2, <3>3, <3>4
  <2>6. UNCHANGED io => Total(x)' = Total(x)
    BY DEF Total
  <2>7. x = s /\ ends'[s] = e => SourceStep(s)
    BY <2>3, <2>5, <2>6 DEF SourceStep, SourceBecomes
  <2>8. QED
    BY <1>8, <2>2, <2>4, <2>5, <2>7
<1>13. ASSUME (\E x \in Side : Sink(x)) \/ Writer PROVE EndStep(s)
  <2>1. PICK x \in Side, t \in {"Output", "WindowSizeChange", "Shutdown"} :
            /\ SinkTakes(x, t)
            /\ \/ SinkNext(x) /\ Eof(Other(s))' = Eof(Other(s))
               \/ DropReceiver(x)
            /\ Total(s)' = Total(s)
            /\ x # s => Got(Other(s))' = Got(Other(s)) /\ Eof(Other(s))' = Eof(Other(s))
    <3>1. CASE \E x \in Side : Sink(x)
      <4>1. CASE \E x \in Side : SinkFail(x)
        BY <4>1 DEF SinkFail, Total, Got, Eof
      <4>2. CASE \E x \in Side : SinkResize(x)
        BY <4>2 DEF SinkResize, Total, Got, Eof
      <4>3. CASE \E x \in Side : SinkShutdown(x)
        <5>1. PICK x \in Side : SinkShutdown(x)
          BY <4>3
        <5>2. /\ io'.typed = io.typed /\ io'.outRead = io.outRead
              /\ io'.inGot = io.inGot /\ io'.outGot = io.outGot
              /\ x = "Remote" => io'.outEof = io.outEof
              /\ x = "Local" => io'.inEof = io.inEof
          BY <1>1, <5>1 DEF SinkShutdown, IoOK
        <5>3. Total(s)' = Total(s)
          BY <5>2 DEF Total
        <5>4. x # s => Got(Other(s))' = Got(Other(s)) /\ Eof(Other(s))' = Eof(Other(s))
          BY <5>2, Sides DEF Got, Eof
        <5>5. SinkTakes(x, "Shutdown") /\ DropReceiver(x)
          BY <5>1 DEF SinkShutdown
        <5>6. QED
          BY <5>3, <5>4, <5>5
      <4>4. QED
        BY <3>1, <4>1, <4>2, <4>3 DEF Sink
    <3>2. CASE Writer
      BY <1>1, <3>2, Sides, SMTT(30) DEF Writer, WriteStdout, WriteChild, Total, Got, Eof, IoOK
    <3>3. QED
      BY <1>13, <3>1, <3>2
  <2>2. ends[x].sink = "run" /\ login' = login
    BY <2>1 DEF SinkTakes
  <2>3. IoSame(s) \/ (s = x /\ Total(s)' = Total(s))
    BY <2>1 DEF IoSame
  <2>4. CASE SinkNext(x) /\ Eof(Other(s))' = Eof(Other(s))
    BY <1>6, <2>2, <2>3, <2>4 DEF SinkNext
  <2>5. CASE DropReceiver(x)
    <3>1. ~SinkDue(x)
      BY <2>2 DEF OnceInv, Once
    <3>2. ~SinkDue(x)'
      <4>1. remote'.proc = remote.proc
        BY <1>1, <1>13 DEF Sink, SinkFail, SinkResize, SinkShutdown, Writer, WriteStdout,
           WriteChild, RemoteOK
      <4>2. QED
        BY <2>2, <3>1, <4>1 DEF SinkDue
    <3>3. QED
      BY <1>5, <2>2, <2>3, <2>5, <3>2
  <2>6. QED
    BY <2>1, <2>4, <2>5
<1>14. ASSUME Proc PROVE EndStep(s)
  <2>1. IoSame(s)
    BY <1>2, <1>14 DEF Proc, ProcSpawn, ProcSpawnFail, ProcSink, ProcSource, ProcReap, ProcExit,
       ProcFail
  <2>2. CASE ProcSpawnFail \/ (ProcFail /\ remote.proc = "sink")
    <3>1. DropReceiver("Remote") /\ remote'.proc = "end" /\ remote.proc \in {"spawn", "sink"}
      BY <1>1, <2>2 DEF ProcSpawnFail, ProcFail, ProcAt, ProcTo, RemoteOK
    <3>2. ends["Remote"].sink = "held" /\ ~SinkDue("Remote")'
      BY <3>1, Sides DEF OnceInv, Once, SinkDue
    <3>3. QED
      BY <1>5, <2>1, <3>1, <3>2, Sides
  <2>3. CASE ProcSink
    <3>1. Starts("Remote", SinkCmd) /\ ends' = [ends EXCEPT !["Remote"].sink = "queued"]
      BY <2>3 DEF ProcSink, Starts
    <3>2. QED
      BY <1>7, <2>1, <3>1, Sides
  <2>4. CASE ProcSpawn \/ ProcSource \/ ProcReap \/ ProcExit \/ (ProcFail /\ remote.proc # "sink")
    BY <1>3, <2>1, <2>4 DEF ProcSpawn, ProcSource, ProcReap, ProcExit, ProcFail
  <2>5. QED
    BY <1>14, <2>2, <2>3, <2>4 DEF Proc
<1>15. ASSUME Main PROVE EndStep(s)
  <2>1. IoSame(s)
    BY <1>2, <1>15 DEF Main, MainSetEnv, MainRegister, MainEnterFail, MainSize, MainSizeFail,
       MainSink, MainSpawn, MainSource, MainStatus, MainExitPeer, MainExitSelf, MainDone, MainFail
  <2>2. CASE MainSizeFail \/ (MainFail /\ login.at = "sink")
    <3>1. DropReceiver("Local") /\ login'.at = "err" /\ login.at \in {"size", "sink"}
      BY <1>1, <2>2 DEF MainSizeFail, MainFail, MainAt, MainTo, LoginOK
    <3>2. ends["Local"].sink = "held" /\ ~SinkDue("Local")'
      BY <3>1, Sides DEF OnceInv, Once, SinkDue
    <3>3. QED
      BY <1>5, <2>1, <3>1, <3>2, Sides
  <2>3. CASE MainSink
    <3>1. Starts("Local", SinkCmd) /\ ends' = [ends EXCEPT !["Local"].sink = "queued"]
      BY <2>3 DEF MainSink, Starts
    <3>2. QED
      BY <1>7, <2>1, <3>1, Sides
  <2>4. CASE MainRegister
    <3>1. ends["Local"].sink = "none"
      BY <2>4 DEF Inv, Opening, MainRegister, MainAt
    <3>2. ends' = [ends EXCEPT !["Local"].sink = "held"]
      BY <2>4 DEF MainRegister
    <3>3. QED
      BY <1>7, <2>1, <2>4, <3>1, <3>2, Sides
  <2>5. CASE \/ MainSetEnv \/ MainEnterFail \/ MainSize \/ MainSpawn \/ MainSource \/ MainStatus
             \/ MainExitPeer \/ MainExitSelf \/ MainDone \/ (MainFail /\ login.at # "sink")
    BY <1>3, <2>1, <2>5 DEF MainSetEnv, MainEnterFail, MainSize, MainSpawn, MainSource, MainStatus,
       MainExitPeer, MainExitSelf, MainDone, MainFail
  <2>6. QED
    BY <1>15, <2>2, <2>3, <2>4, <2>5 DEF Main
<1>16. ASSUME ChildIO PROVE EndStep(s)
  <2>1. IoSame(s)
    BY <1>1, <1>16 DEF ChildIO, IoSame, Total, Got, Eof, IoOK
  <2>2. QED
    BY <1>3, <1>16, <2>1 DEF ChildIO
<1>17. ASSUME Resize \/ Winch \/ StderrFail \/ Abort \/ LinkDown \/ ChildGoes \/ Shutdown
       PROVE  EndStep(s)
  BY <1>2, <1>3, <1>17 DEF Resize, Winch, WinchStart, WinchTake, WinchPush, WinchFail, StderrFail,
     Abort, LinkDown, ChildGoes, Shutdown, RemoteShutdown, LocalShutdown, Exits
<1>18. QED
  BY <1>9, <1>10, <1>11, <1>12, <1>13, <1>14, <1>15, <1>16, <1>17, Sides
  DEF Next, Env, ChildReader

\* A router that has ended has no job.
LEMMA JobStep ==
  ASSUME TypeOK, Inv, OnceInv, Next, NEW s \in Side
  PROVE  ~Open(s)' => net'[s].job = NoJob
<1> DEFINE G == ~Open(s)' => net'[s].job = NoJob
<1>1. ~Open(s) => net[s].job = NoJob
  BY DEF OnceInv, Once
<1>2. ASSUME net'[s].job \in {net[s].job, NoJob}, net'[s].router = net[s].router PROVE G
  BY <1>1, <1>2 DEF Open
<1>3. ASSUME NEW x \in Side, x # s, Still(Other(x)) PROVE G
  <2>1. Other(x) = s
    BY <1>3 DEF Side, Other
  <2>2. QED
    BY <1>2, <1>3, <2>1 DEF Still, Becomes, SameTasks
<1>4. ASSUME NEW x \in Side, RouterMove(x) PROVE G
  <2>1. CASE x = s
    <3>1. CASE Takes(x) /\ SameTasks(x)
      BY <2>1, <3>1 DEF Takes, SameTasks, Open
    <3>2. CASE Delivered(x) \/ Forwarded(x)
      BY <1>2, <2>1, <3>2 DEF Delivered, Forwarded, Becomes, SameTasks
    <3>3. CASE \E how : Ended(x, how)
      BY <2>1, <3>3 DEF Ended, Becomes
    <3>4. QED
      BY <1>4, <3>1, <3>2, <3>3 DEF RouterMove, Popped, PoppedFor
  <2>2. CASE x # s
    BY <1>3, <1>4, <2>2 DEF RouterMove, Popped, PoppedFor, Delivered, Forwarded, Ended
  <2>3. QED
    BY <2>1, <2>2
<1>5. ASSUME NEW x \in Side, SenderMove(x) PROVE G
  <2>1. CASE x = s
    BY <1>2, <1>5, <2>1 DEF SenderMove, Taken, Written, SenderEnded, Becomes, SameTasks
  <2>2. CASE x # s
    BY <1>3, <1>5, <2>2 DEF SenderMove, Taken, Written, SenderEnded
  <2>3. QED
    BY <2>1, <2>2
<1>6. ASSUME NEW x \in Side, ReceiverMove(x) PROVE G
  <2>1. CASE Received(x, Other(x))
    <3>1. s = x \/ s = Other(x)
      BY DEF Side, Other
    <3>2. QED
      BY <1>2, <2>1, <3>1 DEF Received, Becomes, SameTasks
  <2>2. CASE Pushed(x) \/ Dropped(x)
    BY <1>2, <1>3, <2>2 DEF Pushed, Dropped, Becomes, SameTasks
  <2>3. QED
    BY <1>6, <2>1, <2>2 DEF ReceiverMove
<1>7. ASSUME NEW x \in Side, NEW c, Enqueued(x, c) PROVE G
  BY <1>2, <1>3, <1>7 DEF Enqueued, Becomes, SameTasks
<1>8. ASSUME Quiet \/ (Cut("Local") /\ Cut("Remote")) PROVE G
  BY <1>2, <1>8, Sides DEF Quiet, Still, Cut, Becomes, SameTasks
<1>9. QED
  BY <1>4, <1>5, <1>6, <1>7, <1>8, NetMoves DEF NetMove

\* Either end starts once, and ends once.
LEMMA OnceStep ==
  ASSUME TypeOK, Inv, OnceInv, Next
  PROVE  OnceInv'
<1>1. NetOK /\ EndsOK /\ LoginOK /\ RemoteOK
  BY DEF TypeOK
<1>2. ASSUME NEW s \in Side PROVE Once(s)'
  <2> DEFINE h == net[s].handler
             g == net'[s].handler
             e == ends[s]
             d == ends'[s]
  <2>1. h \in Seq(Command)
    BY <1>1, NetParts
  <2>2. EndStep(s) /\ SinkStep(s) /\ SourceStep(s)
    BY EndSteps DEF EndStep
  <2>3. ASSUME NEW k \in {SinkCmd, SourceCmd}
        PROVE  Fewer(s, k) \/ (Starts(s, k) /\ g = Append(h, k))
    BY <2>3, HandlerSteps
  <2>4. /\ Has(h, SinkCmd) => e.sink = "queued" /\ ~Two(h, SinkCmd)
        /\ SinkDue(s) => e.sink = "held"
        /\ Has(h, SourceCmd) \/ SourceDue(s) => e.source = "none"
        /\ Has(h, SourceCmd) => ~SourceDue(s) /\ ~Two(h, SourceCmd)
        /\ e.source = "none" => e.data = None /\ Total(s) = 0
        /\ e.data # None => e.source = "read"
        /\ e.data.t = "Shutdown" => e.data = F("Shutdown", 0)
        /\ Eof(Other(s)) => e.sink = "end"
        /\ e.sink = "none" => IF s = "Local" THEN login.at # "spawn" ELSE remote.proc = "none"
    BY DEF OnceInv, Once
  <2>5. \A k : Two(h, k) => Has(h, k)
    BY DEF Has, Two
  <2>6. ASSUME Takes(s), Cmd(s) \in {SinkCmd, SourceCmd}, Pop(s)
        PROVE  Has(h, Cmd(s)) /\ ~Has(g, Cmd(s))
    <3>1. g = Tail(h) /\ h # <<>> /\ Cmd(s) = Head(h)
      BY <1>1, <2>6, PopEffect DEF Popped, Becomes, Takes, Cmd
    <3>2. Has(h, Cmd(s))
      BY <2>1, <3>1, HasCommands
    <3>3. ~Two(h, Cmd(s))
      BY <2>4, <2>6, <3>2
    <3>4. QED
      BY <2>1, <3>1, <3>2, <3>3, HasCommands
  <2>7. RouterSink(s) => Has(h, SinkCmd) /\ ~Has(g, SinkCmd)
    BY <2>6 DEF RouterSink
  <2>8. RouterSource(s) => Has(h, SourceCmd) /\ ~Has(g, SourceCmd)
    BY <2>6 DEF RouterSource
  <2>9. /\ Starts(s, SinkCmd) => d.sink = "queued"
        /\ (IF s = "Local" THEN MainRegister ELSE RouterSpawn(s)) => d.sink = "held"
    BY <1>1 DEF Starts, SinkCmd, SourceCmd, MainSink, ProcSink, MainRegister, RouterSpawn, EndsOK,
       EndsType, EndsRecord, Side
  <2>10. /\ SinkDue(s)' => \/ SinkDue(s)
                           \/ IF s = "Local" THEN MainRegister ELSE RouterSpawn(s)
         /\ SourceDue(s)' => SourceDue(s)
         /\ login'.at = "spawn" => login.at = "spawn" \/ MainSink
         /\ Starts(s, SinkCmd) => SinkDue(s) /\ ~SinkDue(s)'
         /\ Starts(s, SourceCmd) => SourceDue(s) /\ ~SourceDue(s)'
    BY DueSteps
  <2>11. ASSUME Has(g, SinkCmd) PROVE d.sink = "queued" /\ ~Two(g, SinkCmd)
    <3>1. CASE Fewer(s, SinkCmd)
      <4>1. Has(h, SinkCmd) /\ e.sink = "queued" /\ ~Two(g, SinkCmd)
        BY <2>4, <2>11, <3>1 DEF Fewer
      <4>2. g # <<>>
        BY <2>11 DEF Has
      <4>3. QED
        BY <2>2, <2>7, <2>11, <4>1, <4>2 DEF SinkStep
    <3>2. CASE Starts(s, SinkCmd) /\ g = Append(h, SinkCmd)
      <4>1. e.sink = "held"
        BY <2>4, <2>10, <3>2
      <4>2. ~Has(h, SinkCmd) /\ ~Two(h, SinkCmd)
        BY <2>4, <2>5, <4>1
      <4>3. QED
        BY <2>1, <2>9, <3>2, <4>2, HasCommands
    <3>3. QED
      BY <2>3, <3>1, <3>2
  <2>12. SinkDue(s)' => d.sink = "held"
    BY <2>2, <2>4, <2>7, <2>9, <2>10 DEF SinkStep
  <2>13. ASSUME Has(g, SourceCmd)
         PROVE  (Has(h, SourceCmd) \/ SourceDue(s)) /\ ~SourceDue(s)' /\ ~Two(g, SourceCmd)
    <3>1. CASE Fewer(s, SourceCmd)
      BY <2>4, <2>10, <2>13, <3>1 DEF Fewer
    <3>2. CASE Starts(s, SourceCmd) /\ g = Append(h, SourceCmd)
      <4>1. SourceDue(s) /\ ~SourceDue(s)' /\ ~Has(h, SourceCmd) /\ ~Two(h, SourceCmd)
        BY <2>4, <2>5, <2>10, <3>2
      <4>2. QED
        BY <2>1, <3>2, <4>1, HasCommands
    <3>3. QED
      BY <2>3, <3>1, <3>2
  <2>14. Has(g, SourceCmd) \/ SourceDue(s)' => d.source = "none"
    BY <2>2, <2>4, <2>8, <2>10, <2>13 DEF SourceStep, SourceBecomes
  <2>15. F("Shutdown", 0).t = "Shutdown" /\ \A v : F("Output", v).t # "Shutdown"
         /\ None.t # "Shutdown"
    BY DEF F, None
  <2>16. /\ d.source = "none" => d.data = None /\ Total(s)' = 0
         /\ d.data # None => d.source = "read"
         /\ d.data.t = "Shutdown" => d.data = F("Shutdown", 0)
    BY <2>2, <2>4, <2>15 DEF SourceStep, SourceBecomes
  <2>17. Eof(Other(s))' => d.sink = "end"
    BY <2>2, <2>4, <2>7, <2>9, <2>10 DEF EndStep, SinkStep
  <2>18. d.sink = "none" => IF s = "Local" THEN login'.at # "spawn" ELSE remote'.proc = "none"
    <3> SUFFICES ASSUME d.sink = "none"
                 PROVE  IF s = "Local" THEN login'.at # "spawn" ELSE remote'.proc = "none"
      OBVIOUS
    <3>1. e.sink = "none"
      BY <2>2 DEF SinkStep
    <3>2. CASE s = "Local"
      BY <2>4, <2>9, <2>10, <3>1, <3>2 DEF Starts
    <3>3. CASE s = "Remote"
      BY <2>4, <2>9, <3>1, <3>3, SpawnSteps
    <3>4. QED
      BY <3>2, <3>3, Sides
  <2>19. ~Open(s)' => net'[s].job = NoJob
    BY JobStep
  <2>20. /\ Has(net[s].handler, SinkCmd)' <=> Has(g, SinkCmd)
         /\ Has(net[s].handler, SourceCmd)' <=> Has(g, SourceCmd)
         /\ Two(net[s].handler, SinkCmd)' <=> Two(g, SinkCmd)
         /\ Two(net[s].handler, SourceCmd)' <=> Two(g, SourceCmd)
    BY DEF Has, Two, SinkCmd, SourceCmd
  <2>21. QED
    BY <2>11, <2>12, <2>13, <2>14, <2>16, <2>17, <2>18, <2>19, <2>20 DEF Once
<1>3. remote'.proc = "none" => ends'["Remote"].chan = <<>> /\ io'.inGot = <<>>
  <2> SUFFICES ASSUME remote'.proc = "none"
               PROVE  ends'["Remote"].chan = <<>> /\ io'.inGot = <<>>
    OBVIOUS
  <2>1. remote.proc = "none" /\ ends["Remote"].sink = "none"
    BY Progress DEF Inv, Silent
  <2>2. ends'["Remote"].chan = ends["Remote"].chan /\ Got("Local")' = Got("Local")
    BY <2>1, EndSteps, Sides DEF EndStep
  <2>3. QED
    BY <2>1, <2>2 DEF OnceInv, Got
<1>4. QED
  BY <1>2, <1>3 DEF OnceInv

-----------------------------------------------------------------------------
(* What can no longer arrive.                                               *)

\* A receiver that has ended does not start again.
LEMMA ReceiverStep ==
  ASSUME NetOK, Next, NEW s \in Side
  PROVE  net'[s].receiver \in {net[s].receiver, "done", "failed"}
<1> DEFINE G == net'[s].receiver \in {net[s].receiver, "done", "failed"}
<1>1. net \in [Side -> NetRecord]
  BY DEF NetOK, NetType
<1>2. ASSUME net' = net PROVE G
  BY <1>2
<1>3. ASSUME NEW x \in Side, NEW n, net' = [net EXCEPT ![x] = n],
             n.receiver \in {net[x].receiver, "done", "failed"}
      PROVE  G
  BY <1>1, <1>3
<1>4. ASSUME NEW x \in Side, NEW c, Sends(x, c) PROVE G
  <2> DEFINE n == [net[x] EXCEPT !.handler = Append(@, c)]
  <2>1. net' = [net EXCEPT ![x] = n]
    BY <1>4 DEF Sends
  <2>2. n.receiver = net[x].receiver
    BY <1>1 DEF NetRecord
  <2>3. QED
    BY <1>3, <2>1, <2>2
<1>5. ASSUME NEW x \in Side, Pop(x) PROVE G
  <2> DEFINE n == [net[x] EXCEPT !.handler = Tail(@)]
  <2>1. net' = [net EXCEPT ![x] = n]
    BY <1>5 DEF Pop
  <2>2. n.receiver = net[x].receiver
    BY <1>1 DEF NetRecord
  <2>3. QED
    BY <1>3, <2>1, <2>2
<1>6. ASSUME NEW x \in Side, NEW to, PopFor(x, to) PROVE G
  <2> DEFINE n == [net[x] EXCEPT !.handler = Tail(@), !.job = [to |-> to, f |-> Cmd(x).f]]
  <2>1. net' = [net EXCEPT ![x] = n]
    BY <1>6 DEF PopFor
  <2>2. n.receiver = net[x].receiver
    BY <1>1 DEF NetRecord
  <2>3. QED
    BY <1>3, <2>1, <2>2
<1>7. ASSUME NEW x \in Side, NEW how, RouterEnds(x, how) PROVE G
  <2> DEFINE n == [net[x] EXCEPT !.router = how, !.job = NoJob, !.handler = <<>>]
  <2>1. net' = [net EXCEPT ![x] = n]
    BY <1>7 DEF RouterEnds
  <2>2. n.receiver = net[x].receiver
    BY <1>1 DEF NetRecord
  <2>3. QED
    BY <1>3, <2>1, <2>2
<1>8. ASSUME NEW x \in Side, Router(x) PROVE G
  <2>1. CASE RouterDeliver(x)
    <3> DEFINE n == [net[x] EXCEPT !.job = NoJob]
    <3>1. net' = [net EXCEPT ![x] = n]
      BY <2>1 DEF RouterDeliver
    <3>2. n.receiver = net[x].receiver
      BY <1>1 DEF NetRecord
    <3>3. QED
      BY <1>3, <3>1, <3>2
  <2>2. CASE RouterForward(x)
    <3> DEFINE n == [net[x] EXCEPT !.peer = Append(@, net[x].job.f), !.job = NoJob]
    <3>1. net' = [net EXCEPT ![x] = n]
      BY <2>2 DEF RouterForward
    <3>2. n.receiver = net[x].receiver
      BY <1>1 DEF NetRecord
    <3>3. QED
      BY <1>3, <3>1, <3>2
  <2>3. QED
    BY <1>7, <1>5, <1>6, <1>8, <2>1, <2>2 DEF Router, RouterSetEnv, RouterSpawn, RouterLookup,
       RouterProcessExit, RouterExit, RouterSend, RouterSource, RouterSink, RouterFail
<1>9. ASSUME NEW x \in Side, Sender(x) PROVE G
  <2>1. CASE SenderTake(x)
    <3> DEFINE n == [net[x] EXCEPT !.out = Head(net[x].peer), !.peer = Tail(@)]
    <3>1. net' = [net EXCEPT ![x] = n]
      BY <2>1 DEF SenderTake
    <3>2. n.receiver = net[x].receiver
      BY <1>1 DEF NetRecord
    <3>3. QED
      BY <1>3, <3>1, <3>2
  <2>2. CASE SenderWrite(x)
    <3> DEFINE n == [net[x] EXCEPT !.out = None,
                                 !.wire = IF ReaderGone(Other(x)) THEN @ ELSE Append(@, net[x].out)]
    <3>1. net' = [net EXCEPT ![x] = n]
      BY <2>2 DEF SenderWrite
    <3>2. n.receiver = net[x].receiver
      BY <1>1 DEF NetRecord
    <3>3. QED
      BY <1>3, <3>1, <3>2
  <2>3. CASE SenderFail(x)
    <3> DEFINE n == [net[x] EXCEPT !.sender = "failed", !.out = None, !.peer = <<>>]
    <3>1. net' = [net EXCEPT ![x] = n]
      BY <2>3 DEF SenderFail
    <3>2. n.receiver = net[x].receiver
      BY <1>1 DEF NetRecord
    <3>3. QED
      BY <1>3, <3>1, <3>2
  <2>4. CASE SenderDone(x)
    <3> DEFINE n == [net[x] EXCEPT !.sender = "done"]
    <3>1. net' = [net EXCEPT ![x] = n]
      BY <2>4 DEF SenderDone
    <3>2. n.receiver = net[x].receiver
      BY <1>1 DEF NetRecord
    <3>3. QED
      BY <1>3, <3>1, <3>2
  <2>5. QED
    BY <1>9, <2>1, <2>2, <2>3, <2>4 DEF Sender
<1>10. ASSUME NEW x \in Side, Receiver(x) PROVE G
  <2>1. CASE ReceiverRead(x)
    <3> DEFINE n == [net[x] EXCEPT !.in = Head(net[Other(x)].wire)]
               m == [net[Other(x)] EXCEPT !.wire = Tail(@)]
    <3>1. net' = [[net EXCEPT ![x] = n] EXCEPT ![Other(x)] = m] /\ Other(x) # x
      BY <1>1, <2>1, Sides DEF ReceiverRead
    <3>2. n.receiver = net[x].receiver /\ m.receiver = net[Other(x)].receiver
      BY <1>1, Sides DEF NetRecord
    <3> HIDE DEF n, m
    <3>3. s = x \/ s = Other(x)
      BY DEF Side, Other
    <3>4. net'[x] = n /\ net'[Other(x)] = m
      BY <1>1, <3>1, Sides
    <3>5. QED
      BY <3>2, <3>3, <3>4
  <2>2. CASE ReceiverEof(x)
    <3> DEFINE n == [net[x] EXCEPT !.receiver = "done"]
    <3>1. net' = [net EXCEPT ![x] = n]
      BY <2>2 DEF ReceiverEof
    <3>2. n.receiver = "done"
      BY <1>1 DEF NetRecord
    <3>3. QED
      BY <1>3, <3>1, <3>2
  <2>3. CASE ReceiverPush(x)
    <3> DEFINE n == [net[x] EXCEPT !.handler = Append(@, Recv(net[x].in)), !.in = None]
    <3>1. net' = [net EXCEPT ![x] = n]
      BY <2>3 DEF ReceiverPush
    <3>2. n.receiver = net[x].receiver
      BY <1>1 DEF NetRecord
    <3>3. QED
      BY <1>3, <3>1, <3>2
  <2>4. CASE ReceiverFail(x)
    <3> DEFINE n == [net[x] EXCEPT !.receiver = "failed", !.in = None]
    <3>1. net' = [net EXCEPT ![x] = n]
      BY <2>4 DEF ReceiverFail
    <3>2. n.receiver = "failed"
      BY <1>1 DEF NetRecord
    <3>3. QED
      BY <1>3, <3>1, <3>2
  <2>5. QED
    BY <1>10, <2>1, <2>2, <2>3, <2>4 DEF Receiver
<1>11. ASSUME NEW x \in Side, Source(x) \/ Sink(x) PROVE G
  BY <1>2, <1>4, <1>11
  DEF Source, SourcePush, SourceFail, Sink, SinkFail, SinkResize, SinkShutdown, SinkTakes
<1>12. ASSUME Main PROVE G
  BY <1>2, <1>4, <1>12, Sides DEF Main, MainSends, MainSetEnv, MainRegister, MainEnterFail,
     MainSize, MainSizeFail, MainSink, MainSpawn, MainSource, MainStatus, MainExitPeer,
     MainExitSelf, MainDone, MainFail
<1>13. ASSUME Proc PROVE G
  BY <1>2, <1>4, <1>13, Sides DEF Proc, ProcSpawn, ProcSpawnFail, ProcSink, ProcSource, ProcReap,
     ProcExit, ProcFail
<1>14. ASSUME Winch PROVE G
  BY <1>2, <1>4, <1>14, Sides DEF Winch, WinchStart, WinchTake, WinchPush, WinchFail
<1>15. ASSUME LinkDown PROVE G
  <2>1. net'[s] \in {net[s], [net[s] EXCEPT !.wire = <<>>]}
    BY <1>15 DEF LinkDown
  <2>2. QED
    BY <1>1, <2>1 DEF NetRecord
<1>16. ASSUME Env \/ ChildReader \/ Writer \/ Shutdown, ~LinkDown PROVE G
  BY <1>2, <1>16 DEF Env, ReadStdin, ReadEnd, Reads, Resize, ChildIO, ChildGoes, StderrFail,
     Abort, Exits, ChildReader, ReadChild, ReadFail, Writer, WriteStdout, WriteChild, SinkTakes,
     Shutdown, RemoteShutdown, LocalShutdown
<1>17. QED
  BY <1>8, <1>9, <1>10, <1>11, <1>12, <1>13, <1>14, <1>15, <1>16 DEF Next

\* Nor does a router or a sender, nor a reader that is gone.
LEMMA TasksEnd ==
  ASSUME TypeOK, Inv, Next, NEW s \in Side
  PROVE  /\ Open(s)' => Open(s)
         /\ net'[s].sender = "run" => net[s].sender = "run"
         /\ net'[s].sender = "done" => net[s].sender = "done" \/ ~Open(s)
         /\ ReaderGone(s) => ReaderGone(s)'
<1>1. NetOK /\ UpOK
  BY DEF TypeOK
<1>2. /\ net'[s].router \in {net[s].router, "done", "failed"}
      /\ net'[s].sender \in {net[s].sender, "done", "failed"}
      /\ net'[s].sender = "done" => net[s].sender = "done" \/ ~Open(s)
  <2> DEFINE G(x) == /\ net'[x].router \in {net[x].router, "done", "failed"}
                     /\ net'[x].sender \in {net[x].sender, "done", "failed"}
                     /\ net'[x].sender = "done" => net[x].sender = "done" \/ ~Open(x)
  <2>1. \A x \in Side : SameTasks(x) => G(x)
    BY DEF SameTasks
  <2>2. \A x \in Side : (s = x \/ s = Other(x)) /\ Other(x) \in Side
    BY DEF Side, Other
  <2>3. ASSUME NEW x \in Side, RouterMove(x) PROVE G(x) /\ Still(Other(x))
    <3>1. CASE \E how \in {"done", "failed"} : Ended(x, how)
      BY <3>1 DEF Ended
    <3>2. QED
      BY <2>1, <2>3, <3>1 DEF RouterMove, Popped, PoppedFor, Delivered, Forwarded
  <2>4. ASSUME NEW x \in Side, SenderMove(x) PROVE G(x) /\ Still(Other(x))
    <3>1. CASE SenderEnded(x, "failed") \/ (SenderEnded(x, "done") /\ ~Open(x))
      BY <3>1 DEF SenderEnded
    <3>2. QED
      BY <2>1, <2>4, <3>1 DEF SenderMove, Taken, Written
  <2>5. ASSUME NEW x \in Side, ReceiverMove(x) PROVE SameTasks(x) /\ SameTasks(Other(x))
    BY <2>5 DEF ReceiverMove, Received, Pushed, Dropped, Still
  <2>6. ASSUME NEW x \in Side, NEW c, Enqueued(x, c) PROVE SameTasks(x) /\ SameTasks(Other(x))
    BY <2>6 DEF Enqueued, Still
  <2>7. ASSUME Quiet \/ (Cut("Local") /\ Cut("Remote"))
        PROVE  SameTasks("Local") /\ SameTasks("Remote")
    BY <2>7 DEF Quiet, Still, Cut
  <2>8. G(s)
    BY <2>1, <2>2, <2>3, <2>4, <2>5, <2>6, <2>7, NetMoves, Sides DEF NetMove, Still
  <2>9. QED
    BY <2>8
<1>3. (~up.link => ~up'.link) /\ (~Alive(s) => ~Alive(s)')
  <2> DEFINE G == (~up.link => ~up'.link) /\ (~Alive(s) => ~Alive(s)')
  <2>1. ASSUME up' = up PROVE G
    BY <2>1 DEF Alive
  <2>2. ASSUME LinkDown PROVE G
    BY <1>1, <2>2 DEF LinkDown, Alive, UpOK
  <2>3. ASSUME NEW x \in Side, Exits(x) PROVE G
    BY <1>1, <2>3 DEF Exits, Alive, UpOK
  <2>4. Abort \/ Shutdown => \E x \in Side : Exits(x)
    BY Sides DEF Abort, Shutdown, RemoteShutdown, LocalShutdown
  <2>5. QED
    BY <2>1, <2>2, <2>3, <2>4, UpSteps
<1>4. net'[s].receiver \in {net[s].receiver, "done", "failed"}
  BY <1>1, ReceiverStep
<1>5. QED
  BY <1>2, <1>3, <1>4 DEF Open, ReaderGone, EndGone, Alive

\* So the places that can still reach the sink only get fewer.
LEMMA LiveShrinks ==
  ASSUME TypeOK, Inv, OnceInv, Next, NEW s \in Side
  PROVE  Live(s)' \subseteq Live(s)
<1>1. Other(s) \in Side
  BY Sides
<1>2. /\ Open(s)' => Open(s) /\ (Open(Other(s))' => Open(Other(s)))
      /\ net'[s].sender = "run" => net[s].sender = "run"
      /\ ReaderGone(Other(s)) => ReaderGone(Other(s))'
  BY <1>1, TasksEnd
<1>3. Open(Other(s))' => Open(Other(s))
  BY <1>1, TasksEnd
<1>4. ends[Other(s)].sink = "end" => ends'[Other(s)].sink = "end"
  <2> DEFINE o == Other(s)
  <2>1. SinkStep(o) /\ Once(o)
    BY <1>1, EndSteps DEF EndStep, OnceInv
  <2>2. Starts(o, SinkCmd) => SinkDue(o)
    BY <1>1, DueSteps
  <2>3. RouterSink(o) => Has(net[o].handler, SinkCmd)
    BY <1>1, HasCommands, NetParts DEF RouterSink, Takes, Cmd, TypeOK
  <2>4. QED
    BY <2>1, <2>2, <2>3 DEF SinkStep, Once
<1>5. QED
  BY <1>2, <1>3, <1>4 DEF Live

\* A place can reach the sink if the one before it can.
LEMMA LiveNext ==
  ASSUME NEW s, NEW p \in 1 .. 9, p \in Live(s), p = 1 => Open(Other(s)),
         p = 5 => ~ReaderGone(Other(s)) /\ net[s].sender = "run", p = 7 => Open(s)
  PROVE  p + 1 \in Live(s)
  BY DEF Live

-----------------------------------------------------------------------------
(* How the steps move the frames of one direction.                          *)

\* A step leaves the places of side s alone, apart from those of A.
Kept(s, A) == LET o == Other(s) IN
    /\ 1 \in A \/ ends'[o].chan = ends[o].chan
    /\ 2 \in A \/ JobFor(o, "chan")' = JobFor(o, "chan")
    /\ 3 \in A \/ net'[o].handler = net[o].handler
    /\ 4 \in A \/ net'[o].in = net[o].in
    /\ 5 \in A \/ net'[s].wire = net[s].wire
    /\ 6 \in A \/ net'[s].out = net[s].out
    /\ 7 \in A \/ net'[s].peer = net[s].peer
    /\ 8 \in A \/ JobFor(s, "peer")' = JobFor(s, "peer")
    /\ 9 \in A \/ net'[s].handler = net[s].handler
    /\ 10 \in A \/ ends'[s].data = ends[s].data

Moves(s) == RowMove(Places(s), Places(s)', Live(s), Live(s)')

\* What is kept of the session is kept of the row.
LEMMA KeptOthers ==
  ASSUME NEW s, NEW A, Kept(s, A)
  PROVE  Others(Places(s), Places(s)', A)
<1>1. \A i \in 1 .. 10 : \/ i = 1 \/ i = 2 \/ i = 3 \/ i = 4 \/ i = 5 \/ i = 6 \/ i = 7
                         \/ i = 8 \/ i = 9 \/ i = 10
  OBVIOUS
<1>2. \A i \in (1 .. 10) \ A : Places(s)'[i] = Places(s)[i]
  BY <1>1, PlacesNow, PlacesNext DEF Kept
<1>3. QED
  BY <1>2 DEF Others

\* What changes can no longer reach the sink.
LEMMA MoveLost ==
  ASSUME NEW s, NEW A, Kept(s, A), A \cap Live(s)' = {}
  PROVE  Moves(s)
<1>1. Live(s)' \subseteq 1 .. 10
  BY DEF Live
<1>2. \A i \in Live(s)' : Places(s)'[i] = Places(s)[i]
  BY <1>1, KeptOthers DEF Others
<1>3. QED
  BY <1>2 DEF Moves, RowMove

\* A frame goes from place q to place p.
LEMMA MoveFlows ==
  ASSUME TypeOK, Inv, OnceInv, Next, NEW s \in Side, NEW p \in 1 .. 9, NEW q, q = p + 1,
         Kept(s, {p, q}), Places(s)[q] # <<>>,
         Places(s)'[p] = Append(Places(s)[p], Head(Places(s)[q])),
         Places(s)'[q] = Tail(Places(s)[q]),
         p = 1 => Open(Other(s)), p = 5 => ~ReaderGone(Other(s)) /\ net[s].sender = "run",
         p = 7 => Open(s)
  PROVE  Moves(s)
<1>1. Flows(Places(s), Places(s)', p)
  BY KeptOthers DEF Flows
<1>2. p \in Live(s)' => p + 1 \in Live(s)
  BY LiveShrinks, LiveNext
<1>3. QED
  BY <1>1, <1>2 DEF Moves, RowMove

\* A frame without a turn leaves place p.
LEMMA MoveLeaves ==
  ASSUME NEW s \in Side, NEW p \in 1 .. 10, Kept(s, {p}), Places(s)[p] # <<>>,
         Places(s)'[p] = Tail(Places(s)[p]), Aside(Head(Places(s)[p]))
  PROVE  Moves(s)
<1>1. Leaves(Places(s), Places(s)', p)
  BY KeptOthers DEF Leaves
<1>2. QED
  BY <1>1 DEF Moves, RowMove

\* A frame without a turn joins place p.
LEMMA MoveJoins ==
  ASSUME NEW s \in Side, NEW p \in 1 .. 10, NEW f \in Item, Kept(s, {p}),
         Places(s)'[p] = Append(Places(s)[p], f), Aside(f)
  PROVE  Moves(s)
<1>1. Joins(Places(s), Places(s)', p, f)
  BY KeptOthers DEF Joins
<1>2. QED
  BY <1>1 DEF Moves, RowMove

\* No frame is in the place of somebody else.
LEMMA NoneAside == Aside(None)
  BY DEF Aside, Bears, None, F

\* The places after the end of a task do not reach the sink.
LEMMA LiveEnds ==
  ASSUME NEW s
  PROVE  /\ ends'[Other(s)].sink = "end" => Live(s)' = {}
         /\ ~Open(Other(s))' => \A i \in Live(s)' : i < 2
         /\ ReaderGone(Other(s))' \/ net'[s].sender # "run" => \A i \in Live(s)' : i < 6
         /\ ~Open(s)' => \A i \in Live(s)' : i < 8
         /\ Live(s)' \subseteq 1 .. 10
<1>1. Live(s)' = {i \in 1 .. 10 : /\ ends'[Other(s)].sink # "end"
                                  /\ i >= 2 => Open(Other(s))'
                                  /\ i >= 6 => ~ReaderGone(Other(s))' /\ net'[s].sender = "run"
                                  /\ i >= 8 => Open(s)'}
  BY DEF Live
<1>2. QED
  BY <1>1

\* A step that moves nothing in net, and nothing at the ends but what is lost.
LEMMA QuietMoves ==
  ASSUME NEW s \in Side, Quiet, ends'[s].data = ends[s].data,
         ends'[Other(s)].chan = ends[Other(s)].chan \/ ends'[Other(s)].sink = "end"
  PROVE  Moves(s)
<1>1. Still(s) /\ Still(Other(s))
  BY Sides DEF Quiet
<1>2. CASE ends'[Other(s)].chan = ends[Other(s)].chan
  <2>1. Kept(s, {})
    BY <1>1, <1>2 DEF Kept, Still, Becomes, JobFor
  <2>2. QED
    BY <2>1, MoveLost
<1>3. CASE ends'[Other(s)].sink = "end"
  <2>1. Kept(s, {1})
    BY <1>1, <1>3 DEF Kept, Still, Becomes, JobFor
  <2>2. QED
    BY <1>3, <2>1, MoveLost, LiveEnds
<1>4. QED
  BY <1>2, <1>3

\* A command joins a handler queue, without a frame that has a turn.
LEMMA EnqueuedMoves ==
  ASSUME NetOK, NEW s \in Side, NEW x \in Side, NEW c \in Command, Enqueued(x, c),
         ends'[s].data = ends[s].data, ends'[Other(s)].chan = ends[Other(s)].chan,
         x = s => Aside(Told(c, "Send")), x # s => Aside(Told(c, "Recv"))
  PROVE  Moves(s)
<1> DEFINE o == Other(s)
<1>1. o \in Side /\ (x = s \/ x = o) /\ Other(o) = s /\ s # o
  BY DEF Side, Other
<1>2. CASE x = s
  <2>1. Kept(s, {9})
    BY <1>1, <1>2 DEF Enqueued, Kept, Still, Becomes, JobFor
  <2>2. Places(s)'[9] = Append(Places(s)[9], Told(c, "Send")) /\ Told(c, "Send") \in Item
    <3>1. Cmds(Append(net[s].handler, c), "Send")
              = Append(Cmds(net[s].handler, "Send"), Told(c, "Send")) /\ Told(c, "Send") \in Item
      <4>1. net[s].handler \in Seq(Command)
        BY NetParts
      <4>2. QED
        BY <4>1, CmdsEnds
    <3>2. net'[s].handler = Append(net[s].handler, c)
      BY <1>2 DEF Enqueued, Becomes
    <3>3. QED
      BY <3>1, <3>2, PlacesNow, PlacesNext
  <2>3. QED
    BY <1>2, <2>1, <2>2, MoveJoins
<1>3. CASE x = o
  <2>1. Kept(s, {3})
    BY <1>1, <1>3 DEF Enqueued, Kept, Still, Becomes, JobFor
  <2>2. Places(s)'[3] = Append(Places(s)[3], Told(c, "Recv")) /\ Told(c, "Recv") \in Item
    <3>1. Cmds(Append(net[o].handler, c), "Recv")
              = Append(Cmds(net[o].handler, "Recv"), Told(c, "Recv")) /\ Told(c, "Recv") \in Item
      <4>1. net[o].handler \in Seq(Command)
        BY <1>1, NetParts
      <4>2. QED
        BY <4>1, CmdsEnds
    <3>2. net'[o].handler = Append(net[o].handler, c)
      BY <1>3 DEF Enqueued, Becomes
    <3>3. QED
      BY <3>1, <3>2, PlacesNow, PlacesNext
  <2>3. QED
    BY <1>1, <1>3, <2>1, <2>2, MoveJoins
<1>4. QED
  BY <1>1, <1>2, <1>3

\* A command that a router takes leaves the row.
LEMMA PoppedLeaves ==
  ASSUME NetOK, NEW s \in Side, NEW x \in Side, Takes(x), Popped(x),
         ends'[s].data = ends[s].data, ends'[Other(s)].chan = ends[Other(s)].chan
  PROVE  /\ x = s => /\ Kept(s, {9}) /\ Leaves(Places(s), Places(s)', 9)
                     /\ Head(Places(s)[9]) = Told(Cmd(x), "Send")
         /\ x # s => /\ Kept(s, {3}) /\ Leaves(Places(s), Places(s)', 3)
                     /\ Head(Places(s)[3]) = Told(Cmd(x), "Recv")
<1> DEFINE o == Other(s)
<1>1. o \in Side /\ (x = s \/ x = o) /\ Other(o) = s /\ s # o
  BY DEF Side, Other
<1>2. net[x].handler \in Seq(Command) /\ net[x].handler # <<>> /\ Cmd(x) = Head(net[x].handler)
  BY NetParts DEF Takes, Cmd
<1>3. \A k : /\ Cmds(net[x].handler, k) # <<>>
             /\ Cmds(Tail(net[x].handler), k) = Tail(Cmds(net[x].handler, k))
             /\ Head(Cmds(net[x].handler, k)) = Told(Cmd(x), k)
  BY <1>2, CmdsEnds
<1>4. net'[x].handler = Tail(net[x].handler)
  BY DEF Popped, Becomes
<1>5. CASE x = s
  <2>1. Kept(s, {9})
    BY <1>1, <1>5 DEF Popped, Kept, Still, Becomes, JobFor
  <2>2. /\ Places(s)[9] = Cmds(net[s].handler, "Send")
        /\ Places(s)'[9] = Cmds(net'[s].handler, "Send")
    BY PlacesNow, PlacesNext
  <2>3. QED
    BY <1>3, <1>4, <1>5, <2>1, <2>2, KeptOthers DEF Leaves
<1>6. CASE x = o
  <2>1. Kept(s, {3})
    BY <1>1, <1>6 DEF Popped, Kept, Still, Becomes, JobFor
  <2>2. /\ Places(s)[3] = Cmds(net[o].handler, "Recv")
        /\ Places(s)'[3] = Cmds(net'[o].handler, "Recv")
    BY PlacesNow, PlacesNext
  <2>3. QED
    BY <1>1, <1>3, <1>4, <1>6, <2>1, <2>2, KeptOthers DEF Leaves
<1>7. QED
  BY <1>1, <1>5, <1>6

\* What a sink takes leaves the row.
LEMMA SinkLeaves ==
  ASSUME EndsOK, NEW s \in Side, NEW k, SinkTakes(Other(s), k), SinkNext(Other(s))
  PROVE  /\ Leaves(Places(s), Places(s)', 1)
         /\ Head(Places(s)[1]) = Head(ends[Other(s)].chan) /\ Head(Places(s)[1]).t = k
<1> DEFINE o == Other(s)
           e == [ends[o] EXCEPT !.chan = Tail(@)]
<1>1. o \in Side /\ o # s
  BY Sides
<1>2. /\ ends' = [ends EXCEPT ![o] = e] /\ e.chan = Tail(ends[o].chan)
      /\ ends[o].chan # <<>> /\ Head(ends[o].chan).t = k /\ net' = net
  BY <1>1 DEF SinkNext, SinkTakes, EndsOK, EndsType, EndsRecord
<1> HIDE DEF e
<1>3. ends'[o].chan = Tail(ends[o].chan) /\ ends'[s] = ends[s]
  BY <1>1, <1>2 DEF EndsOK
<1>4. Kept(s, {1})
  BY <1>2, <1>3 DEF Kept, JobFor
<1>5. Places(s)[1] = ends[o].chan /\ Places(s)'[1] = ends'[o].chan
  BY PlacesNow, PlacesNext
<1>6. QED
  BY <1>2, <1>3, <1>4, <1>5, KeptOthers DEF Leaves

\* What the login process sends joins the row.
LEMMA SendJoins ==
  ASSUME NetOK, NEW f \in Frame, Sends("Local", Send(f)), ends' = ends
  PROVE  Joins(Places("Local"), Places("Local")', 9, f)
<1>1. Enqueued("Local", Send(f))
  BY SendsEffect, Sides
<1>2. Send(f) \in Command /\ Told(Send(f), "Send") = f
  BY DEF Command, Send, Told
<1>3. Kept("Local", {9})
  BY <1>1, Sides DEF Enqueued, Kept, Still, Becomes, JobFor
<1>4. Cmds(Append(net["Local"].handler, Send(f)), "Send") = Append(Cmds(net["Local"].handler, "Send"), f)
  <2>1. net["Local"].handler \in Seq(Command)
    BY NetParts, Sides
  <2>2. QED
    BY <1>2, <2>1, CmdsEnds
<1>5. net'["Local"].handler = Append(net["Local"].handler, Send(f))
  BY <1>1 DEF Enqueued, Becomes
<1>6. /\ Places("Local")[9] = Cmds(net["Local"].handler, "Send")
      /\ Places("Local")'[9] = Cmds(net'["Local"].handler, "Send")
  BY PlacesNow, PlacesNext
<1>7. QED
  BY <1>3, <1>4, <1>5, <1>6, KeptOthers DEF Joins

\* A command leaves a handler queue, without a frame that has a turn.
LEMMA PoppedMoves ==
  ASSUME NetOK, NEW s \in Side, NEW x \in Side, Takes(x), Popped(x),
         ends'[s].data = ends[s].data, ends'[Other(s)].chan = ends[Other(s)].chan,
         x = s => Aside(Told(Cmd(x), "Send")), x # s => Aside(Told(Cmd(x), "Recv"))
  PROVE  Moves(s)
<1>1. CASE x = s
  <2>1. /\ Kept(s, {9}) /\ Leaves(Places(s), Places(s)', 9)
        /\ Head(Places(s)[9]) = Told(Cmd(x), "Send")
    BY <1>1, PoppedLeaves
  <2>2. QED
    BY <1>1, <2>1, MoveLeaves DEF Leaves
<1>2. CASE x # s
  <2>1. /\ Kept(s, {3}) /\ Leaves(Places(s), Places(s)', 3)
        /\ Head(Places(s)[3]) = Told(Cmd(x), "Recv")
    BY <1>2, PoppedLeaves
  <2>2. QED
    BY <1>2, <2>1, MoveLeaves DEF Leaves
<1>3. QED
  BY <1>1, <1>2

\* The router takes a command and keeps its frame as its job.
LEMMA RouterTakesMoves ==
  ASSUME TypeOK, Inv, OnceInv, Next, NEW s \in Side, NEW x \in Side, Takes(x),
         NEW to \in {"chan", "peer"}, PoppedFor(x, to),
         to = "chan" => Cmd(x).k = "Recv", to = "peer" => Cmd(x).k = "Send", ends' = ends
  PROVE  Moves(s)
<1> DEFINE o == Other(s)
           h == net[x].handler
<1>1. o \in Side /\ (x = s \/ x = o) /\ Other(o) = s /\ s # o /\ NetOK
  BY DEF Side, Other, TypeOK
<1>2. /\ h \in Seq(Command) /\ h # <<>> /\ Cmd(x) = Head(h) /\ net[x].job = NoJob
      /\ net'[x].handler = Tail(h) /\ net'[x].job = [to |-> to, f |-> Cmd(x).f]
  BY <1>1, NetParts DEF Takes, Cmd, PoppedFor, Becomes
<1>3. \A k : /\ Cmds(h, k) # <<>> /\ Cmds(Tail(h), k) = Tail(Cmds(h, k))
             /\ Head(Cmds(h, k)) = Told(Cmd(x), k)
  BY <1>2, CmdsEnds
<1>4. \A k \in {"chan", "peer"} :
          /\ JobFor(x, k) = <<>>
          /\ JobFor(x, k)' = IF k = to THEN <<Cmd(x).f>> ELSE <<>>
  BY <1>2 DEF JobFor, NoJob
<1>5. CASE x = s /\ to = "chan"
  <2>1. Kept(s, {9})
    BY <1>1, <1>4, <1>5 DEF PoppedFor, Kept, Still, Becomes, JobFor
  <2>2. Told(Cmd(x), "Send") = None
    BY <1>5 DEF Told
  <2>3. /\ Places(s)[9] # <<>> /\ Places(s)'[9] = Tail(Places(s)[9])
        /\ Head(Places(s)[9]) = None
    <3>1. /\ Cmds(net[s].handler, "Send") # <<>>
          /\ Cmds(Tail(net[s].handler), "Send") = Tail(Cmds(net[s].handler, "Send"))
          /\ Head(Cmds(net[s].handler, "Send")) = Told(Cmd(x), "Send")
      BY <1>3, <1>5
    <3>2. net'[s].handler = Tail(net[s].handler)
      BY <1>2, <1>5
    <3>3. QED
      BY <2>2, <3>1, <3>2, PlacesNow, PlacesNext
  <2>4. QED
    BY <2>1, <2>3, MoveLeaves, NoneAside
<1>6. CASE x = s /\ to = "peer"
  <2>1. Kept(s, {8, 9})
    BY <1>1, <1>6 DEF PoppedFor, Kept, Still, Becomes, JobFor
  <2>2. Told(Cmd(x), "Send") = Cmd(x).f
    BY <1>6 DEF Told
  <2>3. /\ Places(s)[9] # <<>> /\ Places(s)'[9] = Tail(Places(s)[9])
        /\ Head(Places(s)[9]) = Cmd(x).f
    <3>1. /\ Cmds(net[s].handler, "Send") # <<>>
          /\ Cmds(Tail(net[s].handler), "Send") = Tail(Cmds(net[s].handler, "Send"))
          /\ Head(Cmds(net[s].handler, "Send")) = Told(Cmd(x), "Send")
      BY <1>3, <1>6
    <3>2. net'[s].handler = Tail(net[s].handler)
      BY <1>2, <1>6
    <3>3. QED
      BY <2>2, <3>1, <3>2, PlacesNow, PlacesNext
  <2>4. Places(s)[8] = <<>> /\ Places(s)'[8] = <<Cmd(x).f>>
    BY <1>4, <1>6, PlacesNow, PlacesNext
  <2>5. Places(s)'[8] = Append(Places(s)[8], Head(Places(s)[9]))
    BY <2>3, <2>4
  <2>6. QED
    BY <2>1, <2>3, <2>5, MoveFlows
<1>7. CASE x = o /\ to = "chan"
  <2>1. Kept(s, {2, 3})
    BY <1>1, <1>7 DEF PoppedFor, Kept, Still, Becomes, JobFor
  <2>2. Told(Cmd(x), "Recv") = Cmd(x).f
    BY <1>7 DEF Told
  <2>3. /\ Places(s)[3] # <<>> /\ Places(s)'[3] = Tail(Places(s)[3])
        /\ Head(Places(s)[3]) = Cmd(x).f
    <3>1. /\ Cmds(net[o].handler, "Recv") # <<>>
          /\ Cmds(Tail(net[o].handler), "Recv") = Tail(Cmds(net[o].handler, "Recv"))
          /\ Head(Cmds(net[o].handler, "Recv")) = Told(Cmd(x), "Recv")
      BY <1>3, <1>7
    <3>2. net'[o].handler = Tail(net[o].handler)
      BY <1>2, <1>7
    <3>3. QED
      BY <2>2, <3>1, <3>2, PlacesNow, PlacesNext
  <2>4. Places(s)[2] = <<>> /\ Places(s)'[2] = <<Cmd(x).f>>
    BY <1>4, <1>7, PlacesNow, PlacesNext
  <2>5. Places(s)'[2] = Append(Places(s)[2], Head(Places(s)[3]))
    BY <2>3, <2>4
  <2>6. QED
    BY <2>1, <2>3, <2>5, MoveFlows
<1>8. CASE x = o /\ to = "peer"
  <2>1. Kept(s, {3})
    BY <1>1, <1>4, <1>8 DEF PoppedFor, Kept, Still, Becomes, JobFor
  <2>2. Told(Cmd(x), "Recv") = None
    BY <1>8 DEF Told
  <2>3. /\ Places(s)[3] # <<>> /\ Places(s)'[3] = Tail(Places(s)[3])
        /\ Head(Places(s)[3]) = None
    <3>1. /\ Cmds(net[o].handler, "Recv") # <<>>
          /\ Cmds(Tail(net[o].handler), "Recv") = Tail(Cmds(net[o].handler, "Recv"))
          /\ Head(Cmds(net[o].handler, "Recv")) = Told(Cmd(x), "Recv")
      BY <1>3, <1>8
    <3>2. net'[o].handler = Tail(net[o].handler)
      BY <1>2, <1>8
    <3>3. QED
      BY <2>2, <3>1, <3>2, PlacesNow, PlacesNext
  <2>4. QED
    BY <1>1, <2>1, <2>3, MoveLeaves, NoneAside
<1>9. QED
  BY <1>1, <1>5, <1>6, <1>7, <1>8

\* The router hands over its job.
LEMMA RouterGivesMoves ==
  ASSUME TypeOK, Inv, OnceInv, Next, NEW s \in Side, NEW x \in Side,
         RouterDeliver(x) \/ RouterForward(x)
  PROVE  Moves(s)
<1> DEFINE o == Other(s)
<1>1. o \in Side /\ (x = s \/ x = o) /\ Other(o) = s /\ s # o /\ NetOK /\ EndsOK
  BY DEF Side, Other, TypeOK
<1>2. /\ net[x].job.to \in {"chan", "peer"} /\ net[x].job.f \in Frame
      /\ Open(x) /\ net'[x].job = NoJob /\ NoJob.to = "none"
  <2>1. net[x].job.to \in {"chan", "peer"}
    BY DEF RouterDeliver, RouterForward
  <2>2. net[x].job # NoJob
    BY <2>1 DEF NoJob
  <2>3. net[x].job.f \in Frame
    BY <1>1, <2>2, NetParts
  <2>4. Open(x)
    BY <2>2 DEF OnceInv, Once
  <2>5. net'[x].job = NoJob
    BY <1>1, DeliverEffect, ForwardEffect DEF Delivered, Forwarded, Becomes
  <2>6. QED
    BY <2>1, <2>3, <2>4, <2>5 DEF NoJob
<1>3. \A k \in {"chan", "peer"} :
          /\ JobFor(x, k) = IF k = net[x].job.to THEN <<net[x].job.f>> ELSE <<>>
          /\ JobFor(x, k)' = <<>>
  BY <1>2 DEF JobFor
<1>4. ASSUME RouterDeliver(x)
      PROVE  /\ Delivered(x) /\ net[x].job.to = "chan"
             /\ ends'[x].chan = Append(ends[x].chan, net[x].job.f)
             /\ ends'[x].data = ends[x].data /\ ends'[Other(x)] = ends[Other(x)]
  <2> DEFINE e == [ends[x] EXCEPT !.chan = Append(@, net[x].job.f)]
  <2>1. ends' = [ends EXCEPT ![x] = e] /\ ends \in [Side -> EndsRecord] /\ Other(x) # x
    BY <1>1, <1>4, Sides DEF RouterDeliver, EndsOK, EndsType
  <2>2. e.chan = Append(ends[x].chan, net[x].job.f) /\ e.data = ends[x].data
    BY <2>1 DEF EndsRecord
  <2> HIDE DEF e
  <2>3. ends'[x] = e /\ ends'[Other(x)] = ends[Other(x)]
    BY <2>1, Sides
  <2>4. QED
    BY <1>1, <1>4, <2>2, <2>3, DeliverEffect DEF RouterDeliver
<1>5. ASSUME RouterForward(x)
      PROVE  /\ Forwarded(x) /\ net[x].job.to = "peer" /\ ends' = ends
  BY <1>1, <1>5, ForwardEffect DEF RouterForward
<1>6. CASE RouterDeliver(x) /\ x = s
  <2>1. Kept(s, {})
    BY <1>1, <1>3, <1>4, <1>6 DEF Delivered, Kept, Still, Becomes, JobFor
  <2>2. QED
    BY <2>1, MoveLost
<1>7. CASE RouterDeliver(x) /\ x = o
  <2>1. Kept(s, {1, 2})
    BY <1>1, <1>4, <1>7 DEF Delivered, Kept, Still, Becomes, JobFor
  <2>2. Places(s)[2] = <<net[x].job.f>> /\ Places(s)'[2] = <<>>
    BY <1>3, <1>4, <1>7, PlacesNow, PlacesNext
  <2>3. Places(s)'[1] = Append(Places(s)[1], net[x].job.f)
    BY <1>4, <1>7, PlacesNow, PlacesNext
  <2>4. /\ Places(s)[2] # <<>> /\ Head(Places(s)[2]) = net[x].job.f
        /\ Places(s)'[2] = Tail(Places(s)[2])
    BY <2>2
  <2>5. QED
    BY <1>2, <1>7, <2>1, <2>3, <2>4, MoveFlows
<1>8. CASE RouterForward(x) /\ x = o
  <2>1. Kept(s, {})
    BY <1>1, <1>3, <1>5, <1>8 DEF Forwarded, Kept, Still, Becomes, JobFor
  <2>2. QED
    BY <2>1, MoveLost
<1>9. CASE RouterForward(x) /\ x = s
  <2>1. Kept(s, {7, 8})
    BY <1>1, <1>5, <1>9 DEF Forwarded, Kept, Still, Becomes, JobFor
  <2>2. Places(s)[8] = <<net[x].job.f>> /\ Places(s)'[8] = <<>>
    BY <1>3, <1>5, <1>9, PlacesNow, PlacesNext
  <2>3. Places(s)'[7] = Append(Places(s)[7], net[x].job.f)
    BY <1>5, <1>9, PlacesNow, PlacesNext DEF Forwarded, Becomes
  <2>4. /\ Places(s)[8] # <<>> /\ Head(Places(s)[8]) = net[x].job.f
        /\ Places(s)'[8] = Tail(Places(s)[8])
    BY <2>2
  <2>5. QED
    BY <1>2, <1>9, <2>1, <2>3, <2>4, MoveFlows
<1>10. QED
  BY <1>1, <1>6, <1>7, <1>8, <1>9

\* The router ends.
LEMMA RouterEndsMoves ==
  ASSUME TypeOK, NEW s \in Side, NEW x \in Side, NEW how \in {"done", "failed"},
         RouterEnds(x, how)
  PROVE  Moves(s)
<1> DEFINE o == Other(s)
<1>1. o \in Side /\ (x = s \/ x = o) /\ Other(o) = s /\ s # o /\ NetOK /\ EndsOK
  BY DEF Side, Other, TypeOK
<1>2. Ended(x, how) /\ ~Open(x)'
  BY <1>1, EndsEffect DEF Ended, Open
<1>3. /\ ends'[s].data = ends[s].data
      /\ ends'[o].chan = ends[o].chan \/ ends'[o].sink = "end"
  <2>1. CASE ends' = ends
    BY <2>1
  <2>2. CASE DropReceiver(x)
    <3> DEFINE e == [ends[x] EXCEPT !.sink = "end", !.chan = <<>>]
    <3>1. ends' = [ends EXCEPT ![x] = e] /\ ends \in [Side -> EndsRecord]
      BY <1>1, <2>2 DEF DropReceiver, EndsOK, EndsType
    <3>2. e.sink = "end" /\ e.data = ends[x].data
      BY <3>1 DEF EndsRecord
    <3> HIDE DEF e
    <3>3. ends'[x] = e /\ \A y \in Side : y # x => ends'[y] = ends[y]
      BY <3>1
    <3>4. QED
      BY <1>1, <3>2, <3>3
  <2>3. QED
    BY <2>1, <2>2 DEF RouterEnds
<1>4. CASE x = s
  <2>1. Kept(s, {1, 8, 9}) /\ (ends'[o].sink # "end" => Kept(s, {8, 9}))
    BY <1>1, <1>2, <1>3, <1>4 DEF Ended, Kept, Still, Becomes, JobFor
  <2>2. QED
    BY <1>2, <1>4, <2>1, MoveLost, LiveEnds
<1>5. CASE x = o
  <2>1. Kept(s, {1, 2, 3}) /\ (ends'[o].sink # "end" => Kept(s, {2, 3}))
    BY <1>1, <1>2, <1>3, <1>5 DEF Ended, Kept, Still, Becomes, JobFor
  <2>2. QED
    BY <1>2, <1>5, <2>1, MoveLost, LiveEnds
<1>6. QED
  BY <1>1, <1>4, <1>5

\* The steps of the sender.
LEMMA SenderStepMoves ==
  ASSUME TypeOK, Inv, OnceInv, Next, NEW s \in Side, NEW x \in Side, Sender(x)
  PROVE  Moves(s)
<1> DEFINE o == Other(s)
<1>1. o \in Side /\ (x = s \/ x = o) /\ Other(o) = s /\ s # o /\ NetOK
  BY DEF Side, Other, TypeOK
<1>2. SenderMove(x) /\ ends' = ends
  BY <1>1, SenderMoves DEF Sender, SenderTake, SenderWrite, SenderFail, SenderDone
<1>3. net[s].out \in Item /\ net[s].peer \in Seq(Frame)
  BY <1>1, NetParts DEF Item
<1>4. CASE x = o
  <2>1. Kept(s, {})
    BY <1>1, <1>2, <1>4 DEF SenderMove, Taken, Written, SenderEnded, Kept, Still, Becomes, JobFor
  <2>2. QED
    BY <2>1, MoveLost
<1>5. CASE x = s /\ Taken(s) /\ net[s].out = None /\ net[s].peer # <<>>
  <2>1. Kept(s, {6, 7})
    BY <1>1, <1>2, <1>5 DEF Taken, Kept, Still, Becomes, JobFor
  <2>2. Head(net[s].peer) \in Frame
    BY <1>3, <1>5, HeadTailProperties
  <2>3. Slot(Head(net[s].peer)) = Append(Slot(None), Head(net[s].peer))
    BY <2>2, SlotEnds
  <2>4. net'[s].out = Head(net[s].peer) /\ net'[s].peer = Tail(net[s].peer)
    BY <1>5 DEF Taken, Becomes
  <2>5. /\ Places(s)[6] = Slot(None) /\ Places(s)[7] = net[s].peer
        /\ Places(s)'[6] = Slot(Head(net[s].peer)) /\ Places(s)'[7] = Tail(net[s].peer)
    BY <1>5, <2>4, PlacesNow, PlacesNext
  <2>6. /\ Places(s)[7] # <<>> /\ Places(s)'[7] = Tail(Places(s)[7])
       /\ Places(s)'[6] = Append(Places(s)[6], Head(Places(s)[7]))
    BY <1>5, <2>3, <2>5
  <2>7. QED
    BY <2>1, <2>6, MoveFlows
<1>6. CASE x = s /\ Written(s) /\ net[s].out # None /\ net[s].sender = "run"
  <2>1. Kept(s, {5, 6}) /\ (ReaderGone(o) => Kept(s, {6}))
    BY <1>1, <1>2, <1>6 DEF Written, Kept, Still, Becomes, JobFor
  <2>2. CASE ReaderGone(o)
    <3>1. ReaderGone(o)'
      BY <1>1, <2>2, TasksEnd
    <3>2. QED
      BY <2>1, <2>2, <3>1, MoveLost, LiveEnds
  <2>3. CASE ~ReaderGone(o)
    <3>1. net[s].out \in Frame /\ net[s].out # None
      BY <1>3, <1>6 DEF Item
    <3>2. /\ Slot(net[s].out) # <<>> /\ Head(Slot(net[s].out)) = net[s].out
          /\ Slot(None) = Tail(Slot(net[s].out))
      BY <3>1, SlotEnds
    <3>3. net'[s].out = None /\ net'[s].wire = Append(net[s].wire, net[s].out)
      BY <1>6, <2>3 DEF Written, Becomes
    <3>4. /\ Places(s)[5] = net[s].wire /\ Places(s)[6] = Slot(net[s].out)
          /\ Places(s)'[5] = Append(net[s].wire, net[s].out) /\ Places(s)'[6] = Slot(None)
      BY <3>3, PlacesNow, PlacesNext
    <3>5. /\ Places(s)[6] # <<>> /\ Places(s)'[6] = Tail(Places(s)[6])
         /\ Places(s)'[5] = Append(Places(s)[5], Head(Places(s)[6]))
      BY <3>2, <3>4
    <3>6. QED
      BY <1>6, <2>1, <2>3, <3>5, MoveFlows
  <2>4. QED
    BY <2>2, <2>3
<1>7. CASE x = s /\ \E how \in {"failed", "done"} : SenderEnded(s, how)
  <2>1. Kept(s, {6, 7}) /\ net'[s].sender # "run"
    BY <1>1, <1>2, <1>7 DEF SenderEnded, Kept, Still, Becomes, JobFor
  <2>2. QED
    BY <2>1, MoveLost, LiveEnds
<1>8. QED
  BY <1>1, <1>2, <1>4, <1>5, <1>6, <1>7 DEF SenderMove

\* The steps of the receiver.
LEMMA ReceiverStepMoves ==
  ASSUME TypeOK, Inv, OnceInv, Next, NEW s \in Side, NEW x \in Side, Receiver(x)
  PROVE  Moves(s)
<1> DEFINE o == Other(s)
<1>1. o \in Side /\ (x = s \/ x = o) /\ Other(o) = s /\ s # o /\ NetOK
  BY DEF Side, Other, TypeOK
<1>2. (ReceiverMove(x) \/ Quiet) /\ ends' = ends
  BY <1>1, ReceiverMoves DEF Receiver, ReceiverRead, ReceiverEof, ReceiverPush, ReceiverFail
<1>3. \A y \in Side : /\ net[y].in # None => net[y].in \in Frame
                      /\ net[y].wire \in Seq(Frame) /\ net[y].handler \in Seq(Command)
  BY <1>1, NetParts
<1>4. CASE Quiet
  BY <1>2, <1>4, QuietMoves
<1>5. CASE Received(x, Other(x)) /\ net[x].in = None /\ net[Other(x)].wire # <<>>
  <2>1. CASE x = s
    <3>1. Kept(s, {})
      BY <1>1, <1>2, <1>5, <2>1 DEF Received, Kept, Becomes, JobFor
    <3>2. QED
      BY <3>1, MoveLost
  <2>2. CASE x = o
    <3>1. Kept(s, {4, 5})
      BY <1>1, <1>2, <1>5, <2>2 DEF Received, Kept, Becomes, JobFor
    <3>2. Head(net[s].wire) \in Frame /\ net[s].wire # <<>>
      BY <1>1, <1>3, <1>5, <2>2, HeadTailProperties
    <3>3. Slot(Head(net[s].wire)) = Append(Slot(None), Head(net[s].wire))
      BY <3>2, SlotEnds
    <3>4. net'[o].in = Head(net[s].wire) /\ net'[s].wire = Tail(net[s].wire)
      BY <1>1, <1>5, <2>2 DEF Received, Becomes
    <3>5. /\ Places(s)[4] = Slot(None) /\ Places(s)[5] = net[s].wire
          /\ Places(s)'[4] = Slot(Head(net[s].wire)) /\ Places(s)'[5] = Tail(net[s].wire)
      BY <1>5, <2>2, <3>4, PlacesNow, PlacesNext
    <3>6. QED
      BY <3>1, <3>2, <3>3, <3>5, MoveFlows, SMTT(30)
  <2>3. QED
    BY <1>1, <2>1, <2>2
<1>6. CASE Pushed(x) /\ net[x].in # None
  <2> DEFINE f == net[x].in
  <2>1. f \in Frame /\ Recv(f) \in Command
    BY <1>3, <1>6 DEF Recv, Command
  <2>2. Told(Recv(f), "Send") = None /\ Told(Recv(f), "Recv") = f
    BY DEF Told, Recv
  <2>3. net'[x].handler = Append(net[x].handler, Recv(f)) /\ net'[x].in = None
    BY <1>6 DEF Pushed, Becomes
  <2>4. \A k \in {"Send", "Recv"} :
            Cmds(Append(net[x].handler, Recv(f)), k)
                = Append(Cmds(net[x].handler, k), Told(Recv(f), k))
    BY <1>3, <2>1, CmdsEnds
  <2> HIDE DEF f
  <2>5. CASE x = s
    <3>1. Kept(s, {9})
      BY <1>1, <1>2, <1>6, <2>5 DEF Pushed, Kept, Still, Becomes, JobFor
    <3>2. Cmds(Append(net[s].handler, Recv(f)), "Send") = Append(Cmds(net[s].handler, "Send"), None)
      BY <2>2, <2>4, <2>5
    <3>3. Places(s)'[9] = Append(Places(s)[9], None) /\ None \in Item
      BY <2>3, <2>5, <3>2, PlacesNow, PlacesNext, ZenonT(60) DEF Item
    <3>4. QED
      BY <3>1, <3>3, MoveJoins, NoneAside
  <2>6. CASE x = o
    <3>1. Kept(s, {3, 4})
      BY <1>1, <1>2, <1>6, <2>6 DEF Pushed, Kept, Still, Becomes, JobFor
    <3>2. Cmds(Append(net[o].handler, Recv(f)), "Recv") = Append(Cmds(net[o].handler, "Recv"), f)
      BY <2>2, <2>4, <2>6
    <3>3. Places(s)'[3] = Append(Places(s)[3], f)
      BY <2>3, <2>6, <3>2, PlacesNow, PlacesNext, ZenonT(60)
    <3>4. Places(s)[4] = Slot(f) /\ Places(s)'[4] = Slot(None)
      BY <2>3, <2>6, PlacesNow, PlacesNext DEF f
    <3>5. Slot(f) # <<>> /\ Head(Slot(f)) = f /\ Slot(None) = Tail(Slot(f))
      BY <2>1, SlotEnds
    <3>6. /\ Places(s)[4] # <<>> /\ Places(s)'[4] = Tail(Places(s)[4])
         /\ Places(s)'[3] = Append(Places(s)[3], Head(Places(s)[4]))
      BY <3>3, <3>4, <3>5
    <3>7. QED
      BY <3>1, <3>6, MoveFlows
  <2>7. QED
    BY <1>1, <2>5, <2>6
<1>7. CASE Dropped(x) /\ ~Open(x)
  <2>1. ~Open(x)'
    BY <1>7 DEF Dropped, SameTasks, Open
  <2>2. CASE x = s
    <3>1. Kept(s, {})
      BY <1>1, <1>2, <1>7, <2>2 DEF Dropped, Kept, Still, Becomes, JobFor
    <3>2. QED
      BY <3>1, MoveLost
  <2>3. CASE x = o
    <3>1. Kept(s, {4})
      BY <1>1, <1>2, <1>7, <2>3 DEF Dropped, Kept, Still, Becomes, JobFor
    <3>2. QED
      BY <2>1, <2>3, <3>1, MoveLost, LiveEnds
  <2>4. QED
    BY <1>1, <2>2, <2>3
<1>8. QED
  BY <1>2, <1>4, <1>5, <1>6, <1>7 DEF ReceiverMove

\* The steps of a source with the frame it holds.
LEMMA SourceStepMoves ==
  ASSUME TypeOK, Inv, OnceInv, Next, NEW s \in Side, NEW x \in Side, Source(x)
  PROVE  Moves(s)
<1> DEFINE o == Other(s)
           f == ends[x].data
<1>1. o \in Side /\ (x = s \/ x = o) /\ Other(o) = s /\ s # o /\ NetOK /\ EndsOK
  BY DEF Side, Other, TypeOK
<1>2. f \in Frame /\ f # None
  BY <1>1, EndsParts DEF Source, SourcePush, SourceFail
<1>3. /\ ends'[x].data = None /\ ends'[x].chan = ends[x].chan
      /\ ends'[Other(x)] = ends[Other(x)]
  <2> DEFINE e == [ends[x] EXCEPT !.data = None]
             d == [ends[x] EXCEPT !.source = "end", !.data = None]
  <2>1. e.data = None /\ d.data = None /\ e.chan = ends[x].chan /\ d.chan = ends[x].chan
    BY <1>1 DEF EndsOK, EndsType, EndsRecord
  <2>2. ends' = [ends EXCEPT ![x] = e] \/ ends' = [ends EXCEPT ![x] = d]
    BY DEF Source, SourcePush, SourceFail, SourceEnds
  <2> HIDE DEF e, d
  <2>3. (ends'[x] = e \/ ends'[x] = d) /\ ends'[Other(x)] = ends[Other(x)]
    BY <1>1, <2>2, Sides DEF EndsOK
  <2>4. QED
    BY <2>1, <2>3
<1>4. ends'[o].chan = ends[o].chan /\ (x # s => ends'[s].data = ends[s].data)
  BY <1>1, <1>3
<1>5. CASE SourcePush(x)
  <2>1. Enqueued(x, Send(f)) /\ Send(f) \in Command
    BY <1>1, <1>2, <1>5, SendsEffect DEF SourcePush, Send, Command
  <2>2. Told(Send(f), "Recv") = None /\ Told(Send(f), "Send") = f
    BY DEF Told, Send
  <2> HIDE DEF f
  <2>3. CASE x # s
    BY <1>1, <1>4, <2>1, <2>2, <2>3, EnqueuedMoves, NoneAside
  <2>4. CASE x = s
    <3>1. Kept(s, {9, 10})
      BY <1>1, <1>4, <2>1, <2>4 DEF Enqueued, Kept, Still, Becomes, JobFor
    <3>2. Cmds(Append(net[s].handler, Send(f)), "Send") = Append(Cmds(net[s].handler, "Send"), f)
      <4>1. net[s].handler \in Seq(Command)
        BY <1>1, NetParts
      <4>2. QED
        BY <2>1, <2>2, <4>1, CmdsEnds
    <3>3. net'[s].handler = Append(net[s].handler, Send(f))
      BY <2>1, <2>4 DEF Enqueued, Becomes
    <3>4. Places(s)'[9] = Append(Places(s)[9], f)
      BY <3>2, <3>3, PlacesNow, PlacesNext, ZenonT(60)
    <3>5. Places(s)[10] = Slot(f) /\ Places(s)'[10] = Slot(None)
      BY <1>3, <2>4, PlacesNow, PlacesNext DEF f
    <3>6. Slot(f) # <<>> /\ Head(Slot(f)) = f /\ Slot(None) = Tail(Slot(f))
      BY <1>2, SlotEnds
    <3>7. /\ Places(s)[10] # <<>> /\ Places(s)'[10] = Tail(Places(s)[10])
         /\ Places(s)'[9] = Append(Places(s)[9], Head(Places(s)[10]))
      BY <3>4, <3>5, <3>6
    <3>8. QED
      BY <3>1, <3>7, MoveFlows
  <2>5. QED
    BY <2>3, <2>4
<1>6. CASE SourceFail(x)
  <2>1. Quiet /\ ~Open(x) /\ net' = net
    BY <1>6, UnchangedEffect DEF SourceFail, SendFails
  <2>2. CASE x # s
    BY <1>4, <2>1, <2>2, QuietMoves
  <2>3. CASE x = s
    <3>1. Kept(s, {10})
      BY <1>1, <1>4, <2>1, <2>3 DEF Kept, JobFor
    <3>2. ~Open(s)'
      BY <2>1, <2>3 DEF Open
    <3>3. QED
      BY <3>1, <3>2, MoveLost, LiveEnds
  <2>4. QED
    BY <2>2, <2>3
<1>7. QED
  BY <1>5, <1>6 DEF Source

\* The steps of a sink with a frame that it does not write to the stream.
LEMMA SinkStepMoves ==
  ASSUME TypeOK, NEW s \in Side, NEW x \in Side, Sink(x)
  PROVE  Moves(s)
<1> DEFINE o == Other(s)
<1>1. o \in Side /\ (x = s \/ x = o) /\ Other(o) = s /\ s # o /\ EndsOK
  BY DEF Side, Other, TypeOK
<1>2. /\ Quiet /\ net' = net /\ ends[x].chan # <<>>
      /\ DropReceiver(x) \/ (SinkNext(x) /\ Head(ends[x].chan).t = "WindowSizeChange")
      /\ DropReceiver(x) \/ Resizes
  <2>1. SinkResize(x) => Resizes
    BY DEF Resizes
  <2>2. QED
    BY <2>1, UnchangedEffect DEF Sink, SinkFail, SinkResize, SinkShutdown, SinkTakes
<1>3. /\ ends'[x].data = ends[x].data /\ ends'[Other(x)] = ends[Other(x)]
      /\ \/ ends'[x].sink = "end"
         \/ /\ ends'[x].chan = Tail(ends[x].chan)
            /\ Head(ends[x].chan).t = "WindowSizeChange" /\ Resizes
  <2> DEFINE e == [ends[x] EXCEPT !.sink = "end", !.chan = <<>>]
             d == [ends[x] EXCEPT !.chan = Tail(@)]
  <2>1. /\ e.sink = "end" /\ e.data = ends[x].data
        /\ d.chan = Tail(ends[x].chan) /\ d.data = ends[x].data
    BY <1>1 DEF EndsOK, EndsType, EndsRecord
  <2>2. \/ ends' = [ends EXCEPT ![x] = e]
        \/ /\ ends' = [ends EXCEPT ![x] = d]
           /\ Head(ends[x].chan).t = "WindowSizeChange" /\ Resizes
    BY <1>2 DEF DropReceiver, SinkNext
  <2> HIDE DEF e, d
  <2>3. /\ \/ ends'[x] = e
           \/ ends'[x] = d /\ Head(ends[x].chan).t = "WindowSizeChange" /\ Resizes
        /\ ends'[Other(x)] = ends[Other(x)]
    BY <1>1, <2>2, Sides DEF EndsOK
  <2>4. QED
    BY <2>1, <2>3
<1>4. ends'[s].data = ends[s].data
  BY <1>1, <1>3
<1>5. CASE x = s \/ ends'[x].sink = "end"
  BY <1>1, <1>2, <1>3, <1>4, <1>5, QuietMoves
<1>6. CASE x = o /\ ends'[x].sink # "end"
  <2>1. Kept(s, {1})
    BY <1>2, <1>4 DEF Kept, JobFor
  <2>2. /\ Places(s)[1] # <<>> /\ Places(s)'[1] = Tail(Places(s)[1])
        /\ Head(Places(s)[1]).t = "WindowSizeChange" /\ Resizes
    BY <1>2, <1>3, <1>6, PlacesNow, PlacesNext
  <2>3. Aside(Head(Places(s)[1]))
    BY <2>2 DEF Aside, Bears
  <2>4. QED
    BY <2>1, <2>2, <2>3, MoveLeaves
<1>7. QED
  BY <1>1, <1>5, <1>6

\* The connection breaks.
LEMMA CutMoves ==
  ASSUME TypeOK, NEW s \in Side, LinkDown
  PROVE  Moves(s)
<1> DEFINE o == Other(s)
<1>1. o \in Side /\ NetOK /\ Cut(s) /\ Cut(o) /\ ends' = ends
  BY Sides, CutEffect DEF TypeOK, LinkDown
<1>2. ReaderGone(o)'
  BY DEF LinkDown, TypeOK, UpOK, ReaderGone, EndGone
<1>3. Kept(s, {5}) /\ (net'[s].wire = net[s].wire \/ net'[s].wire = <<>>)
  BY <1>1 DEF Kept, Cut, Becomes, JobFor
<1>4. Others(Places(s), Places(s)', {5})
  BY <1>3, KeptOthers
<1>5. \A i \in Live(s)' : i < 6 /\ i \in 1 .. 10
  BY <1>2, LiveEnds
<1>6. CASE net'[s].wire = net[s].wire
  <2>1. Kept(s, {})
    BY <1>3, <1>6 DEF Kept
  <2>2. QED
    BY <2>1, MoveLost
<1>7. CASE net'[s].wire = <<>>
  <2>1. Places(s)'[5] = <<>>
    BY <1>7, PlacesNext
  <2>2. QED
    BY <1>4, <1>5, <2>1 DEF Moves, RowMove
<1>8. QED
  BY <1>3, <1>6, <1>7

\* The steps of process::run.
LEMMA ProcMoves ==
  ASSUME TypeOK, NEW s \in Side, Proc
  PROVE  Moves(s)
<1> DEFINE o == Other(s)
<1>1. o \in Side /\ NetOK /\ EndsOK /\ ends \in [Side -> EndsRecord]
  BY Sides DEF TypeOK, EndsOK, EndsType
<1>2. /\ ends'[s].data = ends[s].data
      /\ ends'[o].chan = ends[o].chan \/ ends'[o].sink = "end"
      /\ ProcSink => ends'[o].chan = ends[o].chan
  <2> DEFINE e == [ends["Remote"] EXCEPT !.sink = "end", !.chan = <<>>]
             d == [ends["Remote"] EXCEPT !.sink = "queued"]
  <2>1. /\ e.sink = "end" /\ e.data = ends["Remote"].data
        /\ d.data = ends["Remote"].data /\ d.chan = ends["Remote"].chan
    BY <1>1, Sides DEF EndsRecord
  <2>2. CASE ends' = ends
    BY <2>2
  <2>3. CASE DropReceiver("Remote") /\ ~ProcSink
    <3>1. ends' = [ends EXCEPT !["Remote"] = e]
      BY <2>3 DEF DropReceiver
    <3> HIDE DEF e
    <3>2. QED
      BY <1>1, <2>1, <2>3, <3>1
  <2>4. CASE ProcSink
    <3>1. ends' = [ends EXCEPT !["Remote"] = d]
      BY <2>4 DEF ProcSink
    <3> HIDE DEF d
    <3>2. QED
      BY <1>1, <2>1, <3>1
  <2>5. QED
    BY <2>2, <2>3, <2>4 DEF Proc, ProcSpawn, ProcSpawnFail, ProcSource, ProcReap, ProcExit,
       ProcFail
<1>3. CASE ProcSpawn \/ ProcSpawnFail \/ ProcReap \/ ProcFail
  <2>1. Quiet
    BY <1>3, UnchangedEffect DEF ProcSpawn, ProcSpawnFail, ProcReap, ProcFail
  <2>2. QED
    BY <1>2, <2>1, QuietMoves
<1>4. CASE ProcSink \/ ProcSource \/ ProcExit
  <2>1. PICK c \in {SinkCmd, SourceCmd, Send(F("ProcessExit", 0))} : Sends("Remote", c)
    BY <1>4 DEF ProcSink, ProcSource, ProcExit
  <2>2. c \in Command /\ Aside(Told(c, "Send")) /\ Aside(Told(c, "Recv"))
    <3>1. F("ProcessExit", 0) \in Frame
      BY FrameType, SessionAssumption DEF FrameTypes
    <3>2. QED
      BY <3>1, NoneAside DEF Command, Send, Told, SinkCmd, SourceCmd, Aside, Bears, F
  <2>3. ends'[o].chan = ends[o].chan
    BY <1>2, <1>4 DEF ProcSource, ProcExit
  <2>4. Enqueued("Remote", c)
    BY <1>1, <2>1, SendsEffect, Sides
  <2>5. QED
    BY <1>1, <1>2, <2>2, <2>3, <2>4, EnqueuedMoves, Sides
<1>5. QED
  BY <1>3, <1>4 DEF Proc

\* The steps of the main task, but for the one that sends Spawn.
LEMMA MainStepMoves ==
  ASSUME TypeOK, Inv, NEW s \in Side, Main, ~MainSpawn
  PROVE  Moves(s)
<1> DEFINE o == Other(s)
<1>1. o \in Side /\ NetOK /\ EndsOK /\ ends \in [Side -> EndsRecord]
  BY Sides DEF TypeOK, EndsOK, EndsType
<1>2. /\ ends'[s].data = ends[s].data
      /\ ends'[o].chan = ends[o].chan \/ ends'[o].sink = "end"
      /\ MainSink => ends'[o].chan = ends[o].chan
  <2> DEFINE e == [ends["Local"] EXCEPT !.sink = "end", !.chan = <<>>]
             d(k) == [ends["Local"] EXCEPT !.sink = k]
  <2>1. /\ e.sink = "end" /\ e.data = ends["Local"].data
        /\ \A k : d(k).data = ends["Local"].data /\ d(k).chan = ends["Local"].chan
    BY <1>1, Sides DEF EndsRecord
  <2>2. CASE ends' = ends
    BY <2>2
  <2>3. CASE DropReceiver("Local") /\ ~MainSink
    <3>1. ends' = [ends EXCEPT !["Local"] = e]
      BY <2>3 DEF DropReceiver
    <3> HIDE DEF e
    <3>2. QED
      BY <1>1, <2>1, <2>3, <3>1
  <2>4. CASE MainSink \/ MainRegister
    <3>1. PICK k : ends' = [ends EXCEPT !["Local"] = d(k)]
      BY <2>4 DEF MainSink, MainRegister
    <3> HIDE DEF d
    <3>2. QED
      BY <1>1, <2>1, <3>1
  <2>5. ~MainSink \/ MainSink
    OBVIOUS
  <2>6. QED
    BY <2>2, <2>3, <2>4, <2>5 DEF Main, MainSetEnv, MainEnterFail, MainSize, MainSizeFail,
       MainSource, MainStatus, MainExitPeer, MainExitSelf, MainDone, MainFail
<1>3. CASE \/ MainRegister \/ MainEnterFail \/ MainSize \/ MainSizeFail \/ MainStatus
           \/ MainDone \/ MainFail
  <2>1. Quiet
    BY <1>3, UnchangedEffect DEF MainRegister, MainEnterFail, MainSize, MainSizeFail, MainStatus,
       MainDone, MainFail
  <2>2. QED
    BY <1>2, <2>1, QuietMoves
<1>4. CASE MainSetEnv \/ MainSink \/ MainSource \/ MainExitPeer \/ MainExitSelf
  <2>1. PICK c \in {SinkCmd, SourceCmd, Send(F("SetEnv", 0)), Send(F("Exit", 0)),
                    Recv(F("Exit", 0))} : Sends("Local", c)
    BY <1>4 DEF MainSetEnv, MainSink, MainSource, MainExitPeer, MainExitSelf, MainSends
  <2>2. c \in Command /\ Aside(Told(c, "Send")) /\ Aside(Told(c, "Recv"))
    <3>1. F("SetEnv", 0) \in Frame /\ F("Exit", 0) \in Frame
      <4>1. 0 \in 0 .. NIn + NOut + NResize
        BY SessionAssumption
      <4>2. "SetEnv" \in FrameTypes /\ "Exit" \in FrameTypes
        BY DEF FrameTypes
      <4>3. QED
        BY <4>1, <4>2, FrameType
    <3>2. QED
      BY <3>1, NoneAside DEF Command, Send, Recv, Told, SinkCmd, SourceCmd, Aside, Bears, F
  <2>3. ends'[o].chan = ends[o].chan
    BY <1>2, <1>4 DEF MainSetEnv, MainSource, MainExitPeer, MainExitSelf
  <2>4. Enqueued("Local", c)
    BY <1>1, <2>1, SendsEffect, Sides
  <2>5. QED
    BY <1>1, <1>2, <2>2, <2>3, <2>4, EnqueuedMoves, Sides
<1>5. QED
  BY <1>3, <1>4 DEF Main

\* The window-change task sends sizes, which have no turn.
LEMMA WinchMoves ==
  ASSUME TypeOK, Inv, NEW s \in Side, Winch
  PROVE  Moves(s)
<1>1. NetOK /\ WinchOK /\ ends' = ends
  BY DEF TypeOK, Winch, WinchStart, WinchTake, WinchPush, WinchFail
<1>2. CASE WinchStart \/ WinchTake \/ WinchFail
  <2>1. Quiet
    BY <1>2, UnchangedEffect DEF WinchStart, WinchTake, WinchFail
  <2>2. QED
    BY <1>1, <2>1, QuietMoves
<1>3. CASE WinchPush
  <2>1. winch.hold \in Frame /\ winch.hold.t = "WindowSizeChange"
    BY <1>1, <1>3 DEF WinchPush, WinchOK, Inv, TrafficInv, Origins
  <2>2. /\ Send(winch.hold) \in Command
        /\ Aside(Told(Send(winch.hold), "Send")) /\ Aside(Told(Send(winch.hold), "Recv"))
    BY <1>3, <2>1, NoneAside DEF Command, Send, Told, Aside, Bears, Resizes
  <2>3. Enqueued("Local", Send(winch.hold))
    BY <1>1, <1>3, SendsEffect, Sides DEF WinchPush
  <2>4. QED
    BY <1>1, <2>2, <2>3, EnqueuedMoves, Sides
<1>4. QED
  BY <1>2, <1>3 DEF Winch

\* The steps that give a frame its turn or that take one out, which are told apart.
PutsChunk(s) == IF s = "Local" THEN ReadStdin ELSE ReadChild
TakesChunk(s) == IF s = "Local" THEN WriteChild ELSE WriteStdout
Turns(s) == \/ PutsChunk(s) \/ ReadEnd(s) \/ TakesChunk(s)
            \/ s = "Local" /\ (MainSpawn \/ RouterSpawn("Remote"))

\* Nothing with a turn gets to a router that has no ChannelReceiver yet.
Expected(s) == LET o == Other(s) IN
    Takes(o) /\ Cmd(o).k = "Recv" /\ Cmd(o).f.t \in ChannelData /\ ends[o].sink = "none"
        => ~Bears(Cmd(o).f)

\* The steps of the router.
LEMMA RouterStepMoves ==
  ASSUME TypeOK, Inv, OnceInv, Next, NEW s \in Side, NEW x \in Side, Router(x), ~RouterSpawn(x),
         Expected(s)
  PROVE  Moves(s)
<1> DEFINE o == Other(s)
<1>1. o \in Side /\ (x = s \/ x = o) /\ Other(o) = s /\ s # o /\ NetOK /\ EndsOK
  BY DEF Side, Other, TypeOK
<1>2. ASSUME Takes(x), Pop(x), ends'[s].data = ends[s].data, ends'[o].chan = ends[o].chan,
             Aside(Told(Cmd(x), "Send")), Aside(Told(Cmd(x), "Recv"))
      PROVE  Moves(s)
  <2>1. Popped(x)
    BY <1>1, <1>2, PopEffect
  <2>2. QED
    BY <1>1, <1>2, <2>1, PoppedMoves
<1>3. CASE RouterSetEnv(x) \/ RouterProcessExit(x)
  <2>1. /\ Aside(Told(Cmd(x), "Send")) /\ Aside(Told(Cmd(x), "Recv"))
        /\ Takes(x) /\ Pop(x) /\ ends' = ends
    BY <1>3, NoneAside DEF RouterSetEnv, RouterProcessExit, TakesFrame, Told, Aside, Bears
  <2>2. QED
    BY <1>2, <2>1
<1>4. CASE RouterSource(x) \/ RouterSink(x)
  <2>1. /\ Aside(Told(Cmd(x), "Send")) /\ Aside(Told(Cmd(x), "Recv"))
        /\ Takes(x) /\ Pop(x)
    BY <1>4, NoneAside DEF RouterSource, RouterSink, Told, SourceCmd, SinkCmd
  <2>2. ends'[s].data = ends[s].data /\ ends'[o].chan = ends[o].chan
    <3> DEFINE e == [ends[x] EXCEPT !.source = "read"]
               d == [ends[x] EXCEPT !.sink = "run"]
    <3>1. /\ e.data = ends[x].data /\ e.chan = ends[x].chan
          /\ d.data = ends[x].data /\ d.chan = ends[x].chan
      BY <1>1 DEF EndsOK, EndsType, EndsRecord
    <3>2. ends' = [ends EXCEPT ![x] = e] \/ ends' = [ends EXCEPT ![x] = d]
      BY <1>4 DEF RouterSource, RouterSink
    <3> HIDE DEF e, d
    <3>3. QED
      BY <1>1, <3>1, <3>2 DEF EndsOK
  <2>3. QED
    BY <1>2, <2>1, <2>2
<1>5. CASE RouterLookup(x) /\ Registered(x)
  <2>1. Takes(x) /\ Cmd(x).k = "Recv" /\ PoppedFor(x, "chan") /\ ends' = ends
    BY <1>1, <1>5, PopForEffect DEF RouterLookup, TakesFrame
  <2>2. QED
    BY <2>1, RouterTakesMoves
<1>6. CASE RouterLookup(x) /\ ~Registered(x)
  <2>1. /\ Takes(x) /\ Cmd(x).k = "Recv" /\ Cmd(x).f.t \in ChannelData /\ Pop(x) /\ ends' = ends
        /\ Told(Cmd(x), "Send") = None /\ Told(Cmd(x), "Recv") = Cmd(x).f
    BY <1>6 DEF RouterLookup, TakesFrame, Told
  <2>2. ends[x].sink \in {"none", "end"}
    BY <1>1, <1>6 DEF Registered, EndsOK, EndsType, EndsRecord
  <2>3. Popped(x)
    BY <1>1, <2>1, PopEffect
  <2>4. CASE x = s
    BY <1>1, <2>1, <2>3, <2>4, PoppedMoves, NoneAside
  <2>5. CASE x = o /\ ends[x].sink = "none"
    <3>1. Aside(Cmd(x).f)
      BY <1>6, <2>1, <2>5 DEF Expected, Aside, Resizes, Unheard
    <3>2. QED
      BY <1>1, <2>1, <2>3, <2>5, <3>1, PoppedMoves
  <2>6. CASE x = o /\ ends[x].sink = "end"
    <3>1. Kept(s, {3})
      BY <1>1, <2>1, <2>3, <2>6 DEF Popped, Kept, Still, Becomes, JobFor
    <3>2. QED
      BY <2>1, <2>6, <3>1, MoveLost, LiveEnds
  <2>7. QED
    BY <1>1, <2>2, <2>4, <2>5, <2>6
<1>7. CASE RouterSend(x)
  <2>1. Takes(x) /\ Cmd(x).k = "Send" /\ PoppedFor(x, "peer") /\ ends' = ends
    BY <1>1, <1>7, PopForEffect DEF RouterSend
  <2>2. QED
    BY <2>1, RouterTakesMoves
<1>8. CASE RouterDeliver(x) \/ RouterForward(x)
  BY <1>8, RouterGivesMoves
<1>9. CASE RouterExit(x) \/ RouterFail(x)
  BY <1>9, RouterEndsMoves DEF RouterExit, RouterFail
<1>10. QED
  BY <1>3, <1>4, <1>5, <1>6, <1>7, <1>8, <1>9 DEF Router

\* The steps of the other direction's streams, and of the child.
LEMMA StreamMoves ==
  ASSUME TypeOK, NEW s \in Side, Env \/ ChildReader \/ Writer \/ Shutdown, ~LinkDown, ~Turns(s)
  PROVE  Moves(s)
<1> DEFINE o == Other(s)
<1>1. o \in Side /\ o # s /\ EndsOK /\ (s = "Local" \/ s = "Remote") /\ Other(s) \in Side
      /\ ends \in [Side -> EndsRecord]
  BY Sides DEF TypeOK, EndsOK, EndsType
<1>2. ASSUME UNCHANGED <<net, ends>> PROVE Moves(s)
  BY <1>2, QuietMoves, UnchangedEffect
<1>3. ASSUME Resize \/ ChildIO \/ ChildGoes \/ StderrFail \/ Abort \/ Shutdown PROVE Moves(s)
  BY <1>2, <1>3 DEF Resize, ChildIO, ChildGoes, StderrFail, Abort, Shutdown, RemoteShutdown,
     LocalShutdown, Exits
<1>4. ASSUME NEW f, Reads(o, f) PROVE Moves(s)
  <2>1. Quiet
    BY <1>4, UnchangedEffect DEF Reads
  <2> DEFINE e == [ends[o] EXCEPT !.data = f]
  <2>2. ends' = [ends EXCEPT ![o] = e] /\ e.chan = ends[o].chan
    BY <1>1, <1>4 DEF Reads, EndsRecord
  <2> HIDE DEF e
  <2>3. ends'[o].chan = ends[o].chan /\ ends'[s].data = ends[s].data
    BY <1>1, <2>2
  <2>4. QED
    BY <2>1, <2>3, QuietMoves
<1>5. ASSUME ReadStdin \/ ReadChild \/ \E x \in Side : ReadEnd(x) PROVE Moves(s)
  <2>1. \E f : Reads(o, f)
    BY <1>5, Sides DEF Turns, PutsChunk, ReadStdin, ReadChild, ReadEnd
  <2>2. QED
    BY <1>4, <2>1
<1>6. ASSUME NEW x \in Side, ReadFail(x) PROVE Moves(s)
  <2> DEFINE e == [ends[x] EXCEPT !.source = "end"]
  <2>1. Quiet /\ ends' = [ends EXCEPT ![x] = e]
    BY <1>6, UnchangedEffect DEF ReadFail
  <2>2. e.data = ends[x].data /\ e.chan = ends[x].chan
    BY <1>1 DEF EndsRecord
  <2> HIDE DEF e
  <2>3. ends'[o].chan = ends[o].chan /\ ends'[s].data = ends[s].data
    BY <1>1, <2>1, <2>2
  <2>4. QED
    BY <2>1, <2>3, QuietMoves
<1>7. ASSUME Writer PROVE Moves(s)
  <2>1. \E t : SinkTakes(s, t) /\ SinkNext(s)
    BY <1>7, Sides DEF Writer, WriteStdout, WriteChild, Turns, TakesChunk
  <2>2. Quiet
    BY <2>1, UnchangedEffect DEF SinkTakes
  <2> DEFINE e == [ends[s] EXCEPT !.chan = Tail(@)]
  <2>3. ends' = [ends EXCEPT ![s] = e] /\ e.data = ends[s].data
    BY <1>1, <2>1 DEF SinkNext, EndsRecord
  <2> HIDE DEF e
  <2>4. ends'[o].chan = ends[o].chan /\ ends'[s].data = ends[s].data
    BY <1>1, <2>3
  <2>5. QED
    BY <2>2, <2>4, QuietMoves
<1>8. QED
  BY <1>3, <1>5, <1>6, <1>7, Sides DEF Env, ChildReader

\* All of them.
LEMMA StepMoves ==
  ASSUME TypeOK, Inv, OnceInv, Next, NEW s \in Side, ~Turns(s), Expected(s)
  PROVE  Moves(s)
<1>1. ASSUME NEW x \in Side, RouterSpawn(x) PROVE Moves(s)
  <2>1. x = "Remote" /\ s = "Remote"
    BY <1>1, SpawnTaken, Sides DEF Turns
  <2>2. /\ Takes(x) /\ Popped(x) /\ Cmd(x).k = "Recv"
        /\ ends' = [ends EXCEPT ![x].sink = "held"]
    BY <1>1, PopEffect DEF RouterSpawn, TakesFrame, TypeOK
  <2>3. ends'[s].data = ends[s].data /\ ends'[Other(s)].chan = ends[Other(s)].chan
    BY <2>1, <2>2, Sides DEF TypeOK, EndsOK, EndsType, EndsRecord
  <2>4. Told(Cmd(x), "Send") = None
    BY <2>2 DEF Told
  <2>5. QED
    BY <2>1, <2>2, <2>3, <2>4, PoppedMoves, NoneAside DEF TypeOK
<1>2. ASSUME NEW x \in Side, Router(x) \/ Sender(x) \/ Receiver(x) \/ Source(x) \/ Sink(x)
      PROVE  Moves(s)
  BY <1>1, <1>2, RouterStepMoves, SenderStepMoves, ReceiverStepMoves, SourceStepMoves,
     SinkStepMoves
<1>3. ASSUME Main PROVE Moves(s)
  <2>1. CASE ~MainSpawn
    BY <1>3, <2>1, MainStepMoves
  <2>2. CASE MainSpawn
    <3>1. s = "Remote"
      BY <2>2, Sides DEF Turns
    <3>2. ends' = ends /\ Enqueued("Local", Send(F("Spawn", login.size)))
      BY <2>2, SendsEffect, Sides DEF MainSpawn, MainSends, TypeOK
    <3>3. Told(Send(F("Spawn", login.size)), "Recv") = None
      BY DEF Told, Send
    <3>4. Send(F("Spawn", login.size)) \in Command
      <4>1. login.size \in 0 .. NResize
        BY DEF TypeOK, LoginOK
      <4>2. F("Spawn", login.size) \in Frame
        BY <4>1, LoginFrames
      <4>3. QED
        BY <4>2 DEF Command, Send
    <3>5. QED
      BY <3>1, <3>2, <3>3, <3>4, EnqueuedMoves, NoneAside, Sides DEF TypeOK
  <2>3. QED
    BY <2>1, <2>2
<1>4. QED
  BY <1>2, <1>3, CutMoves, ProcMoves, WinchMoves, StreamMoves DEF Next

-----------------------------------------------------------------------------
(* What each direction carries.                                             *)

\* The row of side s begins where its sink stands and ends where its source does:
\* before Spawn is sent there is nothing in it, once the source is due there is all
\* it has read, and its end at most once.
Fresh == BeforeSpawn \/ ends["Local"].sink = "none"
Begun(s) == \/ s = "Remote" \/ login.at = "source"
            \/ Has(net[s].handler, SourceCmd) \/ ends[s].source # "none"
Base(s) == IF s = "Local" /\ remote.proc = "none" THEN -1 ELSE Len(Got(s))
Limits(s, b) == /\ b <= Total(s) + One(Closed(s))
                /\ Begun(s) /\ ~Closed(s) => b = Total(s)
                /\ s = "Local" /\ Fresh => b = -1
Carried(s) == \E b \in Int : Row(Total(s), Places(s), Live(s), Base(s), b) /\ Limits(s, b)
DataInv == \A s \in Side : Got(s) = Numbered(Len(Got(s))) /\ Carried(s)

\* Which steps count.
LEMMA IoSteps ==
  ASSUME Next
  PROVE  \/ io' = io \/ ReadStdin \/ ReadChild \/ WriteStdout \/ WriteChild \/ ChildIO
         \/ \E x \in Side : SinkShutdown(x)
<1>1. ASSUME NEW x \in Side, Router(x) \/ Sender(x) \/ Receiver(x) \/ Source(x) PROVE io' = io
  BY <1>1 DEF Router, RouterSetEnv, RouterSpawn, RouterLookup, RouterProcessExit, RouterExit,
     RouterSend, RouterSource, RouterSink, RouterDeliver, RouterForward, RouterFail, Sender,
     SenderTake, SenderWrite, SenderFail, SenderDone, Receiver, ReceiverRead, ReceiverEof,
     ReceiverPush, ReceiverFail, Source, SourcePush, SourceFail
<1>2. ASSUME NEW x \in Side, Sink(x) PROVE io' = io \/ SinkShutdown(x)
  BY <1>2 DEF Sink, SinkFail, SinkResize
<1>3. ASSUME Main \/ Winch \/ Proc PROVE io' = io
  BY <1>3 DEF Main, MainSetEnv, MainRegister, MainEnterFail, MainSize, MainSizeFail, MainSink,
     MainSpawn, MainSource, MainStatus, MainExitPeer, MainExitSelf, MainDone, MainFail, Winch,
     WinchStart, WinchTake, WinchPush, WinchFail, Proc, ProcSpawn, ProcSpawnFail, ProcSink,
     ProcSource, ProcReap, ProcExit, ProcFail
<1>4. ASSUME Env \/ ChildReader \/ Writer \/ Shutdown
      PROVE  io' = io \/ ReadStdin \/ ReadChild \/ WriteStdout \/ WriteChild \/ ChildIO
  BY <1>4 DEF Env, ReadEnd, Resize, LinkDown, ChildGoes, StderrFail, Abort, Exits, ChildReader,
     ReadFail, Writer, Shutdown, RemoteShutdown, LocalShutdown
<1>5. QED
  BY <1>1, <1>2, <1>3, <1>4 DEF Next

\* A chunk that is read.
LEMMA ChunkIn ==
  ASSUME TypeOK, NEW s \in Side, PutsChunk(s)
  PROVE  /\ Reads(s, F("Output", Total(s) + 1)) /\ F("Output", Total(s) + 1) \in Frame
         /\ Total(s) \in Nat /\ Total(s)' = Total(s) + 1
         /\ Total(s) + 1 \in 1 .. (IF s = "Local" THEN NIn ELSE NOut)
         /\ Got(s)' = Got(s) /\ Eof(s)' = Eof(s)
<1>1. IoOK /\ NIn \in Nat /\ NOut \in Nat /\ NResize \in Nat
  BY SessionAssumption DEF TypeOK
<1>2. CASE s = "Local"
  <2>1. /\ io.typed \in Nat /\ io.typed < NIn /\ Reads(s, F("Output", io.typed + 1))
        /\ io'.typed = io.typed + 1 /\ io'.inGot = io.inGot /\ io'.inEof = io.inEof
    BY <1>1, <1>2 DEF PutsChunk, ReadStdin, IoOK
  <2>2. io.typed + 1 \in 1 .. NIn /\ io.typed + 1 \in 0 .. NIn + NOut + NResize
    BY <1>1, <2>1
  <2>3. F("Output", io.typed + 1) \in Frame
    BY <2>2, FrameType DEF FrameTypes, ChannelData
  <2>4. QED
    BY <1>2, <2>1, <2>2, <2>3 DEF Total, Got, Eof
<1>3. CASE s = "Remote"
  <2>1. /\ io.outRead \in Nat /\ io.outRead < NOut /\ Reads(s, F("Output", io.outRead + 1))
        /\ io'.outRead = io.outRead + 1 /\ io'.outGot = io.outGot /\ io'.outEof = io.outEof
    BY <1>1, <1>3 DEF PutsChunk, ReadChild, IoOK
  <2>2. io.outRead + 1 \in 1 .. NOut /\ io.outRead + 1 \in 0 .. NIn + NOut + NResize
    BY <1>1, <2>1
  <2>3. F("Output", io.outRead + 1) \in Frame
    BY <2>2, FrameType DEF FrameTypes, ChannelData
  <2>4. QED
    BY <1>3, <2>1, <2>2, <2>3 DEF Total, Got, Eof
<1>4. QED
  BY <1>2, <1>3, Sides

\* A chunk that is written.
LEMMA ChunkOut ==
  ASSUME TypeOK, NEW s \in Side, TakesChunk(s)
  PROVE  /\ SinkTakes(Other(s), "Output") /\ SinkNext(Other(s)) /\ remote' = remote
         /\ Got(s) \in Seq(Nat) /\ Got(s)' = Append(Got(s), SinkValue(Other(s)))
         /\ Total(s)' = Total(s) /\ Eof(s)' = Eof(s)
  BY Sides DEF TakesChunk, WriteChild, WriteStdout, Total, Got, Eof, TypeOK, IoOK

\* What a step counts for either direction.
LEMMA CountSteps ==
  ASSUME TypeOK, Next, NEW s \in Side
  PROVE  /\ Total(s) \in Nat /\ Got(s) \in Seq(Nat)
         /\ Total(s)' = Total(s) \/ PutsChunk(s)
         /\ Got(s)' = Got(s) \/ TakesChunk(s)
         /\ Eof(s)' = Eof(s) \/ SinkShutdown(Other(s))
<1>1. IoOK
  BY DEF TypeOK
<1>2. Total(s) \in Nat /\ Got(s) \in Seq(Nat)
  BY <1>1 DEF IoOK, Total, Got
<1> DEFINE G == /\ Total(s)' = Total(s) \/ PutsChunk(s)
                /\ Got(s)' = Got(s) \/ TakesChunk(s)
                /\ Eof(s)' = Eof(s) \/ SinkShutdown(Other(s))
<1>3. CASE io' = io \/ ChildIO
  BY <1>1, <1>3, SMTT(30) DEF ChildIO, Total, Got, Eof, IoOK
<1>4. CASE ReadStdin \/ ReadChild
  BY <1>1, <1>4, Sides DEF PutsChunk, ReadStdin, ReadChild, Total, Got, Eof, IoOK
<1>5. CASE WriteStdout \/ WriteChild
  BY <1>1, <1>5, Sides, SMTT(30) DEF TakesChunk, WriteStdout, WriteChild, Total, Got, Eof, IoOK
<1>6. ASSUME NEW x \in Side, SinkShutdown(x) PROVE G
  BY <1>1, <1>6, Sides, ZenonT(60) DEF SinkShutdown, Total, Got, Eof, IoOK
<1>7. QED
  BY <1>2, <1>3, <1>4, <1>5, <1>6, IoSteps

\* Nothing has gone out of a row without a number, and none is beyond its end.
LEMMA RowEnds ==
  ASSUME NEW t, NEW P, NEW L, NEW a, NEW b, Row(t, P, L, a, b)
  PROVE  a \in Int /\ b \in Int /\ a <= b
<1>1. PICK c \in Rows : Linked(P, L, t, c) /\ c[0] = a /\ c[10] = b
  BY DEF Row
<1>2. QED
  BY <1>1, RowOrder

\* Until Spawn has been sent the remote router has not taken it.
LEMMA FreshBase ==
  ASSUME TypeOK, DataInv, Fresh
  PROVE  remote.proc = "none" /\ Row(Total("Local"), Places("Local"), Live("Local"), -1, -1)
<1>1. PICK b \in Int : /\ Row(Total("Local"), Places("Local"), Live("Local"), Base("Local"), b)
                       /\ Limits("Local", b)
  BY Sides DEF DataInv, Carried
<1>2. b = -1 /\ Base("Local") <= -1
  BY <1>1, RowEnds DEF Limits
<1>3. Len(Got("Local")) \in Nat
  BY DEF TypeOK, IoOK, Got
<1>4. remote.proc = "none" /\ Base("Local") = -1
  BY <1>2, <1>3 DEF Base
<1>5. QED
  BY <1>1, <1>2, <1>4

\* The first frames of the row, if nothing is nearer to the sink, come right after its
\* beginning.
LEMMA ThirdFirst ==
  ASSUME NEW t \in Nat, NEW P, NEW L, NEW a, NEW b, Row(t, P, L, a, b), Filled(P),
         {1, 2, 3} \subseteq L, P[1] = <<>>, P[2] = <<>>, P[3] # <<>>, Bears(Head(P[3]))
  PROVE  Number(t, Head(P[3])) = a + 1
<1>1. PICK c \in Rows : Linked(P, L, t, c) /\ c[0] = a /\ c[10] = b
  BY DEF Row
<1>2. c[0] \in Int /\ c[1] \in Int /\ c[2] \in Int /\ c[3] \in Int
  BY <1>1, RowPlaces
<1>3. /\ c[0] <= c[1] /\ Carries(t, P[1], c[0], c[1])
      /\ c[1] <= c[2] /\ Carries(t, P[2], c[1], c[2])
      /\ Carries(t, P[3], c[2], c[3])
  <2>1. 1 - 1 = 0 /\ 2 - 1 = 1 /\ 3 - 1 = 2
    OBVIOUS
  <2>2. QED
    BY <1>1, <2>1, RowPlaces
<1>4. c[2] = a
  BY <1>1, <1>2, <1>3, CarriesEmpty
<1>5. P[3] \in Seq(Item)
  BY DEF Filled
<1>6. QED
  BY <1>2, <1>3, <1>4, <1>5, CarriesFirst

\* Until the remote router takes Spawn nothing is nearer to its sink, and it can take it.
LEMMA BeforeSpawned ==
  ASSUME TypeOK, Inv, OnceInv, Takes("Remote"), remote.proc = "none"
  PROVE  /\ {1, 2, 3} \subseteq Live("Local")
         /\ Places("Local")[1] = <<>> /\ Places("Local")[2] = <<>>
         /\ Cmd("Remote").k = "Recv" => /\ Places("Local")[3] # <<>>
                                        /\ Head(Places("Local")[3]) = Cmd("Remote").f
<1>1. /\ ends["Remote"].sink = "none" /\ ends["Remote"].chan = <<>>
      /\ Open("Remote") /\ net["Remote"].job = NoJob /\ net["Remote"].handler # <<>>
  BY DEF Inv, Silent, OnceInv, Takes
<1>2. {1, 2, 3} \subseteq Live("Local")
  BY <1>1, Sides DEF Live
<1>3. Places("Local")[1] = <<>> /\ Places("Local")[2] = <<>>
  <2>1. Other("Local") = "Remote" /\ JobFor("Remote", "chan") = <<>>
    BY <1>1, Sides DEF JobFor, NoJob
  <2>2. /\ Places("Local")[1] = ends[Other("Local")].chan
        /\ Places("Local")[2] = JobFor(Other("Local"), "chan")
    BY PlacesNow
  <2>3. QED
    BY <1>1, <2>1, <2>2
<1>4. ASSUME Cmd("Remote").k = "Recv"
      PROVE  Places("Local")[3] # <<>> /\ Head(Places("Local")[3]) = Cmd("Remote").f
  <2>1. net["Remote"].handler \in Seq(Command)
    BY NetParts, Sides DEF TypeOK
  <2>2. /\ Cmds(net["Remote"].handler, "Recv") # <<>>
        /\ Head(Cmds(net["Remote"].handler, "Recv")) = Told(Cmd("Remote"), "Recv")
    BY <1>1, <2>1, CmdsEnds DEF Cmd
  <2>3. Told(Cmd("Remote"), "Recv") = Cmd("Remote").f
    BY <1>4 DEF Told
  <2>4. QED
    BY <2>2, <2>3, PlacesNow, Sides
<1>5. QED
  BY <1>2, <1>3, <1>4

\* No chunk gets to a router that has no ChannelReceiver yet: Spawn is there first,
\* and nothing is sent to the login process before.
LEMMA AllExpected ==
  ASSUME TypeOK, Inv, OnceInv, DataInv, NEW s \in Side
  PROVE  Expected(s)
<1>1. CASE s = "Remote"
  <2> SUFFICES ASSUME Takes("Local"), Cmd("Local").k = "Recv", ends["Local"].sink = "none"
               PROVE  FALSE
    BY <1>1, Sides DEF Expected
  <2>1. remote.proc = "none"
    BY FreshBase DEF Fresh
  <2>2. Cmd("Local") \in Upward("Local")
    BY <2>1, HeadTailProperties DEF Inv, Silent, Takes, Cmd
  <2>3. QED
    BY <2>2 DEF Upward, Send, SourceCmd, SinkCmd
<1>2. CASE s = "Local"
  <2> SUFFICES ASSUME Takes("Remote"), Cmd("Remote").k = "Recv",
                      Cmd("Remote").f.t \in ChannelData, ends["Remote"].sink = "none",
                      Bears(Cmd("Remote").f)
               PROVE  FALSE
    BY <1>2, Sides DEF Expected
  <2>1. remote.proc = "none"
    BY Sides DEF OnceInv, Once
  <2>2. PICK b \in Int : Row(Total("Local"), Places("Local"), Live("Local"), -1, b)
    BY <2>1, Sides DEF DataInv, Carried, Base
  <2>3. Total("Local") \in Nat /\ Filled(Places("Local"))
    BY PlacesFilled, Sides DEF TypeOK, IoOK, Total
  <2>4. /\ {1, 2, 3} \subseteq Live("Local")
        /\ Places("Local")[1] = <<>> /\ Places("Local")[2] = <<>> /\ Places("Local")[3] # <<>>
        /\ Head(Places("Local")[3]) = Cmd("Remote").f
    BY <2>1, BeforeSpawned
  <2>5. Number(Total("Local"), Cmd("Remote").f) = -1 + 1
    BY <2>2, <2>3, <2>4, ThirdFirst
  <2>6. -1 + 1 = 0
    OBVIOUS
  <2>7. Cmd("Remote").f.t = "Output" \/ Cmd("Remote").f.t = "Shutdown"
    BY DEF ChannelData, Bears
  <2>8. Number(Total("Local"), Cmd("Remote").f) >= 1
    BY <2>3, <2>7 DEF Number
  <2>9. QED
    BY <2>5, <2>6, <2>8
<1>3. QED
  BY <1>1, <1>2, Sides

\* Nothing is read again once the source is closed.
LEMMA StaysClosed ==
  ASSUME TypeOK, Inv, OnceInv, Next, NEW s \in Side
  PROVE  Closed(s) => Closed(s)' /\ ~PutsChunk(s) /\ ~ReadEnd(s)
<1> SUFFICES ASSUME Closed(s) PROVE Closed(s)' /\ ~PutsChunk(s) /\ ~ReadEnd(s)
  OBVIOUS
<1>1. Once(s) /\ SourceStep(s)
  BY EndSteps DEF OnceInv, EndStep
<1>2. F("Shutdown", 0) # None /\ F("Shutdown", 0).t = "Shutdown"
  BY DEF F, None
<1>3. \/ ends[s].source = "end" /\ ends[s].data = None
      \/ ends[s].source = "read" /\ ends[s].data = F("Shutdown", 0)
  BY <1>1, <1>2 DEF Closed, Once
<1>4. ~RouterSource(s)
  <2>1. RouterSource(s) => Has(net[s].handler, SourceCmd)
    BY HasCommands, NetParts DEF RouterSource, Takes, Cmd, TypeOK
  <2>2. QED
    BY <1>1, <1>3, <2>1 DEF Once
<1>5. ends'[s].source = "end" \/ ends'[s].data = F("Shutdown", 0)
  BY <1>1, <1>2, <1>3, <1>4 DEF SourceStep, SourceBecomes
<1>6. ~Reading(s)
  BY <1>2, <1>3 DEF Reading
<1>7. ~PutsChunk(s) /\ ~ReadEnd(s)
  BY <1>6, Sides DEF PutsChunk, ReadStdin, ReadChild, ReadEnd, Reads
<1>8. QED
  BY <1>5, <1>7 DEF Closed

\* Only MainSpawn brings the source of the login process nearer, and nothing undoes it.
LEMMA BegunSteps ==
  ASSUME TypeOK, Inv, OnceInv, Next, NEW s \in Side
  PROVE  /\ Begun(s)' => Begun(s) \/ (s = "Local" /\ MainSpawn)
         /\ Fresh' => Fresh
<1>1. EndStep("Local") /\ SourceStep("Local") /\ SinkStep("Local")
  BY EndSteps, Sides DEF EndStep
<1>2. Fresh' => Fresh
  BY <1>1, SpawnSteps DEF Fresh, SinkStep
<1>3. login'.at = "source" => login.at = "source" \/ MainSpawn
  <2>1. LoginOK
    BY DEF TypeOK
  <2>2. CASE Main
    BY <2>1, <2>2 DEF Main, MainSends, MainAt, MainTo, MainSetEnv, AfterSetEnv, MainRegister,
       MainEnterFail, MainSize, MainSizeFail, MainSink, MainSource, MainStatus, MainExitPeer,
       MainExitSelf, MainDone, MainFail, Entered, Left, LoginOK
  <2>3. CASE \E x \in Side : RouterProcessExit(x)
    BY <2>1, <2>3 DEF RouterProcessExit, LoginOK
  <2>4. CASE PanicHook("Local")
    BY <2>1, <2>4 DEF PanicHook, Left, LoginOK
  <2>5. QED
    BY <2>2, <2>3, <2>4, LoginSteps
<1>4. Has(net'["Local"].handler, SourceCmd)
         => Has(net["Local"].handler, SourceCmd) \/ login.at = "source"
  <2>1. \/ Fewer("Local", SourceCmd)
        \/ Starts("Local", SourceCmd)
    BY HandlerSteps, Sides
  <2>2. Starts("Local", SourceCmd) => login.at = "source"
    BY DEF Starts, SinkCmd, SourceCmd, MainSource, MainSends, MainAt
  <2>3. QED
    BY <2>1, <2>2 DEF Fewer
<1>5. ends'["Local"].source # "none"
         => ends["Local"].source # "none" \/ Has(net["Local"].handler, SourceCmd)
  <2>1. RouterSource("Local") => Has(net["Local"].handler, SourceCmd)
    BY HasCommands, NetParts, Sides DEF RouterSource, Takes, Cmd, TypeOK
  <2>2. Once("Local")
    BY Sides DEF OnceInv
  <2>3. ends["Local"].source = "none" => ends["Local"].data = None
    BY <2>2 DEF Once
  <2>4. QED
    BY <1>1, <2>1, <2>3 DEF SourceStep, SourceBecomes
<1>6. Has(net["Local"].handler, SourceCmd)' <=> Has(net'["Local"].handler, SourceCmd)
  BY DEF Has, SourceCmd
<1>7. Begun("Local")' => Begun("Local") \/ MainSpawn
  BY <1>3, <1>4, <1>5, <1>6, Sides DEF Begun
<1>8. QED
  BY <1>2, <1>7, Sides DEF Begun

\* The limits of the end of a row change only when a chunk is read or Spawn is sent.
LEMMA LimitsKept ==
  ASSUME TypeOK, Inv, OnceInv, Next, NEW s \in Side, ~PutsChunk(s), ~(s = "Local" /\ MainSpawn),
         NEW b \in Int, Limits(s, b)
  PROVE  Limits(s, b)'
<1>1. Total(s)' = Total(s) /\ Total(s) \in Nat
  BY CountSteps
<1>2. Closed(s) => Closed(s)'
  BY StaysClosed
<1>3. (Begun(s)' => Begun(s)) /\ (Fresh' => Fresh)
  BY BegunSteps
<1>4. b <= Total(s) + One(Closed(s)) => b <= Total(s) + One(Closed(s)')
  BY <1>1, <1>2 DEF One
<1>5. QED
  BY <1>1, <1>2, <1>3, <1>4 DEF Limits, One

\* The beginning of a row changes only when a chunk is written or Spawn is taken.
LEMMA BaseKept ==
  ASSUME TypeOK, Inv, Next, NEW s \in Side, ~TakesChunk(s),
         ~(s = "Local" /\ RouterSpawn("Remote"))
  PROVE  Base(s)' = Base(s) /\ Got(s)' = Got(s)
<1>1. Got(s)' = Got(s)
  BY CountSteps
<1>2. s = "Local" => (remote'.proc = "none" <=> remote.proc = "none")
  BY SpawnSteps, Progress
<1>3. QED
  BY <1>1, <1>2 DEF Base

\* A row of the places of side s after a step.
LEMMA CarriedThen ==
  ASSUME NEW s, NEW b \in Int, NEW t, NEW a, Row(t, Places(s)', Live(s)', a, b),
         Total(s)' = t, Base(s)' = a, Limits(s, b)'
  PROVE  Carried(s)'
<1>1. Row(Total(s)', Places(s)', Live(s)', Base(s)', b)
  OBVIOUS
<1>2. Row(Total(s), Places(s), Live(s), Base(s), b)'
  BY <1>1 DEF Row, Linked
<1>3. QED
  BY <1>2 DEF Carried

\* A step that gives no frame its turn and takes none out.
LEMMA MovesCarried ==
  ASSUME TypeOK, Inv, OnceInv, DataInv, Next, NEW s \in Side, ~Turns(s)
  PROVE  Carried(s)' /\ Got(s)' = Got(s)
<1>1. PICK b \in Int : Row(Total(s), Places(s), Live(s), Base(s), b) /\ Limits(s, b)
  BY DEF DataInv, Carried
<1>2. Moves(s) /\ Live(s)' \subseteq Live(s) /\ Filled(Places(s))
  BY StepMoves, AllExpected, LiveShrinks, PlacesFilled DEF TypeOK
<1>3. Total(s) \in Nat /\ Total(s)' = Total(s)
  BY CountSteps DEF Turns
<1>4. Base(s)' = Base(s) /\ Got(s)' = Got(s)
  BY BaseKept DEF Turns
<1>5. Limits(s, b)'
  BY <1>1, LimitsKept DEF Turns
<1>6. Row(Total(s), Places(s)', Live(s)', Base(s), b)
  BY <1>1, <1>2, <1>3, RowMoves DEF Moves
<1>7. QED
  BY <1>3, <1>4, <1>5, <1>6, CarriedThen

\* What the source has read stands in its own place.
LEMMA ReadsJoins ==
  ASSUME EndsOK, NEW s \in Side, NEW f \in Frame, Reads(s, f)
  PROVE  /\ Joins(Places(s), Places(s)', 10, f) /\ f \in Item
         /\ ends[s].source = "read" /\ ends[s].data = None
         /\ ends'[s].source = "read" /\ ends'[s].data = f
<1>1. Other(s) \in Side /\ Other(s) # s
  BY Sides
<1> DEFINE e == [ends[s] EXCEPT !.data = f]
<1>2. /\ ends' = [ends EXCEPT ![s] = e] /\ e.data = f /\ e.source = ends[s].source
      /\ ends[s].source = "read" /\ ends[s].data = None /\ net' = net
  BY DEF Reads, Reading, EndsOK, EndsType, EndsRecord
<1> HIDE DEF e
<1>3. /\ ends'[s].data = f /\ ends'[s].source = "read" /\ ends'[Other(s)] = ends[Other(s)]
  BY <1>1, <1>2 DEF EndsOK
<1>4. Kept(s, {10})
  BY <1>2, <1>3 DEF Kept, JobFor
<1>5. Places(s)[10] = Slot(None) /\ Places(s)'[10] = Slot(f)
  BY <1>2, <1>3, PlacesNow, PlacesNext
<1>6. Places(s)'[10] = Append(Places(s)[10], f)
  BY <1>5, SlotEnds
<1>7. Others(Places(s), Places(s)', {10})
  BY <1>4, KeptOthers
<1>8. QED
  BY <1>2, <1>3, <1>6, <1>7 DEF Joins, Item

\* The source is open, and so the row ends with what it has read.
LEMMA OpenRow ==
  ASSUME TypeOK, DataInv, NEW s \in Side, ends[s].source = "read", ends[s].data = None
  PROVE  /\ Row(Total(s), Places(s), Live(s), Base(s), Total(s))
         /\ Total(s) \in Nat /\ ~(s = "Local" /\ Fresh)
<1>1. PICK b \in Int : Row(Total(s), Places(s), Live(s), Base(s), b) /\ Limits(s, b)
  BY DEF DataInv, Carried
<1>2. ~Closed(s) /\ Begun(s)
  BY DEF Closed, Begun, F, None
<1>3. b = Total(s) /\ Total(s) \in Nat
  BY <1>1, <1>2 DEF Limits, Total, TypeOK, IoOK
<1>4. ~(s = "Local" /\ Fresh)
  BY <1>1, <1>3 DEF Limits
<1>5. QED
  BY <1>1, <1>3, <1>4

\* A chunk is read: it comes after all those before.
LEMMA PutCarried ==
  ASSUME TypeOK, Inv, OnceInv, DataInv, Next, NEW s \in Side, PutsChunk(s)
  PROVE  Carried(s)' /\ Got(s)' = Got(s)
<1>1. PICK t \in Nat : t = Total(s)
  BY ChunkIn
<1> DEFINE f == F("Output", t + 1)
<1>2. /\ Reads(s, f) /\ f \in Frame /\ t \in Nat /\ Total(s)' = t + 1 /\ Got(s)' = Got(s)
      /\ EndsOK
  BY <1>1, ChunkIn DEF TypeOK
<1>3. /\ Joins(Places(s), Places(s)', 10, f) /\ f \in Item
      /\ ends[s].source = "read" /\ ends[s].data = None
  BY <1>2, ReadsJoins
<1>4. Row(t, Places(s), Live(s), Base(s), t) /\ ~(s = "Local" /\ Fresh)
  BY <1>1, <1>3, OpenRow
<1>5. PICK c \in Rows : Linked(Places(s), Live(s), t, c) /\ c[0] = Base(s) /\ c[10] = t
  BY <1>4 DEF Row
<1>6. Filled(Places(s)) /\ Live(s)' \subseteq Live(s) /\ t + 1 \in Nat
  BY <1>2, PlacesFilled, LiveShrinks DEF TypeOK
<1>7. Linked(Places(s), Live(s), t + 1, c)
  BY <1>2, <1>5, <1>6, RowMore
<1>8. f.t = "Output" /\ f.v = t + 1
  BY DEF F
<1>9. Bears(f) /\ Number(t + 1, f) = c[10] + 1
  BY <1>2, <1>5, <1>8 DEF Bears, Number
<1> HIDE DEF f
<1>10. Row(t + 1, Places(s)', Live(s)', c[0], c[10] + 1)
  BY <1>3, <1>6, <1>7, <1>9, RowLast
<1>11. Row(t + 1, Places(s)', Live(s)', Base(s), t + 1) /\ t + 1 \in Int
  BY <1>5, <1>6, <1>10
<1>12. Base(s)' = Base(s)
  <2>1. remote' = remote
    BY <1>2 DEF Reads
  <2>2. QED
    BY <1>2, <2>1 DEF Base
<1>13. ~(s = "Local" /\ Fresh')
  BY <1>4, BegunSteps
<1>14. Limits(s, t + 1)'
  <2>1. t + 1 <= Total(s)' + One(Closed(s)')
    BY <1>2, <1>6 DEF One
  <2>2. QED
    BY <1>2, <1>13, <2>1 DEF Limits, One
<1>15. QED
  BY <1>2, <1>11, <1>12, <1>14, CarriedThen

\* The end is read: it comes after all chunks.
LEMMA EndCarried ==
  ASSUME TypeOK, Inv, OnceInv, DataInv, Next, NEW s \in Side, ReadEnd(s)
  PROVE  Carried(s)' /\ Got(s)' = Got(s)
<1>1. PICK t \in Nat : t = Total(s)
  BY CountSteps
<1> DEFINE f == F("Shutdown", 0)
<1>2. Reads(s, f) /\ io' = io /\ remote' = remote /\ EndsOK
  BY DEF ReadEnd, Reads, TypeOK
<1>3. f \in Frame
  <2>1. 0 \in 0 .. NIn + NOut + NResize
    BY SessionAssumption
  <2>2. QED
    BY <2>1, FrameType DEF FrameTypes, ChannelData
<1>4. /\ Joins(Places(s), Places(s)', 10, f) /\ f \in Item
      /\ ends[s].source = "read" /\ ends[s].data = None
      /\ ends'[s].data = f
  BY <1>2, <1>3, ReadsJoins
<1>5. Row(t, Places(s), Live(s), Base(s), t) /\ ~(s = "Local" /\ Fresh) /\ t \in Nat
  BY <1>1, <1>4, OpenRow
<1>6. PICK c \in Rows : Linked(Places(s), Live(s), t, c) /\ c[0] = Base(s) /\ c[10] = t
  BY <1>5 DEF Row
<1>7. Filled(Places(s)) /\ Live(s)' \subseteq Live(s) /\ t + 1 \in Int
  BY <1>5, PlacesFilled, LiveShrinks DEF TypeOK
<1>8. f.t = "Shutdown"
  BY DEF F
<1>9. Bears(f) /\ Number(t, f) = c[10] + 1
  BY <1>5, <1>6, <1>8 DEF Bears, Number
<1>10. Total(s)' = t /\ Got(s)' = Got(s) /\ Base(s)' = Base(s)
  BY <1>1, <1>2 DEF Total, Got, Base
<1>11. Closed(s)'
  BY <1>4 DEF Closed
<1> HIDE DEF f
<1>12. Row(t, Places(s)', Live(s)', c[0], c[10] + 1)
  BY <1>4, <1>5, <1>6, <1>7, <1>9, RowLast
<1>13. Row(t, Places(s)', Live(s)', Base(s), t + 1)
  BY <1>6, <1>12
<1>14. ~(s = "Local" /\ Fresh')
  BY <1>5, BegunSteps
<1>15. Limits(s, t + 1)'
  <2>1. t + 1 <= Total(s)' + One(Closed(s)')
    BY <1>5, <1>10, <1>11 DEF One
  <2>2. QED
    BY <1>11, <1>14, <2>1 DEF Limits, One
<1>16. QED
  BY <1>7, <1>10, <1>13, <1>15, CarriedThen

\* The first so many chunks.
LEMMA NumberedNext ==
  ASSUME NEW n \in Nat
  PROVE  /\ Numbered(n) \in Seq(Nat) /\ Len(Numbered(n)) = n
         /\ Append(Numbered(n), n + 1) = Numbered(n + 1)
         /\ \A i \in 1 .. n : Numbered(n)[i] = i
<1>1. ASSUME NEW m \in Nat
      PROVE  /\ Numbered(m) \in Seq(Nat) /\ Len(Numbered(m)) = m
             /\ \A i \in 1 .. m : Numbered(m)[i] = i
  BY DEF Numbered
<1> DEFINE a == Append(Numbered(n), n + 1)
           b == Numbered(n + 1)
<1>2. /\ a \in Seq(Nat) /\ Len(a) = n + 1 /\ a[n + 1] = n + 1
      /\ \A i \in 1 .. n : a[i] = i
  BY <1>1, AppendProperties
<1>3. \A i \in 1 .. n + 1 : i \in 1 .. n \/ i = n + 1
  OBVIOUS
<1>4. b \in Seq(Nat) /\ Len(b) = n + 1 /\ \A i \in 1 .. n + 1 : b[i] = i
  BY <1>1
<1> HIDE DEF a, b
<1>5. a = b
  BY <1>2, <1>3, <1>4, SeqEqual
<1>6. QED
  BY <1>1, <1>5 DEF a, b

\* Spawn is sent: nothing was in the row, and nothing has been read.
LEMMA SpawnCarried ==
  ASSUME TypeOK, Inv, OnceInv, DataInv, Next, MainSpawn
  PROVE  Carried("Local")' /\ Got("Local")' = Got("Local")
<1>1. /\ login.at = "spawn" /\ ends' = ends /\ io' = io /\ remote' = remote
      /\ Enqueued("Local", Send(F("Spawn", login.size))) /\ NetOK /\ EndsOK
  BY SendsEffect, Sides DEF MainSpawn, MainSends, MainAt, TypeOK
<1>2. Fresh /\ SourceDue("Local")
  BY <1>1 DEF Fresh, SourceDue, BeforeSpawn
<1>3. PICK t \in Nat : t = Total("Local")
  BY CountSteps, Sides
<1>4. Once("Local")
  BY Sides DEF OnceInv
<1>5. ends["Local"].sink # "none" /\ ends["Local"].data = None /\ t = 0
  BY <1>1, <1>2, <1>3, <1>4 DEF Once
<1> DEFINE f == F("Spawn", login.size)
<1>6. f \in Frame /\ f.t = "Spawn"
  BY LoginFrames DEF TypeOK, LoginOK, F
<1>7. /\ Joins(Places("Local"), Places("Local")', 9, f) /\ f \in Item
      /\ Places("Local")[10] = <<>>
  <2>1. Joins(Places("Local"), Places("Local")', 9, f)
    BY <1>1, <1>6, SendJoins DEF MainSpawn, MainSends
  <2>2. Places("Local")[10] = Slot(ends["Local"].data)
    BY PlacesNow
  <2>3. QED
    BY <1>5, <1>6, <2>1, <2>2, SlotEnds DEF Item
<1>8. remote.proc = "none" /\ Row(t, Places("Local"), Live("Local"), -1, -1)
  BY <1>2, <1>3, FreshBase
<1>9. PICK c \in Rows : Linked(Places("Local"), Live("Local"), t, c) /\ c[0] = -1 /\ c[10] = -1
  BY <1>8 DEF Row
<1>10. Filled(Places("Local")) /\ Live("Local")' \subseteq Live("Local")
  BY <1>1, PlacesFilled, LiveShrinks, Sides
<1> HIDE DEF f
<1>11. Row(t, Places("Local")', Live("Local")', -1, 0)
  BY <1>6, <1>7, <1>9, <1>10, RowOpens
<1>12. Base("Local")' = -1 /\ Total("Local")' = t /\ Got("Local")' = Got("Local")
  BY <1>1, <1>3, <1>8 DEF Base, Total, Got
<1>13. ~Fresh'
  <2>1. login'.at = "source"
    BY DEF MainSpawn, MainSends, MainTo, TypeOK, LoginOK
  <2>2. QED
    BY <1>1, <1>5, <2>1 DEF Fresh, BeforeSpawn
<1>14. Limits("Local", 0)'
  BY <1>5, <1>12, <1>13 DEF Limits, One
<1>15. -1 \in Int /\ 0 \in Int
  OBVIOUS
<1>16. QED
  BY <1>11, <1>12, <1>14, <1>15, CarriedThen

\* Spawn is taken by the remote router.
LEMMA SpawnedCarried ==
  ASSUME TypeOK, Inv, OnceInv, DataInv, Next, RouterSpawn("Remote")
  PROVE  Carried("Local")' /\ Got("Local")' = Got("Local")
<1>1. /\ Takes("Remote") /\ Cmd("Remote").k = "Recv" /\ Cmd("Remote").f.t = "Spawn"
      /\ Popped("Remote") /\ ends' = [ends EXCEPT !["Remote"].sink = "held"]
      /\ io' = io /\ remote'.proc = "spawn" /\ NetOK /\ EndsOK
  BY PopEffect, Sides DEF RouterSpawn, TakesFrame, TypeOK, RemoteOK
<1>2. remote.proc = "none"
  BY SpawnTaken, Sides
<1>3. PICK t \in Nat : t = Total("Local")
  BY CountSteps, Sides
<1>4. PICK b \in Int : /\ Row(t, Places("Local"), Live("Local"), Base("Local"), b)
                       /\ Limits("Local", b)
  BY <1>3, Sides DEF DataInv, Carried
<1>5. PICK c \in Rows : /\ Linked(Places("Local"), Live("Local"), t, c)
                        /\ c[0] = -1 /\ c[10] = b
  BY <1>2, <1>4 DEF Row, Base
<1>6. /\ {1, 2, 3} \subseteq Live("Local")
      /\ Places("Local")[1] = <<>> /\ Places("Local")[2] = <<>> /\ Places("Local")[3] # <<>>
      /\ Head(Places("Local")[3]) = Cmd("Remote").f
  BY <1>1, <1>2, BeforeSpawned
<1>7. Leaves(Places("Local"), Places("Local")', 3)
  <2>1. ends'["Remote"].chan = ends["Remote"].chan /\ ends'["Local"] = ends["Local"]
    BY <1>1, Sides DEF EndsOK, EndsType, EndsRecord
  <2>2. QED
    BY <1>1, <2>1, PoppedLeaves, Sides
<1>8. Filled(Places("Local")) /\ Live("Local")' \subseteq Live("Local")
  BY <1>1, PlacesFilled, LiveShrinks, Sides
<1>9. Row(t, Places("Local")', Live("Local")', 0, c[10])
  BY <1>1, <1>5, <1>6, <1>7, <1>8, RowSpawns
<1>10. Total("Local")' = t /\ Got("Local")' = Got("Local")
  BY <1>1, <1>3 DEF Total, Got
<1>11. Base("Local")' = 0
  <2>1. io.inGot = <<>>
    BY <1>2 DEF OnceInv
  <2>2. QED
    BY <1>1, <2>1 DEF Base, Got
<1>12. ~PutsChunk("Local") /\ ~MainSpawn
  <2>1. ~MainSpawn
    BY <1>1, <1>2 DEF MainSpawn
  <2>2. ~PutsChunk("Local")
    BY <1>10, <1>3, ChunkIn, Sides
  <2>3. QED
    BY <2>1, <2>2
<1>13. Limits("Local", b)'
  BY <1>4, <1>12, LimitsKept, Sides
<1>14. QED
  BY <1>5, <1>9, <1>10, <1>11, <1>13, CarriedThen

\* The frame that a sink takes is the next in turn, and within the limits.
LEMMA SinkHead ==
  ASSUME TypeOK, Inv, OnceInv, DataInv, NEW s \in Side, NEW k \in {"Output", "Shutdown"},
         SinkTakes(Other(s), k)
  PROVE  /\ Base(s) = Len(Got(s)) /\ Places(s)[1] # <<>> /\ 1 \in Live(s)
         /\ Head(Places(s)[1]) = Head(ends[Other(s)].chan) /\ Bears(Head(Places(s)[1]))
         /\ Number(Total(s), Head(Places(s)[1])) = Len(Got(s)) + 1
         /\ Len(Got(s)) + 1 <= Total(s) + One(Closed(s))
<1>1. ends[Other(s)].sink = "run" /\ ends[Other(s)].chan # <<>> /\ Head(ends[Other(s)].chan).t = k
  BY DEF SinkTakes
<1>2. Base(s) = Len(Got(s))
  BY <1>1, Sides DEF Base, Inv, Silent
<1>3. /\ Places(s)[1] = ends[Other(s)].chan /\ Bears(Head(ends[Other(s)].chan))
      /\ 1 \in Live(s)
  BY <1>1, PlacesNow DEF Bears, Live
<1>4. PICK b \in Int : Row(Total(s), Places(s), Live(s), Base(s), b) /\ Limits(s, b)
  BY DEF DataInv, Carried
<1>5. PICK c \in Rows : /\ Linked(Places(s), Live(s), Total(s), c)
                        /\ c[0] = Base(s) /\ c[10] = b
  BY <1>4 DEF Row
<1>6. Total(s) \in Nat /\ Filled(Places(s)) /\ Len(Got(s)) \in Nat
  BY PlacesFilled DEF TypeOK, IoOK, Total, Got
<1>7. c[0] \in Int /\ c[1] \in Int /\ c[1] <= c[10] /\ Carries(Total(s), Places(s)[1], c[0], c[1])
  <2>1. 1 - 1 = 0
    OBVIOUS
  <2>2. QED
    BY <1>3, <1>5, <2>1, RowOrder, RowPlaces
<1>8. Places(s)[1] \in Seq(Item)
  BY <1>6 DEF Filled
<1>9. Number(Total(s), Head(Places(s)[1])) = c[0] + 1 /\ c[0] + 1 <= c[1]
  BY <1>1, <1>3, <1>6, <1>7, <1>8, CarriesFirst
<1>10. b <= Total(s) + One(Closed(s))
  BY <1>4 DEF Limits
<1>11. Len(Got(s)) + 1 <= Total(s) + One(Closed(s))
  <2>1. One(Closed(s)) \in Nat
    BY DEF One
  <2>2. QED
    BY <1>2, <1>5, <1>6, <1>7, <1>9, <1>10, <2>1
<1>12. QED
  BY <1>1, <1>2, <1>3, <1>5, <1>9, <1>11

\* A chunk is written: it is the next one of those that were read.
LEMMA TakeCarried ==
  ASSUME TypeOK, Inv, OnceInv, DataInv, Next, NEW s \in Side, TakesChunk(s)
  PROVE  /\ Carried(s)' /\ Len(Got(s)) + 1 <= Total(s)
         /\ Got(s)' = Append(Got(s), Len(Got(s)) + 1)
<1> DEFINE o == Other(s)
<1>1. /\ SinkTakes(o, "Output") /\ SinkNext(o) /\ remote' = remote
      /\ Got(s) \in Seq(Nat) /\ Got(s)' = Append(Got(s), SinkValue(o))
      /\ Total(s)' = Total(s) /\ o \in Side /\ o # s /\ EndsOK
  BY ChunkOut, Sides DEF TypeOK
<1>2. /\ Base(s) = Len(Got(s)) /\ Places(s)[1] # <<>> /\ 1 \in Live(s)
      /\ Head(Places(s)[1]) = Head(ends[o].chan) /\ Bears(Head(Places(s)[1]))
      /\ Number(Total(s), Head(Places(s)[1])) = Len(Got(s)) + 1
      /\ Len(Got(s)) + 1 <= Total(s) + One(Closed(s))
  BY <1>1, SinkHead
<1>3. PICK t \in Nat : t = Total(s)
  BY CountSteps
<1>4. PICK n \in Nat : n = Len(Got(s))
  BY <1>1
<1>5. Head(ends[o].chan).t = "Output"
  BY <1>1 DEF SinkTakes
<1>6. SinkValue(o) = n + 1 /\ n + 1 <= t
  <2>1. n + 1 <= t + 1
    BY <1>2, <1>3, <1>4 DEF One
  <2>2. Number(t, Head(ends[o].chan)) = n + 1
    BY <1>2, <1>3, <1>4
  <2>3. IF SinkValue(o) \in 1 .. t THEN SinkValue(o) = n + 1 ELSE t + 2 = n + 1
    BY <1>5, <2>2 DEF Number, SinkValue
  <2>4. QED
    BY <2>1, <2>3
<1>7. PICK b \in Int : Row(t, Places(s), Live(s), Base(s), b) /\ Limits(s, b)
  BY <1>3 DEF DataInv, Carried
<1>8. PICK c \in Rows : Linked(Places(s), Live(s), t, c) /\ c[0] = n /\ c[10] = b
  BY <1>2, <1>4, <1>7 DEF Row
<1>9. Leaves(Places(s), Places(s)', 1)
  BY <1>1, SinkLeaves
<1>10. Filled(Places(s)) /\ Live(s)' \subseteq Live(s)
  BY PlacesFilled, LiveShrinks DEF TypeOK
<1>11. Row(t, Places(s)', Live(s)', n + 1, c[10])
  BY <1>2, <1>8, <1>9, <1>10, RowFirst
<1>12. Got(s)' = Append(Got(s), n + 1) /\ Len(Got(s)') = n + 1
  BY <1>1, <1>4, <1>6
<1>13. Base(s)' = n + 1
  <2>1. s = "Local" => remote.proc # "none"
    BY <1>1, Sides DEF SinkTakes, Inv, Silent
  <2>2. QED
    BY <1>1, <1>12, <2>1 DEF Base
<1>14. ~PutsChunk(s) /\ ~(s = "Local" /\ MainSpawn)
  <2>1. ~PutsChunk(s)
    BY <1>1, <1>3, ChunkIn
  <2>2. ~MainSpawn
    BY <1>1, SendsEffect, Sides DEF SinkTakes, MainSpawn, MainSends, MainAt, MainTo, TypeOK, LoginOK
  <2>3. QED
    BY <2>1, <2>2
<1>15. Limits(s, b)'
  BY <1>7, <1>14, LimitsKept
<1>16. Carried(s)'
  BY <1>1, <1>3, <1>8, <1>11, <1>13, <1>15, CarriedThen
<1>17. QED
  BY <1>3, <1>4, <1>6, <1>12, <1>16

\* In every step each direction keeps what it carries.
LEMMA DataStep ==
  ASSUME TypeOK, Inv, OnceInv, DataInv, Next
  PROVE  DataInv'
<1> SUFFICES ASSUME NEW s \in Side PROVE Got(s)' = Numbered(Len(Got(s)')) /\ Carried(s)'
  BY DEF DataInv, Numbered
<1>1. Got(s) = Numbered(Len(Got(s))) /\ Len(Got(s)) \in Nat
  BY CountSteps DEF DataInv
<1>2. CASE ~Turns(s)
  BY <1>1, <1>2, MovesCarried
<1>3. CASE PutsChunk(s)
  BY <1>1, <1>3, PutCarried
<1>4. CASE ReadEnd(s)
  BY <1>1, <1>4, EndCarried
<1>5. CASE TakesChunk(s)
  <2>1. PICK n \in Nat : n = Len(Got(s))
    BY <1>1
  <2>2. Carried(s)' /\ Got(s)' = Append(Numbered(n), n + 1)
    BY <1>1, <1>5, <2>1, TakeCarried
  <2>3. Got(s)' = Numbered(n + 1) /\ Len(Numbered(n + 1)) = n + 1
    <3>1. n + 1 \in Nat
      OBVIOUS
    <3>2. QED
      BY <2>2, <3>1, NumberedNext
  <2>4. QED
    BY <2>2, <2>3
<1>6. CASE s = "Local" /\ (MainSpawn \/ RouterSpawn("Remote"))
  BY <1>1, <1>6, SpawnCarried, SpawnedCarried
<1>7. QED
  BY <1>2, <1>3, <1>4, <1>5, <1>6 DEF Turns

\* Nothing has been read or sent at first.
LEMMA InitData == Init => OnceInv /\ DataInv
<1> SUFFICES ASSUME Init PROVE OnceInv /\ DataInv
  OBVIOUS
<1>1. ASSUME NEW s \in Side
      PROVE  /\ net[s].handler = <<>> /\ net[s].peer = <<>> /\ net[s].wire = <<>>
             /\ net[s].job = NoJob /\ net[s].out = None /\ net[s].in = None
             /\ net[s].router = "run" /\ ends[s].chan = <<>> /\ ends[s].sink = "none"
             /\ ends[s].source = "none" /\ ends[s].data = None
  BY DEF Init
<1>2. ASSUME NEW s \in Side PROVE Total(s) = 0 /\ Got(s) = <<>> /\ Eof(s) = FALSE
  BY DEF Init, Total, Got, Eof
<1>3. login.at = "setenv" /\ remote.proc = "none"
  BY DEF Init
<1>4. OnceInv
  <2>1. ASSUME NEW s \in Side PROVE Once(s)
    <3>1. ~Has(net[s].handler, SinkCmd) /\ ~Has(net[s].handler, SourceCmd)
      BY <1>1 DEF Has
    <3>2. ~SinkDue(s)
      BY <1>3 DEF SinkDue
    <3>3. ~Eof(Other(s)) /\ Open(s)
      BY <1>1, <1>2, Sides DEF Open
    <3>4. None.t # "Shutdown"
      BY DEF None, F
    <3>5. QED
      BY <1>1, <1>2, <1>3, <3>1, <3>2, <3>3, <3>4 DEF Once
  <2>2. QED
    BY <1>1, <2>1, Sides DEF OnceInv, Init
<1>5. ASSUME NEW s \in Side PROVE Got(s) = Numbered(Len(Got(s))) /\ Carried(s)
  <2>1. Got(s) = Numbered(Len(Got(s))) /\ Len(Got(s)) = 0
    <3>1. Numbered(0) = <<>>
      BY NumberedNext, EmptySeq
    <3>2. Got(s) = <<>> /\ Len(<<>>) = 0
      BY <1>2
    <3>3. QED
      BY <3>1, <3>2
  <2>2. PICK a \in Int : a = Base(s) /\ a <= 0 /\ (s = "Local" => a = -1) /\ (s = "Remote" => a = 0)
    BY <1>3, <2>1, Sides DEF Base
  <2>3. \A i \in 1 .. 10 : Places(s)[i] = <<>>
    <3>1. Other(s) \in Side /\ Slot(None) = <<>>
      BY Sides, SlotEnds
    <3>2. \A x \in Side, to \in {"chan", "peer"} : JobFor(x, to) = <<>>
      BY <1>1 DEF JobFor, NoJob
    <3>3. \A k : Cmds(<<>>, k) = <<>>
      BY DEF Cmds
    <3>4. /\ Places(s)[1] = <<>> /\ Places(s)[2] = <<>> /\ Places(s)[3] = <<>>
          /\ Places(s)[4] = <<>> /\ Places(s)[5] = <<>>
      BY <1>1, <3>1, <3>2, <3>3, PlacesNow
    <3>5. /\ Places(s)[6] = <<>> /\ Places(s)[7] = <<>> /\ Places(s)[8] = <<>>
          /\ Places(s)[9] = <<>> /\ Places(s)[10] = <<>>
      BY <1>1, <3>1, <3>2, <3>3, PlacesNow
    <3>6. \A i \in 1 .. 10 : \/ i = 1 \/ i = 2 \/ i = 3 \/ i = 4 \/ i = 5 \/ i = 6 \/ i = 7
                             \/ i = 8 \/ i = 9 \/ i = 10
      OBVIOUS
    <3>7. QED
      BY <3>4, <3>5, <3>6
  <2> DEFINE c == [i \in 0 .. 10 |-> a]
  <2>4. c \in Rows /\ \A i \in 0 .. 10 : c[i] = a
    BY DEF Rows
  <2>5. \A i \in 1 .. 10 : c[i - 1] = a /\ c[i] = a
    BY <2>4
  <2> HIDE DEF c
  <2>6. Linked(Places(s), Live(s), Total(s), c)
    <3>1. \A i \in 1 .. 10 : Carries(Total(s), Places(s)[i], a, a)
      BY <2>3, CarriesEmpty
    <3>2. QED
      BY <2>5, <3>1 DEF Linked
  <2>7. Row(Total(s), Places(s), Live(s), Base(s), a)
    BY <2>2, <2>4, <2>6, RowOf
  <2>8. ~Closed(s) /\ Total(s) = 0
    <3>1. F("Shutdown", 0) # None
      BY DEF None, F
    <3>2. ends[s].source = "none" /\ ends[s].data = None /\ Total(s) = 0
      BY <1>1, <1>2
    <3>3. QED
      BY <3>1, <3>2 DEF Closed
  <2>9. s = "Local" => ~Begun(s)
    BY <1>1, <1>3 DEF Begun, Has
  <2>10. Limits(s, a)
    BY <2>2, <2>8, <2>9, Sides DEF Limits, One
  <2>11. QED
    BY <2>1, <2>7, <2>10 DEF Carried
<1>6. QED
  BY <1>4, <1>5 DEF DataInv

\* A step that changes nothing.
LEMMA StutterData ==
  ASSUME OnceInv, DataInv, UNCHANGED vars
  PROVE  OnceInv' /\ DataInv'
<1> USE DEF vars
<1>1. ASSUME NEW s \in Side PROVE Once(s)'
  <2>1. /\ Has(net[s].handler, SinkCmd)' <=> Has(net[s].handler, SinkCmd)
        /\ Has(net[s].handler, SourceCmd)' <=> Has(net[s].handler, SourceCmd)
        /\ Two(net[s].handler, SinkCmd)' <=> Two(net[s].handler, SinkCmd)
        /\ Two(net[s].handler, SourceCmd)' <=> Two(net[s].handler, SourceCmd)
    BY DEF Has, Two, SinkCmd, SourceCmd
  <2>2. /\ SinkDue(s)' = SinkDue(s) /\ SourceDue(s)' = SourceDue(s) /\ Total(s)' = Total(s)
        /\ Eof(Other(s))' = Eof(Other(s)) /\ Open(s)' = Open(s)
    BY DEF SinkDue, SourceDue, BeforeSpawn, Total, Eof, Open
  <2>3. Once(s)
    BY DEF OnceInv
  <2>4. QED
    BY <2>1, <2>2, <2>3 DEF Once
<1>2. OnceInv'
  BY <1>1 DEF OnceInv
<1>3. ASSUME NEW s \in Side PROVE Got(s)' = Got(s) /\ Carried(s)'
  <2>1. PICK b \in Int : Row(Total(s), Places(s), Live(s), Base(s), b) /\ Limits(s, b)
    BY DEF DataInv, Carried
  <2>2. Total(s)' = Total(s) /\ Got(s)' = Got(s)
    BY DEF Total, Got
  <2>3. Base(s)' = Base(s)
    BY <2>2 DEF Base
  <2>4. Places(s)' = Places(s) /\ Live(s)' = Live(s)
    BY DEF Places, JobFor, Live, Open, ReaderGone, EndGone, Alive
  <2>5. Limits(s, b)'
    <3>1. Has(net[s].handler, SourceCmd)' <=> Has(net[s].handler, SourceCmd)
      BY DEF Has, SourceCmd
    <3>2. Begun(s)' = Begun(s) /\ Closed(s)' = Closed(s) /\ Fresh' = Fresh
      BY <3>1 DEF Begun, Closed, Fresh, BeforeSpawn
    <3>3. QED
      BY <2>1, <2>2, <3>2 DEF Limits
  <2>6. Row(Total(s), Places(s)', Live(s)', Base(s), b)
    BY <2>1, <2>4
  <2>7. QED
    BY <2>1, <2>2, <2>3, <2>5, <2>6, CarriedThen
<1>4. DataInv'
  <2>1. ASSUME NEW s \in Side PROVE Got(s)' = Numbered(Len(Got(s)'))
    BY <1>3 DEF DataInv
  <2>2. QED
    BY <1>3, <2>1 DEF DataInv, Numbered
<1>5. QED
  BY <1>2, <1>4

\* What each direction carries: its chunks stand in order along the row of its ten
\* places, each once, from the one the sink writes next to the last that was read.
THEOREM SessionCarries == Spec => [](OnceInv /\ DataInv)
<1>1. ASSUME TypeOK, Inv, OnceInv /\ DataInv, [Next]_vars PROVE (OnceInv /\ DataInv)'
  <2>1. CASE Next
    BY <1>1, <2>1, OnceStep, DataStep
  <2>2. CASE UNCHANGED vars
    BY <1>1, <2>2, StutterData
  <2>3. QED
    BY <1>1, <2>1, <2>2
<1>2. QED
  BY <1>1, InitData, SessionTypes, SessionInvariant, PTL DEF Spec

-----------------------------------------------------------------------------
(* What it shows: either direction is a FIFO link.                          *)

\* What side s counts when a chunk is put in, the end is put in, a chunk comes out, the
\* end comes out.
Most(s) == IF s = "Local" THEN NIn ELSE NOut
LinkStep(s) ==
    LET t == Total(s)  n == Len(Got(s)) IN
    \/ /\ Total(s)' = t /\ Closed(s)' = Closed(s) /\ Got(s)' = Got(s) /\ Eof(s)' = Eof(s)
    \/ /\ ~Closed(s) /\ t + 1 \in 1 .. Most(s) /\ Total(s)' = t + 1
       /\ Closed(s)' = Closed(s) /\ Got(s)' = Got(s) /\ Eof(s)' = Eof(s)
    \/ /\ ~Closed(s) /\ Closed(s)' = TRUE
       /\ Total(s)' = t /\ Got(s)' = Got(s) /\ Eof(s)' = Eof(s)
    \/ /\ ~Eof(s) /\ n < t /\ Got(s)' = Append(Got(s), n + 1)
       /\ Total(s)' = t /\ Closed(s)' = Closed(s) /\ Eof(s)' = Eof(s)
    \/ /\ Closed(s) /\ n = t /\ ~Eof(s) /\ Eof(s)' = TRUE
       /\ Total(s)' = t /\ Closed(s)' = Closed(s) /\ Got(s)' = Got(s)

\* The end comes out after all chunks that went in.
LEMMA EndOut ==
  ASSUME TypeOK, Inv, OnceInv, DataInv, Next, NEW s \in Side, SinkShutdown(Other(s))
  PROVE  /\ Closed(s) /\ Len(Got(s)) = Total(s) /\ ~Eof(s) /\ Eof(s)' = TRUE
         /\ Total(s)' = Total(s) /\ Got(s)' = Got(s) /\ ends'[s] = ends[s]
<1> DEFINE o == Other(s)
<1>1. o \in Side /\ o # s /\ Other(o) = s /\ EndsOK /\ IoOK
  BY Sides DEF TypeOK
<1>2. SinkTakes(o, "Shutdown") /\ ends[o].sink = "run" /\ Head(ends[o].chan).t = "Shutdown"
  BY DEF SinkShutdown, SinkTakes
<1>3. /\ Head(Places(s)[1]) = Head(ends[o].chan)
      /\ Number(Total(s), Head(Places(s)[1])) = Len(Got(s)) + 1
      /\ Len(Got(s)) + 1 <= Total(s) + One(Closed(s))
  BY <1>2, SinkHead
<1>4. Total(s) \in Nat /\ Len(Got(s)) \in Nat
  BY CountSteps
<1>5. Number(Total(s), Head(ends[o].chan)) = Total(s) + 1
  BY <1>2 DEF Number
<1>6. Len(Got(s)) = Total(s)
  BY <1>3, <1>4, <1>5
<1>7. Closed(s)
  BY <1>3, <1>4, <1>6 DEF One
<1>8. ~Eof(s)
  BY <1>1, <1>2 DEF OnceInv, Once
<1>9. Eof(s)' = TRUE /\ Total(s)' = Total(s) /\ Got(s)' = Got(s)
  <2>1. CASE s = "Local"
    <3>1. io' = [io EXCEPT !.inEof = TRUE]
      BY <2>1, Sides DEF SinkShutdown
    <3>2. QED
      BY <1>1, <2>1, <3>1 DEF IoOK, Eof, Total, Got
  <2>2. CASE s = "Remote"
    <3>1. io' = [io EXCEPT !.outEof = TRUE]
      BY <2>2, Sides DEF SinkShutdown
    <3>2. QED
      BY <1>1, <2>2, <3>1 DEF IoOK, Eof, Total, Got
  <2>3. QED
    BY <2>1, <2>2, Sides
<1>10. ends'[s] = ends[s]
  BY <1>1 DEF SinkShutdown, DropReceiver, EndsOK
<1>11. QED
  BY <1>6, <1>7, <1>8, <1>9, <1>10

\* Every step of the session counts one of them at most, in either direction.
LEMMA LinkSteps ==
  ASSUME TypeOK, Inv, OnceInv, DataInv, Next, NEW s \in Side
  PROVE  LinkStep(s)
<1>1. EndsOK /\ Other(s) \in Side /\ Other(s) # s /\ Other(Other(s)) = s
  BY Sides DEF TypeOK
<1>2. ends'[s] = ends[s] => Closed(s)' = Closed(s)
  BY DEF Closed
<1>3. CASE PutsChunk(s)
  <2>1. /\ Reads(s, F("Output", Total(s) + 1)) /\ F("Output", Total(s) + 1) \in Frame
        /\ Total(s)' = Total(s) + 1 /\ Total(s) + 1 \in 1 .. Most(s)
        /\ Got(s)' = Got(s) /\ Eof(s)' = Eof(s)
    BY <1>3, ChunkIn DEF Most
  <2>2. /\ ends[s].source = "read" /\ ends[s].data = None /\ ends'[s].source = "read"
        /\ ends'[s].data = F("Output", Total(s) + 1)
    BY <1>1, <2>1, ReadsJoins
  <2>3. ~Closed(s) /\ ~Closed(s)'
    <3>1. None # F("Shutdown", 0) /\ \A v : F("Output", v) # F("Shutdown", 0)
      BY DEF None, F
    <3>2. QED
      BY <2>2, <3>1 DEF Closed
  <2>4. Closed(s)' = Closed(s)
    BY <2>3 DEF Closed
  <2>5. QED
    BY <2>1, <2>3, <2>4 DEF LinkStep
<1>4. CASE TakesChunk(s)
  <2>1. /\ SinkTakes(Other(s), "Output") /\ SinkNext(Other(s))
        /\ Total(s)' = Total(s) /\ Eof(s)' = Eof(s)
    BY <1>4, ChunkOut
  <2>2. Got(s)' = Append(Got(s), Len(Got(s)) + 1) /\ Len(Got(s)) + 1 <= Total(s)
    BY <1>4, TakeCarried
  <2>3. Len(Got(s)) < Total(s)
    BY <2>2, CountSteps
  <2>4. ends'[s] = ends[s]
    BY <1>1, <2>1 DEF SinkNext, EndsOK
  <2>5. ~Eof(s)
    BY <1>1, <2>1 DEF SinkTakes, OnceInv, Once
  <2>6. QED
    BY <1>2, <2>1, <2>2, <2>3, <2>4, <2>5 DEF LinkStep
<1>5. CASE SinkShutdown(Other(s))
  BY <1>2, <1>5, EndOut DEF LinkStep
<1>6. CASE ~PutsChunk(s) /\ ~TakesChunk(s) /\ ~SinkShutdown(Other(s))
  <2>1. Total(s)' = Total(s) /\ Got(s)' = Got(s) /\ Eof(s)' = Eof(s)
    BY <1>6, CountSteps
  <2>2. Closed(s) => Closed(s)'
    BY StaysClosed
  <2>3. Closed(s) \in BOOLEAN /\ Closed(s)' \in BOOLEAN
    BY DEF Closed
  <2>4. QED
    BY <2>1, <2>2, <2>3 DEF LinkStep
<1>7. QED
  BY <1>3, <1>4, <1>5, <1>6

\* The steps of FifoLink, of the chunks that side s sends.
PutIn(s) == Numbered(Total(s))
FifoStep(s) ==
    \/ PutIn(s)' = PutIn(s) /\ Closed(s)' = Closed(s) /\ Got(s)' = Got(s) /\ Eof(s)' = Eof(s)
    \/ /\ ~Closed(s) /\ \E d \in 1 .. Most(s) : PutIn(s)' = Append(PutIn(s), d)
       /\ Closed(s)' = Closed(s) /\ Got(s)' = Got(s) /\ Eof(s)' = Eof(s)
    \/ /\ ~Closed(s) /\ Closed(s)' = TRUE
       /\ PutIn(s)' = PutIn(s) /\ Got(s)' = Got(s) /\ Eof(s)' = Eof(s)
    \/ /\ ~Eof(s) /\ Len(Got(s)) < Len(PutIn(s))
       /\ Got(s)' = Append(Got(s), PutIn(s)[Len(Got(s)) + 1])
       /\ PutIn(s)' = PutIn(s) /\ Closed(s)' = Closed(s) /\ Eof(s)' = Eof(s)
    \/ /\ Closed(s) /\ Got(s) = PutIn(s) /\ ~Eof(s) /\ Eof(s)' = TRUE
       /\ PutIn(s)' = PutIn(s) /\ Closed(s)' = Closed(s) /\ Got(s)' = Got(s)

\* So the chunks of either direction make a step of a FIFO link or none.
LEMMA FifoSteps ==
  ASSUME TypeOK, Inv, OnceInv, DataInv, Next, NEW s \in Side
  PROVE  FifoStep(s)
<1>1. PICK t \in Nat, n \in Nat : t = Total(s) /\ n = Len(Got(s))
  BY CountSteps
<1>2. /\ Numbered(t + 1) = Append(Numbered(t), t + 1) /\ Len(Numbered(t)) = t
      /\ \A i \in 1 .. t : Numbered(t)[i] = i
  BY NumberedNext
<1>3. Got(s) = Numbered(n) /\ PutIn(s) = Numbered(t)
  BY <1>1 DEF DataInv, PutIn
<1>4. Total(s)' = t => PutIn(s)' = PutIn(s)
  BY <1>3 DEF PutIn, Numbered
<1>5. Total(s)' = t + 1 => PutIn(s)' = Append(PutIn(s), t + 1)
  BY <1>2, <1>3 DEF PutIn, Numbered
<1>6. n < t => n + 1 \in 1 .. t /\ PutIn(s)[n + 1] = n + 1 /\ n < Len(PutIn(s))
  BY <1>2, <1>3
<1>7. LinkStep(s)
  BY LinkSteps
<1>8. QED
  BY <1>1, <1>3, <1>4, <1>5, <1>6, <1>7 DEF LinkStep, FifoStep

\* At first nothing has been put in.
LEMMA FifoInit ==
  ASSUME Init, NEW s \in Side
  PROVE  PutIn(s) = <<>> /\ Closed(s) = FALSE /\ Got(s) = <<>> /\ Eof(s) = FALSE
<1>1. Numbered(0) = <<>>
  BY NumberedNext, EmptySeq
<1>2. ends[s].source = "none" /\ ends[s].data = None /\ F("Shutdown", 0) # None
  BY DEF Init, None, F
<1>3. Closed(s) = FALSE
  BY <1>2 DEF Closed
<1>4. Total(s) = 0 /\ Got(s) = <<>> /\ Eof(s) = FALSE
  BY DEF Init, Total, Got, Eof
<1>5. QED
  BY <1>1, <1>3, <1>4 DEF PutIn

\* What is typed at the login side reaches the child's stdin in order, each chunk once,
\* and its end after all of it, whatever breaks on the way.
THEOREM SessionStdinIsFifo == Spec => StdinIsFifo
<1>1. Init => InLink!Init
  BY FifoInit, Sides DEF InLink!Init, PutIn, Total, Got, Eof
<1>2. ASSUME TypeOK, Inv, OnceInv /\ DataInv, [Next]_vars PROVE [InLink!Next]_InLink!vars
  <2>1. CASE UNCHANGED vars
    BY <2>1 DEF vars, InLink!vars, Closed, Numbered
  <2>2. CASE Next
    <3>1. FifoStep("Local")
      BY <1>2, <2>2, FifoSteps, Sides
    <3>2. /\ PutIn("Local") = Numbered(io.typed) /\ PutIn("Local")' = Numbered(io.typed)'
          /\ Got("Local") = io.inGot /\ Got("Local")' = io.inGot'
          /\ Eof("Local") = io.inEof /\ Eof("Local")' = io.inEof'
          /\ Most("Local") = NIn
      BY Sides DEF PutIn, Total, Got, Eof, Most
    <3>3. QED
      BY <3>1, <3>2
      DEF FifoStep, InLink!Next, InLink!Put, InLink!Close, InLink!Get, InLink!End, InLink!vars
  <2>3. QED
    BY <1>2, <2>1, <2>2
<1>3. QED
  BY <1>1, <1>2, SessionTypes, SessionInvariant, SessionCarries, PTL
  DEF Spec, StdinIsFifo, InLink!Spec

\* The same of what the child writes and local stdout.
THEOREM SessionStdoutIsFifo == Spec => StdoutIsFifo
<1>1. Init => OutLink!Init
  BY FifoInit, Sides DEF OutLink!Init, PutIn, Total, Got, Eof
<1>2. ASSUME TypeOK, Inv, OnceInv /\ DataInv, [Next]_vars PROVE [OutLink!Next]_OutLink!vars
  <2>1. CASE UNCHANGED vars
    BY <2>1 DEF vars, OutLink!vars, Closed, Numbered
  <2>2. CASE Next
    <3>1. FifoStep("Remote")
      BY <1>2, <2>2, FifoSteps, Sides
    <3>2. /\ PutIn("Remote") = Numbered(io.outRead) /\ PutIn("Remote")' = Numbered(io.outRead)'
          /\ Got("Remote") = io.outGot /\ Got("Remote")' = io.outGot'
          /\ Eof("Remote") = io.outEof /\ Eof("Remote")' = io.outEof'
          /\ Most("Remote") = NOut
      BY Sides DEF PutIn, Total, Got, Eof, Most
    <3>3. QED
      BY <3>1, <3>2
      DEF FifoStep, OutLink!Next, OutLink!Put, OutLink!Close, OutLink!Get, OutLink!End, OutLink!vars
  <2>3. QED
    BY <1>2, <2>1, <2>2
<1>3. QED
  BY <1>1, <1>2, SessionTypes, SessionInvariant, SessionCarries, PTL
  DEF Spec, StdoutIsFifo, OutLink!Spec

-----------------------------------------------------------------------------
(* The size of the terminal in a row of places.                             *)

\* The last size in a row is v: in place p, or what was taken out last in place 0.
Latest(W, size, v) == \E p \in 0 .. 10 : /\ \A i \in p + 1 .. 10 : NoSize(W[i])
                                         /\ IF p = 0 THEN size = v ELSE SizedLast(W[p], v)

\* A row has Spawn; every Spawn of a row has size v.
HasSpawn(W) == \E p \in 1 .. 10 : Holds(W[p])
SpawnIs(q, v) == \A i \in 1 .. Len(q) : q[i].t = "Spawn" => q[i].v = v
Spawns(W, v) == \A p \in 1 .. 10 : SpawnIs(W[p], v)

\* A frame moves on, or one without a size joins or leaves.
SizeMove(W, X) == \/ \A i \in 1 .. 10 : X[i] = W[i]
                  \/ \E p \in 1 .. 9 : Flows(W, X, p)
                  \/ \E p \in 1 .. 10 : Leaves(W, X, p) /\ ~Sized(Head(W[p]))
                  \/ \E p \in 1 .. 10, f \in Item : Joins(W, X, p, f) /\ ~Sized(f)

\* A frame at the end of a place.
LEMMA SizeAppend ==
  ASSUME NEW q \in Seq(Item), NEW f \in Item, NEW v
  PROVE  /\ NoSize(Append(q, f)) <=> NoSize(q) /\ ~Sized(f)
         /\ SizedLast(Append(q, f), v) <=> IF Sized(f) THEN f.v = v ELSE SizedLast(q, v)
         /\ Holds(Append(q, f)) <=> Holds(q) \/ f.t = "Spawn"
         /\ \A i \in 1 .. Len(Append(q, f)) :
                Append(q, f)[i] = f \/ (i \in 1 .. Len(q) /\ Append(q, f)[i] = q[i])
<1> DEFINE r == Append(q, f)
<1>1. /\ Len(r) = Len(q) + 1 /\ Len(q) \in Nat /\ r[Len(q) + 1] = f
      /\ \A i \in 1 .. Len(q) : r[i] = q[i]
  BY AppendProperties, LenProperties
<1> HIDE DEF r
<1>2. \A i \in 1 .. Len(r) : i \in 1 .. Len(q) \/ i = Len(q) + 1
  BY <1>1
<1>3. \A i \in 1 .. Len(q) : i \in 1 .. Len(r)
  BY <1>1
<1>4. Len(q) + 1 \in 1 .. Len(r)
  BY <1>1
<1>5. NoSize(r) <=> NoSize(q) /\ ~Sized(f)
  BY <1>1, <1>2, <1>3, <1>4 DEF NoSize
<1>6. Holds(r) <=> Holds(q) \/ f.t = "Spawn"
  BY <1>1, <1>2, <1>3, <1>4 DEF Holds
<1>7. ASSUME Sized(f) PROVE SizedLast(r, v) <=> f.v = v
  <2>1. ASSUME NEW i \in 1 .. Len(q), \A j \in i + 1 .. Len(r) : ~Sized(r[j]) PROVE FALSE
    <3>1. Len(q) + 1 \in i + 1 .. Len(r)
      BY <1>1
    <3>2. QED
      BY <1>1, <1>7, <2>1, <3>1
  <2>2. \A j \in (Len(q) + 1) + 1 .. Len(r) : ~Sized(r[j])
    BY <1>1
  <2>3. ASSUME f.v = v PROVE SizedLast(r, v)
    <3>1. Len(q) + 1 \in 1 .. Len(r) /\ Sized(r[Len(q) + 1]) /\ r[Len(q) + 1].v = v
      BY <1>1, <1>4, <1>7, <2>3
    <3>2. QED
      BY <2>2, <3>1 DEF SizedLast
  <2>4. ASSUME SizedLast(r, v) PROVE f.v = v
    <3>1. PICK i \in 1 .. Len(r) : /\ Sized(r[i]) /\ r[i].v = v
                                   /\ \A j \in i + 1 .. Len(r) : ~Sized(r[j])
      BY <2>4 DEF SizedLast
    <3>2. i = Len(q) + 1
      BY <1>2, <2>1, <3>1
    <3>3. QED
      BY <1>1, <3>1, <3>2
  <2>5. QED
    BY <2>3, <2>4
<1>8. ASSUME ~Sized(f) PROVE SizedLast(r, v) <=> SizedLast(q, v)
  <2>1. ASSUME NEW i \in 1 .. Len(q)
        PROVE  (\A j \in i + 1 .. Len(r) : ~Sized(r[j])) <=> \A j \in i + 1 .. Len(q) : ~Sized(q[j])
    <3>1. \A j \in i + 1 .. Len(r) : j \in i + 1 .. Len(q) \/ j = Len(q) + 1
      BY <1>1
    <3>2. \A j \in i + 1 .. Len(q) : j \in i + 1 .. Len(r) /\ r[j] = q[j]
      BY <1>1
    <3>3. QED
      BY <1>1, <1>8, <3>1, <3>2
  <2>2. ~Sized(r[Len(q) + 1])
    BY <1>1, <1>8
  <2>3. ASSUME SizedLast(r, v) PROVE SizedLast(q, v)
    <3>1. PICK i \in 1 .. Len(r) : /\ Sized(r[i]) /\ r[i].v = v
                                   /\ \A j \in i + 1 .. Len(r) : ~Sized(r[j])
      BY <2>3 DEF SizedLast
    <3>2. i \in 1 .. Len(q)
      BY <1>2, <2>2, <3>1
    <3>3. Sized(q[i]) /\ q[i].v = v /\ \A j \in i + 1 .. Len(q) : ~Sized(q[j])
      BY <1>1, <2>1, <3>1, <3>2
    <3>4. QED
      BY <3>2, <3>3 DEF SizedLast
  <2>4. ASSUME SizedLast(q, v) PROVE SizedLast(r, v)
    <3>1. PICK i \in 1 .. Len(q) : /\ Sized(q[i]) /\ q[i].v = v
                                   /\ \A j \in i + 1 .. Len(q) : ~Sized(q[j])
      BY <2>4 DEF SizedLast
    <3>2. Sized(r[i]) /\ r[i].v = v /\ \A j \in i + 1 .. Len(r) : ~Sized(r[j])
      BY <1>1, <2>1, <3>1
    <3>3. QED
      BY <1>3, <3>2 DEF SizedLast
  <2>5. QED
    BY <2>3, <2>4
<1>9. QED
  BY <1>1, <1>2, <1>5, <1>6, <1>7, <1>8 DEF r

\* A frame at the head of a place.
LEMMA SizeTail ==
  ASSUME NEW q \in Seq(Item), q # <<>>, NEW v
  PROVE  /\ NoSize(q) <=> ~Sized(Head(q)) /\ NoSize(Tail(q))
         /\ SizedLast(q, v) => \/ SizedLast(Tail(q), v)
                               \/ NoSize(Tail(q)) /\ Sized(Head(q)) /\ Head(q).v = v
         /\ Holds(q) <=> Head(q).t = "Spawn" \/ Holds(Tail(q))
         /\ \A i \in 1 .. Len(Tail(q)) : i + 1 \in 1 .. Len(q) /\ Tail(q)[i] = q[i + 1]
<1> DEFINE r == Tail(q)
<1>1. /\ Len(r) = Len(q) - 1 /\ Len(q) \in Nat /\ Len(q) >= 1 /\ Head(q) = q[1]
      /\ \A i \in 1 .. Len(r) : r[i] = q[i + 1]
  BY HeadTailProperties, LenProperties, EmptySeq
<1> HIDE DEF r
<1>2. \A i \in 1 .. Len(q) : i = 1 \/ (i - 1 \in 1 .. Len(r) /\ r[i - 1] = q[i])
  <2>1. ASSUME NEW i \in 1 .. Len(q), i # 1 PROVE i - 1 \in 1 .. Len(r) /\ r[i - 1] = q[i]
    <3>1. i - 1 \in 1 .. Len(r) /\ (i - 1) + 1 = i
      BY <1>1, <2>1
    <3>2. QED
      BY <1>1, <3>1
  <2>2. QED
    BY <2>1
<1>3. \A i \in 1 .. Len(r) : i + 1 \in 1 .. Len(q) /\ r[i] = q[i + 1]
  BY <1>1
<1>4. 1 \in 1 .. Len(q)
  BY <1>1
<1>5. NoSize(q) <=> ~Sized(Head(q)) /\ NoSize(r)
  BY <1>1, <1>2, <1>3, <1>4 DEF NoSize
<1>6. Holds(q) <=> Head(q).t = "Spawn" \/ Holds(r)
  BY <1>1, <1>2, <1>3, <1>4, SMTT(30) DEF Holds
<1>7. ASSUME SizedLast(q, v)
      PROVE  SizedLast(r, v) \/ (NoSize(r) /\ Sized(Head(q)) /\ Head(q).v = v)
  <2>1. PICK i \in 1 .. Len(q) : /\ Sized(q[i]) /\ q[i].v = v
                                 /\ \A j \in i + 1 .. Len(q) : ~Sized(q[j])
    BY <1>7 DEF SizedLast
  <2>2. CASE i = 1
    <3>1. \A j \in 1 .. Len(r) : j + 1 \in i + 1 .. Len(q)
      BY <1>1, <2>2
    <3>2. NoSize(r)
      BY <1>3, <2>1, <3>1 DEF NoSize
    <3>3. QED
      BY <1>1, <2>1, <2>2, <3>2
  <2>3. CASE i # 1
    <3>1. i - 1 \in 1 .. Len(r) /\ r[i - 1] = q[i]
      BY <1>2, <2>3
    <3>2. \A j \in (i - 1) + 1 .. Len(r) : j + 1 \in i + 1 .. Len(q) /\ r[j] = q[j + 1]
      BY <1>1, <1>3
    <3>3. \A j \in (i - 1) + 1 .. Len(r) : ~Sized(r[j])
      BY <2>1, <3>2
    <3>4. QED
      BY <2>1, <3>1, <3>3 DEF SizedLast
  <2>4. QED
    BY <2>2, <2>3
<1>8. QED
  BY <1>3, <1>5, <1>6, <1>7 DEF r

\* An empty place has no size.
LEMMA SizeEmpty ==
  ASSUME NEW v
  PROVE  NoSize(<<>>) /\ ~SizedLast(<<>>, v) /\ ~Holds(<<>>)
  BY DEF NoSize, SizedLast, Holds

\* Where the last size is.
LEMMA LatestAt ==
  ASSUME NEW W, NEW size, NEW v, NEW p \in 0 .. 10, \A i \in p + 1 .. 10 : NoSize(W[i]),
         IF p = 0 THEN size = v ELSE SizedLast(W[p], v)
  PROVE  Latest(W, size, v)
  BY DEF Latest

\* A place with a size in it is not without one.
LEMMA SizedNotNone ==
  ASSUME NEW q, NEW v, SizedLast(q, v) \/ Holds(q)
  PROVE  ~NoSize(q)
  BY DEF SizedLast, NoSize, Holds, Sized

\* Places that are left alone.
LEMMA LatestOthers ==
  ASSUME NEW W, NEW X, NEW A, Others(W, X, A), NEW p \in 0 .. 10,
         \A i \in p + 1 .. 10 : i \in A => NoSize(X[i]),
         \A i \in p + 1 .. 10 : i \in A \/ NoSize(W[i])
  PROVE  \A i \in p + 1 .. 10 : NoSize(X[i])
<1>1. \A i \in p + 1 .. 10 : i \in 1 .. 10
  OBVIOUS
<1>2. QED
  BY <1>1 DEF Others

\* A frame moves on.
LEMMA LatestFlows ==
  ASSUME NEW W, NEW X, NEW p \in 1 .. 9, Filled(W), Flows(W, X, p), NEW size, NEW v,
         Latest(W, size, v)
  PROVE  Latest(X, size, v)
<1>1. PICK q \in 1 .. 10 : q = p + 1
  OBVIOUS
<1> DEFINE f == Head(W[q])
<1>2. /\ W[p] \in Seq(Item) /\ W[q] \in Seq(Item) /\ W[q] # <<>> /\ f \in Item
      /\ X[p] = Append(W[p], f) /\ X[q] = Tail(W[q]) /\ Others(W, X, {p, q})
  BY <1>1, HeadTailProperties DEF Flows, Filled
<1> HIDE DEF f
<1>3. /\ NoSize(X[p]) <=> NoSize(W[p]) /\ ~Sized(f)
      /\ SizedLast(X[p], v) <=> IF Sized(f) THEN f.v = v ELSE SizedLast(W[p], v)
  <2>1. /\ NoSize(Append(W[p], f)) <=> NoSize(W[p]) /\ ~Sized(f)
        /\ SizedLast(Append(W[p], f), v) <=> IF Sized(f) THEN f.v = v ELSE SizedLast(W[p], v)
    BY <1>2, SizeAppend
  <2>2. QED
    BY <1>2, <2>1
<1>4. /\ NoSize(W[q]) <=> ~Sized(f) /\ NoSize(X[q])
      /\ SizedLast(W[q], v) => SizedLast(X[q], v) \/ (NoSize(X[q]) /\ Sized(f) /\ f.v = v)
  <2>1. LET h == Head(W[q])
            r == Tail(W[q])
        IN  /\ NoSize(W[q]) <=> ~Sized(h) /\ NoSize(r)
            /\ SizedLast(W[q], v) => SizedLast(r, v) \/ (NoSize(r) /\ Sized(h) /\ h.v = v)
    BY <1>2, SizeTail, ZenonT(60)
  <2>2. QED
    BY <1>2, <2>1 DEF f
<1>5. PICK k \in 0 .. 10 : /\ \A i \in k + 1 .. 10 : NoSize(W[i])
                           /\ IF k = 0 THEN size = v ELSE SizedLast(W[k], v)
  BY DEF Latest
<1>6. p \in 0 .. 10 /\ q \in 0 .. 10 /\ p # 0 /\ q # 0
  BY <1>1
<1>7. CASE k > q
  <2>1. \A i \in k + 1 .. 10 : i \notin {p, q}
    BY <1>1, <1>7
  <2>2. k \in 1 .. 10 /\ k \notin {p, q} /\ k # 0
    BY <1>1, <1>7
  <2>3. \A i \in k + 1 .. 10 : NoSize(X[i])
    BY <1>2, <1>5, <2>1, LatestOthers
  <2>4. X[k] = W[k]
    BY <1>2, <2>2 DEF Others
  <2>5. QED
    BY <1>5, <2>2, <2>3, <2>4, LatestAt
<1>8. CASE k = q /\ SizedLast(X[q], v)
  <2>1. \A i \in q + 1 .. 10 : i \notin {p, q}
    BY <1>1
  <2>2. \A i \in q + 1 .. 10 : NoSize(X[i])
    BY <1>2, <1>5, <1>6, <1>8, <2>1, LatestOthers
  <2>3. QED
    BY <1>6, <1>8, <2>2, LatestAt
<1>9. CASE k = q /\ ~SizedLast(X[q], v)
  <2>1. NoSize(X[q]) /\ Sized(f) /\ f.v = v
    BY <1>4, <1>5, <1>6, <1>9
  <2>2. SizedLast(X[p], v)
    BY <1>3, <2>1
  <2>3. \A i \in p + 1 .. 10 : i = q \/ (i \in q + 1 .. 10 /\ i \notin {p, q})
    BY <1>1
  <2>4. \A i \in p + 1 .. 10 : i \in {p, q} => NoSize(X[i])
    BY <2>1, <2>3
  <2>5. \A i \in p + 1 .. 10 : i \in {p, q} \/ NoSize(W[i])
    BY <1>5, <1>9, <2>3
  <2>6. \A i \in p + 1 .. 10 : NoSize(X[i])
    BY <1>2, <1>6, <2>4, <2>5, LatestOthers
  <2>7. QED
    BY <1>6, <2>2, <2>6, LatestAt
<1>10. CASE k < q
  <2>1. q \in k + 1 .. 10 /\ (k = p \/ p \in k + 1 .. 10)
    BY <1>1, <1>10
  <2>2. ~Sized(f) /\ NoSize(X[q])
    BY <1>4, <1>5, <2>1
  <2>3. \A i \in k + 1 .. 10 : i \in {p, q} => NoSize(X[i])
    <3>1. p \in k + 1 .. 10 => NoSize(X[p])
      BY <1>3, <1>5, <2>2
    <3>2. QED
      BY <2>2, <3>1
  <2>4. \A i \in k + 1 .. 10 : NoSize(X[i])
    BY <1>2, <1>5, <2>3, LatestOthers
  <2>5. CASE k = p
    <3>1. SizedLast(X[p], v)
      BY <1>3, <1>5, <1>6, <2>2, <2>5
    <3>2. QED
      BY <1>6, <2>4, <2>5, <3>1, LatestAt
  <2>6. CASE k # p
    <3>1. k # 0 => k \in 1 .. 10 /\ k \notin {p, q}
      BY <1>10, <2>6
    <3>2. k # 0 => X[k] = W[k]
      BY <1>2, <3>1 DEF Others
    <3>3. QED
      BY <1>5, <2>4, <3>2, LatestAt
  <2>7. QED
    BY <2>5, <2>6
<1>11. k > q \/ k = q \/ k < q
  BY <1>1
<1>12. QED
  BY <1>7, <1>8, <1>9, <1>10, <1>11

\* A frame that is not the last one with a size leaves.
LEMMA LatestLeaves ==
  ASSUME NEW W, NEW X, NEW p \in 1 .. 10, Filled(W), Leaves(W, X, p), NEW size, NEW v,
         Latest(W, size, v),
         \/ ~Sized(Head(W[p])) \/ Head(W[p]).v # v
         \/ \E i \in p .. 10 : ~NoSize(X[i])
  PROVE  Latest(X, size, v)
<1> DEFINE f == Head(W[p])
<1>1. W[p] \in Seq(Item) /\ W[p] # <<>> /\ X[p] = Tail(W[p]) /\ Others(W, X, {p})
  BY DEF Leaves, Filled
<1>2. /\ NoSize(W[p]) <=> ~Sized(f) /\ NoSize(X[p])
      /\ SizedLast(W[p], v) => SizedLast(X[p], v) \/ (NoSize(X[p]) /\ Sized(f) /\ f.v = v)
  <2>1. /\ NoSize(W[p]) <=> ~Sized(f) /\ NoSize(Tail(W[p]))
        /\ SizedLast(W[p], v) => \/ SizedLast(Tail(W[p]), v)
                                 \/ NoSize(Tail(W[p])) /\ Sized(f) /\ f.v = v
    BY <1>1, SizeTail
  <2>2. QED
    BY <1>1, <2>1
<1>3. PICK k \in 0 .. 10 : /\ \A i \in k + 1 .. 10 : NoSize(W[i])
                           /\ IF k = 0 THEN size = v ELSE SizedLast(W[k], v)
  BY DEF Latest
<1>4. ~Sized(f) \/ f.v # v \/ \E i \in p .. 10 : ~NoSize(X[i])
  OBVIOUS
<1> HIDE DEF f
<1>5. \A i \in k + 1 .. 10 : i \in {p} => NoSize(X[i])
  BY <1>2, <1>3
<1>6. \A i \in k + 1 .. 10 : NoSize(X[i])
  BY <1>1, <1>3, <1>5, LatestOthers
<1>7. k # 0 => SizedLast(X[k], v)
  <2>1. k # 0 /\ k # p => k \in (1 .. 10) \ {p}
    OBVIOUS
  <2>2. CASE k # 0 /\ k # p
    BY <1>1, <1>3, <2>1, <2>2 DEF Others
  <2>3. CASE k = p /\ ~SizedLast(X[p], v)
    <3>1. NoSize(X[p]) /\ Sized(f) /\ f.v = v
      BY <1>2, <1>3, <2>3
    <3>2. PICK i \in p .. 10 : ~NoSize(X[i])
      BY <1>4, <3>1
    <3>3. i = p \/ i \in k + 1 .. 10
      BY <2>3
    <3>4. QED
      BY <1>6, <3>1, <3>2, <3>3
  <2>4. QED
    BY <2>2, <2>3
<1>8. QED
  BY <1>3, <1>6, <1>7, LatestAt

\* The first size of all leaves.
LEMMA LatestTaken ==
  ASSUME NEW W, NEW X, Filled(W), Leaves(W, X, 1), Sized(Head(W[1])), NEW size, NEW v,
         Latest(W, size, v)
  PROVE  Latest(X, Head(W[1]).v, v)
<1>1. W[1] \in Seq(Item) /\ W[1] # <<>> /\ X[1] = Tail(W[1]) /\ Others(W, X, {1})
  BY DEF Leaves, Filled
<1>2. /\ ~NoSize(W[1])
      /\ SizedLast(W[1], v) => SizedLast(X[1], v) \/ (NoSize(X[1]) /\ Head(W[1]).v = v)
  <2>1. LET h == Head(W[1])
            r == Tail(W[1])
        IN  /\ NoSize(W[1]) <=> ~Sized(h) /\ NoSize(r)
            /\ SizedLast(W[1], v) => SizedLast(r, v) \/ (NoSize(r) /\ Sized(h) /\ h.v = v)
    BY <1>1, SizeTail, SMTT(30)
  <2>2. QED
    BY <1>1, <2>1
<1>3. PICK k \in 0 .. 10 : /\ \A i \in k + 1 .. 10 : NoSize(W[i])
                           /\ IF k = 0 THEN size = v ELSE SizedLast(W[k], v)
  BY DEF Latest
<1>4. k # 0
  <2>1. k = 0 => 1 \in k + 1 .. 10
    OBVIOUS
  <2>2. QED
    BY <1>2, <1>3, <2>1
<1>5. \A i \in k + 1 .. 10 : i \notin {1}
  BY <1>4
<1>6. \A i \in k + 1 .. 10 : NoSize(X[i])
  BY <1>1, <1>3, <1>5, LatestOthers
<1>7. CASE k # 1
  <2>1. k \in (1 .. 10) \ {1}
    BY <1>4, <1>7
  <2>2. X[k] = W[k]
    BY <1>1, <2>1 DEF Others
  <2>3. QED
    BY <1>3, <1>4, <1>6, <2>2, LatestAt
<1>8. CASE k = 1 /\ SizedLast(X[1], v)
  BY <1>6, <1>8, LatestAt
<1>9. CASE k = 1 /\ ~SizedLast(X[1], v)
  <2>1. NoSize(X[1]) /\ Head(W[1]).v = v
    BY <1>2, <1>3, <1>9
  <2>2. \A i \in 0 + 1 .. 10 : i = 1 \/ i \in k + 1 .. 10
    BY <1>9
  <2>3. \A i \in 0 + 1 .. 10 : NoSize(X[i])
    BY <1>6, <2>1, <2>2
  <2>4. QED
    BY <2>1, <2>3, LatestAt
<1>10. QED
  BY <1>7, <1>8, <1>9

\* A frame without a size joins.
LEMMA LatestJoins ==
  ASSUME NEW W, NEW X, NEW p \in 1 .. 10, NEW f \in Item, Filled(W), Joins(W, X, p, f),
         ~Sized(f), NEW size, NEW v, Latest(W, size, v)
  PROVE  Latest(X, size, v)
<1>1. W[p] \in Seq(Item) /\ X[p] = Append(W[p], f) /\ Others(W, X, {p})
  BY DEF Joins, Filled
<1>2. (NoSize(X[p]) <=> NoSize(W[p])) /\ (SizedLast(X[p], v) <=> SizedLast(W[p], v))
  BY <1>1, SizeAppend
<1>3. PICK k \in 0 .. 10 : /\ \A i \in k + 1 .. 10 : NoSize(W[i])
                           /\ IF k = 0 THEN size = v ELSE SizedLast(W[k], v)
  BY DEF Latest
<1>4. \A i \in k + 1 .. 10 : i \in {p} => NoSize(X[i])
  BY <1>2, <1>3
<1>5. \A i \in k + 1 .. 10 : NoSize(X[i])
  BY <1>1, <1>3, <1>4, LatestOthers
<1>6. k # 0 => SizedLast(X[k], v)
  <2>1. k # 0 /\ k # p => k \in (1 .. 10) \ {p}
    OBVIOUS
  <2>2. QED
    BY <1>1, <1>2, <1>3, <2>1 DEF Others
<1>7. QED
  BY <1>3, <1>5, <1>6, LatestAt

\* A new size joins behind all others.
LEMMA LatestNew ==
  ASSUME NEW W, NEW X, NEW f \in Item, Filled(W), Joins(W, X, 10, f), Sized(f), NEW size
  PROVE  Latest(X, size, f.v)
<1>1. W[10] \in Seq(Item) /\ X[10] = Append(W[10], f)
  BY DEF Joins, Filled
<1>2. SizedLast(X[10], f.v)
  BY <1>1, SizeAppend
<1>3. \A i \in 10 + 1 .. 10 : NoSize(X[i])
  OBVIOUS
<1>4. QED
  BY <1>2, <1>3, LatestAt

\* What becomes of Spawn in a row.
LEMMA SpawnLeaves ==
  ASSUME NEW W, NEW X, NEW p \in 1 .. 10, Filled(W), Leaves(W, X, p), NEW v
  PROVE  /\ Spawns(W, v) => Spawns(X, v)
         /\ Head(W[p]).t # "Spawn" /\ HasSpawn(W) => HasSpawn(X)
<1>1. W[p] \in Seq(Item) /\ W[p] # <<>> /\ X[p] = Tail(W[p]) /\ Others(W, X, {p})
  BY DEF Leaves, Filled
<1>2. /\ Holds(W[p]) <=> Head(W[p]).t = "Spawn" \/ Holds(X[p])
      /\ \A i \in 1 .. Len(X[p]) : i + 1 \in 1 .. Len(W[p]) /\ X[p][i] = W[p][i + 1]
  <2>1. /\ Holds(W[p]) <=> Head(W[p]).t = "Spawn" \/ Holds(Tail(W[p]))
        /\ \A i \in 1 .. Len(Tail(W[p])) :
               i + 1 \in 1 .. Len(W[p]) /\ Tail(W[p])[i] = W[p][i + 1]
    BY <1>1, SizeTail
  <2>2. QED
    BY <1>1, <2>1
<1>3. \A q \in 1 .. 10 : q # p => X[q] = W[q]
  BY <1>1 DEF Others
<1>4. ASSUME Spawns(W, v) PROVE Spawns(X, v)
  <2>1. SpawnIs(W[p], v)
    BY <1>4 DEF Spawns
  <2>2. SpawnIs(X[p], v)
    BY <1>2, <2>1 DEF SpawnIs
  <2>3. QED
    BY <1>3, <1>4, <2>2 DEF Spawns
<1>5. ASSUME Head(W[p]).t # "Spawn", HasSpawn(W) PROVE HasSpawn(X)
  BY <1>2, <1>3, <1>5 DEF HasSpawn
<1>6. QED
  BY <1>4, <1>5

LEMMA SpawnJoins ==
  ASSUME NEW W, NEW X, NEW p \in 1 .. 10, NEW f \in Item, Filled(W), Joins(W, X, p, f), NEW v
  PROVE  /\ Spawns(W, v) /\ (f.t = "Spawn" => f.v = v) => Spawns(X, v)
         /\ HasSpawn(W) \/ f.t = "Spawn" => HasSpawn(X)
<1>1. W[p] \in Seq(Item) /\ X[p] = Append(W[p], f) /\ Others(W, X, {p})
  BY DEF Joins, Filled
<1>2. /\ Holds(X[p]) <=> Holds(W[p]) \/ f.t = "Spawn"
      /\ \A i \in 1 .. Len(X[p]) : X[p][i] = f \/ (i \in 1 .. Len(W[p]) /\ X[p][i] = W[p][i])
  <2>1. /\ Holds(Append(W[p], f)) <=> Holds(W[p]) \/ f.t = "Spawn"
        /\ \A i \in 1 .. Len(Append(W[p], f)) :
               Append(W[p], f)[i] = f \/ (i \in 1 .. Len(W[p]) /\ Append(W[p], f)[i] = W[p][i])
    BY <1>1, SizeAppend
  <2>2. QED
    BY <1>1, <2>1
<1>3. \A q \in 1 .. 10 : q # p => X[q] = W[q]
  BY <1>1 DEF Others
<1>4. ASSUME Spawns(W, v), f.t = "Spawn" => f.v = v PROVE Spawns(X, v)
  <2>1. SpawnIs(W[p], v)
    BY <1>4 DEF Spawns
  <2>2. SpawnIs(X[p], v)
    BY <1>2, <1>4, <2>1 DEF SpawnIs
  <2>3. QED
    BY <1>3, <1>4, <2>2 DEF Spawns
<1>5. ASSUME HasSpawn(W) \/ f.t = "Spawn" PROVE HasSpawn(X)
  BY <1>2, <1>3, <1>5 DEF HasSpawn
<1>6. QED
  BY <1>4, <1>5

LEMMA SpawnFlows ==
  ASSUME NEW W, NEW X, NEW p \in 1 .. 9, Filled(W), Flows(W, X, p), NEW v
  PROVE  (Spawns(W, v) => Spawns(X, v)) /\ (HasSpawn(W) => HasSpawn(X))
<1>1. PICK q \in 1 .. 10 : q = p + 1
  OBVIOUS
<1>2. p \in 1 .. 10
  OBVIOUS
<1> DEFINE f == Head(W[q])

<1>3. /\ W[p] \in Seq(Item) /\ W[q] \in Seq(Item) /\ W[q] # <<>> /\ f \in Item
      /\ X[p] = Append(W[p], f) /\ X[q] = Tail(W[q]) /\ Others(W, X, {p, q})
  BY <1>1, <1>2, HeadTailProperties DEF Flows, Filled
<1> HIDE DEF f
<1>4. /\ Holds(X[p]) <=> Holds(W[p]) \/ f.t = "Spawn"
      /\ \A i \in 1 .. Len(X[p]) : X[p][i] = f \/ (i \in 1 .. Len(W[p]) /\ X[p][i] = W[p][i])
  <2>1. /\ Holds(Append(W[p], f)) <=> Holds(W[p]) \/ f.t = "Spawn"
        /\ \A i \in 1 .. Len(Append(W[p], f)) :
               Append(W[p], f)[i] = f \/ (i \in 1 .. Len(W[p]) /\ Append(W[p], f)[i] = W[p][i])
    BY <1>3, SizeAppend
  <2>2. QED
    BY <1>3, <2>1
<1>5. /\ Holds(W[q]) <=> f.t = "Spawn" \/ Holds(X[q])
      /\ \A i \in 1 .. Len(X[q]) : i + 1 \in 1 .. Len(W[q]) /\ X[q][i] = W[q][i + 1]
  <2>1. /\ Holds(W[q]) <=> Head(W[q]).t = "Spawn" \/ Holds(Tail(W[q]))
        /\ \A i \in 1 .. Len(Tail(W[q])) :
               i + 1 \in 1 .. Len(W[q]) /\ Tail(W[q])[i] = W[q][i + 1]
    BY <1>3, SizeTail
  <2>2. QED
    BY <1>3, <2>1 DEF f
<1>6. \A i \in 1 .. 10 : i \in {p, q} \/ X[i] = W[i]
  BY <1>3 DEF Others
<1>7. 1 \in 1 .. Len(W[q]) /\ f = W[q][1]
  BY <1>3, HeadTailProperties, LenProperties, EmptySeq DEF f
<1>8. ASSUME Spawns(W, v) PROVE Spawns(X, v)
  <2>1. SpawnIs(W[p], v) /\ SpawnIs(W[q], v)
    BY <1>2, <1>8 DEF Spawns
  <2>2. f.t = "Spawn" => f.v = v
    BY <1>7, <2>1 DEF SpawnIs
  <2>3. SpawnIs(X[p], v)
    BY <1>4, <2>1, <2>2 DEF SpawnIs
  <2>4. SpawnIs(X[q], v)
    BY <1>5, <2>1 DEF SpawnIs
  <2>5. QED
    BY <1>6, <1>8, <2>3, <2>4 DEF Spawns
<1>9. ASSUME HasSpawn(W) PROVE HasSpawn(X)
  BY <1>2, <1>4, <1>5, <1>6, <1>9 DEF HasSpawn
<1>10. QED
  BY <1>8, <1>9

\* A step that only moves sizes keeps the last one, and Spawn.
LEMMA SizeMoves ==
  ASSUME NEW W, NEW X, Filled(W), SizeMove(W, X), NEW size, NEW v
  PROVE  /\ Latest(W, size, v) => Latest(X, size, v)
         /\ Spawns(W, v) => Spawns(X, v)
         /\ HasSpawn(W) => HasSpawn(X)
<1>1. CASE \A i \in 1 .. 10 : X[i] = W[i]
  <2>1. ASSUME Latest(W, size, v) PROVE Latest(X, size, v)
    <3>1. PICK k \in 0 .. 10 : /\ \A i \in k + 1 .. 10 : NoSize(W[i])
                               /\ IF k = 0 THEN size = v ELSE SizedLast(W[k], v)
      BY <2>1 DEF Latest
    <3>2. (\A i \in k + 1 .. 10 : i \in 1 .. 10) /\ (k # 0 => k \in 1 .. 10)
      OBVIOUS
    <3>3. QED
      BY <1>1, <3>1, <3>2, LatestAt
  <2>2. QED
    BY <1>1, <2>1 DEF Spawns, HasSpawn
<1>2. CASE \E p \in 1 .. 9 : Flows(W, X, p)
  BY <1>2, LatestFlows, SpawnFlows
<1>3. CASE \E p \in 1 .. 10 : Leaves(W, X, p) /\ ~Sized(Head(W[p]))
  <2>1. PICK p \in 1 .. 10 : Leaves(W, X, p) /\ ~Sized(Head(W[p]))
    BY <1>3
  <2>2. Head(W[p]).t # "Spawn"
    BY <2>1 DEF Sized
  <2>3. QED
    BY <2>1, <2>2, LatestLeaves, SpawnLeaves
<1>4. CASE \E p \in 1 .. 10, f \in Item : Joins(W, X, p, f) /\ ~Sized(f)
  <2>1. PICK p \in 1 .. 10, f \in Item : Joins(W, X, p, f) /\ ~Sized(f)
    BY <1>4
  <2>2. f.t # "Spawn"
    BY <2>1 DEF Sized
  <2>3. QED
    BY <2>1, <2>2, LatestJoins, SpawnJoins
<1>5. QED
  BY <1>1, <1>2, <1>3, <1>4 DEF SizeMove

-----------------------------------------------------------------------------
(* The size of the terminal on its way.                                     *)

\* A process is there as long as its main task is in its midst, and the login process's
\* sender as long as its router.
GoneInv == /\ Alive("Remote") \/ ~Open("Remote")
           /\ Alive("Local") \/ login.at \in {"done", "err"} \/ login.term = "hook"
           /\ net["Local"].sender = "done" => ~Open("Local")

\* The session carries sizes: what LateResizeKept is about.
Flowing == ends["Remote"].sink # "end" /\ ~Broken /\ login.at \in {"source", "wait"}

\* The task that heard the last resize, which came late, still runs.
HeardLate == winch.late /\ winch.st = "on"

\* Whatever the size in Spawn is, a late resize came after it was read, and after the
\* window-change task had its signal handler; and the
\* pseudo-terminal has a size from the moment the child runs.
SizeOrder == /\ login.size <= winch.win
             /\ winch.late => /\ ~BeforeSpawn /\ login.size < winch.win
                              /\ winch.st \in {"on", "failed"}
             /\ remote.proc \in {"none", "spawn"} => remote.ptyWin = 0

\* The sizes on the way: Spawn with its own until it has been taken, and the newest last.
SizeRow == Flowing => /\ Spawns(SizesUnderWay, login.size)
                      /\ remote.proc = "none" => HasSpawn(SizesUnderWay)
                      /\ UsePty /\ HeardLate => \/ winch.pending
                                                \/ Latest(SizesUnderWay, remote.ptyWin, winch.win)

SizeInv == GoneInv /\ SizeOrder /\ SizeRow

\* What each step does to what the window-change task and the main task know.
LEMMA SizeSteps ==
  ASSUME TypeOK, Inv, Next
  PROVE  /\ winch' = winch \/ Resize \/ Winch \/ MainRegister
         /\ login'.size = login.size \/ MainSize
         /\ remote'.ptyWin = remote.ptyWin \/ ProcSpawn \/ SinkResize("Remote")
<1>1. LoginOK /\ RemoteOK /\ NetOK
  BY DEF TypeOK
<1>2. ASSUME ~MainSize PROVE login'.size = login.size
  <2>1. CASE Main
    BY <1>1, <1>2, <2>1 DEF Main, MainSends, MainTo, MainSetEnv, MainRegister, MainEnterFail,
       MainSizeFail, MainSink, MainSpawn, MainSource, MainStatus, MainExitPeer, MainExitSelf,
       MainDone, MainFail, Entered, Left, LoginOK
  <2>2. CASE \E s \in Side : RouterProcessExit(s)
    BY <1>1, <2>2 DEF RouterProcessExit, LoginOK
  <2>3. CASE PanicHook("Local")
    BY <1>1, <2>3 DEF PanicHook, Left, LoginOK
  <2>4. QED
    BY <2>1, <2>2, <2>3, LoginSteps
<1>3. ASSUME ~ProcSpawn, ~SinkResize("Remote") PROVE remote'.ptyWin = remote.ptyWin
  <2>1. CASE Proc
    BY <1>1, <1>3, <2>1 DEF Proc, ProcTo, ProcSpawnFail, ProcSink, ProcSource, ProcReap,
       ProcExit, ProcFail, RemoteOK
  <2>2. CASE \E x \in Side : RouterSetEnv(x) \/ RouterSpawn(x) \/ SinkResize(x)
    BY <1>1, <1>3, <2>2, Sides DEF RouterSetEnv, RouterSpawn, SinkResize, RemoteOK
  <2>3. CASE ChildGoes
    BY <1>1, <2>3 DEF ChildGoes, RemoteOK
  <2>4. QED
    BY <2>1, <2>2, <2>3, RemoteSteps
<1>4. QED
  BY <1>2, <1>3, WinchSame

\* The order of sizes stays.
LEMMA SizeOrderStep ==
  ASSUME TypeOK, Inv, OnceInv, SizeOrder, Next
  PROVE  SizeOrder'
<1>1. LoginOK /\ WinchOK /\ RemoteOK /\ NResize \in Nat
  BY SessionAssumption DEF TypeOK
<1>2. /\ login.size \in Nat /\ winch.win \in Nat /\ login.size <= winch.win
      /\ winch.late => /\ ~BeforeSpawn /\ login.size < winch.win
                       /\ winch.st \in {"on", "failed"}
  <2>1. login.size \in 0 .. NResize /\ winch.win \in 0 .. NResize
    BY <1>1 DEF LoginOK, WinchOK
  <2>2. QED
    BY <1>1, <2>1 DEF SizeOrder
<1>3. BeforeSpawn' => BeforeSpawn
  BY SpawnSteps
<1>4. \/ winch' = winch \/ Resize
      \/ /\ winch'.win = winch.win /\ winch'.late = winch.late
         /\ winch'.late => winch'.st \in {"on", "failed"}
  <2>1. CASE Winch
    BY <1>1, <1>2, <2>1 DEF Winch, WinchStart, WinchTake, WinchPush, WinchFail, WinchOK
  <2>2. CASE MainRegister
    BY <1>1, <1>2, <2>2 DEF MainRegister, MainAt, BeforeSpawn, WinchOK
  <2>3. QED
    BY <2>1, <2>2, SizeSteps
<1>5. MainSize => /\ BeforeSpawn /\ winch' = winch
                  /\ login'.size = winch.win \/ login'.size = 0
  BY <1>1 DEF MainSize, MainAt, BeforeSpawn, LoginOK
<1>6. Resize => /\ winch'.win = winch.win + 1 /\ login' = login
                /\ winch'.late => login.at \in {"source", "wait"} /\ winch'.st = "on"
  BY <1>1 DEF Resize, WinchOK
<1>7. login'.size <= winch'.win
  BY <1>2, <1>4, <1>5, <1>6, SizeSteps
<1>8. winch'.late => /\ ~BeforeSpawn' /\ login'.size < winch'.win
                     /\ winch'.st \in {"on", "failed"}
  <2>1. CASE Resize
    <3>1. login.at \in {"source", "wait"} => ~BeforeSpawn'
      BY <1>3 DEF BeforeSpawn
    <3>2. QED
      BY <1>2, <1>6, <2>1, <3>1
  <2>2. CASE ~Resize
    BY <1>2, <1>3, <1>4, <1>5, <2>2, SizeSteps
  <2>3. QED
    BY <2>1, <2>2
<1>9. ASSUME remote'.proc \in {"none", "spawn"} PROVE remote'.ptyWin = 0
  <2>1. ~ProcSpawn
    BY <1>1, <1>9 DEF ProcSpawn, RemoteOK
  <2>2. remote.proc \in {"none", "spawn"}
    <3>1. CASE Proc
      BY <1>1, <1>9, <3>1 DEF Proc, ProcAt, ProcTo, ProcSpawn, ProcSpawnFail, ProcSink, ProcSource,
         ProcReap, ProcExit, ProcFail, RemoteOK
    <3>2. CASE \E x \in Side : RouterSetEnv(x) \/ SinkResize(x)
      BY <1>1, <1>9, <3>2 DEF RouterSetEnv, SinkResize, RemoteOK
    <3>3. CASE \E x \in Side : RouterSpawn(x)
      BY <3>3, SpawnTaken
    <3>4. CASE ChildGoes
      BY <1>1, <1>9, <3>4 DEF ChildGoes, RemoteOK
    <3>5. QED
      BY <1>9, <3>1, <3>2, <3>3, <3>4, RemoteSteps
  <2>3. ~SinkResize("Remote")
    <3>1. ends["Remote"].sink # "run"
      BY <2>2, Sides DEF Inv, Silent, OnceInv, Once, SinkDue
    <3>2. QED
      BY <3>1 DEF SinkResize, SinkTakes
  <2>4. QED
    BY <2>1, <2>2, <2>3, SizeSteps DEF SizeOrder
<1>10. QED
  BY <1>7, <1>8, <1>9 DEF SizeOrder

\* Processes go when they have returned.
LEMMA GoneStep ==
  ASSUME TypeOK, Inv, GoneInv, Next
  PROVE  GoneInv'
<1>1. LoginOK /\ UpOK /\ NetOK
  BY DEF TypeOK
<1>2. (Open("Remote")' => Open("Remote")) /\ (Open("Local")' => Open("Local"))
  BY TasksEnd, Sides
<1>3. Alive("Remote")' \/ ~Open("Remote")'
  <2>1. up'.alive["Remote"] = up.alive["Remote"] \/ RemoteShutdown
    <3>1. CASE up' = up
      BY <3>1
    <3>2. CASE LinkDown \/ LocalShutdown \/ Abort
      BY <1>1, <3>2 DEF LinkDown, LocalShutdown, Abort, Exits, UpOK, Side
    <3>3. up' = up \/ LinkDown \/ Abort \/ Shutdown
      BY UpSteps
    <3>4. QED
      BY <3>1, <3>2, <3>3 DEF Shutdown
  <2>2. QED
    BY <1>2, <2>1 DEF GoneInv, Alive, RemoteShutdown
<1>4. Alive("Local")' \/ login'.at \in {"done", "err"} \/ login'.term = "hook"
  <2>1. CASE ~Alive("Local")
    <3>1. ~Main
      BY <2>1 DEF Main, MainSends, MainAt, MainSetEnv, MainRegister, MainEnterFail, MainSize,
         MainSizeFail, MainSink, MainSpawn, MainSource, MainStatus, MainExitPeer, MainExitSelf,
         MainDone, MainFail, SendFails
    <3>2. login'.at = login.at /\ login'.term = login.term
      BY <1>1, <2>1, <3>1, LoginSteps DEF RouterProcessExit, LoginOK
    <3>3. QED
      BY <2>1, <3>2 DEF GoneInv
  <2>2. CASE Alive("Local") /\ ~Alive("Local")'
    <3>1. LocalShutdown \/ Abort
      BY <1>1, <2>2, LocalEnding DEF Alive
    <3>2. QED
      BY <3>1 DEF LocalShutdown, Abort, Exits
  <2>3. QED
    BY <2>1, <2>2
<1>5. net'["Local"].sender = "done" => ~Open("Local")'
  BY <1>2, TasksEnd, Sides DEF GoneInv
<1>6. QED
  BY <1>3, <1>4, <1>5 DEF GoneInv

\* The places of the sizes are those of the data, but for the last.
LEMMA WayNow ==
  /\ \A i \in 1 .. 9 : SizesUnderWay[i] = Places("Local")[i]
  /\ SizesUnderWay[10] = Slot(winch.hold)
  /\ \A v : LastSize(v) <=> Latest(SizesUnderWay, remote.ptyWin, v)
<1>1. DOMAIN Places("Local") = 1 .. 10
  BY DEF Places
<1>2. /\ \A i \in 1 .. 9 : SizesUnderWay[i] = Places("Local")[i]
      /\ SizesUnderWay[10] = Slot(winch.hold)
  BY <1>1 DEF SizesUnderWay
<1>3. QED
  BY <1>2 DEF LastSize, Latest

\* The same after a step.
LEMMA WayNext ==
  /\ \A i \in 1 .. 9 : SizesUnderWay'[i] = Places("Local")'[i]
  /\ SizesUnderWay'[10] = Slot(winch'.hold)
<1>1. DOMAIN Places("Local")' = 1 .. 10
  BY DEF Places
<1>2. QED
  BY <1>1 DEF SizesUnderWay

LEMMA WayFilled ==
  ASSUME TypeOK
  PROVE  Filled(SizesUnderWay)
<1>1. Filled(Places("Local"))
  BY PlacesFilled, Sides DEF TypeOK
<1>2. winch.hold \in Item
  BY DEF TypeOK, WinchOK, Item
<1>3. Slot(winch.hold) \in Seq(Item)
  BY <1>2, SlotEnds
<1>4. \A i \in 1 .. 10 : i \in 1 .. 9 \/ i = 10
  OBVIOUS
<1>5. QED
  BY <1>1, <1>3, <1>4, WayNow DEF Filled

\* While the session carries sizes every place of them can still reach the sink.
LEMMA AllLive == TypeOK /\ Inv /\ GoneInv /\ Flowing => Live("Local") = 1 .. 10
<1> SUFFICES ASSUME TypeOK, Inv, GoneInv, Flowing PROVE Live("Local") = 1 .. 10
  OBVIOUS
<1>1. /\ up.link /\ login.term = "ok" /\ login.at \in {"source", "wait"}
      /\ \A s \in Side : net[s].router # "failed" /\ net[s].sender # "failed"
  BY DEF Flowing, Broken, Lost
<1>2. \A s \in Side : net[s].router \in TaskState /\ net[s].sender \in TaskState
  BY DEF TypeOK, NetOK, NetType, NetRecord
<1>3. Open("Remote") /\ Open("Local")
  BY <1>1, <1>2, Sides DEF Inv, ExitInv, Leaving, Open, TaskState
<1>4. Alive("Remote") /\ net["Local"].sender = "run"
  BY <1>1, <1>2, <1>3, Sides DEF GoneInv, TaskState
<1>5. ~ReaderGone("Remote")
  BY <1>1, <1>4 DEF ReaderGone, EndGone
<1>6. QED
  BY <1>3, <1>4, <1>5, Sides DEF Live, Flowing

LEMMA AllLiveNext ==
  (TypeOK /\ Inv /\ GoneInv /\ Flowing => Live("Local") = 1 .. 10)'
  BY AllLive, PTL

-----------------------------------------------------------------------------
(* How the sizes move.                                                      *)

\* The source of the login process holds no size.
LEMMA DataUnsized ==
  ASSUME TypeOK, Inv
  PROVE  NoSize(Places("Local")[10])
<1>1. Places("Local")[10] = Slot(ends["Local"].data)
  BY PlacesNow
<1>2. ends["Local"].data = None \/ ~Sized(ends["Local"].data)
  BY Sides DEF Inv, TrafficInv, Origins, Sized
<1>3. \A f \in Item : f = None \/ ~Sized(f) => NoSize(Slot(f))
  BY DEF NoSize, Slot, Sized
<1>4. ends["Local"].data \in Item
  BY EndsParts, Sides DEF TypeOK, Item
<1>5. QED
  BY <1>1, <1>2, <1>3, <1>4

\* A step of the data moves the sizes among it.
LEMMA RowMoveSizes ==
  ASSUME NEW P, NEW Q, NEW W, NEW X, RowMove(P, Q, 1 .. 10, 1 .. 10), ~Resizes,
         Filled(P), NoSize(P[10]), X[10] = W[10],
         \A i \in 1 .. 9 : W[i] = P[i] /\ X[i] = Q[i]
  PROVE  SizeMove(W, X)
<1>1. \A i \in 1 .. 10 : i = 10 \/ i \in 1 .. 9
  OBVIOUS
<1>2. \A f : Aside(f) => ~Sized(f)
  BY DEF Aside, Sized, Bears
<1>3. CASE \A i \in 1 .. 10 : Q[i] = P[i]
  BY <1>1, <1>3 DEF SizeMove
<1>4. CASE \E p \in 1 .. 9 : Flows(P, Q, p)
  <2>1. PICK p \in 1 .. 9 : Flows(P, Q, p)
    BY <1>4
  <2>2. PICK q \in 2 .. 10 : q = p + 1
    OBVIOUS
  <2>3. CASE p = 9
    <3>1. /\ P[10] # <<>> /\ Others(P, Q, {9, 10}) /\ Q[9] = Append(P[9], Head(P[10]))
      BY <2>1, <2>3 DEF Flows
    <3>2. Head(P[10]) \in Item /\ ~Sized(Head(P[10]))
      <4>1. P[10] \in Seq(Item)
        BY DEF Filled
      <4>2. Head(P[10]) \in Item /\ Head(P[10]) = P[10][1] /\ 1 \in 1 .. Len(P[10])
        BY <3>1, <4>1, HeadTailProperties, LenProperties, EmptySeq
      <4>3. QED
        BY <4>2 DEF NoSize
    <3>3. Joins(W, X, 9, Head(P[10]))
      <4>1. \A i \in (1 .. 10) \ {9} : i = 10 \/ (i \in 1 .. 9 /\ i \in (1 .. 10) \ {9, 10})
        OBVIOUS
      <4>2. Others(W, X, {9})
        BY <3>1, <4>1 DEF Others
      <4>3. 9 \in 1 .. 9
        OBVIOUS
      <4>4. QED
        BY <3>1, <4>2, <4>3 DEF Joins
    <3>4. QED
      BY <3>2, <3>3 DEF SizeMove
  <2>4. CASE p # 9
    <3>1. p \in 1 .. 9 /\ q \in 1 .. 9 /\ 10 \notin {p, q}
      BY <2>2, <2>4
    <3>2. Flows(W, X, p)
      BY <1>1, <2>1, <2>2, <3>1 DEF Flows, Others
    <3>3. QED
      BY <3>2 DEF SizeMove
  <2>5. QED
    BY <2>3, <2>4
<1>5. CASE \E p \in 1 .. 10 : Leaves(P, Q, p) /\ Aside(Head(P[p]))
  <2>1. PICK p \in 1 .. 10 : Leaves(P, Q, p) /\ ~Sized(Head(P[p]))
    BY <1>2, <1>5
  <2>2. CASE p = 10
    BY <1>1, <2>1, <2>2 DEF Leaves, Others, SizeMove
  <2>3. CASE p # 10
    <3>1. Leaves(W, X, p) /\ ~Sized(Head(W[p]))
      BY <1>1, <2>1, <2>3 DEF Leaves, Others
    <3>2. QED
      BY <3>1 DEF SizeMove
  <2>4. QED
    BY <2>2, <2>3
<1>6. CASE \E p \in 1 .. 10, f \in Item : Joins(P, Q, p, f) /\ Aside(f)
  <2>1. PICK p \in 1 .. 10, f \in Item : Joins(P, Q, p, f) /\ ~Sized(f)
    BY <1>2, <1>6
  <2>2. CASE p = 10
    BY <1>1, <2>1, <2>2 DEF Joins, Others, SizeMove
  <2>3. CASE p # 10
    <3>1. Joins(W, X, p, f)
      BY <1>1, <2>1, <2>3 DEF Joins, Others
    <3>2. QED
      BY <2>1, <3>1 DEF SizeMove
  <2>4. QED
    BY <2>2, <2>3
<1>7. 6 \in 1 .. 10 /\ ~(6 < 6)
  OBVIOUS
<1>8. QED
  BY <1>3, <1>4, <1>5, <1>6, <1>7 DEF RowMove

\* A step that neither delivers a size nor makes a new one moves those there are.
LEMMA SizesMove ==
  ASSUME TypeOK, Inv, OnceInv, DataInv, GoneInv, Next, TypeOK', Inv', GoneInv',
         Flowing, Flowing', winch'.hold = winch.hold,
         ~SinkResize("Remote"), ~Unheard("Remote"), ~RouterSpawn("Remote")
  PROVE  SizeMove(SizesUnderWay, SizesUnderWay')
<1>1. PICK W, X : W = SizesUnderWay /\ X = SizesUnderWay'
  OBVIOUS
<1>2. PICK P, Q : P = Places("Local") /\ Q = Places("Local")'
  OBVIOUS
<1>3. X[10] = W[10] /\ \A i \in 1 .. 9 : W[i] = P[i] /\ X[i] = Q[i]
  BY <1>1, <1>2, WayNow, WayNext
<1>4. NetOK /\ EndsOK /\ Filled(P) /\ NoSize(P[10])
  BY <1>2, PlacesFilled, DataUnsized, Sides DEF TypeOK
<1>5. \A i \in 1 .. 10 : i = 10 \/ i \in 1 .. 9
  OBVIOUS
<1>6. ASSUME \A i \in 1 .. 9 : Q[i] = P[i] PROVE SizeMove(W, X)
  BY <1>3, <1>5, <1>6 DEF SizeMove
<1>7. ASSUME NEW p \in 1 .. 9, Leaves(P, Q, p), ~Sized(Head(P[p])) PROVE SizeMove(W, X)
  <2>1. Leaves(W, X, p) /\ ~Sized(Head(W[p]))
    BY <1>3, <1>5, <1>7 DEF Leaves, Others
  <2>2. p \in 1 .. 10
    OBVIOUS
  <2>3. QED
    BY <2>1, <2>2 DEF SizeMove
<1>8. CASE SinkResize("Local")
  <2>1. net' = net /\ ends' = [ends EXCEPT !["Local"].chan = Tail(@)]
    BY <1>8 DEF SinkResize, SinkTakes, SinkNext
  <2>2. ends'["Remote"] = ends["Remote"] /\ ends'["Local"].data = ends["Local"].data
    BY <1>4, <2>1, Sides DEF EndsOK, EndsType, EndsRecord
  <2>3. Kept("Local", {})
    BY <2>1, <2>2, Sides DEF Kept, JobFor
  <2>4. Others(P, Q, {})
    BY <1>2, <2>3, KeptOthers
  <2>5. QED
    BY <1>1, <1>6, <2>4 DEF Others
<1>9. CASE Unheard("Local")
  <2>1. Takes("Local") /\ Popped("Local") /\ ends' = ends /\ Cmd("Local").k = "Recv"
    BY <1>4, <1>9, PopEffect, Sides DEF Unheard, RouterLookup, TakesFrame
  <2>2. Leaves(P, Q, 9) /\ Head(P[9]) = Told(Cmd("Local"), "Send")
    BY <1>2, <1>4, <2>1, PoppedLeaves, Sides
  <2>3. ~Sized(Head(P[9])) /\ 9 \in 1 .. 9
    BY <2>1, <2>2 DEF Told, Sized, None, F
  <2>4. QED
    BY <1>1, <1>7, <2>2, <2>3
<1>10. CASE ReadStdin \/ ReadEnd("Local")
  <2>1. \E f \in Frame : Reads("Local", f)
    <3>1. ReadStdin => PutsChunk("Local")
      BY DEF PutsChunk
    <3>2. F("Shutdown", 0) \in Frame
      BY FrameType, SessionAssumption DEF FrameTypes, ChannelData
    <3>3. QED
      BY <1>10, <3>1, <3>2, ChunkIn, Sides DEF ReadEnd
  <2>2. Others(P, Q, {10})
    BY <1>2, <1>4, <2>1, ReadsJoins, Sides DEF Joins
  <2>3. \A i \in 1 .. 9 : i \in (1 .. 10) \ {10}
    OBVIOUS
  <2>4. QED
    BY <1>1, <1>6, <2>2, <2>3 DEF Others
<1>11. CASE WriteChild
  <2>1. SinkTakes("Remote", "Output") /\ SinkNext("Remote")
    BY <1>11 DEF WriteChild
  <2>2. Leaves(P, Q, 1) /\ Head(P[1]).t = "Output"
    BY <1>2, <1>4, <2>1, SinkLeaves, Sides
  <2>3. ~Sized(Head(P[1])) /\ 1 \in 1 .. 9
    BY <2>2 DEF Sized
  <2>4. QED
    BY <1>1, <1>7, <2>2, <2>3
<1>12. CASE ~SinkResize("Local") /\ ~Unheard("Local") /\ ~ReadStdin /\ ~ReadEnd("Local")
            /\ ~WriteChild
  <2>1. ~WinchPush
    BY DEF WinchPush, TypeOK, WinchOK
  <2>2. ~Resizes
    BY <1>12, <2>1, Sides DEF Resizes
  <2>3. ~MainSpawn
    BY DEF Flowing, MainSpawn, MainSends, MainAt
  <2>4. ~Turns("Local")
    BY <1>12, <2>3 DEF Turns, PutsChunk, TakesChunk
  <2>5. Moves("Local")
    BY <2>4, AllExpected, StepMoves, Sides
  <2>6. Live("Local") = 1 .. 10 /\ Live("Local")' = 1 .. 10
    BY AllLive, AllLiveNext
  <2>7. RowMove(P, Q, 1 .. 10, 1 .. 10)
    BY <1>2, <2>5, <2>6 DEF Moves
  <2>8. QED
    BY <1>1, <1>3, <1>4, <2>2, <2>7, RowMoveSizes
<1>13. QED
  BY <1>8, <1>9, <1>10, <1>11, <1>12

\* What SizeRow says of a row X in the state after a step.
RowThen(X) == /\ Spawns(X, login'.size)
              /\ remote'.proc = "none" => HasSpawn(X)
              /\ UsePty /\ HeardLate' => \/ winch'.pending
                                         \/ Latest(X, remote'.ptyWin, winch'.win)

\* Nothing but what is sent, taken or applied matters to it.
LEMMA SizesKept ==
  ASSUME TypeOK, Inv, SizeInv, Next, Flowing, Flowing',
         SizeMove(SizesUnderWay, SizesUnderWay'), winch'.hold = winch.hold,
         ~SinkResize("Remote"), ~RouterSpawn("Remote")
  PROVE  RowThen(SizesUnderWay')
<1>1. PICK W, X : W = SizesUnderWay /\ X = SizesUnderWay'
  OBVIOUS
<1>2. LoginOK /\ WinchOK /\ RemoteOK /\ Filled(W) /\ SizeMove(W, X)
  BY <1>1, WayFilled DEF TypeOK
<1>3. login'.size = login.size /\ ~MainRegister
  BY SizeSteps DEF Flowing, MainSize, MainRegister, MainAt
<1>4. /\ Spawns(W, login.size) /\ (remote.proc = "none" => HasSpawn(W))
      /\ UsePty /\ HeardLate => winch.pending \/ Latest(W, remote.ptyWin, winch.win)
  BY <1>1 DEF SizeInv, SizeRow
<1>5. Spawns(X, login'.size) /\ (remote'.proc = "none" => HasSpawn(X))
  BY <1>2, <1>3, <1>4, SizeMoves, SpawnSteps, Progress
<1>6. ASSUME UsePty, HeardLate' PROVE winch'.pending \/ Latest(X, remote'.ptyWin, winch'.win)
  <2>1. CASE Resize
    BY <1>2, <1>6, <2>1 DEF Resize, HeardLate, WinchOK
  <2>2. CASE ~Resize
    <3>1. winch' = winch /\ HeardLate
      <4>1. ~WinchPush /\ ~WinchTake
        <5>1. F("WindowSizeChange", winch.win) # None
          BY DEF None, F
        <5>2. QED
          BY <1>2, <5>1 DEF WinchPush, WinchTake, WinchWakes, WinchOK
      <4>2. ~WinchFail
        <5>1. winch'.st = "on"
          BY <1>6 DEF HeardLate
        <5>2. WinchFail => winch'.st = "failed"
          BY <1>2 DEF WinchFail, WinchOK
        <5>3. QED
          BY <5>1, <5>2
      <4>3. ~WinchStart
        BY <1>2, <1>6 DEF WinchStart, SizeInv, SizeOrder, HeardLate, WinchOK
      <4>4. QED
        <5>1. winch' = winch
          BY <1>3, <2>2, <4>1, <4>2, <4>3, SizeSteps DEF Winch
        <5>2. QED
          BY <1>6, <5>1 DEF HeardLate
    <3>2. winch'.pending \/ Latest(W, remote'.ptyWin, winch.win)
      <4>1. CASE remote'.ptyWin = remote.ptyWin
        BY <1>4, <1>6, <3>1, <4>1
      <4>2. CASE remote'.ptyWin # remote.ptyWin
        <5>1. remote.ptyWin = 0 /\ winch.win # 0
          <6>1. remote.proc = "spawn"
            BY <4>2, SizeSteps DEF ProcSpawn, ProcAt
          <6>2. login.size \in Nat /\ winch.win \in Nat /\ login.size < winch.win
            <7>1. login.size \in 0 .. NResize /\ winch.win \in 0 .. NResize /\ NResize \in Nat
              BY <1>2, SessionAssumption DEF LoginOK, WinchOK
            <7>2. QED
              BY <3>1, <7>1 DEF SizeInv, SizeOrder, HeardLate
          <6>3. QED
            BY <6>1, <6>2 DEF SizeInv, SizeOrder
        <5>2. Latest(W, 0, winch.win) => Latest(W, remote'.ptyWin, winch.win)
          BY <5>1 DEF Latest
        <5>3. QED
          BY <1>4, <1>6, <3>1, <5>1, <5>2
      <4>3. QED
        BY <4>1, <4>2
    <3>3. QED
      BY <1>2, <3>1, <3>2, SizeMoves
  <2>3. QED
    BY <2>1, <2>2
<1>7. QED
  BY <1>1, <1>5, <1>6 DEF RowThen

\* The sink of the remote process takes a size: it becomes the pseudo-terminal's.
LEMMA SizeApplied ==
  ASSUME TypeOK, Inv, SizeInv, Next, Flowing, SinkResize("Remote")
  PROVE  RowThen(SizesUnderWay')
<1>1. PICK W, X : W = SizesUnderWay /\ X = SizesUnderWay'
  OBVIOUS
<1>2. /\ SinkTakes("Remote", "WindowSizeChange") /\ SinkNext("Remote")
      /\ login' = login /\ winch' = winch /\ remote'.proc = remote.proc
      /\ UsePty => remote'.ptyWin = Head(ends["Remote"].chan).v
  BY DEF SinkResize, SinkTakes, SinkValue, TypeOK, RemoteOK
<1>3. /\ Leaves(Places("Local"), Places("Local")', 1)
      /\ Head(Places("Local")[1]) = Head(ends["Remote"].chan)
      /\ Head(Places("Local")[1]).t = "WindowSizeChange"
  BY <1>2, SinkLeaves, Sides DEF TypeOK
<1>4. /\ Leaves(W, X, 1) /\ Head(W[1]) = Head(ends["Remote"].chan)
      /\ Head(W[1]).t = "WindowSizeChange"
  <2>1. X[10] = W[10]
    BY <1>1, <1>2, WayNow, WayNext
  <2>2. \A i \in 1 .. 10 : i = 10 \/ i \in 1 .. 9
    OBVIOUS
  <2>3. 1 \in 1 .. 9
    OBVIOUS
  <2>4. \A i \in 1 .. 9 : W[i] = Places("Local")[i] /\ X[i] = Places("Local")'[i]
    BY <1>1, WayNow, WayNext
  <2>5. QED
    BY <1>3, <2>1, <2>2, <2>3, <2>4 DEF Leaves, Others
<1>5. /\ Filled(W) /\ Spawns(W, login.size) /\ (remote.proc = "none" => HasSpawn(W))
      /\ UsePty /\ HeardLate => winch.pending \/ Latest(W, remote.ptyWin, winch.win)
  BY <1>1, WayFilled DEF SizeInv, SizeRow
<1>6. Spawns(X, login.size) /\ (HasSpawn(W) => HasSpawn(X))
  BY <1>4, <1>5, SpawnLeaves
<1>7. UsePty /\ Latest(W, remote.ptyWin, winch.win) => Latest(X, remote'.ptyWin, winch.win)
  <2>1. Sized(Head(W[1]))
    BY <1>4 DEF Sized
  <2>2. QED
    BY <1>2, <1>4, <1>5, <2>1, LatestTaken
<1>8. QED
  BY <1>1, <1>2, <1>5, <1>6, <1>7 DEF RowThen, HeardLate

\* A router takes a command: whatever its queue, the row loses its place's first frame.
LEMMA RemotePops ==
  ASSUME TypeOK, Takes("Remote"), Popped("Remote"), Cmd("Remote").k = "Recv", winch' = winch,
         ends'["Local"].data = ends["Local"].data, ends'["Remote"].chan = ends["Remote"].chan
  PROVE  /\ Leaves(SizesUnderWay, SizesUnderWay', 3)
         /\ Head(SizesUnderWay[3]) = Cmd("Remote").f
<1>1. PICK W, X : W = SizesUnderWay /\ X = SizesUnderWay'
  OBVIOUS
<1>2. /\ Leaves(Places("Local"), Places("Local")', 3)
      /\ Head(Places("Local")[3]) = Told(Cmd("Remote"), "Recv")
  BY PoppedLeaves, Sides DEF TypeOK
<1>3. Told(Cmd("Remote"), "Recv") = Cmd("Remote").f
  BY DEF Told
<1>4. X[10] = W[10] /\ \A i \in 1 .. 9 : W[i] = Places("Local")[i] /\ X[i] = Places("Local")'[i]
  BY <1>1, WayNow, WayNext
<1>5. (\A i \in 1 .. 10 : i = 10 \/ i \in 1 .. 9) /\ 3 \in 1 .. 9
  OBVIOUS
<1>6. QED
  BY <1>1, <1>2, <1>3, <1>4, <1>5 DEF Leaves, Others

\* The remote router knows nobody who waits for the size: then Spawn, and so a newer
\* size, is behind it.
LEMMA SizeUnheard ==
  ASSUME TypeOK, Inv, OnceInv, SizeInv, Next, Flowing, Unheard("Remote")
  PROVE  RowThen(SizesUnderWay')
<1>1. PICK W, X : W = SizesUnderWay /\ X = SizesUnderWay'
  OBVIOUS
<1>2. /\ Takes("Remote") /\ Popped("Remote") /\ Cmd("Remote").k = "Recv"
      /\ Cmd("Remote").f.t \in ChannelData
      /\ login' = login /\ winch' = winch /\ ends' = ends /\ remote' = remote
      /\ ~Registered("Remote")
  BY PopEffect, Sides DEF Unheard, RouterLookup, TakesFrame, TypeOK
<1>3. Leaves(W, X, 3) /\ Head(W[3]).t \in ChannelData
  BY <1>1, <1>2, RemotePops
<1>4. remote.proc = "none"
  <2>1. ends["Remote"].sink = "none"
    BY <1>2, Sides DEF Registered, Flowing, TypeOK, EndsOK, EndsType, EndsRecord
  <2>2. QED
    BY <2>1, Sides DEF OnceInv, Once
<1>5. /\ Filled(W) /\ Spawns(W, login.size) /\ HasSpawn(W)
      /\ UsePty /\ HeardLate => winch.pending \/ Latest(W, remote.ptyWin, winch.win)
  BY <1>1, <1>4, WayFilled DEF SizeInv, SizeRow
<1>6. Spawns(X, login.size) /\ HasSpawn(X)
  <2>1. Head(W[3]).t # "Spawn" /\ 3 \in 1 .. 10
    BY <1>3 DEF ChannelData
  <2>2. QED
    BY <1>3, <1>5, <2>1, SpawnLeaves
<1>7. Latest(W, remote.ptyWin, winch.win) => Latest(X, remote.ptyWin, winch.win)
  <2>1. PICK i \in 1 .. 10 : Holds(X[i])
    BY <1>6 DEF HasSpawn
  <2>2. i \notin {1, 2}
    <3>1. Places("Local")[1] = <<>> /\ Places("Local")[2] = <<>>
      BY <1>2, <1>4, BeforeSpawned
    <3>2. 1 \in 1 .. 9 /\ 2 \in 1 .. 9 /\ 1 \in (1 .. 10) \ {3} /\ 2 \in (1 .. 10) \ {3}
      OBVIOUS
    <3>3. X[1] = <<>> /\ X[2] = <<>>
      BY <1>1, <1>3, <3>1, <3>2, WayNow DEF Leaves, Others
    <3>4. QED
      BY <2>1, <3>3, SizeEmpty
  <2>3. i \in 3 .. 10 /\ ~NoSize(X[i])
    <3>1. i \in 3 .. 10
      BY <2>2
    <3>2. QED
      BY <2>1, <3>1, SizedNotNone
  <2>4. 3 \in 1 .. 10
    OBVIOUS
  <2>5. QED
    BY <1>3, <1>5, <2>3, <2>4, LatestLeaves
<1>8. QED
  BY <1>1, <1>2, <1>5, <1>6, <1>7 DEF RowThen, HeardLate

\* The remote router takes Spawn: its size is not the newest.
LEMMA SizeSpawned ==
  ASSUME TypeOK, Inv, SizeInv, Next, Flowing, RouterSpawn("Remote")
  PROVE  RowThen(SizesUnderWay')
<1>1. PICK W, X : W = SizesUnderWay /\ X = SizesUnderWay'
  OBVIOUS
<1>2. /\ Takes("Remote") /\ Popped("Remote") /\ Cmd("Remote").k = "Recv"
      /\ Cmd("Remote").f.t = "Spawn" /\ ends' = [ends EXCEPT !["Remote"].sink = "held"]
      /\ login' = login /\ winch' = winch /\ remote'.proc = "spawn"
      /\ remote'.ptyWin = remote.ptyWin
  BY PopEffect, Sides DEF RouterSpawn, TakesFrame, TypeOK, RemoteOK
<1>3. ends'["Local"].data = ends["Local"].data /\ ends'["Remote"].chan = ends["Remote"].chan
  BY <1>2, Sides DEF TypeOK, EndsOK, EndsType, EndsRecord
<1>4. Leaves(W, X, 3) /\ Head(W[3]).t = "Spawn" /\ 3 \in 1 .. 10
  BY <1>1, <1>2, <1>3, RemotePops
<1>5. /\ Filled(W) /\ Spawns(W, login.size)
      /\ UsePty /\ HeardLate => winch.pending \/ Latest(W, remote.ptyWin, winch.win)
  BY <1>1, WayFilled DEF SizeInv, SizeRow
<1>6. Spawns(X, login.size)
  BY <1>4, <1>5, SpawnLeaves
<1>7. winch.late => Head(W[3]).v # winch.win
  <2>1. Head(W[3]) = W[3][1] /\ 1 \in 1 .. Len(W[3])
    <3>1. W[3] \in Seq(Item) /\ W[3] # <<>>
      BY <1>4, <1>5 DEF Filled, Leaves
    <3>2. QED
      BY <3>1, HeadTailProperties, LenProperties, EmptySeq
  <2>2. Head(W[3]).v = login.size
    <3>1. SpawnIs(W[3], login.size)
      BY <1>4, <1>5 DEF Spawns
    <3>2. QED
      BY <1>4, <2>1, <3>1 DEF SpawnIs
  <2>3. login.size \in 0 .. NResize /\ winch.win \in 0 .. NResize /\ NResize \in Nat
    BY SessionAssumption DEF TypeOK, LoginOK, WinchOK
  <2>4. QED
    BY <2>2, <2>3 DEF SizeInv, SizeOrder
<1>8. winch.late /\ Latest(W, remote.ptyWin, winch.win) => Latest(X, remote.ptyWin, winch.win)
  BY <1>4, <1>5, <1>7, LatestLeaves
<1>9. QED
  BY <1>1, <1>2, <1>5, <1>6, <1>8 DEF RowThen, HeardLate

\* What is sent to the router of the login process joins the row of sizes.
LEMMA SizeJoins ==
  ASSUME TypeOK, NEW f \in Frame, Sends("Local", Send(f)), ends' = ends
  PROVE  /\ SizesUnderWay'[9] = Append(SizesUnderWay[9], f)
         /\ \A i \in 1 .. 8 : SizesUnderWay'[i] = SizesUnderWay[i]
<1>1. Joins(Places("Local"), Places("Local")', 9, f)
  BY SendJoins DEF TypeOK
<1>2. 9 \in 1 .. 9 /\ \A i \in 1 .. 8 : i \in 1 .. 9 /\ i \in (1 .. 10) \ {9}
  OBVIOUS
<1>3. QED
  BY <1>1, <1>2, WayNow, WayNext DEF Joins, Others

\* The window-change task sends what it holds.
LEMMA SizePushed ==
  ASSUME TypeOK, Inv, SizeInv, Next, Flowing, WinchPush
  PROVE  RowThen(SizesUnderWay')
<1>1. PICK W, X : W = SizesUnderWay /\ X = SizesUnderWay'
  OBVIOUS
<1>2. /\ WinchOK /\ winch.hold \in Frame /\ Sends("Local", Send(winch.hold)) /\ ends' = ends
      /\ login' = login /\ remote' = remote /\ winch'.hold = None
      /\ winch'.pending = winch.pending /\ winch'.late = winch.late /\ winch'.win = winch.win
      /\ winch'.st = winch.st
  BY DEF WinchPush, TypeOK, WinchOK
<1>3. /\ X[9] = Append(W[9], winch.hold) /\ X[10] = <<>> /\ W[10] = <<winch.hold>>
      /\ \A i \in 1 .. 8 : X[i] = W[i]
  BY <1>1, <1>2, SizeJoins, SlotEnds, WayNow, WayNext
<1>4. Flows(W, X, 9)
  <2>1. \A i \in (1 .. 10) \ {9, 10} : i \in 1 .. 8
    OBVIOUS
  <2>2. W[10] # <<>> /\ Head(W[10]) = winch.hold /\ Tail(W[10]) = <<>>
    BY <1>2, <1>3, SlotEnds
  <2>3. 9 + 1 = 10
    OBVIOUS
  <2>4. QED
    BY <1>3, <2>1, <2>2, <2>3 DEF Flows, Others
<1>5. SizeMove(W, X)
  <2>1. 9 \in 1 .. 9
    OBVIOUS
  <2>2. QED
    BY <1>4, <2>1 DEF SizeMove
<1>6. /\ Filled(W) /\ Spawns(W, login.size) /\ (remote.proc = "none" => HasSpawn(W))
      /\ UsePty /\ HeardLate => winch.pending \/ Latest(W, remote.ptyWin, winch.win)
  BY <1>1, WayFilled DEF SizeInv, SizeRow
<1>7. QED
  BY <1>1, <1>2, <1>5, <1>6, SizeMoves DEF RowThen, HeardLate

\* It takes the size that the terminal has now.
LEMMA SizeTaken ==
  ASSUME TypeOK, Inv, SizeInv, Next, Flowing, WinchTake
  PROVE  RowThen(SizesUnderWay')
<1>1. PICK W, X : W = SizesUnderWay /\ X = SizesUnderWay'
  OBVIOUS
<1> DEFINE f == F("WindowSizeChange", winch.win)
<1>2. /\ winch.hold = None /\ net' = net /\ ends' = ends /\ login' = login /\ remote' = remote
      /\ winch'.hold = f /\ winch'.win = winch.win
  BY DEF WinchTake, WinchWakes, TypeOK, WinchOK
<1>3. f \in Frame /\ f.t = "WindowSizeChange" /\ f.v = winch.win
  <2>1. winch.win \in 0 .. NResize
    BY DEF TypeOK, WinchOK
  <2>2. QED
    BY <2>1, FrameType, SessionAssumption DEF FrameTypes, ChannelData, F
<1> HIDE DEF f
<1>4. Joins(W, X, 10, f) /\ f \in Item /\ Sized(f)
  <2>1. X[10] = Append(W[10], f)
    BY <1>1, <1>2, <1>3, SlotEnds, WayNow, WayNext
  <2>2. Others(Places("Local"), Places("Local")', {})
    BY <1>2, KeptOthers DEF Kept, JobFor
  <2>3. \A i \in (1 .. 10) \ {10} : i \in 1 .. 9 /\ i \in (1 .. 10) \ {}
    OBVIOUS
  <2>4. QED
    BY <1>1, <1>3, <2>1, <2>2, <2>3, WayNow, WayNext DEF Joins, Others, Item, Sized
<1>5. /\ Filled(W) /\ Spawns(W, login.size) /\ (remote.proc = "none" => HasSpawn(W))
  BY <1>1, WayFilled DEF SizeInv, SizeRow
<1>6. 10 \in 1 .. 10
  OBVIOUS
<1>7. Spawns(X, login.size) /\ (HasSpawn(W) => HasSpawn(X))
  BY <1>3, <1>4, <1>5, <1>6, SpawnJoins
<1>8. Latest(X, remote.ptyWin, winch.win)
  BY <1>3, <1>4, <1>5, LatestNew
<1>9. QED
  BY <1>1, <1>2, <1>5, <1>7, <1>8 DEF RowThen

\* Before Spawn is sent there is none.
LEMMA NoSpawnYet ==
  ASSUME TypeOK, Inv, OnceInv, BeforeSpawn, NEW v
  PROVE  remote.proc = "none" /\ Spawns(SizesUnderWay, v)
<1> DEFINE l == net["Local"]
           r == net["Remote"]
<1>1. /\ ~HoldsCmd(l.handler) /\ ~(l.job.to = "peer" /\ l.job.f.t = "Spawn") /\ ~Holds(l.peer)
      /\ l.out.t # "Spawn" /\ ~Holds(l.wire) /\ r.in.t # "Spawn" /\ ~HoldsCmd(r.handler)
      /\ remote.proc = "none"
  BY DEF Inv, SpawnOnce, One
<1>2. ends["Remote"].chan = <<>> /\ r.job = NoJob /\ winch.hold.t # "Spawn"
  BY <1>1 DEF Inv, Silent, OnceInv, TrafficInv, Origins, None, F
<1>3. ASSUME NEW q, ~Holds(q) PROVE SpawnIs(q, v)
  BY <1>3 DEF Holds, SpawnIs
<1>4. ASSUME NEW q \in Seq(Command), NEW k, ~HoldsCmd(q) PROVE ~Holds(Cmds(q, k))
  <2>1. Len(Cmds(q, k)) = Len(q) /\ \A i \in 1 .. Len(q) : Cmds(q, k)[i] = Told(q[i], k)
    BY LenProperties DEF Cmds
  <2>2. QED
    BY <1>4, <2>1 DEF Holds, HoldsCmd, Told, None, F
<1>5. ASSUME NEW f, f.t # "Spawn" PROVE ~Holds(Slot(f))
  BY <1>5 DEF Holds, Slot
<1>6. ~Holds(<<>>)
  BY SizeEmpty
<1>7. ~Holds(JobFor("Remote", "chan")) /\ ~Holds(JobFor("Local", "peer"))
  BY <1>1, <1>2, <1>6 DEF JobFor, NoJob, Holds
<1>8. \A i \in 1 .. 9 : ~Holds(Places("Local")[i])
  <2>1. \A i \in 1 .. 9 : \/ i = 1 \/ i = 2 \/ i = 3 \/ i = 4 \/ i = 5 \/ i = 6 \/ i = 7
                          \/ i = 8 \/ i = 9
    OBVIOUS
  <2>2. l.handler \in Seq(Command) /\ r.handler \in Seq(Command)
    BY NetParts, Sides DEF TypeOK
  <2>3. QED
    BY <1>1, <1>2, <1>4, <1>5, <1>6, <1>7, <2>1, <2>2, PlacesNow, Sides
<1>9. \A i \in 1 .. 10 : i = 10 \/ i \in 1 .. 9
  OBVIOUS
<1>10. \A i \in 1 .. 10 : ~Holds(SizesUnderWay[i])
  BY <1>2, <1>5, <1>8, <1>9, WayNow
<1>11. QED
  BY <1>1, <1>3, <1>10 DEF Spawns

\* The main task sends Spawn.
LEMMA SizeStarts ==
  ASSUME TypeOK, Inv, OnceInv, SizeInv, Next, MainSpawn
  PROVE  RowThen(SizesUnderWay')
<1>1. PICK W, X : W = SizesUnderWay /\ X = SizesUnderWay'
  OBVIOUS
<1> DEFINE f == F("Spawn", login.size)
<1>2. /\ login.at = "spawn" /\ login'.size = login.size /\ Sends("Local", Send(f))
      /\ winch' = winch /\ ends' = ends /\ remote' = remote
  BY DEF MainSpawn, MainSends, MainAt, MainTo, TypeOK, LoginOK
<1>3. f \in Frame /\ f.t = "Spawn" /\ f.v = login.size
  BY LoginFrames DEF TypeOK, LoginOK, F
<1> HIDE DEF f
<1>4. Joins(W, X, 9, f)
  <2>1. X[10] = W[10]
    BY <1>1, <1>2, WayNow, WayNext
  <2>2. \A i \in (1 .. 10) \ {9} : i = 10 \/ i \in 1 .. 8
    OBVIOUS
  <2>3. QED
    BY <1>1, <1>2, <1>3, <2>1, <2>2, SizeJoins DEF Joins, Others
<1>5. Filled(W) /\ Spawns(W, login.size) /\ ~winch.late
  BY <1>1, <1>2, WayFilled, NoSpawnYet DEF BeforeSpawn, SizeInv, SizeOrder
<1>6. f \in Item /\ 9 \in 1 .. 10
  BY <1>3 DEF Item
<1>7. Spawns(X, login.size) /\ HasSpawn(X)
  BY <1>3, <1>4, <1>5, <1>6, SpawnJoins
<1>8. QED
  BY <1>1, <1>2, <1>5, <1>7 DEF RowThen, HeardLate

\* Where sizes flow after a step they flowed before, but for the one that starts it.
LEMMA FlowingBefore ==
  ASSUME TypeOK, Inv, OnceInv, Next, TypeOK', Inv', GoneInv', Flowing'
  PROVE  Flowing \/ MainSpawn
<1>1. ends["Remote"].sink # "end"
  <2>1. 1 \in Live("Local")'
    BY AllLiveNext
  <2>2. 1 \in Live("Local")
    BY <2>1, LiveShrinks, Sides
  <2>3. QED
    BY <2>2, Sides DEF Live
<1>2. ~Broken
  BY StaysBroken DEF Flowing
<1>3. login.at \in {"source", "wait"} \/ MainSpawn
  <2>1. LoginOK /\ login'.at \in {"source", "wait"}
    BY DEF TypeOK, Flowing
  <2>2. CASE Main
    BY <2>1, <2>2 DEF Main, MainSends, MainAt, MainTo, AfterSetEnv, MainSetEnv, MainRegister,
       MainEnterFail, MainSize, MainSizeFail, MainSink, MainSpawn, MainSource, MainStatus,
       MainExitPeer, MainExitSelf, MainDone, MainFail, Entered, Left, LoginOK
  <2>3. CASE \E s \in Side : RouterProcessExit(s)
    BY <2>1, <2>3 DEF RouterProcessExit, LoginOK
  <2>4. CASE PanicHook("Local")
    BY <2>1, <2>4 DEF PanicHook, Left, LoginOK
  <2>5. QED
    BY <2>1, <2>2, <2>3, <2>4, LoginSteps
<1>4. QED
  BY <1>1, <1>2, <1>3 DEF Flowing

\* Only the window-change task touches what it holds, and it does not fail.
LEMMA HoldSteps ==
  ASSUME TypeOK, Inv, GoneInv, Next, Flowing
  PROVE  winch'.hold = winch.hold \/ WinchPush \/ WinchTake
<1>1. WinchOK
  BY DEF TypeOK
<1>2. WinchFail => winch.hold = None
  <2>1. 8 \in Live("Local")
    BY AllLive
  <2>2. QED
    BY <2>1 DEF WinchFail, WinchWakes, SendFails, Live
<1>3. CASE Resize
  BY <1>1, <1>3 DEF Resize, WinchOK
<1>4. CASE Winch
  BY <1>1, <1>2, <1>4 DEF Winch, WinchStart, WinchFail, WinchOK
<1>5. CASE MainRegister
  BY <1>1, <1>5 DEF MainRegister, WinchOK
<1>6. QED
  BY <1>3, <1>4, <1>5, SizeSteps

\* The sizes on the way, after any step.
LEMMA SizeRowStep ==
  ASSUME TypeOK, Inv, OnceInv, DataInv, SizeInv, Next, TypeOK', Inv', GoneInv'
  PROVE  SizeRow'
<1>1. ASSUME Flowing' PROVE RowThen(SizesUnderWay')
  <2>1. CASE ~Flowing
    BY <1>1, <2>1, FlowingBefore, SizeStarts
  <2>2. CASE Flowing /\ (WinchPush \/ WinchTake)
    BY <2>2, SizePushed, SizeTaken
  <2>3. CASE Flowing /\ (SinkResize("Remote") \/ Unheard("Remote") \/ RouterSpawn("Remote"))
    BY <2>3, SizeApplied, SizeUnheard, SizeSpawned
  <2>4. CASE /\ Flowing /\ ~WinchPush /\ ~WinchTake
             /\ ~SinkResize("Remote") /\ ~Unheard("Remote") /\ ~RouterSpawn("Remote")
    <3>1. GoneInv
      BY DEF SizeInv
    <3>2. winch'.hold = winch.hold
      BY <2>4, <3>1, HoldSteps
    <3>3. SizeMove(SizesUnderWay, SizesUnderWay')
      BY <1>1, <2>4, <3>1, <3>2, SizesMove
    <3>4. QED
      BY <1>1, <2>4, <3>2, <3>3, SizesKept
  <2>5. QED
    BY <2>1, <2>2, <2>3, <2>4
<1>2. UsePty' <=> UsePty
  <2>1. login'.scene = login.scene
    BY Progress
  <2>2. QED
    BY <2>1 DEF UsePty
<1>3. QED
  BY <1>1, <1>2 DEF SizeRow, RowThen, Spawns, HasSpawn, Latest

LEMMA InitSize == Init => SizeInv
<1> SUFFICES ASSUME Init PROVE SizeInv
  OBVIOUS
<1>1. /\ login.at = "setenv" /\ login.size = 0 /\ winch.win = 0 /\ ~winch.late
      /\ remote.ptyWin = 0
  BY DEF Init
<1>2. \A s \in Side : up.alive[s] /\ net[s].sender = "run"
  BY DEF Init
<1>3. GoneInv
  BY <1>2, Sides DEF GoneInv, Alive
<1>4. SizeOrder /\ SizeRow
  BY <1>1 DEF SizeOrder, SizeRow, Flowing
<1>5. QED
  BY <1>3, <1>4 DEF SizeInv

LEMMA StutterSize == ASSUME SizeInv, UNCHANGED vars PROVE SizeInv'
<1>1. /\ login' = login /\ winch' = winch /\ up' = up /\ net' = net /\ ends' = ends
      /\ remote' = remote
  BY DEF vars
<1>2. GoneInv' /\ SizeOrder'
  BY <1>1 DEF SizeInv, GoneInv, SizeOrder, Alive, Open, BeforeSpawn
<1>3. SizesUnderWay' = SizesUnderWay
  BY <1>1 DEF SizesUnderWay, Places, JobFor
<1>4. (Flowing' <=> Flowing) /\ (UsePty' <=> UsePty)
  BY <1>1 DEF Flowing, Broken, Lost, UsePty
<1>5. HeardLate' <=> HeardLate
  BY <1>1 DEF HeardLate
<1>6. SizeRow'
  BY <1>1, <1>3, <1>4, <1>5 DEF SizeInv, SizeRow, Spawns, HasSpawn, Latest
<1>7. QED
  BY <1>2, <1>6 DEF SizeInv

\* While sizes can reach the pseudo-terminal, Spawn and the newest one are where they
\* should be; and the processes are there as long as their tasks are needed.
THEOREM SessionSizes == Spec => []SizeInv
<1>1. ASSUME TypeOK, Inv, OnceInv /\ DataInv, SizeInv, [Next]_vars, TypeOK', Inv'
      PROVE  SizeInv'
  <2>1. CASE Next
    <3>1. GoneInv'
      BY <1>1, <2>1, GoneStep DEF SizeInv
    <3>2. SizeOrder'
      BY <1>1, <2>1, SizeOrderStep DEF SizeInv
    <3>3. SizeRow'
      BY <1>1, <2>1, <3>1, SizeRowStep
    <3>4. QED
      BY <3>1, <3>2, <3>3 DEF SizeInv
  <2>2. CASE UNCHANGED vars
    BY <1>1, <2>2, StutterSize
  <2>3. QED
    BY <1>1, <2>1, <2>2
<1>2. QED
  BY <1>1, InitSize, SessionTypes, SessionInvariant, SessionCarries, PTL DEF Spec

\* A resize that the window-change task heard once Spawn was enqueued is not forgotten
\* as long as this task runs, whatever the capacities and however the task, the main task
\* and the routers interleave: its signal is pending, the pseudo-terminal has the new
\* size, or the newest size on the way is the new one.
THEOREM SessionLateResizeKept == Spec => []LateResizeKept
<1>1. SizeInv => LateResizeKept
  BY WayNow DEF SizeInv, SizeRow, HeardLate, Flowing, LateResizeKept
<1>2. QED
  BY <1>1, SessionSizes, PTL
=============================================================================
