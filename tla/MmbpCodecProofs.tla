--------------------------- MODULE MmbpCodecProofs --------------------------
(***************************************************************************)
(* Proofs about MmbpCodec for every stream, limit and way to cut it: the   *)
(* type invariant, InOrder and Prompt.                                     *)
(*                                                                         *)
(* Everything rests on what buffer and wire hold together.  The callback   *)
(* only ever removes a prefix of it - a header, a body or the whole buffer *)
(* - so it stays an unbroken run of cells up to the last one sent (Chain,  *)
(* Ends), and every cell of it comes after the messages delivered (Ahead). *)
(* Until an error is reported, it also starts at a message boundary.       *)
(***************************************************************************)
EXTENDS MmbpCodec, SequenceTheorems, TLAPS

CellSet(n) == [msg : 1 .. n, at : Nat \ {0}]

\* r is q without its first k cells.
Suffix(r, q, k) ==
    /\ k \in 0 .. Len(q) /\ Len(r) = Len(q) - k
    /\ \A i \in 1 .. Len(r) : r[i] = q[i + k]

\* The cell that is j - i places after b[i] is where the lengths say.
Chain(s, b) ==
    \A i, j \in DOMAIN b : i <= j =>
        LET c == b[i]
            p == c.at + (j - i)
        IN  /\ p <= Total(s, c.msg) => b[j] = Cell(c.msg, p)
            /\ p = Total(s, c.msg) + 1 => b[j] = Cell(c.msg + 1, 1)
            /\ p > Total(s, c.msg) => b[j].msg > c.msg

Ends(s, n, b) == b # <<>> => b[Len(b)] = Cell(n, Total(s, n))

Ahead(d, b) == \A i \in DOMAIN d, j \in DOMAIN b : d[i] < b[j].msg

\* No cell is missing between the messages d and b.
Unbroken(n, d, b) ==
    /\ d = [i \in 1 .. Len(d) |-> i]
    /\ b = <<>> => Len(d) = n
    /\ b # <<>> => b[1] = Cell(Len(d) + 1, 1)

Rest == buffer \o wire

\* The inductive invariant
Inv ==
    /\ TypeOK
    /\ Chain(stream, Rest) /\ Ends(stream, sent, Rest)
    /\ InOrder /\ Ahead(delivered, Rest)
    /\ err = <<>> => Unbroken(sent, delivered, Rest)
    /\ (err = <<>> /\ pc = "idle" /\ Len(delivered) < sent /\ Good(Len(delivered) + 1))
          => Len(buffer) < Total(stream, Len(delivered) + 1)

-----------------------------------------------------------------------------
LEMMA ConcatLemma ==
  ASSUME NEW S, NEW a \in Seq(S), NEW b \in Seq(S)
  PROVE  /\ a \o b \in Seq(S) /\ Len(a \o b) = Len(a) + Len(b)
         /\ \A i \in 1 .. Len(a) : (a \o b)[i] = a[i]
         /\ \A i \in 1 .. Len(b) : (a \o b)[Len(a) + i] = b[i]
OBVIOUS

\* Drop removes a prefix.
LEMMA DropLemma ==
  ASSUME NEW S, NEW b \in Seq(S), NEW n \in 0 .. Len(b)
  PROVE  Drop(b, n) \in Seq(S) /\ Suffix(Drop(b, n), b, n)
BY DEF Drop, Suffix

\* Removing a prefix of the first part removes it from the whole.
LEMMA DropConcat ==
  ASSUME NEW S, NEW b \in Seq(S), NEW w \in Seq(S), NEW r \in Seq(S),
         NEW n \in 0 .. Len(b), Suffix(r, b, n)
  PROVE  Suffix(r \o w, b \o w, n)
<1> Len(b) \in Nat /\ Len(w) \in Nat /\ Len(r) \in Nat
  OBVIOUS
<1>0. Len(b \o w) = Len(b) + Len(w) /\ Len(r \o w) = Len(r) + Len(w)
  OBVIOUS
<1>1. Len(b \o w) = Len(b) + Len(w) /\ Len(r \o w) = Len(b) - n + Len(w)
  BY <1>0 DEF Suffix
<1>2. ASSUME NEW i \in 1 .. Len(r \o w) PROVE (r \o w)[i] = (b \o w)[i + n]
  <2>0. /\ i \in Nat /\ n \in Nat /\ n <= Len(b) /\ Len(r) = Len(b) - n
        /\ 1 <= i /\ i <= Len(r) + Len(w)
    BY <1>0 DEF Suffix
  <2>1. CASE i <= Len(r)
    <3>1. i \in 1 .. Len(r) /\ i + n \in 1 .. Len(b)
      BY <2>0, <2>1
    <3>2. (r \o w)[i] = r[i] /\ (b \o w)[i + n] = b[i + n]
      BY <3>1
    <3>3. r[i] = b[i + n]
      BY <3>1 DEF Suffix
    <3>4. QED BY <3>2, <3>3
  <2>2. CASE i > Len(r)
    <3>1. i - Len(r) \in 1 .. Len(w) /\ i \in Len(r) + 1 .. Len(r) + Len(w)
      BY <2>0, <2>2
    <3>2. i + n \in Len(b) + 1 .. Len(b) + Len(w) /\ (i + n) - Len(b) = i - Len(r)
      <4>1. i + n > Len(b) /\ i + n <= Len(b) + Len(w)
        BY <2>0, <2>2
      <4>2. QED BY <2>0, <4>1
    <3>3. (r \o w)[i] = w[i - Len(r)]
      BY <3>1
    <3>4. (b \o w)[i + n] = w[(i + n) - Len(b)]
      BY <3>2
    <3>5. QED BY <3>2, <3>3, <3>4
  <2>3. QED BY <2>0, <2>1, <2>2
<1>3. QED BY <1>1, <1>2 DEF Suffix

LEMMA SuffixTwice ==
  ASSUME NEW S, NEW a \in Seq(S), NEW b \in Seq(S), NEW c \in Seq(S),
         NEW m \in Nat, NEW n \in Nat, Suffix(b, a, m), Suffix(c, b, n)
  PROVE  Suffix(c, a, m + n)
<1>1. Len(a) \in Nat /\ Len(b) \in Nat /\ Len(c) \in Nat
  OBVIOUS
<1>2. /\ m \in 0 .. Len(a) /\ Len(b) = Len(a) - m
      /\ n \in 0 .. Len(b) /\ Len(c) = Len(b) - n
  BY DEF Suffix
<1>3. m + n \in 0 .. Len(a) /\ Len(c) = Len(a) - (m + n)
  BY <1>1, <1>2
<1>4. ASSUME NEW i \in 1 .. Len(c) PROVE c[i] = a[i + (m + n)]
  <2>1. i + n \in 1 .. Len(b) /\ (i + n) + m = i + (m + n)
    BY <1>1, <1>2
  <2>2. c[i] = b[i + n] /\ b[i + n] = a[(i + n) + m]
    BY <2>1 DEF Suffix
  <2>3. QED BY <2>1, <2>2
<1>5. QED BY <1>3, <1>4 DEF Suffix

\* A frame is longer than nothing, and its parts are numbers.
LEMMA FrameLemma ==
  ASSUME TypeOK, NEW f \in 1 .. Len(stream)
  PROVE  /\ stream[f].hlen \in Nat \ {0} /\ stream[f].size \in Nat
         /\ stream[f].len \in Nat /\ Total(stream, f) \in Nat \ {0}
         /\ Total(stream, f) = stream[f].hlen + stream[f].len
<1>1. stream[f] \in Frame
  BY StreamsAssumption DEF TypeOK
<1>2. QED BY <1>1 DEF Frame, Total

\* What a suffix keeps
LEMMA SuffixKeeps ==
  ASSUME NEW s, NEW n \in Nat, NEW d, NEW q \in Seq(CellSet(n)),
         NEW r \in Seq(CellSet(n)), NEW k \in Nat, Suffix(r, q, k)
  PROVE  /\ Chain(s, q) => Chain(s, r)
         /\ Ends(s, n, q) => Ends(s, n, r)
         /\ Ahead(d, q) => Ahead(d, r)
<1>1. /\ Len(q) \in Nat /\ Len(r) \in Nat /\ k \in 0 .. Len(q) /\ Len(r) = Len(q) - k
      /\ DOMAIN q = 1 .. Len(q) /\ DOMAIN r = 1 .. Len(r)
      /\ \A i \in 1 .. Len(r) : r[i] = q[i + k] /\ i + k \in 1 .. Len(q)
  BY DEF Suffix
<1>2. ASSUME Chain(s, q) PROVE Chain(s, r)
  <2> SUFFICES ASSUME NEW i \in DOMAIN r, NEW j \in DOMAIN r, i <= j
               PROVE  LET c == r[i]
                          p == c.at + (j - i)
                      IN  /\ p <= Total(s, c.msg) => r[j] = Cell(c.msg, p)
                          /\ p = Total(s, c.msg) + 1 => r[j] = Cell(c.msg + 1, 1)
                          /\ p > Total(s, c.msg) => r[j].msg > c.msg
    BY DEF Chain
  <2>1. /\ i + k \in DOMAIN q /\ j + k \in DOMAIN q /\ i + k <= j + k
        /\ r[i] = q[i + k] /\ r[j] = q[j + k] /\ (j + k) - (i + k) = j - i
    BY <1>1
  <2>2. LET c == q[i + k]
            p == c.at + ((j + k) - (i + k))
        IN  /\ p <= Total(s, c.msg) => q[j + k] = Cell(c.msg, p)
            /\ p = Total(s, c.msg) + 1 => q[j + k] = Cell(c.msg + 1, 1)
            /\ p > Total(s, c.msg) => q[j + k].msg > c.msg
    BY <1>2, <2>1 DEF Chain
  <2>3. QED BY <2>1, <2>2
<1>3. ASSUME Ends(s, n, q) PROVE Ends(s, n, r)
  <2> SUFFICES ASSUME r # <<>> PROVE r[Len(r)] = Cell(n, Total(s, n))
    BY DEF Ends
  <2>1. Len(r) \in 1 .. Len(r) /\ q # <<>> /\ Len(r) + k = Len(q)
    BY <1>1
  <2>2. r[Len(r)] = q[Len(q)]
    BY <1>1, <2>1
  <2>3. QED BY <1>3, <2>1, <2>2 DEF Ends
<1>4. ASSUME Ahead(d, q) PROVE Ahead(d, r)
  BY <1>1, <1>4 DEF Ahead
<1>5. QED BY <1>2, <1>3, <1>4

\* Sending appends the next message to the chain.
LEMMA SendKeeps ==
  ASSUME TypeOK, sent < Len(stream),
         NEW q \in Seq(CellSet(sent)), Chain(stream, q), Ends(stream, sent, q),
         NEW r \in Seq(CellSet(sent + 1)),
         Len(r) = Len(q) + Total(stream, sent + 1),
         \A i \in 1 .. Len(q) : r[i] = q[i],
         \A i \in 1 .. Total(stream, sent + 1) : r[Len(q) + i] = Cell(sent + 1, i)
  PROVE  Chain(stream, r) /\ Ends(stream, sent + 1, r)
<1> DEFINE T(f) == Total(stream, f)
<1>1. /\ sent \in Nat /\ Len(stream) \in Nat /\ sent + 1 \in 1 .. Len(stream)
      /\ Len(q) \in Nat /\ Len(r) \in Nat
      /\ DOMAIN q = 1 .. Len(q) /\ DOMAIN r = 1 .. Len(r)
  BY StreamsAssumption DEF TypeOK
<1>2. \A f \in 1 .. sent + 1 : T(f) \in Nat \ {0}
  BY <1>1, FrameLemma
<1>3. ASSUME NEW i \in 1 .. Len(q)
      PROVE  q[i].msg \in 1 .. sent /\ q[i].at \in Nat /\ T(q[i].msg) \in Nat
  <2>1. q[i] \in CellSet(sent)
    BY <1>1
  <2>2. q[i].msg \in 1 .. sent /\ q[i].at \in Nat
    BY <2>1 DEF CellSet
  <2>3. q[i].msg \in 1 .. sent + 1
    BY <1>1, <2>2
  <2> HIDE DEF T
  <2>4. QED BY <1>2, <2>2, <2>3
<1> DEFINE t == T(sent + 1)
<1>31. /\ t \in Nat \ {0} /\ Len(r) = Len(q) + t
       /\ \A i \in 1 .. t : r[Len(q) + i] = Cell(sent + 1, i)
  BY <1>1, <1>2
<1> HIDE DEF T, t
<1>4. ASSUME NEW i \in 1 .. Len(r), NEW j \in 1 .. Len(r), i <= j
      PROVE  LET c == r[i]
                 p == c.at + (j - i)
             IN  /\ p <= T(c.msg) => r[j] = Cell(c.msg, p)
                 /\ p = T(c.msg) + 1 => r[j] = Cell(c.msg + 1, 1)
                 /\ p > T(c.msg) => r[j].msg > c.msg
  <2>1. CASE j <= Len(q)
    <3>1. i \in DOMAIN q /\ j \in DOMAIN q /\ r[i] = q[i] /\ r[j] = q[j]
      BY <1>1, <1>4, <2>1
    <3>2. QED BY <1>4, <3>1 DEF Chain, T
  <2>2. CASE i > Len(q)
    <3> DEFINE x == i - Len(q)
               y == j - Len(q)
    <3>1. /\ x \in 1 .. t /\ y \in 1 .. t
          /\ i = Len(q) + x /\ j = Len(q) + y /\ j - i = y - x
      <4>1. /\ Len(q) \in Nat /\ t \in Nat /\ i \in Nat /\ j \in Nat
            /\ i <= Len(q) + t /\ j <= Len(q) + t /\ i <= j
        BY <1>1, <1>31, <1>4
      <4>2. QED BY <2>2, <4>1
    <3>2. r[i] = Cell(sent + 1, x) /\ r[j] = Cell(sent + 1, y)
      BY <1>31, <3>1
    <3> HIDE DEF x, y
    <3>3. r[i].msg = sent + 1 /\ r[i].at = x
      BY <3>2 DEF Cell
    <3>4. y <= T(sent + 1) /\ T(sent + 1) \in Nat /\ y \in Nat /\ x \in Nat
      BY <1>31, <3>1 DEF t
    <3>5. r[i].at + (j - i) = y
      BY <3>1, <3>3, <3>4
    <3>6. y # T(sent + 1) + 1 /\ ~(y > T(sent + 1))
      BY <3>4
    <3>7. QED BY <3>2, <3>3, <3>5, <3>6
  <2>3. CASE i <= Len(q) /\ j > Len(q)
    <3> DEFINE y == j - Len(q)
               L == Len(q)
               c == q[i]
               u == c.at + (L - i)
    <3>1. /\ y \in 1 .. t /\ j = Len(q) + y /\ i \in 1 .. Len(q) /\ L \in 1 .. Len(q)
          /\ i \in DOMAIN q /\ L \in DOMAIN q /\ i <= L /\ q # <<>> /\ r[i] = c
      BY <1>1, <1>31, <1>4, <2>3
    <3>2. r[j] = Cell(sent + 1, y)
      BY <1>31, <3>1
    <3>3. r[j].msg = sent + 1
      BY <3>2 DEF Cell
    <3>4. c.msg \in 1 .. sent /\ c.at \in Nat /\ T(c.msg) \in Nat /\ u \in Nat
      <4>1. c.msg \in 1 .. sent /\ c.at \in Nat /\ T(c.msg) \in Nat
        BY <1>3, <3>1
      <4>2. L - i \in Nat
        BY <1>1, <3>1
      <4>3. QED BY <4>1, <4>2
    <3>5. q[L] = Cell(sent, T(sent)) /\ q[L].msg = sent /\ q[L].at = T(sent)
      BY <3>1 DEF Ends, T, Cell
    <3>6. /\ u <= T(c.msg) => q[L] = Cell(c.msg, u)
          /\ u = T(c.msg) + 1 => q[L] = Cell(c.msg + 1, 1)
          /\ u > T(c.msg) => q[L].msg > c.msg
      BY <3>1 DEF Chain, T
    <3>7. c.at + (j - i) = u + y
      <4>1. c.at \in Int /\ i \in Int /\ L \in Int /\ j \in Int
        BY <1>1, <1>31, <3>1, <3>4
      <4> HIDE DEF c, L, u, y
      <4>2. c.at + (j - i) = (c.at + (L - i)) + (j - L)
        BY <4>1
      <4>3. QED BY <4>2 DEF L, u, y
    <3> HIDE DEF y, L, c, u
    <3>8. u <= T(c.msg) => c.msg = sent /\ u = T(c.msg)
      BY <3>5, <3>6 DEF Cell
    <3>9. u >= T(c.msg)
      BY <3>4, <3>8
    <3>10. u + y > T(c.msg) /\ r[j].msg > c.msg
      <4>1. y \in Nat /\ y >= 1
        BY <1>31, <3>1
      <4>2. u + y > T(c.msg)
        BY <3>4, <3>9, <4>1
      <4>3. sent + 1 > c.msg
        BY <1>1, <3>4
      <4>4. QED BY <3>3, <4>2, <4>3
    <3>11. ASSUME u + y = T(c.msg) + 1 PROVE r[j] = Cell(c.msg + 1, 1)
      <4>1. y \in Nat /\ y >= 1
        BY <1>31, <3>1
      <4>2. u = T(c.msg) /\ y = 1
        BY <3>4, <3>9, <3>11, <4>1
      <4>3. c.msg = sent
        BY <3>8, <4>2, <3>4
      <4>4. QED BY <3>2, <4>2, <4>3
    <3>12. u + y \in Nat /\ ~(u + y <= T(c.msg))
      BY <1>31, <3>1, <3>4, <3>10
    <3>13. r[i] = c
      BY <3>1
    <3>14. QED BY <3>7, <3>10, <3>11, <3>12, <3>13
  <2>4. QED BY <1>1, <1>4, <2>1, <2>2, <2>3
<1>5. Chain(stream, r)
  BY <1>1, <1>4 DEF Chain, T
<1>6. Ends(stream, sent + 1, r)
  BY <1>1, <1>2 DEF Ends, T
<1>7. QED BY <1>5, <1>6

\* Behind the body of a message come the messages after it, the next one first.
LEMMA BehindBody ==
  ASSUME TypeOK, NEW q \in Seq(CellSet(sent)), Chain(stream, q), Ends(stream, sent, q),
         NEW k \in Nat, NEW f \in 1 .. sent,
         stream[f].len >= 1, k + stream[f].len <= Len(q),
         q[k + 1] = Cell(f, stream[f].hlen + 1),
         NEW r \in Seq(CellSet(sent)), Suffix(r, q, k + stream[f].len)
  PROVE  /\ \A j \in DOMAIN r : r[j].msg > f
         /\ r # <<>> => r[1] = Cell(f + 1, 1)
         /\ r = <<>> => f = sent
<1> DEFINE T == Total(stream, f)
           h == stream[f].hlen
           l == stream[f].len
<1>1. /\ sent \in Nat /\ f \in 1 .. Len(stream)
      /\ Len(q) \in Nat /\ Len(r) \in Nat
      /\ DOMAIN q = 1 .. Len(q) /\ DOMAIN r = 1 .. Len(r)
  <2>1. sent \in Nat /\ sent <= Len(stream) /\ Len(stream) \in Nat
    BY StreamsAssumption DEF TypeOK
  <2>2. f \in 1 .. Len(stream)
    BY <2>1
  <2>3. QED BY <2>1, <2>2
<1>2. h \in Nat \ {0} /\ l \in Nat \ {0} /\ T = h + l
  BY <1>1, FrameLemma
<1>3. ASSUME NEW j \in 1 .. Len(q), k + 1 <= j
      PROVE  LET p == h + 1 + (j - (k + 1))
             IN  /\ p <= T => q[j] = Cell(f, p)
                 /\ p = T + 1 => q[j] = Cell(f + 1, 1)
                 /\ p > T => q[j].msg > f
  <2>1. k + 1 \in DOMAIN q /\ j \in DOMAIN q
    <3>1. k + l <= Len(q) /\ l >= 1
      BY <1>2
    <3>2. k + 1 \in 1 .. Len(q)
      <4>1. k \in Nat /\ l \in Nat /\ Len(q) \in Nat
        BY <1>1, <1>2
      <4> HIDE DEF l
      <4>2. QED BY <3>1, <4>1
    <3>3. QED BY <1>1, <3>2
  <2>2. q[k + 1].msg = f /\ q[k + 1].at = h + 1
    BY DEF Cell
  <2>3. QED BY <1>3, <2>1, <2>2 DEF Chain
<1>4. /\ Len(r) = Len(q) - (k + l)
      /\ \A j \in 1 .. Len(r) : r[j] = q[j + (k + l)]
  BY DEF Suffix
<1> HIDE DEF T, h, l
<1>5. ASSUME NEW j \in 1 .. Len(r) PROVE r[j].msg > f /\ (j = 1 => r[j] = Cell(f + 1, 1))
  <2>1. j + (k + l) \in 1 .. Len(q) /\ k + 1 <= j + (k + l)
    <3>1. j \in Nat /\ 1 <= j /\ j <= Len(q) - (k + l) /\ k + l \in Nat /\ l >= 1
      BY <1>1, <1>2, <1>4
    <3>2. k \in Nat /\ l \in Nat /\ Len(q) \in Nat
      BY <1>1, <1>2
    <3>3. k + 1 <= j + (k + l)
      BY <3>1, <3>2
    <3>4. QED BY <3>1, <3>2, <3>3
  <2>2. h + 1 + ((j + (k + l)) - (k + 1)) = T + j
    BY <1>1, <1>2, <1>5
  <2>3. T + j > T /\ (j = 1 => T + j = T + 1)
    BY <1>1, <1>2, <1>5
  <2>4. r[j] = q[j + (k + l)]
    BY <1>4
  <2>5. LET p == h + 1 + ((j + (k + l)) - (k + 1))
        IN  /\ p = T + 1 => q[j + (k + l)] = Cell(f + 1, 1)
            /\ p > T => q[j + (k + l)].msg > f
    BY <1>3, <2>1
  <2>6. /\ T + j = T + 1 => q[j + (k + l)] = Cell(f + 1, 1)
        /\ T + j > T => q[j + (k + l)].msg > f
    BY <2>2, <2>5
  <2>7. QED BY <2>3, <2>4, <2>6
<1>6. ASSUME r = <<>> PROVE f = sent
  <2>1. Len(q) = k + l /\ Len(q) \in 1 .. Len(q) /\ k + 1 <= Len(q) /\ q # <<>>
    BY <1>1, <1>2, <1>4, <1>6
  <2>2. h + 1 + (Len(q) - (k + 1)) = T
    BY <1>1, <1>2, <2>1
  <2>3. q[Len(q)] = Cell(f, T)
    BY <1>2, <1>3, <2>1, <2>2
  <2>4. QED BY <2>1, <2>3 DEF Ends, Cell
<1>7. QED BY <1>1, <1>5, <1>6

-----------------------------------------------------------------------------
\* What the type invariant says of the sequences, in the form the provers use
LEMMA TypeFacts ==
  ASSUME TypeOK
  PROVE  /\ buffer \in Seq(CellSet(sent)) /\ wire \in Seq(CellSet(sent))
         /\ Rest \in Seq(CellSet(sent)) /\ Len(Rest) = Len(buffer) + Len(wire)
         /\ \A i \in 1 .. Len(buffer) : Rest[i] = buffer[i]
         /\ sent \in Nat /\ sent <= Len(stream) /\ Len(stream) \in Nat
<1>1. buffer \in Seq(CellSet(sent)) /\ wire \in Seq(CellSet(sent))
  BY DEF TypeOK, CellSet
<1>2. sent \in Nat /\ sent <= Len(stream) /\ Len(stream) \in Nat
  BY StreamsAssumption DEF TypeOK
<1>3. QED BY <1>1, <1>2 DEF Rest

\* A size header that was decoded is in the buffer, and at a boundary it is the
\* header of the message.
LEMMA DecodeLemma ==
  ASSUME TypeOK, NEW h \in Decode(buffer)
  PROVE  /\ h.ok => /\ buffer # <<>> /\ h.len \in 1 .. Len(buffer) /\ h.size \in Nat
                    /\ buffer[1].at = 1 =>
                          /\ h.len = stream[buffer[1].msg].hlen
                          /\ h.size = stream[buffer[1].msg].size
         /\ ~h.ok /\ ~h.invalid /\ buffer # <<>> /\ buffer[1].at = 1
               => Len(buffer) < stream[buffer[1].msg].hlen
         /\ ~h.ok /\ h.invalid => buffer # <<>> /\ buffer[1].at # 1
<1>1. CASE buffer = <<>>
  BY <1>1 DEF Decode, Short
<1>2. CASE buffer # <<>> /\ buffer[1].at = 1
  <2> DEFINE m == buffer[1].msg
  <2>1. m \in 1 .. Len(stream) /\ Len(buffer) \in Nat
    <3>1. Len(buffer) \in Nat /\ buffer[1] \in CellSet(sent)
      BY <1>2, TypeFacts
    <3>2. m \in 1 .. sent
      BY <3>1 DEF CellSet
    <3>3. QED BY <3>1, <3>2, TypeFacts
  <2>2. stream[m].hlen \in Nat \ {0} /\ stream[m].size \in Nat
    BY <2>1, FrameLemma
  <2>3. CASE Len(buffer) < stream[m].hlen
    <3>1. h = Short
      BY <1>2, <2>3 DEF Decode
    <3>2. QED BY <1>2, <2>3, <3>1 DEF Short
  <2>4. CASE ~(Len(buffer) < stream[m].hlen)
    <3>1. h = Header(stream[m].hlen, stream[m].size)
      BY <1>2, <2>4 DEF Decode
    <3>2. /\ h.ok /\ h.len = stream[m].hlen /\ h.size = stream[m].size
      BY <3>1 DEF Header
    <3>3. QED BY <1>2, <2>1, <2>2, <2>4, <3>2
  <2>5. QED BY <2>3, <2>4
<1>3. CASE buffer # <<>> /\ buffer[1].at # 1
  <2>1. h \in {Short, Invalid}
           \cup {Header(l, s) : l \in {n \in 1 .. MaxHeader : n <= Len(buffer)},
                                s \in 0 .. MaxSize}
    BY <1>3 DEF Decode
  <2>2. CASE h \in {Short, Invalid}
    BY <1>3, <2>2 DEF Short, Invalid
  <2>3. CASE \E l \in {n \in 1 .. MaxHeader : n <= Len(buffer)}, s \in 0 .. MaxSize :
                h = Header(l, s)
    <3>1. PICK l \in {n \in 1 .. MaxHeader : n <= Len(buffer)}, s \in 0 .. MaxSize :
                h = Header(l, s)
      BY <2>3
    <3>2. h.ok /\ h.len = l /\ h.size = s
      BY <3>1 DEF Header
    <3>3. Len(buffer) \in Nat
      BY TypeFacts
    <3>4. QED BY <1>3, <3>1, <3>2, <3>3, MaxSizeAssumption
  <2>4. QED BY <2>1, <2>2, <2>3
<1>4. QED BY <1>1, <1>2, <1>3

Errors == {"E_INVALID_SIZE_HEADER", "E_INVALID_CHECKSUM", "E_INVALID_MESSAGE"}

\* A step that delivers nothing and removes a prefix keeps the invariant; without
\* an error it removes nothing, and stops the loop only on a part of a message.
LEMMA Trimming ==
  ASSUME Inv, stream' = stream, sent' = sent, delivered' = delivered,
         buffer' \in Seq(CellSet(sent)), wire' \in Seq(CellSet(sent)),
         NEW k \in Nat, Suffix(Rest', Rest, k),
         Len(buffer') < MaxSize, pc' \in {"idle", "loop"}, err' \in Seq(Errors),
         err' = <<>> => err = <<>> /\ k = 0,
         (err' = <<>> /\ pc' = "idle" /\ Len(delivered) < sent
               /\ Good(Len(delivered) + 1))
            => Len(buffer') < Total(stream, Len(delivered) + 1)
  PROVE  Inv'
<1>1. TypeOK'
  BY DEF Inv, TypeOK, CellSet, Errors
<1>2. /\ Rest \in Seq(CellSet(sent)) /\ Rest' \in Seq(CellSet(sent)) /\ sent \in Nat
      /\ Len(Rest) \in Nat /\ Len(Rest') \in Nat
  BY TypeFacts DEF Inv, Rest
<1>3. /\ Chain(stream, Rest') /\ Ends(stream, sent, Rest')
      /\ Ahead(delivered, Rest')
  BY <1>2, SuffixKeeps DEF Inv
<1>4. InOrder'
  BY DEF Inv, InOrder, Sound
<1>5. err' = <<>> => Unbroken(sent, delivered, Rest')
  <2> SUFFICES ASSUME err' = <<>> PROVE Unbroken(sent, delivered, Rest')
    OBVIOUS
  <2>1. Unbroken(sent, delivered, Rest) /\ k = 0
    BY DEF Inv
  <2>2. Len(Rest') = Len(Rest) /\ (Len(Rest) > 0 => Rest'[1] = Rest[1])
    BY <1>2, <2>1 DEF Suffix
  <2>3. (Rest = <<>> <=> Len(Rest) = 0) /\ (Rest' = <<>> <=> Len(Rest') = 0)
    BY <1>2
  <2>4. Rest = <<>> <=> Rest' = <<>>
    BY <2>2, <2>3
  <2>5. Rest' # <<>> => Rest'[1] = Rest[1]
    BY <1>2, <2>2, <2>3
  <2>6. QED BY <2>1, <2>4, <2>5 DEF Unbroken
<1>6. Good(Len(delivered) + 1)' <=> Good(Len(delivered) + 1)
  BY DEF Good, Sound
<1>7. QED BY <1>1, <1>3, <1>4, <1>5, <1>6 DEF Inv

LEMMA InitInv ==
  ASSUME Init
  PROVE  Inv
<1>1. Rest = <<>> /\ Rest \in Seq(CellSet(0)) /\ Len(Rest) = 0 /\ DOMAIN Rest = {}
  BY DEF Init, Rest
<1>2. TypeOK
  <2>1. stream \in Seq(Frame)
    BY StreamsAssumption DEF Init
  <2>2. sent \in 0 .. Len(stream)
    BY <2>1 DEF Init
  <2>3. QED BY <2>2, MaxSizeAssumption DEF Init, TypeOK
<1>3. Chain(stream, Rest) /\ Ends(stream, sent, Rest) /\ Ahead(delivered, Rest)
  BY <1>1 DEF Chain, Ends, Ahead
<1>4. DOMAIN delivered = {} /\ Len(delivered) = 0
  BY DEF Init
<1>5. InOrder
  BY <1>4 DEF InOrder
<1>6. Unbroken(sent, delivered, Rest)
  BY <1>1 DEF Init, Unbroken
<1>7. ~(Len(delivered) < sent)
  BY <1>4 DEF Init
<1>8. QED BY <1>2, <1>3, <1>5, <1>6, <1>7 DEF Inv

LEMMA SendInv ==
  ASSUME Inv, Send
  PROVE  Inv'
<1> DEFINE C == Cells(stream, sent + 1)
           t == Total(stream, sent + 1)
<1>1. /\ sent < Len(stream) /\ sent' = sent + 1 /\ wire' = wire \o C
      /\ stream' = stream /\ buffer' = buffer /\ pc' = pc /\ err' = err
      /\ delivered' = delivered
  BY DEF Send
<1>2. /\ sent \in Nat /\ Len(stream) \in Nat /\ Len(buffer) \in Nat /\ Len(wire) \in Nat
      /\ buffer \in Seq(CellSet(sent)) /\ wire \in Seq(CellSet(sent))
      /\ Rest \in Seq(CellSet(sent)) /\ Len(Rest) = Len(buffer) + Len(wire)
  BY TypeFacts DEF Inv
<1>3. t \in Nat \ {0}
  <2>1. sent + 1 \in 1 .. Len(stream)
    BY <1>1, <1>2
  <2>2. QED BY <2>1, FrameLemma DEF Inv
<1>4. \A i \in 1 .. t : Cell(sent + 1, i) \in CellSet(sent + 1)
  BY <1>2, <1>3 DEF Cell, CellSet
<1>5. /\ C \in Seq(CellSet(sent + 1)) /\ Len(C) = t
      /\ \A i \in 1 .. t : C[i] = Cell(sent + 1, i)
  <2>1. C = [i \in 1 .. t |-> Cell(sent + 1, i)]
    BY DEF Cells
  <2>2. C \in [1 .. t -> CellSet(sent + 1)]
    BY <1>4, <2>1
  <2>3. QED BY <1>3, <2>1, <2>2
<1>6. CellSet(sent) \subseteq CellSet(sent + 1)
  BY <1>2 DEF CellSet
<1>7. /\ buffer \in Seq(CellSet(sent + 1)) /\ wire \in Seq(CellSet(sent + 1))
      /\ Rest \in Seq(CellSet(sent + 1))
  BY <1>2, <1>6
<1> HIDE DEF C, t
<1>8. /\ wire' \in Seq(CellSet(sent + 1)) /\ Rest' = buffer \o (wire \o C)
      /\ Rest' \in Seq(CellSet(sent + 1)) /\ Len(Rest') = Len(Rest) + t
  <2>1. wire' \in Seq(CellSet(sent + 1)) /\ Len(wire') = Len(wire) + t
    BY <1>1, <1>5, <1>7, ConcatLemma, Zenon
  <2>2. Rest' = buffer \o wire'
    BY <1>1 DEF Rest
  <2>3. Rest' \in Seq(CellSet(sent + 1)) /\ Len(Rest') = Len(buffer) + Len(wire')
    BY <1>7, <2>1, <2>2, ConcatLemma, Zenon
  <2>4. QED BY <1>1, <1>2, <1>3, <2>1, <2>2, <2>3
<1>81. /\ \A i \in 1 .. Len(wire) : (wire \o C)[i] = wire[i]
       /\ \A i \in 1 .. Len(C) : (wire \o C)[Len(wire) + i] = C[i]
       /\ Len(wire \o C) = Len(wire) + Len(C) /\ wire \o C \in Seq(CellSet(sent + 1))
  BY <1>5, <1>7, ConcatLemma
<1>82. /\ \A i \in 1 .. Len(buffer) : Rest'[i] = buffer[i] /\ Rest[i] = buffer[i]
       /\ \A i \in 1 .. Len(wire \o C) : Rest'[Len(buffer) + i] = (wire \o C)[i]
       /\ \A i \in 1 .. Len(wire) : Rest[Len(buffer) + i] = wire[i]
       /\ Len(Rest) = Len(buffer) + Len(wire)
  <2>1. /\ \A i \in 1 .. Len(buffer) : Rest'[i] = buffer[i]
        /\ \A i \in 1 .. Len(wire \o C) : Rest'[Len(buffer) + i] = (wire \o C)[i]
    BY <1>7, <1>8, <1>81, ConcatLemma
  <2>2. /\ \A i \in 1 .. Len(buffer) : Rest[i] = buffer[i]
        /\ \A i \in 1 .. Len(wire) : Rest[Len(buffer) + i] = wire[i]
        /\ Len(Rest) = Len(buffer) + Len(wire)
    BY <1>7, ConcatLemma DEF Rest
  <2>3. QED BY <2>1, <2>2
<1>83. /\ Len(buffer) \in Nat /\ Len(wire) \in Nat /\ t \in Nat /\ Len(C) = t
       /\ \A i \in 1 .. t : C[i] = Cell(sent + 1, i)
  BY <1>3, <1>5, <1>7
<1>9. ASSUME NEW i \in 1 .. Len(Rest) PROVE Rest'[i] = Rest[i]
  <2>1. CASE i <= Len(buffer)
    <3>1. i \in 1 .. Len(buffer)
      BY <1>82, <1>83, <2>1
    <3>2. QED BY <1>82, <3>1
  <2>2. CASE i > Len(buffer)
    <3> DEFINE x == i - Len(buffer)
    <3>1. /\ x \in 1 .. Len(wire) /\ x \in 1 .. Len(wire) + Len(C) /\ i = Len(buffer) + x
      BY <1>82, <1>83, <2>2
    <3> HIDE DEF x
    <3>2. QED BY <1>81, <1>82, <3>1
  <2>3. QED BY <1>82, <1>83, <2>1, <2>2
<1>10. ASSUME NEW i \in 1 .. t PROVE Rest'[Len(Rest) + i] = Cell(sent + 1, i)
  <2>1. /\ Len(wire) + i \in 1 .. Len(wire) + Len(C) /\ i \in 1 .. Len(C)
        /\ Len(Rest) + i = Len(buffer) + (Len(wire) + i)
    BY <1>82, <1>83
  <2>2. Rest'[Len(Rest) + i] = (wire \o C)[Len(wire) + i]
    BY <1>81, <1>82, <2>1
  <2>3. QED BY <1>81, <1>83, <2>1, <2>2
<1>11. Chain(stream, Rest') /\ Ends(stream, sent + 1, Rest')
  BY <1>1, <1>2, <1>8, <1>9, <1>10, SendKeeps DEF Inv, t
<1>12. TypeOK'
  <2>1. sent + 1 \in 0 .. Len(stream) /\ 1 .. sent \subseteq 1 .. sent + 1
    BY <1>1, <1>2
  <2>2. delivered \in Seq(1 .. sent + 1)
    BY <2>1 DEF Inv, TypeOK
  <2>3. QED BY <1>1, <1>7, <1>8, <2>1, <2>2 DEF Inv, TypeOK, CellSet
<1>13. InOrder'
  BY <1>1 DEF Inv, InOrder, Sound
<1>14. /\ delivered \in Seq(1 .. sent) /\ DOMAIN delivered = 1 .. Len(delivered)
       /\ Len(delivered) \in Nat
  BY DEF Inv, TypeOK
<1>15. Ahead(delivered, Rest')
  <2> SUFFICES ASSUME NEW i \in DOMAIN delivered, NEW j \in 1 .. Len(Rest')
               PROVE  delivered[i] < Rest'[j].msg
    <3>1. DOMAIN Rest' = 1 .. Len(Rest')
      BY <1>8
    <3>2. QED BY <3>1, Zenon DEF Ahead
  <2>1. CASE j <= Len(Rest)
    <3>1. j \in DOMAIN Rest /\ j \in 1 .. Len(Rest)
      BY <1>2, <2>1
    <3>2. delivered[i] < Rest[j].msg
      BY <3>1 DEF Inv, Ahead
    <3>3. QED BY <1>9, <3>1, <3>2
  <2>2. CASE j > Len(Rest)
    <3>1. j - Len(Rest) \in 1 .. t /\ j = Len(Rest) + (j - Len(Rest))
      BY <1>2, <1>3, <1>8, <2>2
    <3>2. Rest'[j] = Cell(sent + 1, j - Len(Rest))
      BY <1>10, <3>1
    <3>3. Rest'[j].msg = sent + 1
      BY <3>2 DEF Cell
    <3>4. delivered[i] \in 1 .. sent
      BY <1>14, ElementOfSeq, Zenon
    <3>5. QED BY <1>2, <3>3, <3>4
  <2>3. QED BY <1>2, <1>8, <2>1, <2>2
<1>16. err = <<>> => Unbroken(sent + 1, delivered, Rest')
  <2> SUFFICES ASSUME err = <<>> PROVE Unbroken(sent + 1, delivered, Rest')
    OBVIOUS
  <2>1. Unbroken(sent, delivered, Rest)
    BY DEF Inv
  <2>2. Rest' # <<>>
    BY <1>2, <1>3, <1>8
  <2>3. CASE Rest = <<>>
    <3>1. Len(Rest) = 0 /\ Len(delivered) = sent
      BY <2>1, <2>3 DEF Unbroken
    <3>2. Rest'[1] = Cell(sent + 1, 1)
      BY <1>3, <1>10, <3>1
    <3>3. QED BY <2>1, <2>2, <3>1, <3>2 DEF Unbroken
  <2>4. CASE Rest # <<>>
    <3>1. 1 \in 1 .. Len(Rest)
      BY <1>2, <2>4
    <3>2. Rest'[1] = Rest[1]
      BY <1>9, <3>1
    <3>3. QED BY <2>1, <2>2, <2>4, <3>2 DEF Unbroken
  <2>5. QED BY <2>3, <2>4
<1>17. ASSUME err = <<>>, pc = "idle", Good(Len(delivered) + 1)
       PROVE  Len(buffer) < Total(stream, Len(delivered) + 1)
  <2>1. CASE Len(delivered) < sent
    BY <1>17, <2>1 DEF Inv
  <2>2. CASE ~(Len(delivered) < sent)
    <3>1. Rest = <<>>
      <4> SUFFICES ASSUME Rest # <<>> PROVE FALSE
        OBVIOUS
      <4>1. Rest[1] = Cell(Len(delivered) + 1, 1)
        BY <1>17 DEF Inv, Unbroken
      <4>2. Rest[1] \in CellSet(sent)
        BY <1>2
      <4>3. Len(delivered) + 1 \in 1 .. sent
        BY <4>1, <4>2 DEF Cell, CellSet
      <4>4. QED BY <1>2, <1>14, <2>2, <4>3
    <3>2. Len(buffer) = 0 /\ Len(delivered) = sent
      <4>1. Unbroken(sent, delivered, Rest) /\ Len(Rest) = 0
        BY <1>17, <3>1 DEF Inv
      <4>2. QED BY <1>2, <3>1, <4>1 DEF Unbroken
    <3>3. QED BY <1>3, <3>2 DEF t
  <2>3. QED BY <2>1, <2>2
<1>18. Good(Len(delivered) + 1)' <=> Good(Len(delivered) + 1)
  BY <1>1 DEF Good, Sound
<1>19. QED BY <1>1, <1>11, <1>12, <1>13, <1>15, <1>16, <1>17, <1>18 DEF Inv

\* Reporting an error leaves a history that is not empty.
LEMMA FailLemma ==
  ASSUME TypeOK, NEW code \in Errors, Fail(code)
  PROVE  err' \in Seq(Errors) /\ err' # <<>> /\ pc' = "idle"
<1>1. err \in Seq(Errors)
  BY DEF TypeOK, Errors
<1>2. QED BY <1>1 DEF Fail

LEMMA ArriveInv ==
  ASSUME Inv, NEW n \in 1 .. Len(wire), Arrive(n)
  PROVE  Inv'
<1> DEFINE S == CellSet(sent)
           w == SubSeq(wire, 1, n)
           b == buffer \o w
<1>1. /\ wire' = Drop(wire, n) /\ stream' = stream /\ sent' = sent
      /\ delivered' = delivered
      /\ \/ Len(b) >= MaxSize /\ buffer' = <<>> /\ Fail("E_INVALID_SIZE_HEADER")
         \/ Len(b) < MaxSize /\ buffer' = b /\ pc' = "loop" /\ err' = err
  BY DEF Arrive
<1>2. /\ buffer \in Seq(S) /\ wire \in Seq(S) /\ Rest \in Seq(S)
      /\ Len(buffer) \in Nat /\ Len(wire) \in Nat /\ n \in Nat /\ n <= Len(wire)
      /\ Len(Rest) = Len(buffer) + Len(wire)
  BY TypeFacts DEF Inv
<1> HIDE DEF S
<1>3. /\ w \in Seq(S) /\ Len(w) = n /\ \A i \in 1 .. n : w[i] = wire[i]
  BY <1>2
<1>4. wire' \in Seq(S) /\ Suffix(wire', wire, n)
  BY <1>1, <1>2, DropLemma
<1> HIDE DEF w
<1>5. /\ b \in Seq(S) /\ Len(b) = Len(buffer) + n
      /\ \A i \in 1 .. Len(buffer) : b[i] = buffer[i]
      /\ \A i \in 1 .. n : b[Len(buffer) + i] = w[i]
  <2>1. buffer \in Seq(S) /\ w \in Seq(S)
    BY <1>2, <1>3
  <2>2. /\ b \in Seq(S) /\ Len(b) = Len(buffer) + Len(w)
        /\ \A i \in 1 .. Len(buffer) : b[i] = buffer[i]
        /\ \A i \in 1 .. Len(w) : b[Len(buffer) + i] = w[i]
    BY <2>1, ConcatLemma
  <2>3. QED BY <1>3, <2>2
<1>6. /\ \A i \in 1 .. Len(buffer) : Rest[i] = buffer[i]
      /\ \A i \in 1 .. Len(wire) : Rest[Len(buffer) + i] = wire[i]
  <2>1. buffer \in Seq(S) /\ wire \in Seq(S)
    BY <1>2
  <2>2. QED BY <2>1, ConcatLemma DEF Rest
<1> HIDE DEF b
<1>7. err \in Seq(Errors) /\ Len(<<>>) = 0 /\ 0 < MaxSize /\ <<>> \in Seq(S)
  BY MaxSizeAssumption DEF Inv, TypeOK, Errors
<1>8. Len(wire') = Len(wire) - n /\ \A i \in 1 .. Len(wire') : wire'[i] = wire[i + n]
  BY <1>4 DEF Suffix
<1>9. CASE Len(b) >= MaxSize /\ buffer' = <<>> /\ Fail("E_INVALID_SIZE_HEADER")
  <2>1. err' \in Seq(Errors) /\ err' # <<>> /\ pc' = "idle"
    BY <1>9, FailLemma DEF Inv, Errors
  <2>2. Rest' = wire'
    BY <1>4, <1>9 DEF Rest
  <2>3. Suffix(Rest', Rest, Len(buffer) + n)
    <3>1. \A i \in 1 .. Len(wire') :
             i + n \in 1 .. Len(wire) /\ Len(buffer) + (i + n) = i + (Len(buffer) + n)
      BY <1>2, <1>8
    <3>2. \A i \in 1 .. Len(wire') : wire'[i] = Rest[i + (Len(buffer) + n)]
      BY <1>6, <1>8, <3>1
    <3>3. QED BY <1>2, <1>8, <2>2, <3>2 DEF Suffix
  <2>4. Len(buffer) + n \in Nat
    BY <1>2
  <2>5. QED BY <1>1, <1>4, <1>7, <1>9, <2>1, <2>3, <2>4, Trimming DEF S
<1>10. CASE Len(b) < MaxSize /\ buffer' = b /\ pc' = "loop" /\ err' = err
  <2>1. /\ Rest' \in Seq(S) /\ Len(Rest') = Len(b) + Len(wire')
        /\ \A i \in 1 .. Len(b) : Rest'[i] = b[i]
        /\ \A i \in 1 .. Len(wire') : Rest'[Len(b) + i] = wire'[i]
    <3>1. Rest' = b \o wire'
      BY <1>10 DEF Rest
    <3>2. b \in Seq(S) /\ wire' \in Seq(S)
      BY <1>4, <1>5
    <3>3. QED BY <3>1, <3>2, ConcatLemma
  <2>2. ASSUME NEW i \in 1 .. Len(Rest') PROVE Rest'[i] = Rest[i]
    <3>1. CASE i <= Len(buffer)
      BY <1>2, <1>5, <1>6, <2>1, <3>1
    <3>2. CASE i > Len(buffer) /\ i <= Len(b)
      <4>1. /\ i - Len(buffer) \in 1 .. n /\ i - Len(buffer) \in 1 .. Len(wire)
            /\ i = Len(buffer) + (i - Len(buffer)) /\ i \in 1 .. Len(b)
        BY <1>2, <1>5, <3>2
      <4>2. Rest[i] = wire[i - Len(buffer)] /\ b[i] = w[i - Len(buffer)]
        BY <1>5, <1>6, <4>1
      <4>3. QED BY <1>3, <2>1, <4>1, <4>2
    <3>3. CASE i > Len(b)
      <4>1. /\ i - Len(b) \in 1 .. Len(wire') /\ i - Len(buffer) \in 1 .. Len(wire)
            /\ i = Len(b) + (i - Len(b)) /\ i = Len(buffer) + (i - Len(buffer))
            /\ (i - Len(b)) + n = i - Len(buffer)
        <5>1. /\ i \in Nat /\ n \in Nat /\ Len(b) = Len(buffer) + n
              /\ Len(buffer) \in Nat /\ Len(wire) \in Nat
          BY <1>2, <1>5, <2>1
        <5>2. /\ Len(wire') = Len(wire) - n /\ n <= Len(wire)
              /\ i <= Len(b) + Len(wire')
          BY <1>2, <1>5, <1>8, <2>1
        <5>3. QED BY <3>3, <5>1, <5>2
      <4>2. Rest'[i] = wire'[i - Len(b)] /\ Rest[i] = wire[i - Len(buffer)]
        BY <1>6, <2>1, <4>1
      <4>3. QED BY <1>8, <4>1, <4>2
    <3>4. QED BY <1>2, <1>5, <2>1, <3>1, <3>2, <3>3
  <2>3. Suffix(Rest', Rest, 0)
    BY <1>2, <1>5, <1>8, <2>1, <2>2 DEF Suffix
  <2>4. pc' # "idle" /\ buffer' \in Seq(S) /\ Len(buffer') < MaxSize /\ err' \in Seq(Errors)
    BY <1>5, <1>7, <1>10
  <2>5. QED BY <1>1, <1>4, <1>10, <2>3, <2>4, Trimming DEF S
<1>11. QED BY <1>1, <1>9, <1>10

\* The rounds that leave the buffer alone
LEMMA WaitingInv ==
  ASSUME Inv, NoHeader \/ InvalidSize \/ WaitComplete
  PROVE  Inv'
<1> DEFINE n == Len(delivered)
<1>1. /\ UNCHANGED <<stream, sent, wire, buffer, delivered>> /\ pc' = "idle"
      /\ \/ \E code \in Errors : Fail(code)
         \/ /\ err' = err
            /\ \E d \in Decode(buffer) :
                  \/ ~d.ok /\ ~d.invalid
                  \/ d.ok /\ ~BadSize(d) /\ ~Complete(d)
  BY DEF NoHeader, InvalidSize, WaitComplete, Fail, Errors
<1>2. /\ buffer \in Seq(CellSet(sent)) /\ wire \in Seq(CellSet(sent))
      /\ Rest \in Seq(CellSet(sent)) /\ Len(Rest) \in Nat
      /\ \A i \in 1 .. Len(buffer) : Rest[i] = buffer[i]
      /\ sent \in Nat /\ sent <= Len(stream) /\ Len(stream) \in Nat
      /\ Len(buffer) \in Nat
  BY TypeFacts DEF Inv
<1>3. Suffix(Rest', Rest, 0)
  <2>1. Rest' = Rest
    BY <1>1 DEF Rest
  <2>2. QED BY <1>2, <2>1 DEF Suffix
<1>4. /\ err \in Seq(Errors) /\ Len(buffer') < MaxSize /\ n \in Nat
      /\ buffer' \in Seq(CellSet(sent)) /\ wire' \in Seq(CellSet(sent))
  BY <1>1, <1>2 DEF Inv, TypeOK, Errors
<1>5. CASE \E code \in Errors : Fail(code)
  <2>1. err' \in Seq(Errors) /\ err' # <<>>
    BY <1>5, FailLemma DEF Inv
  <2>2. QED BY <1>1, <1>3, <1>4, <2>1, Trimming
<1>6. CASE /\ err' = err
           /\ \E d \in Decode(buffer) : \/ ~d.ok /\ ~d.invalid
                                        \/ d.ok /\ ~BadSize(d) /\ ~Complete(d)
  <2>1. ASSUME err' = <<>>, n < sent, Good(n + 1)
        PROVE  Len(buffer) < Total(stream, n + 1)
    <3> DEFINE f == n + 1
    <3>1. f \in 1 .. Len(stream)
      BY <1>2, <1>4, <2>1
    <3>2. /\ stream[f].hlen \in Nat \ {0} /\ stream[f].size \in Nat
          /\ Total(stream, f) \in Nat \ {0}
          /\ Total(stream, f) = stream[f].hlen + stream[f].len
      BY <3>1, FrameLemma DEF Inv
    <3>3. stream[f].len = stream[f].size
      BY <2>1 DEF Good, Sound
    <3>4. CASE buffer = <<>>
      BY <3>2, <3>4
    <3>5. CASE buffer # <<>>
      <4>1. Rest # <<>> /\ 1 \in 1 .. Len(buffer)
        BY <1>2, <3>5, TypeFacts DEF Inv
      <4>2. buffer[1] = Cell(f, 1)
        BY <1>2, <1>6, <2>1, <4>1 DEF Inv, Unbroken
      <4>3. buffer[1].at = 1 /\ buffer[1].msg = f
        BY <4>2 DEF Cell
      <4>4. PICK d \in Decode(buffer) : \/ ~d.ok /\ ~d.invalid
                                        \/ d.ok /\ ~BadSize(d) /\ ~Complete(d)
        BY <1>6
      <4>5. CASE ~d.ok /\ ~d.invalid
        <5>1. Len(buffer) < stream[f].hlen
          BY <3>5, <4>3, <4>5, DecodeLemma DEF Inv
        <5>2. QED BY <1>2, <3>2, <3>3, <5>1
      <4>6. CASE d.ok /\ ~Complete(d)
        <5>1. d.len = stream[f].hlen /\ d.size = stream[f].size
          BY <4>3, <4>6, DecodeLemma DEF Inv
        <5>2. ~(Len(buffer) - stream[f].hlen >= stream[f].size)
          BY <4>6, <5>1 DEF Complete
        <5>3. /\ stream[f].hlen \in Nat /\ stream[f].size \in Nat /\ Len(buffer) \in Nat
              /\ Total(stream, f) = stream[f].hlen + stream[f].size
          BY <1>2, <3>2, <3>3
        <5>4. QED BY <5>2, <5>3
      <4>7. QED BY <4>4, <4>5, <4>6
    <3>6. QED BY <3>4, <3>5
  <2>2. err' \in Seq(Errors) /\ buffer' = buffer
    BY <1>1, <1>4, <1>6
  <2>3. QED BY <1>1, <1>3, <1>4, <1>6, <2>1, <2>2, Trimming
<1>7. QED BY <1>1, <1>5, <1>6

\* The header is removed, the body stays: only the boundary is lost.
LEMMA InvalidBodyInv ==
  ASSUME Inv, InvalidBody
  PROVE  Inv'
<1>1. PICK h \in Decode(buffer) : h.ok /\ buffer' = Drop(buffer, h.len)
  BY DEF InvalidBody
<1>2. /\ stream' = stream /\ sent' = sent /\ wire' = wire /\ delivered' = delivered
      /\ \E code \in Errors : Fail(code)
  BY DEF InvalidBody, Errors
<1>3. h.len \in 1 .. Len(buffer)
  BY <1>1, DecodeLemma DEF Inv
<1>4. /\ buffer \in Seq(CellSet(sent)) /\ wire \in Seq(CellSet(sent))
      /\ Len(buffer) \in Nat /\ Len(buffer) < MaxSize /\ MaxSize \in Nat
  BY TypeFacts, MaxSizeAssumption DEF Inv, TypeOK
<1>5. h.len \in 0 .. Len(buffer) /\ h.len \in Nat
  BY <1>3, <1>4
<1>6. buffer' \in Seq(CellSet(sent)) /\ Suffix(buffer', buffer, h.len)
  BY <1>1, <1>4, <1>5, DropLemma
<1>7. Suffix(Rest', Rest, h.len)
  <2>1. Rest' = buffer' \o wire
    BY <1>2 DEF Rest
  <2>2. QED BY <1>4, <1>5, <1>6, <2>1, DropConcat DEF Rest
<1>8. Len(buffer') = Len(buffer) - h.len
  BY <1>6 DEF Suffix
<1>9. Len(buffer') < MaxSize
  BY <1>4, <1>5, <1>8
<1>10. err' \in Seq(Errors) /\ err' # <<>> /\ pc' = "idle"
  BY <1>2, FailLemma DEF Inv
<1>11. QED BY <1>2, <1>4, <1>5, <1>6, <1>7, <1>9, <1>10, Trimming

\* A delivered message was not delivered before, and nothing of it is left.
LEMMA DeliverInv ==
  ASSUME Inv, Deliver
  PROVE  Inv'
<1>1. PICK h \in Decode(buffer) :
         LET body == Drop(buffer, h.len)
         IN  /\ h.ok /\ ~BadSize(h) /\ Complete(h)
             /\ VerifyCheckSum(body, h.size) /\ stream[body[1].msg].tag
             /\ delivered' = Append(delivered, body[1].msg)
             /\ buffer' = Drop(body, h.size)
  BY DEF Deliver
<1> DEFINE S == CellSet(sent)
           body == Drop(buffer, h.len)
           f == body[1].msg
           d == delivered
<1>2. /\ stream' = stream /\ sent' = sent /\ wire' = wire /\ pc' = "loop"
      /\ err' = err
  BY DEF Deliver
<1>3. /\ h.ok /\ ~BadSize(h) /\ Complete(h) /\ VerifyCheckSum(body, h.size)
      /\ stream[f].tag /\ d' = Append(d, f) /\ buffer' = Drop(body, h.size)
  BY <1>1
<1>4. /\ buffer \in Seq(S) /\ wire \in Seq(S) /\ Rest \in Seq(S)
      /\ Len(Rest) = Len(buffer) + Len(wire) /\ Len(wire) \in Nat
      /\ Len(buffer) \in Nat /\ Len(buffer) < MaxSize /\ MaxSize \in Nat
      /\ sent \in Nat /\ sent <= Len(stream) /\ Len(stream) \in Nat
      /\ \A i \in 1 .. Len(buffer) : Rest[i] = buffer[i]
  BY TypeFacts, MaxSizeAssumption DEF Inv, TypeOK
<1>5. h.len \in 1 .. Len(buffer) /\ h.size \in Nat
  BY <1>3, DecodeLemma DEF Inv
<1>6. h.len \in 0 .. Len(buffer) /\ h.len \in Nat
  BY <1>4, <1>5
<1>7. body \in Seq(S) /\ Suffix(body, buffer, h.len)
  BY <1>4, <1>6, DropLemma
<1>8. /\ Len(body) = Len(buffer) - h.len /\ Len(body) \in Nat
      /\ \A i \in 1 .. Len(body) : body[i] = buffer[i + h.len]
  BY <1>7 DEF Suffix
<1> HIDE DEF body
<1>9. h.size >= 2 /\ h.size < MaxSize /\ h.size <= Len(body)
  <2>1. h.size >= 2
    BY <1>3, <1>5 DEF BadSize, MinSize, TagSize, CheckSumSize
  <2>2. Len(buffer) - h.len >= h.size
    BY <1>3 DEF Complete
  <2>3. h.size <= Len(body)
    BY <1>4, <1>5, <1>6, <1>8, <2>2
  <2>4. h.size < MaxSize
    BY <1>4, <1>5, <1>6, <2>2
  <2>5. QED BY <2>1, <2>3, <2>4
<1>10. /\ body[1].at = stream[f].hlen + 1 /\ stream[f].size = h.size
       /\ stream[f].len = h.size /\ stream[f].sum
  BY <1>3 DEF VerifyCheckSum, IsBody
<1>11. 1 \in 1 .. Len(body) /\ body[1] \in S /\ 1 + h.len \in 1 .. Len(buffer)
  <2>1. 1 \in 1 .. Len(body)
    BY <1>5, <1>8, <1>9
  <2>2. body[1] \in S
    BY <1>7, <2>1
  <2>3. 1 + h.len \in 1 .. Len(buffer)
    <3>1. Len(buffer) - h.len >= 1
      BY <1>8, <2>1
    <3>2. 1 + h.len \in Int /\ 1 <= 1 + h.len
      BY <1>6
    <3>3. 1 + h.len <= Len(buffer)
      BY <1>4, <1>6, <3>1
    <3>4. QED BY <1>4, <3>2, <3>3
  <2>4. QED BY <2>1, <2>2, <2>3
<1>12. f \in 1 .. sent /\ body[1] = Cell(f, stream[f].hlen + 1)
  BY <1>10, <1>11 DEF S, CellSet, Cell
<1> HIDE DEF f, S
<1>13. Sound(f)
  BY <1>3, <1>9, <1>10 DEF Sound, MinSize, TagSize, CheckSumSize, f
<1>14. buffer' \in Seq(S) /\ Suffix(buffer', body, h.size)
  <2>1. h.size \in 0 .. Len(body)
    BY <1>5, <1>8, <1>9
  <2>2. QED BY <1>3, <1>7, <2>1, DropLemma
<1>15. Suffix(buffer', buffer, h.len + h.size) /\ h.len + h.size \in 0 .. Len(buffer)
  <2>1. Suffix(buffer', buffer, h.len + h.size)
    BY <1>4, <1>5, <1>6, <1>7, <1>14, SuffixTwice
  <2>2. QED BY <2>1 DEF Suffix
<1>16. Rest' \in Seq(S) /\ Suffix(Rest', Rest, h.len + h.size)
  <2>1. Rest' = buffer' \o wire
    BY <1>2 DEF Rest
  <2>2. Rest' \in Seq(S)
    BY <1>4, <1>14, <2>1, ConcatLemma, Zenon
  <2>3. QED BY <1>4, <1>14, <1>15, <2>1, <2>2, DropConcat DEF Rest
<1>17. Len(buffer') = Len(buffer) - (h.len + h.size) /\ Len(buffer') < MaxSize
  <2>1. Len(buffer') = Len(buffer) - (h.len + h.size)
    BY <1>15 DEF Suffix
  <2>2. h.len + h.size \in Nat
    BY <1>5, <1>6
  <2>3. QED BY <1>4, <2>1, <2>2
<1>18. /\ \A j \in DOMAIN Rest' : Rest'[j].msg > f
       /\ Rest' # <<>> => Rest'[1] = Cell(f + 1, 1)
       /\ Rest' = <<>> => f = sent
  <2>1. Rest[h.len + 1] = Cell(f, stream[f].hlen + 1)
    <3>1. h.len + 1 = 1 + h.len
      BY <1>6
    <3>2. Rest[1 + h.len] = buffer[1 + h.len]
      BY <1>4, <1>11
    <3>3. body[1] = buffer[1 + h.len]
      BY <1>8, <1>11
    <3>4. QED BY <1>12, <3>1, <3>2, <3>3
  <2>2. stream[f].len >= 1 /\ h.len + stream[f].len <= Len(Rest)
    <3>1. /\ Len(buffer) \in Nat /\ Len(wire) \in Nat /\ h.len \in Nat /\ h.size \in Nat
          /\ Len(Rest) = Len(buffer) + Len(wire)
      BY <1>4, <1>5, <1>6
    <3>2. h.size >= 2 /\ h.size <= Len(buffer) - h.len
      BY <1>8, <1>9
    <3>3. h.size >= 1 /\ h.len + h.size <= Len(Rest)
      BY <3>1, <3>2
    <3>4. QED BY <1>10, <3>3
  <2>3. TypeOK /\ Chain(stream, Rest) /\ Ends(stream, sent, Rest)
    BY DEF Inv
  <2>4. Rest \in Seq(CellSet(sent)) /\ Rest' \in Seq(CellSet(sent))
    BY <1>4, <1>16 DEF S
  <2>5. Suffix(Rest', Rest, h.len + stream[f].len)
    BY <1>10, <1>16
  <2>6. QED BY <1>6, <1>12, <2>1, <2>2, <2>3, <2>4, <2>5, BehindBody
<1>19. /\ Chain(stream, Rest') /\ Ends(stream, sent, Rest') /\ Ahead(d, Rest')
  <2>1. h.len + h.size \in Nat
    BY <1>5, <1>6
  <2>2. Chain(stream, Rest) /\ Ends(stream, sent, Rest) /\ Ahead(d, Rest)
    BY DEF Inv
  <2>3. Rest \in Seq(CellSet(sent)) /\ Rest' \in Seq(CellSet(sent))
    BY <1>4, <1>16 DEF S
  <2> HIDE DEF d
  <2>4. Suffix(Rest', Rest, h.len + h.size) /\ sent \in Nat
    BY <1>4, <1>16
  <2>5. /\ Chain(stream, Rest) => Chain(stream, Rest')
        /\ Ends(stream, sent, Rest) => Ends(stream, sent, Rest')
        /\ Ahead(d, Rest) => Ahead(d, Rest')
    BY <2>1, <2>3, <2>4, SuffixKeeps, Zenon
  <2>6. QED BY <2>2, <2>5
<1>20. /\ d \in Seq(1 .. sent) /\ DOMAIN d = 1 .. Len(d) /\ Len(d) \in Nat
  BY DEF Inv, TypeOK
<1>21. /\ d' \in Seq(1 .. sent) /\ Len(d') = Len(d) + 1 /\ DOMAIN d' = 1 .. Len(d) + 1
       /\ \A i \in 1 .. Len(d) : d'[i] = d[i]
       /\ d'[Len(d) + 1] = f
  BY <1>3, <1>12, <1>20
<1>22. \A i \in 1 .. Len(d) : d[i] < f
  <2>1. 1 + h.len \in DOMAIN Rest
    BY <1>4, <1>11
  <2>2. Rest[1 + h.len].msg = f
    BY <1>4, <1>8, <1>11 DEF f
  <2>3. QED BY <1>20, <2>1, <2>2 DEF Inv, Ahead
<1> HIDE DEF d
<1>23. Ahead(d', Rest')
  <2> SUFFICES ASSUME NEW i \in 1 .. Len(d) + 1, NEW j \in DOMAIN Rest'
               PROVE  d'[i] < Rest'[j].msg
    BY <1>21 DEF Ahead
  <2>1. CASE i \in 1 .. Len(d)
    BY <1>19, <1>20, <1>21, <2>1 DEF Ahead
  <2>2. CASE i = Len(d) + 1
    <3>1. d'[i] = f /\ Rest'[j].msg > f /\ f \in Nat
      BY <1>12, <1>18, <1>21, <2>2
    <3>2. Rest'[j] \in S
      BY <1>16
    <3>3. Rest'[j].msg \in Nat
      BY <1>4, <3>2 DEF S, CellSet
    <3>4. QED BY <3>1, <3>3
  <2>3. QED BY <1>20, <2>1, <2>2
<1>24. InOrder'
  <2>1. \A g : Sound(g)' <=> Sound(g)
    BY <1>2 DEF Sound
  <2>2. \A i \in 1 .. Len(d) + 1 : Sound(d'[i])
    <3>1. \A i \in 1 .. Len(d) : Sound(d[i])
      BY <1>20 DEF Inv, InOrder, d
    <3>2. QED BY <1>13, <1>20, <1>21, <3>1
  <2>3. ASSUME NEW i \in 1 .. Len(d) + 1, NEW j \in 1 .. Len(d) + 1, i < j
        PROVE  d'[i] < d'[j]
    <3>1. i \in 1 .. Len(d) /\ d'[i] = d[i]
      BY <1>20, <1>21, <2>3
    <3>2. CASE j = Len(d) + 1
      BY <1>21, <1>22, <3>1, <3>2
    <3>3. CASE j \in 1 .. Len(d)
      BY <1>20, <1>21, <2>3, <3>1, <3>3 DEF Inv, InOrder, d
    <3>4. QED BY <1>20, <3>2, <3>3
  <2>4. QED BY <1>21, <2>1, <2>2, <2>3 DEF InOrder, d
<1>25. TypeOK'
  BY <1>2, <1>4, <1>14, <1>17, <1>21 DEF Inv, TypeOK, CellSet, S, d
<1>26. err = <<>> => Unbroken(sent, d', Rest')
  <2> SUFFICES ASSUME err = <<>> PROVE Unbroken(sent, d', Rest')
    OBVIOUS
  <2>1. Unbroken(sent, d, Rest)
    BY DEF Inv, d
  <2>2. Rest # <<>> /\ Rest[1] = buffer[1] /\ buffer # <<>>
    BY <1>4, <1>5
  <2>3. buffer[1] = Cell(Len(d) + 1, 1)
    BY <2>1, <2>2 DEF Unbroken
  <2>4. buffer[1].msg = Len(d) + 1 /\ buffer[1].at = 1
    BY <2>3 DEF Cell
  <2>5. h.len = stream[Len(d) + 1].hlen
    BY <1>3, <2>4, DecodeLemma DEF Inv
  <2>6. f = Len(d) + 1
    <3> DEFINE g == Len(d) + 1
    <3>0. g \in 1 .. sent
      <4>1. buffer[1] \in S
        BY <1>4, <2>2
      <4>2. QED BY <2>4, <4>1 DEF S, CellSet
    <3>1. /\ stream[g].hlen \in Nat \ {0} /\ stream[g].len \in Nat
          /\ Total(stream, g) = stream[g].hlen + stream[g].len
      BY <1>4, <3>0, FrameLemma DEF Inv
    <3>2. 1 \in DOMAIN Rest /\ 1 + h.len \in DOMAIN Rest /\ 1 <= 1 + h.len
      <4>1. DOMAIN Rest = 1 .. Len(Rest) /\ Len(Rest) \in Nat /\ Len(buffer) <= Len(Rest)
        BY <1>4
      <4>2. 1 + h.len <= Len(buffer) /\ 1 <= 1 + h.len
        BY <1>6, <1>11
      <4>3. QED BY <1>6, <4>1, <4>2
    <3>3. Rest[1].at + ((1 + h.len) - 1) = 1 + h.len /\ Rest[1].msg = g
      BY <1>6, <2>2, <2>4
    <3>4. Rest[1 + h.len] = body[1]
      BY <1>4, <1>8, <1>11
    <3>5. /\ 1 + h.len <= Total(stream, g) => body[1] = Cell(g, 1 + h.len)
          /\ 1 + h.len = Total(stream, g) + 1 => body[1] = Cell(g + 1, 1)
      BY <3>2, <3>3, <3>4 DEF Inv, Chain
    <3> HIDE DEF g
    <3>6. 1 + h.len <= Total(stream, g) \/ 1 + h.len = Total(stream, g) + 1
      BY <1>6, <2>5, <3>1 DEF g
    <3>7. body[1].at # 1
      <4>1. f \in 1 .. Len(stream)
        BY <1>4, <1>12
      <4>2. stream[f].hlen \in Nat \ {0}
        BY <4>1, FrameLemma DEF Inv
      <4>3. QED BY <1>10, <4>2
    <3>8. body[1] = Cell(g, 1 + h.len)
      BY <3>5, <3>6, <3>7 DEF Cell
    <3>9. QED BY <3>8 DEF Cell, f, g
  <2>7. d' = [i \in 1 .. Len(d') |-> i]
    <3>1. d = [i \in 1 .. Len(d) |-> i]
      BY <2>1 DEF Unbroken
    <3>2. \A i \in 1 .. Len(d) : d[i] = i
      BY <3>1
    <3>3. \A i \in 1 .. Len(d) + 1 : d'[i] = i
      BY <1>20, <1>21, <2>6, <3>2
    <3>4. QED BY <1>20, <1>21, <3>3
  <2>8. QED BY <1>18, <1>21, <2>6, <2>7 DEF Unbroken
<1>27. QED BY <1>2, <1>19, <1>23, <1>24, <1>25, <1>26 DEF Inv, d

LEMMA NextInv ==
  ASSUME Inv, [Next]_vars
  PROVE  Inv'
<1>1. CASE Send
  BY <1>1, SendInv
<1>2. CASE \E n \in 1 .. Len(wire) : Arrive(n)
  BY <1>2, ArriveInv
<1>3. CASE NoHeader \/ InvalidSize \/ WaitComplete
  BY <1>3, WaitingInv
<1>4. CASE InvalidBody
  BY <1>4, InvalidBodyInv
<1>5. CASE Deliver
  BY <1>5, DeliverInv
<1>6. CASE UNCHANGED vars
  BY <1>6 DEF vars, Inv, TypeOK, InOrder, Sound, Good, Rest
<1>7. QED BY <1>1, <1>2, <1>3, <1>4, <1>5, <1>6 DEF Next

-----------------------------------------------------------------------------
\* The inductive invariant holds in every reachable state.
THEOREM Invariance == Spec => []Inv
BY InitInv, NextInv, PTL DEF Spec

\* The buffer stays under MAX_SIZE and only messages that were sent are handed
\* to message_cb_, whatever the peer sends and however it arrives.
THEOREM TypeCorrect == Spec => []TypeOK
<1>1. Inv => TypeOK
  BY DEF Inv
<1>2. QED BY <1>1, Invariance, PTL

\* However the stream is cut and whatever errors were reported before, the
\* receive loop delivers only sound messages, in the order they were sent, each
\* at most once.
THEOREM OrderTheorem == Spec => []InOrder
<1>1. Inv => InOrder
  BY DEF Inv
<1>2. QED BY <1>1, Invariance, PTL

\* Without an error nothing is lost, and a message that has arrived completely
\* has been delivered when the callback returns.
THEOREM PromptTheorem == Spec => []Prompt
<1>1. Inv => Prompt
  <2> SUFFICES ASSUME Inv, err = <<>>, pc = "idle"
               PROVE  LET n == Len(delivered)
                      IN  /\ delivered = [i \in 1 .. n |-> i]
                          /\ AllAfter(buffer \o wire, n)
                          /\ n < sent /\ Good(n + 1) => Len(buffer) < Total(stream, n + 1)
    BY DEF Prompt
  <2> DEFINE n == Len(delivered)
  <2>1. Unbroken(sent, delivered, Rest) /\ Ends(stream, sent, Rest) /\ Chain(stream, Rest)
    BY DEF Inv
  <2>2. n < sent /\ Good(n + 1) => Len(buffer) < Total(stream, n + 1)
    BY DEF Inv
  <2>3. Rest \in Seq(CellSet(sent)) /\ Len(Rest) \in Nat /\ sent \in Nat
        /\ sent <= Len(stream) /\ Len(stream) \in Nat
    BY TypeFacts DEF Inv
  <2>4. ASSUME NEW i \in 1 .. Len(Rest) - 1 PROVE Rest[i + 1] = NextCell(Rest[i])
    <3> DEFINE c == Rest[i]
               T == Total(stream, c.msg)
    <3>1. i \in DOMAIN Rest /\ i + 1 \in DOMAIN Rest /\ i <= i + 1
      BY <2>3
    <3>2. c \in CellSet(sent)
      BY <2>3, <3>1
    <3>3. c.msg \in 1 .. sent /\ c.at \in Nat
      BY <3>2 DEF CellSet
    <3>4. T \in Nat
      BY <2>3, <3>3, FrameLemma DEF Inv
    <3>5. /\ c.at + ((i + 1) - i) <= T => Rest[i + 1] = Cell(c.msg, c.at + ((i + 1) - i))
          /\ c.at + ((i + 1) - i) = T + 1 => Rest[i + 1] = Cell(c.msg + 1, 1)
      BY <2>1, <3>1 DEF Chain
    <3>6. c.at + (i - i) > T => c.msg > c.msg
      BY <2>1, <2>3, <3>1 DEF Chain
    <3>7. (i + 1) - i = 1 /\ i - i = 0
      OBVIOUS
    <3> HIDE DEF c, T
    <3>8. c.at <= T
      BY <3>3, <3>4, <3>6, <3>7
    <3>9. CASE c.at < T
      BY <3>3, <3>4, <3>5, <3>7, <3>9 DEF NextCell, c, T
    <3>10. CASE c.at = T
      BY <3>3, <3>4, <3>5, <3>7, <3>10 DEF NextCell, c, T
    <3>11. QED BY <3>3, <3>4, <3>8, <3>9, <3>10
  <2>5. AllAfter(Rest, n)
    BY <2>1, <2>4 DEF AllAfter, Unbroken, Ends
  <2>6. QED BY <2>1, <2>2, <2>5 DEF Unbroken, Rest
<1>2. QED BY <1>1, Invariance, PTL
=============================================================================
