-------------------------- MODULE MmbpMessageProofs -------------------------
(***************************************************************************)
(* TLAPS proofs about MmbpMessage, for every set of characters, all        *)
(* messages, whatever bits are set, and both widths of a length.           *)
(*                                                                         *)
(* A cell sequence is taken apart from the front: Begins, BeginsStr and    *)
(* BeginsVec say what it begins with and what rests.  Every stage of       *)
(* ParseFrom takes what the same stage of SerializeTo put there (KeyStage, *)
(* PayloadStage, ExpireStage), so a parse takes one message (ParseLemma).  *)
(*                                                                         *)
(* A loop over a vector is a recursive function on 0 .. n.  After i passes *)
(* the parser is in front of what remains after i elements (Rests), and    *)
(* the vector it resized is filled up to the i-th (Part); a function with  *)
(* these values follows the recursion, and only one does (Follows).        *)
(***************************************************************************)
EXTENDS MmbpMessage, SequenceTheorems, NaturalsInduction, WellFoundedInduction, TLAPS

\* A set with 0 that is closed under successor has every natural number.
LEMMA SetInduction ==
  ASSUME NEW S, 0 \in S, \A n \in S : n + 1 \in S
  PROVE  Nat \subseteq S
<1> DEFINE R == {ss \in Nat \X Nat : ss[1] < ss[2]}
<1>1. IsWellFoundedOn(R, Nat)
  BY NatLessThanWellFounded, Zenon DEF OpToRel
<1> SUFFICES ASSUME NEW b \in Nat, b \notin S PROVE FALSE
  OBVIOUS
<1>2. PICK x \in Nat \ S : \A y \in Nat \ S : ~(<<y, x>> \in R)
  <2>1. Nat \ S \subseteq Nat /\ Nat \ S # {}
    OBVIOUS
  <2> HIDE DEF R
  <2>2. QED BY <1>1, <2>1, WFMin, Zenon
<1>3. x # 0
  OBVIOUS
<1>4. x - 1 \in Nat /\ x = (x - 1) + 1 /\ <<x - 1, x>> \in R
  BY <1>3
<1>5. x - 1 \in S
  BY <1>2, <1>4
<1>6. QED BY <1>4, <1>5

-----------------------------------------------------------------------------
(* Concatenations                                                           *)

LEMMA Associative ==
  ASSUME NEW U, NEW a \in Seq(U), NEW b \in Seq(U), NEW c \in Seq(U)
  PROVE  (a \o b) \o c = a \o (b \o c)
OBVIOUS

Regroups(U) == \A a, b, c \in Seq(U) : (a \o b) \o c = a \o (b \o c)

LEMMA Regroup ==
  ASSUME NEW U
  PROVE  Regroups(U)
BY Associative DEF Regroups

\* FlattenSeq is the end of a run of concatenations.
LEMMA FlattenRun ==
  ASSUME NEW seqs, Len(seqs) \in Nat, Len(seqs) > 0
  PROVE  \E h : /\ FlattenSeq(seqs) = h[Len(seqs)]
                /\ \A i \in 1 .. Len(seqs) :
                      h[i] = IF i = 1 THEN seqs[i] ELSE h[i - 1] \o seqs[i]
<1> DEFINE l == Len(seqs)
           Next1(f, i) == IF i = 1 THEN seqs[i] ELSE f[i - 1] \o seqs[i]
           IsFlat(f, n) == f = [i \in 1 .. n |-> Next1(f, i)]
           A == {n \in Nat : \E f : IsFlat(f, n)}
           h == CHOOSE f : IsFlat(f, l)
<1>1. 0 \in A
  <2>1. IsFlat([i \in 1 .. 0 |-> seqs[i]], 0)
    OBVIOUS
  <2>2. QED BY <2>1
<1>2. ASSUME NEW n \in A PROVE n + 1 \in A
  <2>1. n \in Nat
    OBVIOUS
  <2>2. PICK f : IsFlat(f, n)
    OBVIOUS
  <2> DEFINE g == [i \in 1 .. n + 1 |-> Next1(f, i)]
  <2>3. ASSUME NEW i \in 1 .. n PROVE g[i] = f[i]
    <3> HIDE DEF Next1
    <3>1. g[i] = Next1(f, i)
      BY <2>1
    <3>2. f[i] = Next1(f, i)
      BY <2>2
    <3>3. QED BY <3>1, <3>2
  <2>4. ASSUME NEW i \in 1 .. n + 1 PROVE Next1(g, i) = Next1(f, i)
    <3>1. CASE i = 1
      BY <3>1
    <3>2. CASE i # 1
      <4>1. i - 1 \in 1 .. n
        BY <2>1, <3>2
      <4>2. g[i - 1] = f[i - 1]
        BY <2>3, <4>1
      <4> HIDE DEF g
      <4>3. QED BY <3>2, <4>2
    <3>3. QED BY <3>1, <3>2
  <2>5. g = [i \in 1 .. n + 1 |-> Next1(f, i)]
    OBVIOUS
  <2> HIDE DEF g, Next1
  <2>6. IsFlat(g, n + 1)
    BY <2>4, <2>5
  <2>7. QED BY <2>1, <2>6
<1> HIDE DEF A
<1>3. l \in A
  BY <1>1, <1>2, SetInduction
<1>4. IsFlat(h, l)
  <2>1. PICK f : IsFlat(f, l)
    BY <1>3 DEF A
  <2> HIDE DEF IsFlat
  <2>2. QED BY <2>1
<1>5. FlattenSeq(seqs) = h[l]
  BY DEF FlattenSeq
<1> HIDE DEF h
<1>6. \A i \in 1 .. l : h[i] = IF i = 1 THEN seqs[i] ELSE h[i - 1] \o seqs[i]
  BY <1>4
<1>7. QED BY <1>5, <1>6

LEMMA FlattenEmpty ==
  ASSUME NEW outs, outs = [i \in 1 .. 0 |-> outs[i]]
  PROVE  FlattenSeq(outs) = <<>>
<1>1. outs = <<>> /\ Len(outs) = 0
  OBVIOUS
<1>2. QED BY <1>1 DEF FlattenSeq

\* The last sequence comes last.
LEMMA FlattenLast ==
  ASSUME NEW U, NEW n \in Nat, NEW outs \in [1 .. n + 1 -> Seq(U)]
  PROVE  FlattenSeq(outs) = FlattenSeq([i \in 1 .. n |-> outs[i]]) \o outs[n + 1]
<1> DEFINE front == [i \in 1 .. n |-> outs[i]]
<1>1. Len(outs) = n + 1 /\ Len(front) = n
  OBVIOUS
<1>2. PICK h : /\ FlattenSeq(outs) = h[n + 1]
               /\ \A i \in 1 .. n + 1 : h[i] = IF i = 1 THEN outs[i] ELSE h[i - 1] \o outs[i]
  <2>1. Len(outs) \in Nat /\ Len(outs) > 0
    BY <1>1
  <2>2. \E h : /\ FlattenSeq(outs) = h[Len(outs)]
               /\ \A i \in 1 .. Len(outs) :
                     h[i] = IF i = 1 THEN outs[i] ELSE h[i - 1] \o outs[i]
    BY <2>1, FlattenRun
  <2>3. QED BY <1>1, <2>2
<1>3. CASE n = 0
  <2>1. h[1] = outs[1] /\ outs[1] \in Seq(U)
    BY <1>2, <1>3
  <2>2. front = [i \in 1 .. 0 |-> front[i]]
    BY <1>3
  <2> HIDE DEF front
  <2>3. FlattenSeq(front) = <<>>
    BY <2>2, FlattenEmpty
  <2>4. <<>> \o outs[1] = outs[1]
    BY <2>1, ConcatEmptySeq
  <2>5. n + 1 = 1
    BY <1>3
  <2>6. QED BY <1>2, <2>1, <2>3, <2>4, <2>5 DEF front
<1>4. CASE n # 0
  <2>1. PICK f : /\ FlattenSeq(front) = f[n]
                 /\ \A i \in 1 .. n : f[i] = IF i = 1 THEN front[i] ELSE f[i - 1] \o front[i]
    <3>1. Len(front) \in Nat /\ Len(front) > 0
      BY <1>1, <1>4
    <3> HIDE DEF front
    <3>2. QED BY <1>1, <3>1, FlattenRun
  <2> DEFINE A == {m \in Nat : m + 1 \in 1 .. n => f[m + 1] = h[m + 1]}
  <2>2. \A i \in 1 .. n : front[i] = outs[i] /\ i \in 1 .. n + 1
    OBVIOUS
  <2> HIDE DEF front
  <2>3. 0 \in A
    BY <1>2, <2>1, <2>2
  <2>4. ASSUME NEW m \in A PROVE m + 1 \in A
    <3> SUFFICES ASSUME (m + 1) + 1 \in 1 .. n PROVE f[(m + 1) + 1] = h[(m + 1) + 1]
      OBVIOUS
    <3>1. PICK k : k = (m + 1) + 1
      OBVIOUS
    <3>2. k \in 1 .. n /\ k # 1 /\ k - 1 = m + 1 /\ m + 1 \in 1 .. n
      BY <3>1
    <3>3. f[m + 1] = h[m + 1]
      BY <3>2
    <3>4. f[k] = f[k - 1] \o front[k] /\ h[k] = h[k - 1] \o outs[k]
      BY <1>2, <2>1, <2>2, <3>2
    <3>5. QED BY <2>2, <3>1, <3>2, <3>3, <3>4
  <2> HIDE DEF A
  <2>5. n - 1 \in A
    <3>1. n - 1 \in Nat
      BY <1>4
    <3>2. QED BY <2>3, <2>4, <3>1, SetInduction
  <2>6. f[n] = h[n]
    <3>1. (n - 1) + 1 = n /\ n \in 1 .. n
      BY <1>4
    <3>2. QED BY <2>5, <3>1 DEF A
  <2>7. h[n + 1] = h[n] \o outs[n + 1]
    <3>1. n + 1 \in 1 .. n + 1 /\ n + 1 # 1 /\ (n + 1) - 1 = n
      BY <1>4
    <3>2. QED BY <1>2, <3>1
  <2>8. QED BY <1>2, <2>1, <2>6, <2>7 DEF front
<1>5. QED BY <1>3, <1>4

LEMMA FlattenSeqs ==
  ASSUME NEW U, NEW n \in Nat, NEW outs \in [1 .. n -> Seq(U)]
  PROVE  FlattenSeq(outs) \in Seq(U)
<1> DEFINE A == {m \in Nat : \A s \in [1 .. m -> Seq(U)] : FlattenSeq(s) \in Seq(U)}
<1>1. 0 \in A
  <2>1. ASSUME NEW s \in [1 .. 0 -> Seq(U)] PROVE FlattenSeq(s) \in Seq(U)
    <3>1. FlattenSeq(s) = <<>>
      BY FlattenEmpty
    <3>2. QED BY <3>1
  <2>2. QED BY <2>1
<1>2. ASSUME NEW m \in A PROVE m + 1 \in A
  <2> SUFFICES ASSUME NEW s \in [1 .. m + 1 -> Seq(U)] PROVE FlattenSeq(s) \in Seq(U)
    OBVIOUS
  <2> DEFINE front == [i \in 1 .. m |-> s[i]]
  <2>1. front \in [1 .. m -> Seq(U)] /\ s[m + 1] \in Seq(U)
    OBVIOUS
  <2>2. FlattenSeq(s) = FlattenSeq(front) \o s[m + 1]
    BY FlattenLast
  <2> HIDE DEF front
  <2>3. FlattenSeq(front) \in Seq(U)
    BY <2>1
  <2>4. QED BY <2>1, <2>2, <2>3, ConcatProperties
<1> HIDE DEF A
<1>3. n \in A
  BY <1>1, <1>2, SetInduction
<1>4. QED BY <1>3 DEF A

\* The first sequence comes first.
LEMMA FlattenFirst ==
  ASSUME NEW U, NEW n \in Nat, NEW outs \in [1 .. n + 1 -> Seq(U)]
  PROVE  FlattenSeq(outs) = outs[1] \o FlattenSeq([i \in 1 .. n |-> outs[i + 1]])
<1> DEFINE First(m) == \A s \in [1 .. m + 1 -> Seq(U)] :
                FlattenSeq(s) = s[1] \o FlattenSeq([i \in 1 .. m |-> s[i + 1]])
           A == {m \in Nat : First(m)}
<1>0. Regroups(U)
  BY Regroup
<1>1. 0 \in A
  <2> SUFFICES ASSUME NEW s \in [1 .. 0 + 1 -> Seq(U)]
               PROVE  FlattenSeq(s) = s[1] \o FlattenSeq([i \in 1 .. 0 |-> s[i + 1]])
    OBVIOUS
  <2> DEFINE none == [i \in 1 .. 0 |-> s[i + 1]]
             front == [i \in 1 .. 0 |-> s[i]]
  <2>1. none = [i \in 1 .. 0 |-> none[i]] /\ front = [i \in 1 .. 0 |-> front[i]]
    OBVIOUS
  <2>2. FlattenSeq(s) = FlattenSeq(front) \o s[0 + 1]
    BY FlattenLast
  <2> HIDE DEF none, front
  <2>3. FlattenSeq(none) = <<>> /\ FlattenSeq(front) = <<>>
    BY <2>1, FlattenEmpty
  <2>4. s[1] \in Seq(U) /\ 0 + 1 = 1
    OBVIOUS
  <2>5. s[1] \o <<>> = s[1] /\ <<>> \o s[1] = s[1]
    BY <2>4, ConcatEmptySeq
  <2>6. QED BY <2>2, <2>3, <2>4, <2>5 DEF none
<1> HIDE DEF First
<1>2. ASSUME NEW m \in A PROVE m + 1 \in A
  <2>0. m \in Nat /\ m + 1 \in Nat /\ First(m)
    BY <1>2
  <2> SUFFICES First(m + 1)
    BY <2>0
  <2> SUFFICES ASSUME NEW s \in [1 .. (m + 1) + 1 -> Seq(U)]
               PROVE  FlattenSeq(s) = s[1] \o FlattenSeq([i \in 1 .. m + 1 |-> s[i + 1]])
    BY DEF First
  <2> DEFINE front == [i \in 1 .. m + 1 |-> s[i]]
             back == [i \in 1 .. m + 1 |-> s[i + 1]]
             mid == [i \in 1 .. m |-> s[i + 1]]
             x == s[(m + 1) + 1]
  <2>1. m \in Nat /\ m + 1 \in Nat
    BY <2>0
  <2>2. /\ front \in [1 .. m + 1 -> Seq(U)] /\ back \in [1 .. m + 1 -> Seq(U)]
        /\ mid \in [1 .. m -> Seq(U)] /\ x \in Seq(U) /\ s[1] \in Seq(U)
        /\ front[1] = s[1] /\ back[m + 1] = x
    BY <2>1
  <2>3. mid = [i \in 1 .. m |-> front[i + 1]] /\ mid = [i \in 1 .. m |-> back[i]]
    BY <2>1
  <2>4. FlattenSeq(s) = FlattenSeq(front) \o x
    BY <2>1, FlattenLast
  <2> HIDE DEF front, back, mid, x
  <2>5. FlattenSeq(front) = s[1] \o FlattenSeq(mid)
    BY <2>0, <2>2, <2>3 DEF First
  <2>6. FlattenSeq(back) = FlattenSeq(mid) \o x
    BY <2>1, <2>2, <2>3, FlattenLast
  <2>7. FlattenSeq(mid) \in Seq(U)
    BY <2>1, <2>2, FlattenSeqs
  <2>8. (s[1] \o FlattenSeq(mid)) \o x = s[1] \o (FlattenSeq(mid) \o x)
    <3> DEFINE a == s[1]
               b == FlattenSeq(mid)
    <3>1. a \in Seq(U) /\ b \in Seq(U) /\ x \in Seq(U)
      BY <2>2, <2>7
    <3> HIDE DEF a, b
    <3>2. (a \o b) \o x = a \o (b \o x)
      BY <1>0, <3>1 DEF Regroups
    <3>3. QED BY <3>2 DEF a, b
  <2>9. QED BY <2>4, <2>5, <2>6, <2>8 DEF back
<1> HIDE DEF A
<1>3. n \in A
  BY <1>1, <1>2, SetInduction
<1>4. QED BY <1>3 DEF A, First

-----------------------------------------------------------------------------
(* Cells and strings                                                        *)

Cells == [k : {"u", "s", "f", "c"}, v : Int \cup Char]

LEMMA CellIn ==
  ASSUME NEW k \in {"u", "s", "f", "c"}, NEW v \in Int \cup Char
  PROVE  Cell(k, v) \in Cells /\ Cell(k, v).k = k /\ Cell(k, v).v = v
BY DEF Cell, Cells

\* A parser
IsParser(p) ==
    p = [in |-> p.in, m |-> p.m, num |-> p.num, str |-> p.str, bad |-> p.bad, raw |-> p.raw]

\* q is p after a value was read, which left rest.
Reads(p, q, rest) ==
    IsParser(q) /\ q.in = rest /\ q.m = p.m /\ q.bad = p.bad /\ q.raw = p.raw

LEMMA SameParser ==
  ASSUME NEW p, NEW q, IsParser(p), IsParser(q), p.in = q.in, p.m = q.m, p.num = q.num,
         p.str = q.str, p.bad = q.bad, p.raw = q.raw
  PROVE  p = q
BY DEF IsParser

\* q is p after a number, or a string, was read.
NumRead(p, q, rest, v) == q = [p EXCEPT !.in = rest, !.num = v]

StrRead(p, q, rest, v) == q = [p EXCEPT !.in = rest, !.str = v]

LEMMA ReadNum ==
  ASSUME NEW p, IsParser(p), NEW rest, NEW v, NEW q, NumRead(p, q, rest, v)
  PROVE  Reads(p, q, rest) /\ q.num = v /\ q.str = p.str
<1>1. q.in = rest /\ q.num = v /\ q.m = p.m /\ q.str = p.str /\ q.bad = p.bad /\ q.raw = p.raw
  BY DEF IsParser, NumRead
<1>2. IsParser(q)
  BY DEF IsParser, NumRead
<1>3. QED BY <1>1, <1>2 DEF Reads

LEMMA ReadStr ==
  ASSUME NEW p, IsParser(p), NEW rest, NEW v, NEW q, StrRead(p, q, rest, v)
  PROVE  Reads(p, q, rest) /\ q.str = v /\ q.num = p.num
<1>1. q.in = rest /\ q.str = v /\ q.m = p.m /\ q.num = p.num /\ q.bad = p.bad /\ q.raw = p.raw
  BY DEF IsParser, StrRead
<1>2. IsParser(q)
  BY DEF IsParser, StrRead
<1>3. QED BY <1>1, <1>2 DEF Reads

\* q is p with another message.
Fills(p, q, m) == q = [p EXCEPT !.m = m]

LEMMA Filling ==
  ASSUME NEW p, IsParser(p), NEW m, NEW q, Fills(p, q, m)
  PROVE  IsParser(q) /\ q.m = m /\ q.in = p.in /\ q.num = p.num /\ q.str = p.str
         /\ q.bad = p.bad /\ q.raw = p.raw
BY DEF IsParser, Fills

\* in is x and then rest.
First(in, x, rest) == rest \in Seq(Cells) /\ in = <<x>> \o rest

LEMMA FirstLemma ==
  ASSUME NEW x \in Cells, NEW rest, NEW in, First(in, x, rest)
  PROVE  in \in Seq(Cells) /\ in # <<>> /\ Head(in) = x /\ Tail(in) = rest
<1>0. rest \in Seq(Cells) /\ in = <<x>> \o rest
  BY DEF First
<1>1. <<x>> \in Seq(Cells) /\ Len(<<x>>) = 1 /\ <<x>>[1] = x
  OBVIOUS
<1>2. /\ in \in Seq(Cells) /\ Len(in) = 1 + Len(rest) /\ Len(rest) \in Nat
      /\ \A i \in 1 .. 1 + Len(rest) : in[i] = IF i <= 1 THEN <<x>>[i] ELSE rest[i - 1]
  BY <1>0
<1>3. in # <<>> /\ in[1] = x
  BY <1>1, <1>2
<1>4. Head(in) = x
  BY <1>2, <1>3
<1>5. Tail(in) \in Seq(Cells) /\ Len(Tail(in)) = Len(rest)
      /\ \A i \in 1 .. Len(rest) : Tail(in)[i] = rest[i]
  BY <1>2, <1>3
<1> DEFINE t == Tail(in)
<1> HIDE DEF t
<1>6. t = rest
  <2>1. t \in Seq(Cells) /\ Len(t) = Len(rest) /\ \A i \in 1 .. Len(t) : t[i] = rest[i]
    BY <1>5 DEF t
  <2>2. rest \in Seq(Cells)
    BY <1>0
  <2>3. QED BY <2>1, <2>2, SeqEqual
<1>7. QED BY <1>2, <1>3, <1>4, <1>6 DEF t

\* in begins with a cell.
Begins(in, k, v, rest) == rest \in Seq(Cells) /\ in = <<Cell(k, v)>> \o rest

LEMMA BeginsLemma ==
  ASSUME NEW k \in {"u", "s", "f", "c"}, NEW v \in Int \cup Char, NEW rest,
         NEW in, Begins(in, k, v, rest)
  PROVE  in # <<>> /\ Head(in).k = k /\ Head(in).v = v /\ Tail(in) = rest
<1>1. PICK x : x = Cell(k, v)
  OBVIOUS
<1>2. x \in Cells /\ x.k = k /\ x.v = v
  BY <1>1, CellIn
<1>3. First(in, x, rest)
  BY <1>1 DEF Begins, First
<1>4. in # <<>> /\ Head(in) = x /\ Tail(in) = rest
  BY <1>2, <1>3, FirstLemma
<1>5. QED BY <1>2, <1>4

LEMMA PopStep ==
  ASSUME NEW p, NEW k, NEW v, NEW rest,
         p.in # <<>>, Tail(p.in) = rest, Head(p.in).k = k, Head(p.in).v = v
  PROVE  NumRead(p, Pop(p, k), rest, v)
BY DEF Pop, NumRead

LEMMA PopLemma ==
  ASSUME NEW k \in {"u", "s", "f", "c"}, NEW v \in Int \cup Char, NEW rest,
         NEW p, IsParser(p), Begins(p.in, k, v, rest)
  PROVE  Reads(p, Pop(p, k), rest) /\ Pop(p, k).num = v /\ Pop(p, k).str = p.str
<1>1. p.in # <<>> /\ Head(p.in).k = k /\ Head(p.in).v = v /\ Tail(p.in) = rest
  BY BeginsLemma
<1>2. NumRead(p, Pop(p, k), rest, v)
  BY <1>1, PopStep
<1>3. QED BY <1>2, ReadNum

LEMMA SmallMod ==
  ASSUME NEW w \in Nat, NEW n \in Nat, n < w
  PROVE  n % w = n
OBVIOUS

\* What a string is written as
LEMMA StrOutCells ==
  ASSUME NEW s \in Seq(Char), NEW w \in Nat, w # 0
  PROVE  StrOut(s, w) \in Seq(Cells)
<1>1. Cell("u", Len(s) % w) \in Cells
  <2>1. Len(s) % w \in Int
    BY LenProperties
  <2>2. QED BY <2>1, CellIn
<1>2. [i \in DOMAIN s |-> Cell("c", s[i])] \in Seq(Cells)
  <2>1. \A i \in 1 .. Len(s) : Cell("c", s[i]) \in Cells
    BY ElementOfSeq, CellIn
  <2> DEFINE c == [i \in 1 .. Len(s) |-> Cell("c", s[i])]
  <2>2. c \in [1 .. Len(s) -> Cells] /\ Len(s) \in Nat
    BY <2>1, LenProperties
  <2>3. c = [i \in DOMAIN s |-> Cell("c", s[i])]
    BY LenProperties
  <2> HIDE DEF c
  <2>4. QED BY <2>2, <2>3
<1>3. <<Cell("u", Len(s) % w)>> \in Seq(Cells)
  BY <1>1
<1>4. QED BY <1>2, <1>3, ConcatProperties DEF StrOut

IsChars(in, n, s) ==
    (\A i \in 1 .. n : in[i].k = "c") /\ [i \in 1 .. n |-> in[i].v] = s

LEMMA StrStep ==
  ASSUME NEW p, NEW q, NEW n, NEW s, NEW rest, Pop(p, "u") = q, q.num = n,
         n <= Len(q.in),
         IsChars(q.in, n, s), SubSeq(q.in, n + 1, Len(q.in)) = rest
  PROVE  StrRead(q, Str(p), rest, s)
BY DEF Str, StrRead, IsChars

\* in begins with a string.
BeginsStr(in, s, w, rest) == rest \in Seq(Cells) /\ in = StrOut(s, w) \o rest

\* Str reads back what StrOut wrote of a string that is not too long.
LEMMA StrLemma ==
  ASSUME NEW s \in Seq(Char), NEW w \in Nat, Len(s) < w, NEW rest,
         NEW p, IsParser(p), BeginsStr(p.in, s, w, rest)
  PROVE  Reads(p, Str(p), rest) /\ Str(p).str = s /\ Str(p).num = Len(s)
<1> DEFINE chars == [i \in DOMAIN s |-> Cell("c", s[i])]
           n == Len(s)
           tail == chars \o rest
<1>0. rest \in Seq(Cells) /\ p.in = StrOut(s, w) \o rest
  BY DEF BeginsStr
<1>1. n \in Nat /\ n % w = n /\ DOMAIN s = 1 .. n /\ \A i \in 1 .. n : s[i] \in Char
  BY LenProperties, SmallMod
<1>2. chars \in Seq(Cells) /\ Len(chars) = n /\ \A i \in 1 .. n : chars[i] = Cell("c", s[i])
  <2>1. \A i \in 1 .. n : Cell("c", s[i]) \in Cells
    BY <1>1, CellIn
  <2>2. chars = [i \in 1 .. n |-> Cell("c", s[i])]
    BY <1>1
  <2> HIDE DEF chars, n
  <2>3. QED BY <1>1, <2>1, <2>2
<1> HIDE DEF chars
<1>3. Cell("u", n) \in Cells
  <2> HIDE DEF n
  <2>1. n \in Int \cup Char
    <3>1. n \in Nat
      BY <1>1
    <3>2. QED BY <3>1
  <2>2. QED BY <2>1, CellIn
<1>4. p.in = <<Cell("u", n)>> \o tail
  <2> DEFINE one == <<Cell("u", n)>>
  <2>1. StrOut(s, w) = one \o chars
    BY <1>1 DEF StrOut, chars
  <2>2. one \in Seq(Cells)
    BY <1>3
  <2> HIDE DEF one
  <2>3. (one \o chars) \o rest = one \o (chars \o rest)
    <3>1. Regroups(Cells)
      BY Regroup
    <3>2. QED BY <1>0, <1>2, <2>2, <3>1 DEF Regroups
  <2>4. QED BY <1>0, <2>1, <2>3 DEF one
<1>5. /\ tail \in Seq(Cells) /\ Len(tail) = n + Len(rest) /\ Len(rest) \in Nat
      /\ \A i \in 1 .. n + Len(rest) : tail[i] = IF i <= n THEN chars[i] ELSE rest[i - n]
  <2> HIDE DEF n
  <2>1. /\ tail \in Seq(Cells) /\ Len(tail) = Len(chars) + Len(rest)
        /\ \A i \in 1 .. Len(chars) + Len(rest) :
              tail[i] = IF i <= Len(chars) THEN chars[i] ELSE rest[i - Len(chars)]
    BY <1>0, <1>2, ConcatProperties
  <2> HIDE DEF tail
  <2>2. Len(rest) \in Nat
    BY LenProperties
  <2>3. QED BY <1>2, <2>1, <2>2
<1> HIDE DEF n, tail
<1>6. PICK q : q = Pop(p, "u")
  OBVIOUS
<1>7. Reads(p, q, tail) /\ q.num = n
  <2>1. n \in Int \cup Char
    <3>1. n \in Nat
      BY <1>1
    <3>2. QED BY <3>1
  <2>2. Begins(p.in, "u", n, tail)
    BY <1>4, <1>5 DEF Begins
  <2>3. QED BY <1>6, <2>1, <2>2, PopLemma
<1>8. \A i \in 1 .. n : tail[i] = Cell("c", s[i]) /\ tail[i].k = "c" /\ tail[i].v = s[i]
  <2> SUFFICES ASSUME NEW i \in 1 .. n
               PROVE  tail[i] = Cell("c", s[i]) /\ tail[i].k = "c" /\ tail[i].v = s[i]
    OBVIOUS
  <2>1. tail[i] = chars[i]
    BY <1>1, <1>5
  <2>2. tail[i] = Cell("c", s[i])
    BY <1>2, <2>1
  <2>3. QED BY <2>2 DEF Cell
<1>9. SubSeq(tail, n + 1, Len(tail)) = rest
  <2> DEFINE r == SubSeq(tail, n + 1, Len(tail))
  <2>1. \A i \in n + 1 .. Len(tail) : tail[i] \in Cells
    BY <1>1, <1>5, ElementOfSeq
  <2>2. /\ r \in Seq(Cells) /\ Len(r) = Len(rest)
        /\ \A i \in 1 .. Len(rest) : r[i] = tail[n + 1 + i - 1]
    BY <1>1, <1>5, <2>1, SubSeqProperties
  <2> HIDE DEF r
  <2>3. \A i \in 1 .. Len(r) : r[i] = rest[i]
    <3> SUFFICES ASSUME NEW i \in 1 .. Len(rest) PROVE r[i] = rest[i]
      BY <2>2
    <3>1. /\ n + 1 + i - 1 \in 1 .. n + Len(rest) /\ ~(n + 1 + i - 1 <= n)
          /\ (n + 1 + i - 1) - n = i
      BY <1>1, <1>5
    <3>2. QED BY <1>5, <2>2, <3>1
  <2>4. r = rest
    BY <1>0, <2>2, <2>3, SeqEqual
  <2>5. QED BY <2>4 DEF r
<1>10. [i \in 1 .. n |-> tail[i].v] = s
  <2>1. [i \in 1 .. n |-> tail[i].v] = [i \in 1 .. n |-> s[i]]
    BY <1>8
  <2>2. s = [i \in 1 .. n |-> s[i]]
    BY LenProperties DEF n
  <2>3. QED BY <2>1, <2>2
<1>11. StrRead(q, Str(p), rest, s)
  <2>1. q.in = tail
    BY <1>7 DEF Reads
  <2>2. n <= Len(q.in)
    BY <1>1, <1>5, <2>1
  <2>3. IsChars(q.in, n, s)
    BY <1>8, <1>10, <2>1 DEF IsChars
  <2>4. SubSeq(q.in, n + 1, Len(q.in)) = rest
    BY <1>9, <2>1
  <2>5. QED BY <1>6, <1>7, <2>2, <2>3, <2>4, StrStep
<1>12. PICK r : r = Str(p)
  OBVIOUS
<1>13. Reads(q, r, rest) /\ r.str = s /\ r.num = n
  <2>1. IsParser(q)
    BY <1>7 DEF Reads
  <2>2. QED BY <1>7, <1>11, <1>12, <2>1, ReadStr
<1>14. Reads(p, r, rest)
  BY <1>7, <1>13 DEF Reads
<1>15. QED BY <1>12, <1>13, <1>14 DEF n

LEMMA ValueLemma ==
  ASSUME NEW s \in Str32, NEW rest, NEW p, IsParser(p), BeginsStr(p.in, s, W32, rest)
  PROVE  Reads(p, Str(p), rest) /\ Str(p).str = s /\ Str(p).num = Len(s)
<1>1. s \in Seq(Char) /\ Len(s) < W32 /\ W32 \in Nat
  BY WidthAssumption DEF Str32
<1>2. QED BY <1>1, StrLemma


-----------------------------------------------------------------------------
(* Fields of a message                                                      *)

Fields == {"head", "bits", "key", "value", "values", "kvs", "u", "vmembers", "expire_time"}

Kvs == [key : Seq(Char), value : Str32]

Weights == [key : Int, value : Str32]

\* q is m with another f.
Differs(m, q, f, v) ==
    q \in Message /\ q[f] = v /\ \A g \in Fields \ {f} : q[g] = m[g]

LEMMA SetHead ==
  ASSUME NEW m \in Message, NEW v \in Nat
  PROVE  Differs(m, [m EXCEPT !.head = v], "head", v)
BY DEF Message, Differs, Fields

LEMMA SetBitsField ==
  ASSUME NEW m \in Message, NEW v \in Nat
  PROVE  Differs(m, [m EXCEPT !.bits = v], "bits", v)
BY DEF Message, Differs, Fields

LEMMA SetKey ==
  ASSUME NEW m \in Message, NEW v \in Seq(Char)
  PROVE  Differs(m, [m EXCEPT !.key = v], "key", v)
BY DEF Message, Differs, Fields

LEMMA SetValue ==
  ASSUME NEW m \in Message, NEW v \in Str32
  PROVE  Differs(m, [m EXCEPT !.value = v], "value", v)
BY DEF Message, Differs, Fields

LEMMA SetValues ==
  ASSUME NEW m \in Message, NEW v \in Vec32(Str32)
  PROVE  Differs(m, [m EXCEPT !.values = v], "values", v)
BY DEF Message, Differs, Fields

LEMMA SetKvs ==
  ASSUME NEW m \in Message, NEW v \in Vec32(Kvs)
  PROVE  Differs(m, [m EXCEPT !.kvs = v], "kvs", v)
BY DEF Message, Differs, Fields, Kvs

LEMMA SetU ==
  ASSUME NEW m \in Message, NEW v \in Int \X Int
  PROVE  Differs(m, [m EXCEPT !.u = v], "u", v)
BY DEF Message, Differs, Fields

LEMMA SetVmembers ==
  ASSUME NEW m \in Message, NEW v \in Vec32(Weights)
  PROVE  Differs(m, [m EXCEPT !.vmembers = v], "vmembers", v)
BY DEF Message, Differs, Fields, Weights

LEMMA SetExpireTime ==
  ASSUME NEW m \in Message, NEW v \in Nat
  PROVE  Differs(m, [m EXCEPT !.expire_time = v], "expire_time", v)
BY DEF Message, Differs, Fields

-----------------------------------------------------------------------------
(* A vector: what is left of it after each element, and the loop            *)

\* R[i] is what comes after the first i of outs.
Rests(R, n, outs, rest) ==
    /\ R \in [0 .. n -> Seq(Cells)]
    /\ R[0] = FlattenSeq(outs) \o rest /\ R[n] = rest
    /\ \A i \in 1 .. n : R[i - 1] = outs[i] \o R[i]

LEMMA RestsExist ==
  ASSUME NEW n \in Nat, NEW outs \in [1 .. n -> Seq(Cells)], NEW rest \in Seq(Cells)
  PROVE  \E R : Rests(R, n, outs, rest)
<1> DEFINE Later(i) == [j \in 1 .. n - i |-> outs[j + i]]
           R == [i \in 0 .. n |-> FlattenSeq(Later(i)) \o rest]
<1>1. \A i \in 0 .. n : n - i \in Nat /\ Later(i) \in [1 .. n - i -> Seq(Cells)]
  OBVIOUS
<1>2. \A i \in 0 .. n : FlattenSeq(Later(i)) \in Seq(Cells)
  <2> HIDE DEF Later
  <2>1. QED BY <1>1, FlattenSeqs
<1>3. R \in [0 .. n -> Seq(Cells)]
  <2> HIDE DEF Later
  <2>1. \A i \in 0 .. n : FlattenSeq(Later(i)) \o rest \in Seq(Cells)
    BY <1>2, ConcatProperties
  <2>2. QED BY <2>1
<1>4. R[0] = FlattenSeq(outs) \o rest
  <2>1. Later(0) = outs
    OBVIOUS
  <2>2. R[0] = FlattenSeq(Later(0)) \o rest
    OBVIOUS
  <2> HIDE DEF Later, R
  <2>3. QED BY <2>1, <2>2
<1>5. R[n] = rest
  <2>1. n - n = 0 /\ Later(n) = [j \in 1 .. 0 |-> Later(n)[j]]
    OBVIOUS
  <2>2. R[n] = FlattenSeq(Later(n)) \o rest
    OBVIOUS
  <2> HIDE DEF Later, R
  <2>3. FlattenSeq(Later(n)) = <<>>
    BY <2>1, FlattenEmpty
  <2>4. QED BY <2>2, <2>3, ConcatEmptySeq
<1>6. ASSUME NEW i \in 1 .. n PROVE R[i - 1] = outs[i] \o R[i]
  <2> DEFINE m == n - i
             s == Later(i - 1)
             t == [k \in 1 .. m |-> s[k + 1]]
  <2>1. m \in Nat /\ i \in 0 .. n /\ i - 1 \in 0 .. n /\ n - (i - 1) = m + 1
    OBVIOUS
  <2>2. s \in [1 .. m + 1 -> Seq(Cells)]
    <3> HIDE DEF Later, m
    <3>1. QED BY <1>1, <2>1
  <2>3. s[1] = outs[i]
    OBVIOUS
  <2>4. t = Later(i)
    OBVIOUS
  <2>5. R[i - 1] = FlattenSeq(s) \o rest /\ R[i] = FlattenSeq(Later(i)) \o rest
    BY <2>1
  <2>6. FlattenSeq(s) = s[1] \o FlattenSeq(t)
    <3> HIDE DEF s, m
    <3>1. QED BY <2>1, <2>2, FlattenFirst
  <2>7. FlattenSeq(Later(i)) \in Seq(Cells) /\ outs[i] \in Seq(Cells)
    BY <1>2, <2>1
  <2> HIDE DEF m, s, t, Later, R
  <2>8. Regroups(Cells)
    BY Regroup
  <2>9. (outs[i] \o FlattenSeq(Later(i))) \o rest = outs[i] \o (FlattenSeq(Later(i)) \o rest)
    BY <2>7, <2>8 DEF Regroups
  <2>10. QED BY <2>3, <2>4, <2>5, <2>6, <2>9
<1> HIDE DEF R
<1>7. QED BY <1>3, <1>4, <1>5, <1>6 DEF Rests

\* A function that follows another one step by step is that one.
LEMMA Follows ==
  ASSUME NEW n \in Nat, NEW g, NEW h, h[0] = g[0],
         \A i \in 1 .. n : h[i - 1] = g[i - 1] => h[i] = g[i]
  PROVE  h[n] = g[n]
<1> DEFINE A == {i \in Nat : i <= n => h[i] = g[i]}
<1>1. 0 \in A
  OBVIOUS
<1>2. ASSUME NEW i \in A PROVE i + 1 \in A
  <2>1. i \in Nat /\ (i <= n => h[i] = g[i])
    OBVIOUS
  <2> SUFFICES ASSUME i + 1 <= n PROVE h[i + 1] = g[i + 1]
    BY <2>1
  <2>2. i + 1 \in 1 .. n /\ (i + 1) - 1 = i /\ h[i] = g[i]
    BY <2>1
  <2>3. QED BY <2>2
<1> HIDE DEF A
<1>3. Nat \subseteq A
  BY <1>1, <1>2, SetInduction
<1>4. QED BY <1>3 DEF A

\* The first i elements of a vector are read.
Part(vec, empty, i) == [j \in 1 .. Len(vec) |-> IF j <= i THEN vec[j] ELSE empty]

LEMMA PartLemma ==
  ASSUME NEW S, NEW vec \in Vec32(S), NEW empty \in S
  PROVE  /\ \A i \in Nat : Part(vec, empty, i) \in Vec32(S)
         /\ Part(vec, empty, 0) = Resized(<<>>, Len(vec), empty)
         /\ Part(vec, empty, Len(vec)) = vec
<1>0. vec \in Seq(S) /\ Len(vec) \in Nat /\ Len(vec) < W32
  BY LenProperties DEF Vec32
<1>1. \A j \in 1 .. Len(vec) : vec[j] \in S
  BY <1>0, ElementOfSeq
<1>2. ASSUME NEW i \in Nat PROVE Part(vec, empty, i) \in Vec32(S)
  <2> DEFINE x == Part(vec, empty, i)
  <2>1. x \in [1 .. Len(vec) -> S]
    BY <1>1 DEF Part
  <2> HIDE DEF x
  <2>2. x \in Seq(S) /\ Len(x) = Len(vec)
    BY <1>0, <2>1
  <2>3. QED BY <1>0, <2>2 DEF Vec32, x
<1>3. Part(vec, empty, 0) = Resized(<<>>, Len(vec), empty)
  <2>1. \A j \in 1 .. Len(vec) : ~(j <= 0) /\ ~(j <= Len(<<>>))
    BY <1>0
  <2>2. QED BY <2>1 DEF Part, Resized
<1>4. Part(vec, empty, Len(vec)) = vec
  <2>1. vec = [j \in 1 .. Len(vec) |-> vec[j]]
    BY <1>0, LenProperties
  <2>2. Part(vec, empty, Len(vec)) = [j \in 1 .. Len(vec) |-> vec[j]]
    BY <1>0 DEF Part
  <2>3. QED BY <2>1, <2>2
<1>5. QED BY <1>2, <1>3, <1>4

\* One more element is read.
LEMMA PartStep ==
  ASSUME NEW S, NEW vec \in Vec32(S), NEW empty, NEW i \in 1 .. Len(vec)
  PROVE  /\ Part(vec, empty, i) = [Part(vec, empty, i - 1) EXCEPT ![i] = vec[i]]
         /\ Part(vec, empty, i - 1)[i] = empty
         /\ i \in DOMAIN Part(vec, empty, i - 1)
<1>0. Len(vec) \in Nat
  BY LenProperties DEF Vec32
<1>1. PICK n \in Nat : n = Len(vec)
  BY <1>0
<1>2. i \in 1 .. n
  BY <1>1
<1>3. Part(vec, empty, i - 1) = [j \in 1 .. n |-> IF j <= i - 1 THEN vec[j] ELSE empty]
  BY <1>1 DEF Part
<1>4. Part(vec, empty, i) = [j \in 1 .. n |-> IF j <= i THEN vec[j] ELSE empty]
  BY <1>1 DEF Part
<1>5. Part(vec, empty, i - 1)[i] = empty /\ i \in DOMAIN Part(vec, empty, i - 1)
  BY <1>2, <1>3
<1>6. [Part(vec, empty, i - 1) EXCEPT ![i] = vec[i]]
         = [j \in 1 .. n |-> IF j <= i THEN vec[j] ELSE empty]
  BY <1>2, <1>3
<1>7. QED BY <1>4, <1>5, <1>6

\* An element is read in part.
LEMMA PartWith ==
  ASSUME NEW S, NEW vec \in Vec32(S), NEW empty \in S, NEW i \in 1 .. Len(vec), NEW x \in S
  PROVE  [Part(vec, empty, i - 1) EXCEPT ![i] = x] \in Vec32(S)
<1>0. Len(vec) \in Nat /\ i \in Nat /\ i - 1 \in Nat
  BY LenProperties DEF Vec32
<1>1. PICK y : y = Part(vec, empty, i - 1)
  OBVIOUS
<1>2. y \in Seq(S) /\ Len(y) < W32
  <2>1. y \in Vec32(S)
    BY <1>0, <1>1, PartLemma
  <2>2. QED BY <2>1 DEF Vec32
<1>3. [y EXCEPT ![i] = x] \in Seq(S) /\ Len([y EXCEPT ![i] = x]) = Len(y)
  <2>1. y = [j \in 1 .. Len(vec) |-> IF j <= i - 1 THEN vec[j] ELSE empty]
    BY <1>1 DEF Part
  <2>2. Len(y) = Len(vec)
    BY <1>0, <2>1
  <2>3. i \in 1 .. Len(y)
    BY <2>2
  <2>4. QED BY <1>2, <2>3, ExceptSeq
<1>4. QED BY <1>1, <1>2, <1>3 DEF Vec32

-----------------------------------------------------------------------------
(* The elements                                                             *)

\* p has the message m in front of rest.
Holds(p, m, rest, bad, raw) ==
    IsParser(p) /\ p.in = rest /\ p.m = m /\ p.bad = bad /\ p.raw = raw

\* The last string that was read is s.
Took(p, m, rest, bad, raw, s) ==
    Holds(p, m, rest, bad, raw) /\ p.num = Len(s) /\ p.str = s

\* m with its values read up to the i-th
ValuesPart(m, vec, i) == [m EXCEPT !.values = Part(vec, <<>>, i)]

LEMMA ValueElemLemma ==
  ASSUME NEW m \in Message, NEW vec \in Vec32(Str32), NEW i \in 1 .. Len(vec), NEW rest,
         NEW bad, NEW raw,
         NEW p, IsParser(p), BeginsStr(p.in, vec[i], W32, rest),
         p.m = ValuesPart(m, vec, i - 1), p.bad = bad, p.raw = raw
  PROVE  Took(ValueElem(p, i), ValuesPart(m, vec, i), rest, bad, raw, vec[i])
<1>1. vec[i] \in Str32 /\ vec[i] \in Seq(Char) /\ Len(vec[i]) < W32 /\ W32 \in Nat
  <2>1. vec[i] \in Str32
    BY ElementOfSeq DEF Vec32
  <2>2. QED BY <2>1, WidthAssumption DEF Str32
<1>2. PICK s : s = Str(p)
  OBVIOUS
<1>3. Reads(p, s, rest) /\ s.str = vec[i] /\ s.num = Len(vec[i])
  <2>1. PICK v \in Seq(Char) : v = vec[i]
    BY <1>1
  <2>2. Len(v) < W32 /\ BeginsStr(p.in, v, W32, rest)
    BY <1>1, <2>1
  <2>3. Reads(p, Str(p), rest) /\ Str(p).str = v /\ Str(p).num = Len(v)
    BY <1>1, <2>2, StrLemma
  <2>4. QED BY <1>2, <2>1, <2>3
<1>4. IsParser(s) /\ s.in = rest /\ s.m = ValuesPart(m, vec, i - 1) /\ s.bad = bad /\ s.raw = raw
  BY <1>3 DEF Reads
<1>5. PICK before : before = Part(vec, <<>>, i - 1)
  OBVIOUS
<1>6. s.m.values = before
  <2>1. <<>> \in Str32
    BY WidthAssumption DEF Str32
  <2>2. before \in Vec32(Str32)
    BY <1>5, <2>1, PartLemma
  <2>3. Differs(m, [m EXCEPT !.values = before], "values", before)
    BY <2>2, SetValues
  <2>4. s.m = [m EXCEPT !.values = before]
    BY <1>4, <1>5 DEF ValuesPart
  <2>5. QED BY <2>3, <2>4 DEF Differs
<1>7. PICK q : q = ValueElem(p, i)
  OBVIOUS
<1>8. q = [s EXCEPT !.m = [s.m EXCEPT !.values = [before EXCEPT ![i] = before[i] \o vec[i]]]]
  BY <1>2, <1>3, <1>6, <1>7 DEF ValueElem
<1>9. [before EXCEPT ![i] = before[i] \o vec[i]] = Part(vec, <<>>, i)
  <2>1. before[i] = <<>> /\ [before EXCEPT ![i] = vec[i]] = Part(vec, <<>>, i)
    BY <1>5, PartStep
  <2>2. <<>> \o vec[i] = vec[i]
    BY <1>1, ConcatEmptySeq
  <2>3. QED BY <2>1, <2>2
<1>10. [s.m EXCEPT !.values = Part(vec, <<>>, i)] = ValuesPart(m, vec, i)
  BY <1>4 DEF ValuesPart
<1>11. Fills(s, q, ValuesPart(m, vec, i))
  BY <1>8, <1>9, <1>10 DEF Fills
<1>12. QED BY <1>3, <1>4, <1>7, <1>11, Filling DEF Holds, Took


Pair == [key |-> <<>>, value |-> <<>>]

\* m with its kvs read up to the i-th
KvsPart(m, vec, i) == [m EXCEPT !.kvs = Part(vec, Pair, i)]

LEMMA EmptyStr == <<>> \in Str32
BY WidthAssumption DEF Str32

LEMMA KvElemLemma ==
  ASSUME NEW m \in Message, NEW vec \in Vec32(Kvs), NEW i \in 1 .. Len(vec), NEW rest, NEW mid,
         NEW bad, NEW raw, Len(vec[i].key) < W16,
         NEW p, IsParser(p), BeginsStr(p.in, vec[i].key, W16, mid),
         BeginsStr(mid, vec[i].value, W32, rest),
         p.m = KvsPart(m, vec, i - 1), p.bad = bad, p.raw = raw
  PROVE  Took(KvElem(p, i), KvsPart(m, vec, i), rest, bad, raw, vec[i].value)
<1>1. PICK key, val : key = vec[i].key /\ val = vec[i].value
  OBVIOUS
<1>2. /\ key \in Seq(Char) /\ Len(key) < W16 /\ W16 \in Nat
      /\ val \in Seq(Char) /\ Len(val) < W32 /\ W32 \in Nat /\ val \in Str32
      /\ vec[i] = [key |-> key, value |-> val]
  <2>1. vec[i] \in Kvs
    BY ElementOfSeq DEF Vec32
  <2>2. QED BY <1>1, <2>1, WidthAssumption DEF Str32, Kvs
<1>3. PICK before : before = Part(vec, Pair, i - 1)
  OBVIOUS
<1>4. PICK half : half = [before EXCEPT ![i] = [key |-> key, value |-> <<>>]]
  OBVIOUS
<1>5. /\ Pair \in Kvs /\ before \in Vec32(Kvs) /\ half \in Vec32(Kvs)
      /\ before[i] = Pair /\ i \in DOMAIN before /\ [before EXCEPT ![i] = vec[i]] = Part(vec, Pair, i)
  <2>1. Pair \in Kvs /\ [key |-> key, value |-> <<>>] \in Kvs
    BY <1>2, EmptyStr DEF Pair, Kvs
  <2>2. i - 1 \in Nat
    BY LenProperties DEF Vec32
  <2>3. before \in Vec32(Kvs)
    BY <1>3, <2>1, <2>2, PartLemma
  <2>4. half \in Vec32(Kvs)
    BY <1>3, <1>4, <2>1, PartWith
  <2>5. before[i] = Pair /\ i \in DOMAIN before /\ [before EXCEPT ![i] = vec[i]] = Part(vec, Pair, i)
    BY <1>3, PartStep
  <2>6. QED BY <2>1, <2>3, <2>4, <2>5
<1>6. PICK k : k = Str(p)
  OBVIOUS
<1>7. IsParser(k) /\ k.in = mid /\ k.m = p.m /\ k.bad = bad /\ k.raw = raw /\ k.str = key
  <2>1. BeginsStr(p.in, key, W16, mid)
    BY <1>1
  <2>2. Reads(p, Str(p), mid) /\ Str(p).str = key
    BY <1>2, <2>1, StrLemma
  <2>3. QED BY <1>6, <2>2 DEF Reads
<1>8. k.m.kvs = before
  <2>1. Differs(m, [m EXCEPT !.kvs = before], "kvs", before)
    BY <1>5, SetKvs
  <2>2. k.m = [m EXCEPT !.kvs = before]
    BY <1>3, <1>7 DEF KvsPart
  <2>3. QED BY <2>1, <2>2 DEF Differs
<1>9. PICK p2 : p2 = [k EXCEPT !.m.kvs[i].key = @ \o k.str]
  OBVIOUS
<1>10. p2 = [k EXCEPT !.m = [m EXCEPT !.kvs = half]]
  <2>1. p2 = [k EXCEPT !.m = [k.m EXCEPT !.kvs = [before EXCEPT ![i] = [before[i] EXCEPT !.key = before[i].key \o key]]]]
    BY <1>7, <1>8, <1>9
  <2>2. before[i].key = <<>> /\ <<>> \o key = key
    BY <1>2, <1>5, ConcatEmptySeq DEF Pair
  <2>3. [before[i] EXCEPT !.key = key] = [key |-> key, value |-> <<>>]
    BY <1>5 DEF Pair
  <2>4. [k.m EXCEPT !.kvs = half] = [m EXCEPT !.kvs = half]
    BY <1>7 DEF KvsPart
  <2>5. QED BY <1>4, <2>1, <2>2, <2>3, <2>4
<1>11. IsParser(p2) /\ p2.in = mid /\ p2.m = [m EXCEPT !.kvs = half] /\ p2.bad = bad /\ p2.raw = raw
  <2>1. PICK m2 : m2 = [m EXCEPT !.kvs = half]
    OBVIOUS
  <2>2. Fills(k, p2, m2)
    BY <1>10, <2>1 DEF Fills
  <2>3. IsParser(k) /\ k.in = mid /\ k.bad = bad /\ k.raw = raw
    BY <1>7
  <2>4. IsParser(p2) /\ p2.in = mid /\ p2.m = m2 /\ p2.bad = bad /\ p2.raw = raw
    BY <2>2, <2>3, Filling
  <2>5. QED BY <2>1, <2>4
<1>12. PICK v : v = Str(p2)
  OBVIOUS
<1>13. /\ IsParser(v) /\ v.in = rest /\ v.m = p2.m /\ v.bad = bad /\ v.raw = raw
       /\ v.str = val /\ v.num = Len(val)
  <2>1. BeginsStr(p2.in, val, W32, rest)
    BY <1>1, <1>11
  <2>2. Reads(p2, Str(p2), rest) /\ Str(p2).str = val /\ Str(p2).num = Len(val)
    <3>1. IsParser(p2)
      BY <1>11
    <3>2. val \in Str32
      BY <1>2
    <3>3. QED BY <2>1, <3>1, <3>2, ValueLemma
  <2>3. QED BY <1>11, <1>12, <2>2 DEF Reads
<1>14. v.m.kvs = half
  <2>1. Differs(m, [m EXCEPT !.kvs = half], "kvs", half)
    BY <1>5, SetKvs
  <2>2. QED BY <1>11, <1>13, <2>1 DEF Differs
<1>15. PICK q : q = KvElem(p, i)
  OBVIOUS
<1>16. q = [v EXCEPT !.m.kvs[i].value = @ \o v.str]
  BY <1>6, <1>9, <1>12, <1>15 DEF KvElem
<1>17. Fills(v, q, KvsPart(m, vec, i))
  <2>1. q = [v EXCEPT !.m = [v.m EXCEPT !.kvs = [half EXCEPT ![i] = [half[i] EXCEPT !.value = half[i].value \o val]]]]
    BY <1>13, <1>14, <1>16
  <2>2. half[i] = [key |-> key, value |-> <<>>] /\ <<>> \o val = val
    BY <1>2, <1>4, <1>5, ConcatEmptySeq
  <2>3. [half[i] EXCEPT !.value = half[i].value \o val] = vec[i]
    BY <1>2, <2>2
  <2>4. [half EXCEPT ![i] = vec[i]] = Part(vec, Pair, i)
    BY <1>4, <1>5
  <2>5. [v.m EXCEPT !.kvs = Part(vec, Pair, i)] = KvsPart(m, vec, i)
    BY <1>11, <1>13 DEF KvsPart
  <2>6. QED BY <2>1, <2>3, <2>4, <2>5 DEF Fills
<1>18. QED BY <1>1, <1>13, <1>15, <1>17, Filling DEF Holds, Took

Weight0 == [key |-> 0, value |-> <<>>]

\* m with its vmembers read up to the i-th
VmembersPart(m, vec, i) == [m EXCEPT !.vmembers = Part(vec, Weight0, i)]

LEMMA WeightElemLemma ==
  ASSUME NEW m \in Message, NEW vec \in Vec32(Weights), NEW i \in 1 .. Len(vec), NEW rest, NEW mid,
         NEW bad, NEW raw, raw = FALSE,
         NEW p, IsParser(p), Begins(p.in, "f", vec[i].key, mid),
         BeginsStr(mid, vec[i].value, W32, rest),
         p.m = VmembersPart(m, vec, i - 1), p.bad = bad, p.raw = raw
  PROVE  Took(WeightElem(p, i), VmembersPart(m, vec, i), rest, bad, raw, vec[i].value)
<1>1. PICK key, val : key = vec[i].key /\ val = vec[i].value
  OBVIOUS
<1>2. /\ key \in Int
      /\ val \in Seq(Char) /\ Len(val) < W32 /\ W32 \in Nat /\ val \in Str32
      /\ vec[i] = [key |-> key, value |-> val]
  <2>1. vec[i] \in Weights
    BY ElementOfSeq DEF Vec32
  <2>2. QED BY <1>1, <2>1, WidthAssumption DEF Str32, Weights
<1>3. PICK before : before = Part(vec, Weight0, i - 1)
  OBVIOUS
<1>4. PICK half : half = [before EXCEPT ![i] = [key |-> key, value |-> <<>>]]
  OBVIOUS
<1>5. /\ before \in Vec32(Weights) /\ half \in Vec32(Weights)
      /\ before[i] = Weight0 /\ i \in DOMAIN before
      /\ [before EXCEPT ![i] = vec[i]] = Part(vec, Weight0, i)
  <2>1. Weight0 \in Weights /\ [key |-> key, value |-> <<>>] \in Weights
    BY <1>2, EmptyStr DEF Weight0, Weights
  <2>2. i - 1 \in Nat
    BY LenProperties DEF Vec32
  <2>3. before \in Vec32(Weights)
    BY <1>3, <2>1, <2>2, PartLemma
  <2>4. half \in Vec32(Weights)
    BY <1>3, <1>4, <2>1, PartWith
  <2>5. before[i] = Weight0 /\ i \in DOMAIN before
        /\ [before EXCEPT ![i] = vec[i]] = Part(vec, Weight0, i)
    BY <1>3, PartStep
  <2>6. QED BY <2>1, <2>3, <2>4, <2>5
<1>6. PICK w : w = Pop(p, "f")
  OBVIOUS
<1>7. IsParser(w) /\ w.in = mid /\ w.m = p.m /\ w.bad = bad /\ w.raw = raw /\ w.num = key
  <2>1. Begins(p.in, "f", key, mid) /\ key \in Int \cup Char
    BY <1>1, <1>2
  <2>2. Reads(p, Pop(p, "f"), mid) /\ Pop(p, "f").num = key
    BY <2>1, PopLemma
  <2>3. QED BY <1>6, <2>2 DEF Reads
<1>8. w.m.vmembers = before
  <2>1. Differs(m, [m EXCEPT !.vmembers = before], "vmembers", before)
    BY <1>5, SetVmembers
  <2>2. w.m = [m EXCEPT !.vmembers = before]
    BY <1>3, <1>7 DEF VmembersPart
  <2>3. QED BY <2>1, <2>2 DEF Differs
<1>9. PICK p2 : p2 = [w EXCEPT !.m.vmembers[i].key = w.num]
  OBVIOUS
<1>10. p2 = [w EXCEPT !.m = [m EXCEPT !.vmembers = half]]
  <2>1. p2 = [w EXCEPT !.m = [w.m EXCEPT !.vmembers = [before EXCEPT ![i] = [before[i] EXCEPT !.key = key]]]]
    BY <1>7, <1>8, <1>9
  <2>3. [before[i] EXCEPT !.key = key] = [key |-> key, value |-> <<>>]
    BY <1>5 DEF Weight0
  <2>4. [w.m EXCEPT !.vmembers = half] = [m EXCEPT !.vmembers = half]
    BY <1>7 DEF VmembersPart
  <2>5. QED BY <1>4, <2>1, <2>3, <2>4
<1>11. IsParser(p2) /\ p2.in = mid /\ p2.m = [m EXCEPT !.vmembers = half] /\ p2.bad = bad /\ p2.raw = raw
  <2>1. PICK m2 : m2 = [m EXCEPT !.vmembers = half]
    OBVIOUS
  <2>2. Fills(w, p2, m2)
    BY <1>10, <2>1 DEF Fills
  <2>3. IsParser(w) /\ w.in = mid /\ w.bad = bad /\ w.raw = raw
    BY <1>7
  <2>4. IsParser(p2) /\ p2.in = mid /\ p2.m = m2 /\ p2.bad = bad /\ p2.raw = raw
    BY <2>2, <2>3, Filling
  <2>5. QED BY <2>1, <2>4
<1>12. PICK v : v = Str(p2)
  OBVIOUS
<1>13. /\ IsParser(v) /\ v.in = rest /\ v.m = p2.m /\ v.bad = bad /\ v.raw = raw
       /\ v.str = val /\ v.num = Len(val)
  <2>1. BeginsStr(p2.in, val, W32, rest)
    BY <1>1, <1>11
  <2>2. Reads(p2, Str(p2), rest) /\ Str(p2).str = val /\ Str(p2).num = Len(val)
    <3>1. PICK x : x = p2
      OBVIOUS
    <3>2. IsParser(x) /\ BeginsStr(x.in, val, W32, rest)
      BY <1>11, <2>1, <3>1
    <3>3. val \in Str32
      BY <1>2
    <3>4. Reads(x, Str(x), rest) /\ Str(x).str = val /\ Str(x).num = Len(val)
      BY <3>2, <3>3, ValueLemma
    <3>5. QED BY <3>1, <3>4
  <2>3. QED BY <1>11, <1>12, <2>2 DEF Reads
<1>14. v.m.vmembers = half
  <2>1. Differs(m, [m EXCEPT !.vmembers = half], "vmembers", half)
    BY <1>5, SetVmembers
  <2>2. QED BY <1>11, <1>13, <2>1 DEF Differs
<1>15. PICK q : q = WeightElem(p, i)
  OBVIOUS
<1>16. q = [v EXCEPT !.m.vmembers[i].value = @ \o v.str]
  BY <1>6, <1>9, <1>12, <1>15 DEF WeightElem
<1>17. Fills(v, q, VmembersPart(m, vec, i))
  <2>1. q = [v EXCEPT !.m = [v.m EXCEPT !.vmembers = [half EXCEPT ![i] = [half[i] EXCEPT !.value = half[i].value \o val]]]]
    BY <1>13, <1>14, <1>16
  <2>2. half[i] = [key |-> key, value |-> <<>>] /\ <<>> \o val = val
    BY <1>2, <1>4, <1>5, ConcatEmptySeq
  <2>3. [half[i] EXCEPT !.value = half[i].value \o val] = vec[i]
    BY <1>2, <2>2
  <2>4. [half EXCEPT ![i] = vec[i]] = Part(vec, Weight0, i)
    BY <1>4, <1>5
  <2>5. [v.m EXCEPT !.vmembers = Part(vec, Weight0, i)] = VmembersPart(m, vec, i)
    BY <1>11, <1>13 DEF VmembersPart
  <2>6. QED BY <2>1, <2>3, <2>4, <2>5 DEF Fills
<1>18. QED BY <1>1, <1>13, <1>15, <1>17, Filling DEF Holds, Took

-----------------------------------------------------------------------------
(* The loops                                                                *)

LEMMA PopNat ==
  ASSUME NEW n \in Nat, NEW rest, NEW p, IsParser(p), Begins(p.in, "u", n, rest)
  PROVE  Reads(p, Pop(p, "u"), rest) /\ Pop(p, "u").num = n /\ Pop(p, "u").str = p.str
<1>1. n \in Int \cup Char
  OBVIOUS
<1>2. QED BY <1>1, PopLemma

\* in begins with a vector.
BeginsVec(in, n, outs, rest) == in = (<<Cell("u", n % W32)>> \o FlattenSeq(outs)) \o rest

\* The length of a vector is read.
LEMMA VecStart ==
  ASSUME NEW n \in Nat, n < W32, NEW outs \in [1 .. n -> Seq(Cells)], NEW rest \in Seq(Cells),
         NEW p, IsParser(p), BeginsVec(p.in, n, outs, rest)
  PROVE  \E R : Rests(R, n, outs, rest) /\ Reads(p, Pop(p, "u"), R[0]) /\ Pop(p, "u").num = n
<1>1. n % W32 = n
  BY WidthAssumption, SmallMod
<1>2. PICK flat \in Seq(Cells) : flat = FlattenSeq(outs)
  BY FlattenSeqs
<1>3. PICK R : Rests(R, n, outs, rest)
  BY RestsExist
<1>4. R[0] = flat \o rest /\ flat \o rest \in Seq(Cells)
  BY <1>2, <1>3 DEF Rests
<1>5. PICK one : one = <<Cell("u", n)>>
  OBVIOUS
<1>6. one \in Seq(Cells)
  BY <1>5, CellIn
<1>7. p.in = (one \o flat) \o rest
  BY <1>1, <1>2, <1>5 DEF BeginsVec
<1>8. (one \o flat) \o rest = one \o (flat \o rest)
  <2>1. Regroups(Cells)
    BY Regroup
  <2>2. QED BY <1>2, <1>6, <2>1 DEF Regroups
<1>9. Begins(p.in, "u", n, R[0])
  BY <1>4, <1>5, <1>7, <1>8 DEF Begins
<1>10. Reads(p, Pop(p, "u"), R[0]) /\ Pop(p, "u").num = n
  <2>1. PICK r : r = R[0]
    OBVIOUS
  <2>2. Begins(p.in, "u", n, r)
    BY <1>9, <2>1
  <2>3. Reads(p, Pop(p, "u"), r) /\ Pop(p, "u").num = n
    BY <2>2, PopNat
  <2>4. QED BY <2>1, <2>3
<1>11. QED BY <1>3, <1>10

ValuesAfter(q, h) ==
    h = [i \in 0 .. q.num |->
            IF i = 0 THEN [q EXCEPT !.m["values"] = Resized(@, q.num, <<>>)]
                     ELSE ValueElem(h[i - 1], i)]

LEMMA ValuesLoop ==
  ASSUME NEW p
  PROVE  LET q == Pop(p, "u")
         IN  Vec(p, "values", <<>>, ValueElem) = (CHOOSE h : ValuesAfter(q, h))[q.num]
BY Zenon DEF Vec, ValuesAfter

LEMMA ValuesLoopRuns ==
  ASSUME NEW q, NEW n \in Nat, q.num = n, NEW g, ValuesAfter(q, g)
  PROVE  (CHOOSE h : ValuesAfter(q, h))[n] = g[n]
<1>1. PICK h : h = CHOOSE x : ValuesAfter(q, x)
  OBVIOUS
<1>2. ValuesAfter(q, h)
  BY <1>1
<1>3. h[0] = g[0]
  BY <1>2 DEF ValuesAfter
<1>4. ASSUME NEW i \in 1 .. n, h[i - 1] = g[i - 1] PROVE h[i] = g[i]
  <2>1. i \in 0 .. n /\ i # 0
    OBVIOUS
  <2>2. h[i] = ValueElem(h[i - 1], i)
    BY <1>2, <2>1 DEF ValuesAfter
  <2>3. g[i] = ValueElem(g[i - 1], i)
    BY <2>1 DEF ValuesAfter
  <2>4. QED BY <1>4, <2>2, <2>3
<1>5. h[n] = g[n]
  BY <1>3, <1>4, Follows
<1>6. QED BY <1>1, <1>5

\* A parser from its parts
Parser(in, m, num, str, bad, raw) ==
    [in |-> in, m |-> m, num |-> num, str |-> str, bad |-> bad, raw |-> raw]

LEMMA ParserParts ==
  ASSUME NEW in, NEW m, NEW num, NEW str, NEW bad, NEW raw
  PROVE  LET p == Parser(in, m, num, str, bad, raw)
         IN  Holds(p, m, in, bad, raw) /\ p.num = num /\ p.str = str
BY DEF Parser, Holds, IsParser

LEMMA ValuesVec ==
  ASSUME NEW m \in Message, m.values = <<>>, NEW vec \in Vec32(Str32), NEW rest \in Seq(Cells),
         NEW bad, NEW raw,
         NEW p, IsParser(p), p.in = VecOut(vec, ValueOut) \o rest,
         p.m = m, p.bad = bad, p.raw = raw
  PROVE  Holds(Vec(p, "values", <<>>, ValueElem), [m EXCEPT !.values = vec], rest, bad, raw)
<1> DEFINE n == Len(vec)
           outs == [i \in 1 .. n |-> ValueOut(vec[i])]
<1>1. /\ n \in Nat /\ n < W32 /\ W32 \in Nat /\ W32 # 0 /\ DOMAIN vec = 1 .. n
      /\ \A i \in 1 .. n : vec[i] \in Str32
  BY LenProperties, ElementOfSeq, WidthAssumption DEF Vec32
<1>2. outs \in [1 .. n -> Seq(Cells)]
  <2>1. \A i \in 1 .. n : vec[i] \in Seq(Char)
    BY <1>1 DEF Str32
  <2>2. \A i \in 1 .. n : ValueOut(vec[i]) \in Seq(Cells)
    BY <1>1, <2>1, StrOutCells DEF ValueOut
  <2>3. QED BY <2>2
<1>3. BeginsVec(p.in, n, outs, rest)
  BY <1>1 DEF VecOut, BeginsVec
<1> HIDE DEF n, outs
<1>4. PICK q : q = Pop(p, "u")
  OBVIOUS
<1>5. PICK R : Rests(R, n, outs, rest) /\ Reads(p, q, R[0]) /\ q.num = n
  BY <1>1, <1>2, <1>3, <1>4, VecStart
<1>6. /\ IsParser(q) /\ q.in = R[0] /\ q.m = m /\ q.bad = bad /\ q.raw = raw /\ q.num = n
  BY <1>5 DEF Reads
<1> DEFINE G(i) == Parser(R[i], ValuesPart(m, vec, i), IF i = 0 THEN n ELSE Len(vec[i]),
                          IF i = 0 THEN q.str ELSE vec[i], bad, raw)
           g == [i \in 0 .. n |-> G(i)]
<1>7. \A i \in 0 .. n : /\ Holds(G(i), ValuesPart(m, vec, i), R[i], bad, raw)
                        /\ G(i).num = IF i = 0 THEN n ELSE Len(vec[i])
                        /\ G(i).str = IF i = 0 THEN q.str ELSE vec[i]
  BY ParserParts
<1> HIDE DEF G
<1>8. G(0) = [q EXCEPT !.m["values"] = Resized(@, q.num, <<>>)]
  <2>1. PICK x : x = [q EXCEPT !.m["values"] = Resized(@, q.num, <<>>)]
    OBVIOUS
  <2>2. Fills(q, x, [m EXCEPT !.values = Resized(<<>>, n, <<>>)])
    BY <1>6, <2>1 DEF Fills
  <2>3. Resized(<<>>, n, <<>>) = Part(vec, <<>>, 0)
    BY EmptyStr, PartLemma DEF n
  <2>4. Fills(q, x, ValuesPart(m, vec, 0))
    BY <2>2, <2>3 DEF ValuesPart
  <2>5. /\ IsParser(x) /\ x.m = ValuesPart(m, vec, 0) /\ x.in = R[0] /\ x.num = n
        /\ x.str = q.str /\ x.bad = bad /\ x.raw = raw
    BY <1>6, <2>4, Filling
  <2>6. /\ IsParser(G(0)) /\ G(0).m = ValuesPart(m, vec, 0) /\ G(0).in = R[0] /\ G(0).num = n
        /\ G(0).str = q.str /\ G(0).bad = bad /\ G(0).raw = raw
    BY <1>1, <1>7 DEF Holds
  <2>7. G(0) = x
    BY <2>5, <2>6, SameParser
  <2>8. QED BY <2>1, <2>7
<1>9. ASSUME NEW i \in 1 .. n PROVE G(i) = ValueElem(G(i - 1), i)
  <2>1. i \in 0 .. n /\ i - 1 \in 0 .. n /\ i # 0
    BY <1>1
  <2>2. PICK y, r : y = G(i - 1) /\ r = R[i]
    OBVIOUS
  <2>3. IsParser(y) /\ y.in = R[i - 1] /\ y.m = ValuesPart(m, vec, i - 1) /\ y.bad = bad /\ y.raw = raw
    BY <1>7, <2>1, <2>2 DEF Holds
  <2>4. BeginsStr(y.in, vec[i], W32, r)
    <3>1. R[i - 1] = outs[i] \o R[i] /\ R[i] \in Seq(Cells)
      BY <1>5, <2>1 DEF Rests
    <3>2. outs[i] = StrOut(vec[i], W32)
      BY DEF outs, ValueOut
    <3>3. QED BY <2>2, <2>3, <3>1, <3>2 DEF BeginsStr
  <2>5. PICK z : z = ValueElem(y, i)
    OBVIOUS
  <2>6. Holds(z, ValuesPart(m, vec, i), r, bad, raw) /\ z.num = Len(vec[i]) /\ z.str = vec[i]
    <3>1. i \in 1 .. Len(vec)
      BY DEF n
    <3>2. Took(z, ValuesPart(m, vec, i), r, bad, raw, vec[i])
      BY <2>3, <2>4, <2>5, <3>1, ValueElemLemma
    <3>3. QED BY <3>2 DEF Took
  <2>7. PICK x : x = G(i)
    OBVIOUS
  <2>8. Holds(x, ValuesPart(m, vec, i), r, bad, raw) /\ x.num = Len(vec[i]) /\ x.str = vec[i]
    BY <1>7, <2>1, <2>2, <2>7
  <2>9. x = z
    BY <2>6, <2>8, SameParser DEF Holds
  <2>10. QED BY <2>2, <2>5, <2>7, <2>9
<1>10. ValuesAfter(q, g)
  <2>1. \A i \in 0 .. n : g[i] = G(i)
    OBVIOUS
  <2>2. \A i \in 0 .. n : i # 0 => i \in 1 .. n /\ i - 1 \in 0 .. n
    BY <1>1
  <2>3. ASSUME NEW i \in 0 .. n
        PROVE  G(i) = IF i = 0 THEN [q EXCEPT !.m["values"] = Resized(@, q.num, <<>>)]
                               ELSE ValueElem(g[i - 1], i)
    <3>1. CASE i = 0
      BY <1>8, <3>1
    <3>2. CASE i # 0
      <4>1. i \in 1 .. n /\ g[i - 1] = G(i - 1)
        BY <2>1, <2>2, <3>2
      <4>2. QED BY <1>9, <3>2, <4>1
    <3>3. QED BY <3>1, <3>2
  <2>4. QED BY <1>6, <2>3 DEF ValuesAfter
<1>11. Vec(p, "values", <<>>, ValueElem) = g[n]
  <2>1. Vec(p, "values", <<>>, ValueElem) = (CHOOSE h : ValuesAfter(q, h))[n]
    BY <1>4, <1>6, ValuesLoop
  <2>2. (CHOOSE h : ValuesAfter(q, h))[n] = g[n]
    BY <1>1, <1>6, <1>10, ValuesLoopRuns
  <2>3. QED BY <2>1, <2>2
<1>12. g[n] = G(n) /\ Holds(G(n), ValuesPart(m, vec, n), R[n], bad, raw) /\ R[n] = rest
  BY <1>1, <1>5, <1>7 DEF Rests
<1>13. ValuesPart(m, vec, n) = [m EXCEPT !.values = vec]
  BY EmptyStr, PartLemma DEF ValuesPart, n
<1>14. QED BY <1>11, <1>12, <1>13

LEMMA PairIn == Pair \in Kvs
BY EmptyStr DEF Pair, Kvs

LEMMA Weight0In == Weight0 \in Weights
BY EmptyStr DEF Weight0, Weights

KvsAfter(q, h) ==
    h = [i \in 0 .. q.num |->
            IF i = 0 THEN [q EXCEPT !.m["kvs"] = Resized(@, q.num, Pair)]
                     ELSE KvElem(h[i - 1], i)]

LEMMA KvsLoop ==
  ASSUME NEW p
  PROVE  LET q == Pop(p, "u")
         IN  Vec(p, "kvs", Pair, KvElem) = (CHOOSE h : KvsAfter(q, h))[q.num]
BY Zenon DEF Vec, KvsAfter

LEMMA KvsLoopRuns ==
  ASSUME NEW q, NEW n \in Nat, q.num = n, NEW g, KvsAfter(q, g)
  PROVE  (CHOOSE h : KvsAfter(q, h))[n] = g[n]
<1>1. PICK h : h = CHOOSE x : KvsAfter(q, x)
  OBVIOUS
<1>2. KvsAfter(q, h)
  BY <1>1
<1>3. h[0] = g[0]
  BY <1>2 DEF KvsAfter
<1>4. ASSUME NEW i \in 1 .. n, h[i - 1] = g[i - 1] PROVE h[i] = g[i]
  <2>1. i \in 0 .. n /\ i # 0
    OBVIOUS
  <2>2. h[i] = KvElem(h[i - 1], i)
    BY <1>2, <2>1 DEF KvsAfter
  <2>3. g[i] = KvElem(g[i - 1], i)
    BY <2>1 DEF KvsAfter
  <2>4. QED BY <1>4, <2>2, <2>3
<1>5. h[n] = g[n]
  BY <1>3, <1>4, Follows
<1>6. QED BY <1>1, <1>5

LEMMA KvOutCells ==
  ASSUME NEW kv \in Kvs
  PROVE  /\ KvOut(kv) \in Seq(Cells)
         /\ StrOut(kv.key, W16) \in Seq(Cells) /\ StrOut(kv.value, W32) \in Seq(Cells)
<1>1. kv.key \in Seq(Char) /\ kv.value \in Seq(Char) /\ W16 \in Nat /\ W16 # 0 /\ W32 \in Nat /\ W32 # 0
  BY WidthAssumption DEF Kvs, Str32
<1>2. StrOut(kv.key, W16) \in Seq(Cells) /\ StrOut(kv.value, W32) \in Seq(Cells)
  BY <1>1, StrOutCells
<1>3. QED BY <1>2, ConcatProperties DEF KvOut

LEMMA KvBegins ==
  ASSUME NEW kv \in Kvs, NEW r \in Seq(Cells), NEW in, in = KvOut(kv) \o r
  PROVE  \E mid : BeginsStr(in, kv.key, W16, mid) /\ BeginsStr(mid, kv.value, W32, r)
<1>1. PICK k, v : k = StrOut(kv.key, W16) /\ v = StrOut(kv.value, W32)
  OBVIOUS
<1>2. k \in Seq(Cells) /\ v \in Seq(Cells)
  BY <1>1, KvOutCells
<1>3. in = (k \o v) \o r
  BY <1>1 DEF KvOut
<1>4. (k \o v) \o r = k \o (v \o r)
  <2>1. Regroups(Cells)
    BY Regroup
  <2>2. QED BY <1>2, <2>1 DEF Regroups
<1>5. PICK mid : mid = v \o r
  OBVIOUS
<1>6. mid \in Seq(Cells)
  BY <1>2, <1>5, ConcatProperties
<1>7. QED BY <1>1, <1>3, <1>4, <1>5, <1>6 DEF BeginsStr

LEMMA KvsVec ==
  ASSUME NEW m \in Message, m.kvs = <<>>, NEW vec \in Vec32(Kvs), NEW rest \in Seq(Cells),
         NEW bad, NEW raw, \A i \in DOMAIN vec : Len(vec[i].key) < W16,
         NEW p, IsParser(p), p.in = VecOut(vec, KvOut) \o rest,
         p.m = m, p.bad = bad, p.raw = raw
  PROVE  Holds(Vec(p, "kvs", Pair, KvElem), [m EXCEPT !.kvs = vec], rest, bad, raw)
<1> DEFINE n == Len(vec)
           outs == [i \in 1 .. n |-> KvOut(vec[i])]
<1>1. /\ n \in Nat /\ n < W32 /\ W32 \in Nat /\ W32 # 0 /\ DOMAIN vec = 1 .. n
      /\ \A i \in 1 .. n : vec[i] \in Kvs
  BY LenProperties, ElementOfSeq, WidthAssumption DEF Vec32
<1>2. outs \in [1 .. n -> Seq(Cells)]
  <2>1. \A i \in 1 .. n : KvOut(vec[i]) \in Seq(Cells)
    BY <1>1, KvOutCells
  <2>2. QED BY <2>1
<1>3. BeginsVec(p.in, n, outs, rest)
  BY <1>1 DEF VecOut, BeginsVec
<1> HIDE DEF n, outs
<1>4. PICK q : q = Pop(p, "u")
  OBVIOUS
<1>5. PICK R : Rests(R, n, outs, rest) /\ Reads(p, q, R[0]) /\ q.num = n
  BY <1>1, <1>2, <1>3, <1>4, VecStart
<1>6. /\ IsParser(q) /\ q.in = R[0] /\ q.m = m /\ q.bad = bad /\ q.raw = raw /\ q.num = n
  BY <1>5 DEF Reads
<1> DEFINE G(i) == Parser(R[i], KvsPart(m, vec, i), IF i = 0 THEN n ELSE Len(vec[i].value),
                          IF i = 0 THEN q.str ELSE vec[i].value, bad, raw)
           g == [i \in 0 .. n |-> G(i)]
<1>7. \A i \in 0 .. n : /\ Holds(G(i), KvsPart(m, vec, i), R[i], bad, raw)
                        /\ G(i).num = IF i = 0 THEN n ELSE Len(vec[i].value)
                        /\ G(i).str = IF i = 0 THEN q.str ELSE vec[i].value
  BY ParserParts
<1> HIDE DEF G
<1>8. G(0) = [q EXCEPT !.m["kvs"] = Resized(@, q.num, Pair)]
  <2>1. PICK x : x = [q EXCEPT !.m["kvs"] = Resized(@, q.num, Pair)]
    OBVIOUS
  <2>2. Fills(q, x, [m EXCEPT !.kvs = Resized(<<>>, n, Pair)])
    BY <1>6, <2>1 DEF Fills
  <2>3. Resized(<<>>, n, Pair) = Part(vec, Pair, 0)
    BY PairIn, PartLemma DEF n
  <2>4. Fills(q, x, KvsPart(m, vec, 0))
    BY <2>2, <2>3 DEF KvsPart
  <2>5. /\ IsParser(x) /\ x.m = KvsPart(m, vec, 0) /\ x.in = R[0] /\ x.num = n
        /\ x.str = q.str /\ x.bad = bad /\ x.raw = raw
    BY <1>6, <2>4, Filling
  <2>6. /\ IsParser(G(0)) /\ G(0).m = KvsPart(m, vec, 0) /\ G(0).in = R[0] /\ G(0).num = n
        /\ G(0).str = q.str /\ G(0).bad = bad /\ G(0).raw = raw
    BY <1>1, <1>7 DEF Holds
  <2>7. G(0) = x
    BY <2>5, <2>6, SameParser
  <2>8. QED BY <2>1, <2>7
<1>9. ASSUME NEW i \in 1 .. n PROVE G(i) = KvElem(G(i - 1), i)
  <2>1. i \in 0 .. n /\ i - 1 \in 0 .. n /\ i # 0
    BY <1>1
  <2>2. PICK y, r : y = G(i - 1) /\ r = R[i]
    OBVIOUS
  <2>3. IsParser(y) /\ y.in = R[i - 1] /\ y.m = KvsPart(m, vec, i - 1) /\ y.bad = bad /\ y.raw = raw
    BY <1>7, <2>1, <2>2 DEF Holds
  <2>4. PICK mid : BeginsStr(y.in, vec[i].key, W16, mid) /\ BeginsStr(mid, vec[i].value, W32, r)
    <3>1. R[i - 1] = outs[i] \o R[i] /\ R[i] \in Seq(Cells)
      BY <1>5, <2>1 DEF Rests
    <3>2. outs[i] = KvOut(vec[i])
      BY DEF outs
    <3>3. vec[i] \in Kvs
      BY <1>1
    <3>4. QED BY <2>2, <2>3, <3>1, <3>2, <3>3, KvBegins
  <2>5. PICK z : z = KvElem(y, i)
    OBVIOUS
  <2>6. Holds(z, KvsPart(m, vec, i), r, bad, raw) /\ z.num = Len(vec[i].value) /\ z.str = vec[i].value
    <3>1. i \in 1 .. Len(vec)
      BY DEF n
    <3>2. Len(vec[i].key) < W16
      BY <1>1
    <3>3. Took(z, KvsPart(m, vec, i), r, bad, raw, vec[i].value)
      BY <2>3, <2>4, <2>5, <3>1, <3>2, KvElemLemma
    <3>4. QED BY <3>3 DEF Took
  <2>7. PICK x : x = G(i)
    OBVIOUS
  <2>8. Holds(x, KvsPart(m, vec, i), r, bad, raw) /\ x.num = Len(vec[i].value) /\ x.str = vec[i].value
    BY <1>7, <2>1, <2>2, <2>7
  <2>9. x = z
    BY <2>6, <2>8, SameParser DEF Holds
  <2>10. QED BY <2>2, <2>5, <2>7, <2>9
<1>10. KvsAfter(q, g)
  <2>1. \A i \in 0 .. n : g[i] = G(i)
    OBVIOUS
  <2>2. \A i \in 0 .. n : i # 0 => i \in 1 .. n /\ i - 1 \in 0 .. n
    BY <1>1
  <2>3. ASSUME NEW i \in 0 .. n
        PROVE  G(i) = IF i = 0 THEN [q EXCEPT !.m["kvs"] = Resized(@, q.num, Pair)]
                               ELSE KvElem(g[i - 1], i)
    <3>1. CASE i = 0
      BY <1>8, <3>1
    <3>2. CASE i # 0
      <4>1. i \in 1 .. n /\ g[i - 1] = G(i - 1)
        BY <2>1, <2>2, <3>2
      <4>2. QED BY <1>9, <3>2, <4>1
    <3>3. QED BY <3>1, <3>2
  <2>4. QED BY <1>6, <2>3 DEF KvsAfter
<1>11. Vec(p, "kvs", Pair, KvElem) = g[n]
  <2>1. Vec(p, "kvs", Pair, KvElem) = (CHOOSE h : KvsAfter(q, h))[n]
    BY <1>4, <1>6, KvsLoop
  <2>2. (CHOOSE h : KvsAfter(q, h))[n] = g[n]
    BY <1>1, <1>6, <1>10, KvsLoopRuns
  <2>3. QED BY <2>1, <2>2
<1>12. g[n] = G(n) /\ Holds(G(n), KvsPart(m, vec, n), R[n], bad, raw) /\ R[n] = rest
  BY <1>1, <1>5, <1>7 DEF Rests
<1>13. KvsPart(m, vec, n) = [m EXCEPT !.kvs = vec]
  BY PairIn, PartLemma DEF KvsPart, n
<1>14. QED BY <1>11, <1>12, <1>13

VmembersAfter(q, h) ==
    h = [i \in 0 .. q.num |->
            IF i = 0 THEN [q EXCEPT !.m["vmembers"] = Resized(@, q.num, Weight0)]
                     ELSE WeightElem(h[i - 1], i)]

LEMMA VmembersLoop ==
  ASSUME NEW p
  PROVE  LET q == Pop(p, "u")
         IN  Vec(p, "vmembers", Weight0, WeightElem) = (CHOOSE h : VmembersAfter(q, h))[q.num]
BY Zenon DEF Vec, VmembersAfter

LEMMA VmembersLoopRuns ==
  ASSUME NEW q, NEW n \in Nat, q.num = n, NEW g, VmembersAfter(q, g)
  PROVE  (CHOOSE h : VmembersAfter(q, h))[n] = g[n]
<1>1. PICK h : h = CHOOSE x : VmembersAfter(q, x)
  OBVIOUS
<1>2. VmembersAfter(q, h)
  BY <1>1
<1>3. h[0] = g[0]
  BY <1>2 DEF VmembersAfter
<1>4. ASSUME NEW i \in 1 .. n, h[i - 1] = g[i - 1] PROVE h[i] = g[i]
  <2>1. i \in 0 .. n /\ i # 0
    OBVIOUS
  <2>2. h[i] = WeightElem(h[i - 1], i)
    BY <1>2, <2>1 DEF VmembersAfter
  <2>3. g[i] = WeightElem(g[i - 1], i)
    BY <2>1 DEF VmembersAfter
  <2>4. QED BY <1>4, <2>2, <2>3
<1>5. h[n] = g[n]
  BY <1>3, <1>4, Follows
<1>6. QED BY <1>1, <1>5

LEMMA WeightOutCells ==
  ASSUME NEW wv \in Weights
  PROVE  /\ WeightOut(wv) \in Seq(Cells)
         /\ <<Cell("f", wv.key)>> \in Seq(Cells) /\ StrOut(wv.value, W32) \in Seq(Cells)
<1>1. wv.key \in Int /\ wv.value \in Seq(Char) /\ W32 \in Nat /\ W32 # 0
  BY WidthAssumption DEF Weights, Str32
<1>2. StrOut(wv.value, W32) \in Seq(Cells)
  BY <1>1, StrOutCells
<1>3. <<Cell("f", wv.key)>> \in Seq(Cells)
  <2>1. Cell("f", wv.key) \in Cells
    BY <1>1, CellIn
  <2>2. QED BY <2>1
<1>4. QED BY <1>2, <1>3, ConcatProperties DEF WeightOut

LEMMA WeightBegins ==
  ASSUME NEW wv \in Weights, NEW r \in Seq(Cells), NEW in, in = WeightOut(wv) \o r
  PROVE  \E mid : Begins(in, "f", wv.key, mid) /\ BeginsStr(mid, wv.value, W32, r)
<1>1. PICK k, v : k = <<Cell("f", wv.key)>> /\ v = StrOut(wv.value, W32)
  OBVIOUS
<1>2. k \in Seq(Cells) /\ v \in Seq(Cells)
  BY <1>1, WeightOutCells
<1>3. in = (k \o v) \o r
  BY <1>1 DEF WeightOut
<1>4. (k \o v) \o r = k \o (v \o r)
  <2>1. Regroups(Cells)
    BY Regroup
  <2>2. QED BY <1>2, <2>1 DEF Regroups
<1>5. PICK mid : mid = v \o r
  OBVIOUS
<1>6. mid \in Seq(Cells)
  BY <1>2, <1>5, ConcatProperties
<1>7. QED BY <1>1, <1>3, <1>4, <1>5, <1>6 DEF Begins, BeginsStr

LEMMA VmembersVec ==
  ASSUME NEW m \in Message, m.vmembers = <<>>, NEW vec \in Vec32(Weights), NEW rest \in Seq(Cells),
         NEW bad, NEW raw, Len(vec) > 0 => raw = FALSE, NEW p, IsParser(p), p.in = VecOut(vec, WeightOut) \o rest,
         p.m = m, p.bad = bad, p.raw = raw
  PROVE  Holds(Vec(p, "vmembers", Weight0, WeightElem), [m EXCEPT !.vmembers = vec], rest, bad, raw)
<1> DEFINE n == Len(vec)
           outs == [i \in 1 .. n |-> WeightOut(vec[i])]
<1>1. /\ n \in Nat /\ n < W32 /\ W32 \in Nat /\ W32 # 0 /\ DOMAIN vec = 1 .. n
      /\ \A i \in 1 .. n : vec[i] \in Weights
  BY LenProperties, ElementOfSeq, WidthAssumption DEF Vec32
<1>2. outs \in [1 .. n -> Seq(Cells)]
  <2>1. \A i \in 1 .. n : WeightOut(vec[i]) \in Seq(Cells)
    BY <1>1, WeightOutCells
  <2>2. QED BY <2>1
<1>3. BeginsVec(p.in, n, outs, rest)
  BY <1>1 DEF VecOut, BeginsVec
<1> HIDE DEF n, outs
<1>4. PICK q : q = Pop(p, "u")
  OBVIOUS
<1>5. PICK R : Rests(R, n, outs, rest) /\ Reads(p, q, R[0]) /\ q.num = n
  BY <1>1, <1>2, <1>3, <1>4, VecStart
<1>6. /\ IsParser(q) /\ q.in = R[0] /\ q.m = m /\ q.bad = bad /\ q.raw = raw /\ q.num = n
  BY <1>5 DEF Reads
<1> DEFINE G(i) == Parser(R[i], VmembersPart(m, vec, i), IF i = 0 THEN n ELSE Len(vec[i].value),
                          IF i = 0 THEN q.str ELSE vec[i].value, bad, raw)
           g == [i \in 0 .. n |-> G(i)]
<1>7. \A i \in 0 .. n : /\ Holds(G(i), VmembersPart(m, vec, i), R[i], bad, raw)
                        /\ G(i).num = IF i = 0 THEN n ELSE Len(vec[i].value)
                        /\ G(i).str = IF i = 0 THEN q.str ELSE vec[i].value
  BY ParserParts
<1> HIDE DEF G
<1>8. G(0) = [q EXCEPT !.m["vmembers"] = Resized(@, q.num, Weight0)]
  <2>1. PICK x : x = [q EXCEPT !.m["vmembers"] = Resized(@, q.num, Weight0)]
    OBVIOUS
  <2>2. Fills(q, x, [m EXCEPT !.vmembers = Resized(<<>>, n, Weight0)])
    BY <1>6, <2>1 DEF Fills
  <2>3. Resized(<<>>, n, Weight0) = Part(vec, Weight0, 0)
    BY Weight0In, PartLemma DEF n
  <2>4. Fills(q, x, VmembersPart(m, vec, 0))
    BY <2>2, <2>3 DEF VmembersPart
  <2>5. /\ IsParser(x) /\ x.m = VmembersPart(m, vec, 0) /\ x.in = R[0] /\ x.num = n
        /\ x.str = q.str /\ x.bad = bad /\ x.raw = raw
    BY <1>6, <2>4, Filling
  <2>6. /\ IsParser(G(0)) /\ G(0).m = VmembersPart(m, vec, 0) /\ G(0).in = R[0] /\ G(0).num = n
        /\ G(0).str = q.str /\ G(0).bad = bad /\ G(0).raw = raw
    BY <1>1, <1>7 DEF Holds
  <2>7. G(0) = x
    BY <2>5, <2>6, SameParser
  <2>8. QED BY <2>1, <2>7
<1>9. ASSUME NEW i \in 1 .. n PROVE G(i) = WeightElem(G(i - 1), i)
  <2>1. i \in 0 .. n /\ i - 1 \in 0 .. n /\ i # 0
    BY <1>1
  <2>2. PICK y, r : y = G(i - 1) /\ r = R[i]
    OBVIOUS
  <2>3. IsParser(y) /\ y.in = R[i - 1] /\ y.m = VmembersPart(m, vec, i - 1) /\ y.bad = bad /\ y.raw = raw
    BY <1>7, <2>1, <2>2 DEF Holds
  <2>4. PICK mid : Begins(y.in, "f", vec[i].key, mid) /\ BeginsStr(mid, vec[i].value, W32, r)
    <3>1. R[i - 1] = outs[i] \o R[i] /\ R[i] \in Seq(Cells)
      BY <1>5, <2>1 DEF Rests
    <3>2. outs[i] = WeightOut(vec[i])
      BY DEF outs
    <3>3. vec[i] \in Weights
      BY <1>1
    <3>4. QED BY <2>2, <2>3, <3>1, <3>2, <3>3, WeightBegins
  <2>5. PICK z : z = WeightElem(y, i)
    OBVIOUS
  <2>6. Holds(z, VmembersPart(m, vec, i), r, bad, raw) /\ z.num = Len(vec[i].value) /\ z.str = vec[i].value
    <3>1. i \in 1 .. Len(vec) /\ raw = FALSE
      BY <1>1 DEF n
    <3>2. Took(z, VmembersPart(m, vec, i), r, bad, raw, vec[i].value)
      BY <2>3, <2>4, <2>5, <3>1, WeightElemLemma
    <3>3. QED BY <3>2 DEF Took
  <2>7. PICK x : x = G(i)
    OBVIOUS
  <2>8. Holds(x, VmembersPart(m, vec, i), r, bad, raw) /\ x.num = Len(vec[i].value) /\ x.str = vec[i].value
    BY <1>7, <2>1, <2>2, <2>7
  <2>9. x = z
    BY <2>6, <2>8, SameParser DEF Holds
  <2>10. QED BY <2>2, <2>5, <2>7, <2>9
<1>10. VmembersAfter(q, g)
  <2>1. \A i \in 0 .. n : g[i] = G(i)
    OBVIOUS
  <2>2. \A i \in 0 .. n : i # 0 => i \in 1 .. n /\ i - 1 \in 0 .. n
    BY <1>1
  <2>3. ASSUME NEW i \in 0 .. n
        PROVE  G(i) = IF i = 0 THEN [q EXCEPT !.m["vmembers"] = Resized(@, q.num, Weight0)]
                               ELSE WeightElem(g[i - 1], i)
    <3>1. CASE i = 0
      BY <1>8, <3>1
    <3>2. CASE i # 0
      <4>1. i \in 1 .. n /\ g[i - 1] = G(i - 1)
        BY <2>1, <2>2, <3>2
      <4>2. QED BY <1>9, <3>2, <4>1
    <3>3. QED BY <3>1, <3>2
  <2>4. QED BY <1>6, <2>3 DEF VmembersAfter
<1>11. Vec(p, "vmembers", Weight0, WeightElem) = g[n]
  <2>1. Vec(p, "vmembers", Weight0, WeightElem) = (CHOOSE h : VmembersAfter(q, h))[n]
    BY <1>4, <1>6, VmembersLoop
  <2>2. (CHOOSE h : VmembersAfter(q, h))[n] = g[n]
    BY <1>1, <1>6, <1>10, VmembersLoopRuns
  <2>3. QED BY <2>1, <2>2
<1>12. g[n] = G(n) /\ Holds(G(n), VmembersPart(m, vec, n), R[n], bad, raw) /\ R[n] = rest
  BY <1>1, <1>5, <1>7 DEF Rests
<1>13. VmembersPart(m, vec, n) = [m EXCEPT !.vmembers = vec]
  BY Weight0In, PartLemma DEF VmembersPart, n
<1>14. QED BY <1>11, <1>12, <1>13

-----------------------------------------------------------------------------
(* Weights in raw data                                                      *)

\* p has met a cell that it does not expect.
Lost(p) == IsParser(p) /\ p.bad = TRUE

LEMMA PopLost ==
  ASSUME NEW p, Lost(p), NEW k
  PROVE  Lost(Pop(p, k))
<1>1. PICK q : q = Pop(p, k)
  OBVIOUS
<1>2. CASE p.in # <<>> /\ Head(p.in).k = k
  <2>1. NumRead(p, q, Tail(p.in), Head(p.in).v)
    BY <1>1, <1>2 DEF Pop, NumRead
  <2>2. QED BY <1>1, <2>1, ReadNum DEF Lost, Reads
<1>3. CASE ~(p.in # <<>> /\ Head(p.in).k = k)
  <2>1. q = [p EXCEPT !.bad = TRUE, !.num = 0]
    BY <1>1, <1>3 DEF Pop
  <2>2. q.bad = TRUE
    BY <2>1 DEF Lost, IsParser
  <2>3. IsParser(q)
    BY <2>1 DEF Lost, IsParser
  <2>4. QED BY <1>1, <2>2, <2>3 DEF Lost
<1>4. QED BY <1>2, <1>3

LEMMA StrLost ==
  ASSUME NEW p, Lost(p)
  PROVE  Lost(Str(p))
<1>1. PICK q : q = Pop(p, "u")
  OBVIOUS
<1>2. Lost(q)
  BY <1>1, PopLost
<1>3. PICK n : n = q.num
  OBVIOUS
<1>4. PICK r : r = Str(p)
  OBVIOUS
<1>5. CASE n <= Len(q.in) /\ \A i \in 1 .. n : q.in[i].k = "c"
  <2>1. PICK x, y : x = SubSeq(q.in, n + 1, Len(q.in)) /\ y = [i \in 1 .. n |-> q.in[i].v]
    OBVIOUS
  <2>2. StrRead(q, r, x, y)
    BY <1>1, <1>3, <1>4, <1>5, <2>1 DEF Str, StrRead
  <2>3. IsParser(q)
    BY <1>2 DEF Lost
  <2>4. Reads(q, r, x)
    BY <2>2, <2>3, ReadStr
  <2>5. QED BY <1>2, <1>4, <2>4 DEF Lost, Reads
<1>6. CASE ~(n <= Len(q.in) /\ \A i \in 1 .. n : q.in[i].k = "c")
  <2>1. r = [q EXCEPT !.bad = TRUE, !.str = <<>>]
    BY <1>1, <1>3, <1>4, <1>6 DEF Str
  <2>2. r.bad = TRUE
    BY <1>2, <2>1 DEF Lost, IsParser
  <2>3. IsParser(r)
    BY <1>2, <2>1 DEF Lost, IsParser
  <2>4. QED BY <1>4, <2>2, <2>3 DEF Lost
<1>7. QED BY <1>5, <1>6

LEMMA FillLost ==
  ASSUME NEW p, Lost(p), NEW q, NEW m, Fills(p, q, m)
  PROVE  Lost(q)
BY Filling DEF Lost

LEMMA WeightElemLost ==
  ASSUME NEW p, NEW w, w = Pop(p, IF p.raw THEN "u" ELSE "f"), Lost(w), NEW i
  PROVE  Lost(WeightElem(p, i))
<1>1. PICK p2 : p2 = [w EXCEPT !.m.vmembers[i].key = w.num]
  OBVIOUS
<1>2. PICK m2 : Fills(w, p2, m2)
  BY <1>1 DEF Fills
<1>3. Lost(p2)
  BY <1>2, FillLost
<1>4. PICK v : v = Str(p2)
  OBVIOUS
<1>5. Lost(v)
  BY <1>3, <1>4, StrLost
<1>6. PICK q : q = [v EXCEPT !.m.vmembers[i].value = @ \o v.str]
  OBVIOUS
<1>7. PICK m3 : Fills(v, q, m3)
  BY <1>6 DEF Fills
<1>8. Lost(q)
  BY <1>5, <1>7, FillLost
<1>9. q = WeightElem(p, i)
  BY <1>1, <1>4, <1>6 DEF WeightElem
<1>10. QED BY <1>8, <1>9

\* Raw data is read as varints, so a weight is not read.
LEMMA RawWeight ==
  ASSUME NEW p, IsParser(p), NEW v \in Int, NEW rest, Begins(p.in, "f", v, rest)
  PROVE  Lost(Pop(p, "u"))
<1>1. PICK q : q = Pop(p, "u")
  OBVIOUS
<1>2. Head(p.in).k = "f"
  BY BeginsLemma
<1>3. q = [p EXCEPT !.bad = TRUE, !.num = 0]
  BY <1>1, <1>2 DEF Pop
<1>4. q.bad = TRUE
  BY <1>3 DEF IsParser
<1>5. IsParser(q)
  BY <1>3 DEF IsParser
<1>6. QED BY <1>1, <1>4, <1>5 DEF Lost

LEMMA VmembersRunExists ==
  ASSUME NEW q, NEW n \in Nat, q.num = n
  PROVE  \E h : VmembersAfter(q, h)
<1> DEFINE first == [q EXCEPT !.m["vmembers"] = Resized(@, q.num, Weight0)]
           D(h, m) == h = [i \in 0 .. m |-> IF i = 0 THEN first ELSE WeightElem(h[i - 1], i)]
           A == {m \in Nat : \E h : D(h, m)}
<1> HIDE DEF first
<1>1. 0 \in A
  <2> DEFINE h == [i \in 0 .. 0 |-> first]
  <2>1. \A i \in 0 .. 0 : i = 0
    OBVIOUS
  <2>2. D(h, 0)
    BY <2>1
  <2> HIDE DEF D
  <2>3. QED BY <2>2
<1>2. ASSUME NEW m \in A PROVE m + 1 \in A
  <2>1. m \in Nat /\ m + 1 \in Nat
    OBVIOUS
  <2>2. PICK h : D(h, m)
    OBVIOUS
  <2> DEFINE g == [i \in 0 .. m + 1 |-> IF i <= m THEN h[i] ELSE WeightElem(h[m], i)]
  <2>3. \A i \in 0 .. m : g[i] = h[i] /\ h[i] = IF i = 0 THEN first ELSE WeightElem(h[i - 1], i)
    BY <2>1, <2>2
  <2>4. g[m + 1] = WeightElem(h[m], m + 1) /\ g[m] = h[m]
    BY <2>1
  <2>5. g = [i \in 0 .. m + 1 |-> g[i]]
    OBVIOUS
  <2> HIDE DEF g
  <2>6. ASSUME NEW i \in 0 .. m + 1 PROVE g[i] = IF i = 0 THEN first ELSE WeightElem(g[i - 1], i)
    <3>1. CASE i = 0
      <4>1. i \in 0 .. m
        BY <2>1, <3>1
      <4>2. QED BY <2>3, <3>1, <4>1
    <3>2. CASE i \in 1 .. m
      <4>1. i \in 0 .. m /\ i - 1 \in 0 .. m /\ i # 0
        BY <2>1, <3>2
      <4>2. QED BY <2>3, <4>1
    <3>3. CASE i = m + 1
      <4>1. i - 1 = m /\ i # 0
        BY <2>1, <3>3
      <4>2. QED BY <2>4, <3>3, <4>1
    <3>4. QED BY <2>1, <3>1, <3>2, <3>3
  <2>7. D(g, m + 1)
    BY <2>5, <2>6
  <2> HIDE DEF D
  <2>8. QED BY <2>1, <2>7
<1> HIDE DEF A
<1>3. n \in A
  BY <1>1, <1>2, SetInduction
<1>4. QED BY <1>3 DEF A, first, VmembersAfter

LEMMA RawVmembers ==
  ASSUME NEW m \in Message, NEW vec \in Vec32(Weights), Len(vec) > 0, NEW rest \in Seq(Cells),
         NEW p, IsParser(p), p.in = VecOut(vec, WeightOut) \o rest, p.raw = TRUE
  PROVE  Lost(Vec(p, "vmembers", Weight0, WeightElem))
<1> DEFINE n == Len(vec)
           outs == [i \in 1 .. n |-> WeightOut(vec[i])]
<1>1. /\ n \in Nat /\ n < W32 /\ W32 \in Nat /\ W32 # 0 /\ DOMAIN vec = 1 .. n /\ n > 0
      /\ \A i \in 1 .. n : vec[i] \in Weights
  BY LenProperties, ElementOfSeq, WidthAssumption DEF Vec32
<1>2. outs \in [1 .. n -> Seq(Cells)]
  <2>1. \A i \in 1 .. n : WeightOut(vec[i]) \in Seq(Cells)
    BY <1>1, WeightOutCells
  <2>2. QED BY <2>1
<1>3. BeginsVec(p.in, n, outs, rest)
  BY <1>1 DEF VecOut, BeginsVec
<1> HIDE DEF n, outs
<1>4. PICK q : q = Pop(p, "u")
  OBVIOUS
<1>5. PICK R : Rests(R, n, outs, rest) /\ Reads(p, q, R[0]) /\ q.num = n
  BY <1>1, <1>2, <1>3, <1>4, VecStart
<1>6. IsParser(q) /\ q.in = R[0] /\ q.raw = TRUE
  BY <1>5 DEF Reads
<1>7. PICK h : h = CHOOSE x : VmembersAfter(q, x)
  OBVIOUS
<1>8. VmembersAfter(q, h)
  BY <1>1, <1>5, <1>7, VmembersRunExists
<1>9. IsParser(h[0]) /\ h[0].in = R[0] /\ h[0].raw = TRUE
  <2>1. PICK x : x = [q EXCEPT !.m["vmembers"] = Resized(@, q.num, Weight0)]
    OBVIOUS
  <2>2. h[0] = x
    BY <1>1, <1>5, <1>8, <2>1 DEF VmembersAfter
  <2>3. PICK m2 : Fills(q, x, m2)
    BY <2>1 DEF Fills
  <2>4. QED BY <1>6, <2>2, <2>3, Filling
<1>10. ASSUME NEW i \in 1 .. n PROVE h[i] = WeightElem(h[i - 1], i)
  <2>1. i \in 0 .. n /\ i # 0
    BY <1>1
  <2>2. q.num = n
    BY <1>5
  <2>3. QED BY <1>8, <2>1, <2>2 DEF VmembersAfter
<1>11. Lost(h[1])
  <2>1. PICK x : x = h[0]
    OBVIOUS
  <2>2. 1 \in 1 .. n
    BY <1>1
  <2>3. R[0] = outs[1] \o R[1] /\ R[1] \in Seq(Cells)
    <3>1. R \in [0 .. n -> Seq(Cells)] /\ \A i \in 1 .. n : R[i - 1] = outs[i] \o R[i]
      BY <1>5 DEF Rests
    <3>2. R[1 - 1] = outs[1] \o R[1]
      BY <2>2, <3>1
    <3>3. 1 \in 0 .. n /\ 1 - 1 = 0
      BY <1>1
    <3>4. QED BY <3>1, <3>2, <3>3
  <2>4. PICK mid : Begins(x.in, "f", vec[1].key, mid)
    <3>1. outs[1] = WeightOut(vec[1])
      BY <2>2 DEF outs
    <3>2. vec[1] \in Weights
      BY <1>1, <2>2
    <3>3. QED BY <1>9, <2>1, <2>3, <3>1, <3>2, WeightBegins
  <2>5. vec[1].key \in Int
    BY <1>1, <2>2 DEF Weights
  <2>6. PICK w : w = Pop(x, "u")
    OBVIOUS
  <2>7. Lost(w)
    BY <1>9, <2>1, <2>4, <2>5, <2>6, RawWeight
  <2>8. w = Pop(x, IF x.raw THEN "u" ELSE "f")
    BY <1>9, <2>1, <2>6
  <2>9. Lost(WeightElem(x, 1))
    BY <2>7, <2>8, WeightElemLost
  <2>10. h[1] = WeightElem(h[1 - 1], 1)
    BY <1>10, <2>2
  <2>11. QED BY <2>1, <2>9, <2>10
<1>12. ASSUME NEW i \in 2 .. n, Lost(h[i - 1]) PROVE Lost(h[i])
  <2>1. PICK x : x = h[i - 1]
    OBVIOUS
  <2>2. PICK w : w = Pop(x, IF x.raw THEN "u" ELSE "f")
    OBVIOUS
  <2>3. Lost(w)
    BY <1>12, <2>1, <2>2, PopLost
  <2>4. Lost(WeightElem(x, i))
    BY <2>2, <2>3, WeightElemLost
  <2>5. i \in 1 .. n
    BY <1>1
  <2>6. QED BY <1>10, <2>1, <2>4, <2>5
<1>13. Lost(h[n])
  <2> DEFINE A == {k \in Nat : k + 1 <= n => Lost(h[k + 1])}
  <2>1. 0 \in A
    BY <1>11
  <2>2. ASSUME NEW k \in A PROVE k + 1 \in A
    <3>1. k \in Nat /\ (k + 1 <= n => Lost(h[k + 1]))
      OBVIOUS
    <3> SUFFICES ASSUME (k + 1) + 1 <= n PROVE Lost(h[(k + 1) + 1])
      BY <3>1
    <3>2. (k + 1) + 1 \in 2 .. n /\ ((k + 1) + 1) - 1 = k + 1 /\ Lost(h[k + 1])
      BY <1>1, <3>1
    <3>3. QED BY <1>12, <3>2
  <2> HIDE DEF A
  <2>3. Nat \subseteq A
    BY <2>1, <2>2, SetInduction
  <2>4. n - 1 \in A /\ (n - 1) + 1 = n
    BY <1>1, <2>3
  <2>5. QED BY <1>1, <2>4 DEF A
<1>14. QED BY <1>4, <1>5, <1>7, <1>13, VmembersLoop

-----------------------------------------------------------------------------
(* The bits and the payload                                                 *)

HasBit(knd, bits, f) == f \in DOMAIN Bit(knd) /\ TestBit(bits, Bit(knd)[f])

PayloadBits(knd, bits) ==
    LET set == {i \in DOMAIN Chain(knd) : HasBit(knd, bits, Chain(knd)[i])}
    IN  IF set = {} THEN "none" ELSE Chain(knd)[CHOOSE i \in set : \A j \in set : i <= j]

\* Which fields travel is a question of the bits.
LEMMA BitsDecide ==
  ASSUME NEW knd, NEW m
  PROVE  /\ Payload(knd, m) = PayloadBits(knd, m.bits)
         /\ \A f : Has(knd, m, f) <=> HasBit(knd, m.bits, f)
<1>1. Payload(knd, m) = PayloadBits(knd, m.bits)
  BY Zenon DEF Payload, PayloadBits, Has, HasBit
<1>2. \A f : Has(knd, m, f) <=> HasBit(knd, m.bits, f)
  BY Zenon DEF Has, HasBit
<1>3. QED BY <1>1, <1>2

LEMMA SameBits ==
  ASSUME NEW knd, NEW m, NEW q, q.bits = m.bits
  PROVE  Payload(knd, q) = Payload(knd, m) /\ \A f : Has(knd, q, f) <=> Has(knd, m, f)
<1>1. Payload(knd, q) = PayloadBits(knd, q.bits) /\ Payload(knd, m) = PayloadBits(knd, m.bits)
  BY BitsDecide
<1>2. \A f : (Has(knd, q, f) <=> HasBit(knd, q.bits, f)) /\ (Has(knd, m, f) <=> HasBit(knd, m.bits, f))
  BY BitsDecide
<1>3. QED BY <1>1, <1>2

\* What a receiver finds of the field that travels
Content(knd, m) ==
    CASE Payload(knd, m) = "none"  -> <<>>
      [] Payload(knd, m) = "count" -> <<Count(knd, m)>>
      [] Payload(knd, m) = "range" -> m.u
      [] OTHER                     -> m[Payload(knd, m)]

\* q says what m says.
Matches(knd, q, m) ==
    /\ q.head = m.head /\ q.bits = m.bits
    /\ Has(knd, m, "key") => q.key = m.key
    /\ Has(knd, m, "expire_time") => q.expire_time = m.expire_time
    /\ Content(knd, q) = Content(knd, m)

LEMMA MatchesObserved ==
  ASSUME NEW knd, NEW q, NEW m, Matches(knd, q, m)
  PROVE  Observed(knd, q) = Observed(knd, m)
<1>1. q.head = m.head /\ q.bits = m.bits /\ Content(knd, q) = Content(knd, m)
  BY DEF Matches
<1>2. Payload(knd, q) = Payload(knd, m) /\ \A f : Has(knd, q, f) <=> Has(knd, m, f)
  BY <1>1, SameBits
<1> DEFINE key(x) == IF Has(knd, x, "key") THEN x.key ELSE <<>>
           expire(x) == IF Has(knd, x, "expire_time") THEN x.expire_time ELSE 0
<1>3. key(q) = key(m) /\ expire(q) = expire(m)
  BY <1>2 DEF Matches
<1>4. \A x : Observed(knd, x) = [head |-> x.head, bits |-> x.bits, key |-> key(x),
                                payload |-> Payload(knd, x), content |-> Content(knd, x),
                                expire_time |-> expire(x)]
  BY Zenon DEF Observed, Content
<1> HIDE DEF key, expire
<1>5. QED BY <1>1, <1>2, <1>3, <1>4

-----------------------------------------------------------------------------
(* A count is the low half of a 64-bit word                                 *)

LEMMA Division ==
  ASSUME NEW w \in Int, w > 0, NEW x \in Int, NEW d \in Int, d = x \div w, NEW r \in Int, r = x % w
  PROVE  x = w * d + r
OBVIOUS

LEMMA Remainder ==
  ASSUME NEW w \in Nat, w > 0, NEW d \in Int, NEW n \in Nat, n < w
  PROVE  (w * d + n) % w = n
OBVIOUS

LEMMA LowHalf ==
  ASSUME NEW w \in Nat, w > 0, NEW x \in Int, NEW n \in Nat, n < w
  PROVE  (x - (x % w)) + n \in Int /\ ((x - (x % w)) + n) % w = n
<1>1. x % w \in Int /\ x \div w \in Int
  OBVIOUS
<1>2. PICK d \in Int, r \in Int : d = x \div w /\ r = x % w
  BY <1>1
<1>3. x = w * d + r
  BY <1>2, Division
<1>4. (x - (x % w)) + n = w * d + n
  BY <1>2, <1>3
<1>5. (w * d + n) % w = n
  BY Remainder
<1>6. w * d + n \in Int
  OBVIOUS
<1>7. QED BY <1>4, <1>5, <1>6

-----------------------------------------------------------------------------
(* What SerializeTo writes                                                  *)

KeyOut(knd, m) == IF Has(knd, m, "key") THEN StrOut(m.key, W16) ELSE <<>>

ExpireOut(knd, m) == IF Has(knd, m, "expire_time") THEN <<Cell("u", m.expire_time)>> ELSE <<>>

LEMMA OneCell ==
  ASSUME NEW k \in {"u", "s", "f", "c"}, NEW v \in Int
  PROVE  <<Cell(k, v)>> \in Seq(Cells)
<1>1. Cell(k, v) \in Cells
  BY CellIn
<1>2. QED BY <1>1

LEMMA MessageFields ==
  ASSUME NEW m \in Message
  PROVE  /\ m.head \in Nat /\ m.bits \in Nat /\ m.key \in Seq(Char) /\ m.value \in Str32
         /\ m.values \in Vec32(Str32) /\ m.kvs \in Vec32(Kvs)
         /\ m.u \in Int \X Int /\ m.u[1] \in Int /\ m.u[2] \in Int
         /\ m.vmembers \in Vec32(Weights) /\ m.expire_time \in Nat
BY DEF Message, Kvs, Weights

LEMMA VecOutCells ==
  ASSUME NEW vec, Len(vec) \in Nat, DOMAIN vec = 1 .. Len(vec),
         NEW outs \in [1 .. Len(vec) -> Seq(Cells)],
         NEW all, all = <<Cell("u", Len(vec) % W32)>> \o FlattenSeq(outs)
  PROVE  all \in Seq(Cells)
<1>1. Len(vec) % W32 \in Int
  BY WidthAssumption
<1>2. <<Cell("u", Len(vec) % W32)>> \in Seq(Cells)
  BY <1>1, OneCell
<1>3. FlattenSeq(outs) \in Seq(Cells)
  BY FlattenSeqs
<1>4. QED BY <1>2, <1>3, ConcatProperties

LEMMA PayloadOutCells ==
  ASSUME NEW knd, NEW m \in Message
  PROVE  PayloadOut(knd, m) \in Seq(Cells)
<1>0. W16 \in Nat /\ W16 # 0 /\ W32 \in Nat /\ W32 # 0
  BY WidthAssumption
<1>1. CASE Payload(knd, m) = "value"
  <2>1. m.value \in Seq(Char)
    BY MessageFields DEF Str32
  <2>2. StrOut(m.value, W32) \in Seq(Cells)
    BY <1>0, <2>1, StrOutCells
  <2>3. QED BY <1>1, <2>2 DEF PayloadOut
<1>2. CASE Payload(knd, m) = "values"
  <2>1. PICK vec \in Vec32(Str32) : vec = m.values
    BY MessageFields
  <2>2. Len(vec) \in Nat /\ DOMAIN vec = 1 .. Len(vec) /\ \A i \in 1 .. Len(vec) : vec[i] \in Seq(Char)
    BY LenProperties, ElementOfSeq DEF Vec32, Str32
  <2>3. \A i \in 1 .. Len(vec) : ValueOut(vec[i]) \in Seq(Cells)
    BY <1>0, <2>2, StrOutCells DEF ValueOut
  <2>4. PICK outs : outs = [i \in 1 .. Len(vec) |-> ValueOut(vec[i])]
    OBVIOUS
  <2>5. outs \in [1 .. Len(vec) -> Seq(Cells)]
    BY <2>3, <2>4
  <2>6. VecOut(vec, ValueOut) = <<Cell("u", Len(vec) % W32)>> \o FlattenSeq(outs)
    BY <2>2, <2>4 DEF VecOut
  <2>7. VecOut(vec, ValueOut) \in Seq(Cells)
    BY <2>2, <2>5, <2>6, VecOutCells
  <2>8. QED BY <1>2, <2>1, <2>7 DEF PayloadOut
<1>3. CASE Payload(knd, m) = "kvs"
  <2>1. PICK vec \in Vec32(Kvs) : vec = m.kvs
    BY MessageFields
  <2>2. Len(vec) \in Nat /\ DOMAIN vec = 1 .. Len(vec) /\ \A i \in 1 .. Len(vec) : vec[i] \in Kvs
    BY LenProperties, ElementOfSeq DEF Vec32
  <2>3. \A i \in 1 .. Len(vec) : KvOut(vec[i]) \in Seq(Cells)
    BY <2>2, KvOutCells
  <2>4. PICK outs : outs = [i \in 1 .. Len(vec) |-> KvOut(vec[i])]
    OBVIOUS
  <2>5. outs \in [1 .. Len(vec) -> Seq(Cells)]
    BY <2>3, <2>4
  <2>6. VecOut(vec, KvOut) = <<Cell("u", Len(vec) % W32)>> \o FlattenSeq(outs)
    BY <2>2, <2>4 DEF VecOut
  <2>7. VecOut(vec, KvOut) \in Seq(Cells)
    BY <2>2, <2>5, <2>6, VecOutCells
  <2>8. QED BY <1>3, <2>1, <2>7 DEF PayloadOut
<1>4. CASE Payload(knd, m) = "count"
  <2>1. Count(knd, m) \in Int
    BY <1>0, MessageFields DEF Count
  <2>2. <<Cell("u", Count(knd, m))>> \in Seq(Cells)
    BY <2>1, OneCell
  <2>3. QED BY <1>4, <2>2 DEF PayloadOut
<1>5. CASE Payload(knd, m) = "range"
  <2>1. m.u[1] \in Int /\ m.u[2] \in Int
    BY MessageFields
  <2>2. Cell("s", m.u[1]) \in Cells /\ Cell("s", m.u[2]) \in Cells
    BY <2>1, CellIn
  <2>3. <<Cell("s", m.u[1]), Cell("s", m.u[2])>> \in Seq(Cells)
    BY <2>2
  <2>4. QED BY <1>5, <2>3 DEF PayloadOut
<1>6. CASE Payload(knd, m) = "vmembers"
  <2>1. PICK vec \in Vec32(Weights) : vec = m.vmembers
    BY MessageFields
  <2>2. Len(vec) \in Nat /\ DOMAIN vec = 1 .. Len(vec) /\ \A i \in 1 .. Len(vec) : vec[i] \in Weights
    BY LenProperties, ElementOfSeq DEF Vec32
  <2>3. \A i \in 1 .. Len(vec) : WeightOut(vec[i]) \in Seq(Cells)
    BY <2>2, WeightOutCells
  <2>4. PICK outs : outs = [i \in 1 .. Len(vec) |-> WeightOut(vec[i])]
    OBVIOUS
  <2>5. outs \in [1 .. Len(vec) -> Seq(Cells)]
    BY <2>3, <2>4
  <2>6. VecOut(vec, WeightOut) = <<Cell("u", Len(vec) % W32)>> \o FlattenSeq(outs)
    BY <2>2, <2>4 DEF VecOut
  <2>7. VecOut(vec, WeightOut) \in Seq(Cells)
    BY <2>2, <2>5, <2>6, VecOutCells
  <2>8. QED BY <1>6, <2>1, <2>7 DEF PayloadOut
<1>7. CASE Payload(knd, m) \notin {"value", "values", "kvs", "count", "range", "vmembers"}
  <2>1. PayloadOut(knd, m) = <<>>
    BY <1>7 DEF PayloadOut
  <2>2. QED BY <2>1
<1>8. QED BY <1>1, <1>2, <1>3, <1>4, <1>5, <1>6, <1>7

\* x is a and then b.
Joins(x, a, b) == x = a \o b

LEMMA Shift ==
  ASSUME NEW U, NEW a \in Seq(U), NEW b \in Seq(U), NEW c \in Seq(U), NEW ab, NEW bc, NEW x,
         Joins(ab, a, b), Joins(bc, b, c), Joins(x, ab, c)
  PROVE  Joins(x, a, bc)
<1>1. (a \o b) \o c = a \o (b \o c)
  BY Associative
<1>2. QED BY <1>1 DEF Joins

\* in begins with a message.
BeginsMessage(in, knd, m, rest) ==
    rest \in Seq(Cells) /\ Joins(in, SerializeTo(knd, m), rest)

\* What remains of in after the head, the bits, the key and the payload
Splits(in, knd, m, rest, r1, r2, r3, r4) ==
    /\ Begins(in, "u", m.head, r1)
    /\ Begins(r1, "u", m.bits, r2)
    /\ Joins(r2, KeyOut(knd, m), r3)
    /\ Joins(r3, PayloadOut(knd, m), r4)
    /\ Joins(r4, ExpireOut(knd, m), rest)
    /\ r3 \in Seq(Cells) /\ r4 \in Seq(Cells)
    /\ SerializeTo(knd, m) \in Seq(Cells)

LEMMA SerializeBegins ==
  ASSUME NEW knd, NEW m \in Message, NEW rest, NEW in, BeginsMessage(in, knd, m, rest)
  PROVE  \E r1, r2, r3, r4 : Splits(in, knd, m, rest, r1, r2, r3, r4)
<1>0. rest \in Seq(Cells) /\ Joins(in, SerializeTo(knd, m), rest)
  BY DEF BeginsMessage
<1>1. PICK c, d, cd, k, p, e :
         /\ c = <<Cell("u", m.head)>> /\ d = <<Cell("u", m.bits)>>
         /\ cd = <<Cell("u", m.head), Cell("u", m.bits)>>
         /\ k = KeyOut(knd, m) /\ p = PayloadOut(knd, m) /\ e = ExpireOut(knd, m)
  OBVIOUS
<1>2. c \in Seq(Cells) /\ d \in Seq(Cells)
  BY <1>1, MessageFields, OneCell
<1>3. cd = c \o d
  BY <1>1
<1>4. k \in Seq(Cells)
  <2>1. StrOut(m.key, W16) \in Seq(Cells)
    BY MessageFields, StrOutCells, WidthAssumption
  <2>2. QED BY <1>1, <2>1 DEF KeyOut
<1>5. p \in Seq(Cells)
  BY <1>1, PayloadOutCells
<1>6. e \in Seq(Cells)
  <2>1. <<Cell("u", m.expire_time)>> \in Seq(Cells)
    BY MessageFields, OneCell
  <2>2. QED BY <1>1, <2>1 DEF ExpireOut
<1>7. SerializeTo(knd, m) = ((cd \o k) \o p) \o e
  BY <1>1 DEF SerializeTo, KeyOut, ExpireOut
<1>8. PICK r4 \in Seq(Cells) : Joins(r4, e, rest)
  BY <1>0, <1>6, ConcatProperties DEF Joins
<1>9. PICK r3 \in Seq(Cells) : Joins(r3, p, r4)
  BY <1>5, ConcatProperties DEF Joins
<1>10. PICK r2 \in Seq(Cells) : Joins(r2, k, r3)
  BY <1>4, ConcatProperties DEF Joins
<1>11. PICK r1 \in Seq(Cells) : Joins(r1, d, r2)
  BY <1>2, ConcatProperties DEF Joins
<1>12. PICK a1 \in Seq(Cells) : Joins(a1, c, d)
  BY <1>2, ConcatProperties DEF Joins
<1>13. PICK a2 \in Seq(Cells) : Joins(a2, a1, k)
  BY <1>4, ConcatProperties DEF Joins
<1>14. PICK a3 \in Seq(Cells) : Joins(a3, a2, p)
  BY <1>5, ConcatProperties DEF Joins
<1>15. PICK a4 \in Seq(Cells) : Joins(a4, a3, e)
  BY <1>6, ConcatProperties DEF Joins
<1>16. SerializeTo(knd, m) = a4
  BY <1>3, <1>7, <1>12, <1>13, <1>14, <1>15 DEF Joins
<1>17. Joins(in, a4, rest)
  BY <1>0, <1>16
<1>18. Joins(in, a3, r4)
  BY <1>0, <1>6, <1>8, <1>15, <1>17, Shift
<1>19. Joins(in, a2, r3)
  BY <1>5, <1>9, <1>14, <1>18, Shift
<1>20. Joins(in, a1, r2)
  BY <1>4, <1>10, <1>13, <1>19, Shift
<1>21. Joins(in, c, r1)
  BY <1>2, <1>11, <1>12, <1>20, Shift
<1>22. Begins(in, "u", m.head, r1)
  BY <1>1, <1>21 DEF Begins, Joins
<1>23. Begins(r1, "u", m.bits, r2)
  BY <1>1, <1>11 DEF Begins, Joins
<1>24. SerializeTo(knd, m) \in Seq(Cells)
  BY <1>16
<1>25. Joins(r2, KeyOut(knd, m), r3)
  BY <1>1, <1>10
<1>26. Joins(r3, PayloadOut(knd, m), r4)
  BY <1>1, <1>9
<1>27. Joins(r4, ExpireOut(knd, m), rest)
  BY <1>1, <1>8
<1>28. Splits(in, knd, m, rest, r1, r2, r3, r4)
  BY <1>22, <1>23, <1>24, <1>25, <1>26, <1>27 DEF Splits
<1>29. QED BY <1>28

-----------------------------------------------------------------------------
(* ParseFrom, field by field                                                *)

HeadIn(p) == LET q == Pop(p, "u") IN [q EXCEPT !.m.head = q.num]

BitsIn(p) == LET q == Pop(p, "u") IN [q EXCEPT !.m.bits = q.num]

KeyIn(knd, p) ==
    IF ~Has(knd, p.m, "key") THEN p ELSE LET q == Str(p) IN [q EXCEPT !.m.key = q.str]

ExpireIn(knd, p) ==
    IF ~Has(knd, p.m, "expire_time") THEN p
    ELSE LET q == Pop(p, "u") IN [q EXCEPT !.m.expire_time = q.num]

LEMMA ParseStages ==
  ASSUME NEW knd, NEW m, NEW in, NEW raw
  PROVE  ParseFrom(knd, m, in, raw)
            = ExpireIn(knd, PayloadIn(knd, KeyIn(knd, BitsIn(HeadIn(
                Parser(in, m, 0, <<>>, FALSE, raw))))))
BY Zenon DEF ParseFrom, HeadIn, BitsIn, KeyIn, ExpireIn, Parser

LEMMA NumStage ==
  ASSUME NEW m, NEW v \in Int, NEW in, NEW rest, NEW bad, NEW raw, NEW k \in {"u", "s", "f"},
         NEW p, Holds(p, m, in, bad, raw), Begins(in, k, v, rest)
  PROVE  Holds(Pop(p, k), m, rest, bad, raw) /\ Pop(p, k).num = v
<1>1. IsParser(p) /\ Begins(p.in, k, v, rest) /\ v \in Int \cup Char /\ k \in {"u", "s", "f", "c"}
  BY DEF Holds
<1>2. Reads(p, Pop(p, k), rest) /\ Pop(p, k).num = v
  BY <1>1, PopLemma
<1>3. QED BY <1>2 DEF Reads, Holds

LEMMA WordStage ==
  ASSUME NEW m, NEW v \in Int, NEW in, NEW rest, NEW bad, NEW raw,
         NEW p, Holds(p, m, in, bad, raw), Begins(in, "u", v, rest)
  PROVE  Holds(Pop(p, "u"), m, rest, bad, raw) /\ Pop(p, "u").num = v
BY NumStage

LEMMA NatStage ==
  ASSUME NEW m, NEW v \in Nat, NEW in, NEW rest, NEW bad, NEW raw,
         NEW p, Holds(p, m, in, bad, raw), Begins(in, "u", v, rest)
  PROVE  Holds(Pop(p, "u"), m, rest, bad, raw) /\ Pop(p, "u").num = v
BY WordStage

LEMMA IntStage ==
  ASSUME NEW m, NEW v \in Int, NEW in, NEW rest, NEW bad, NEW raw,
         NEW p, Holds(p, m, in, bad, raw), Begins(in, "s", v, rest)
  PROVE  Holds(Pop(p, "s"), m, rest, bad, raw) /\ Pop(p, "s").num = v
BY NumStage

LEMMA StrStage ==
  ASSUME NEW m, NEW s \in Seq(Char), NEW w \in Nat, Len(s) < w, NEW in, NEW rest, NEW bad, NEW raw,
         NEW p, Holds(p, m, in, bad, raw), BeginsStr(in, s, w, rest)
  PROVE  Holds(Str(p), m, rest, bad, raw) /\ Str(p).str = s
<1>1. IsParser(p) /\ BeginsStr(p.in, s, w, rest)
  BY DEF Holds
<1>2. Reads(p, Str(p), rest) /\ Str(p).str = s
  BY <1>1, StrLemma
<1>3. QED BY <1>2 DEF Reads, Holds

LEMMA Str32Stage ==
  ASSUME NEW m, NEW s \in Str32, NEW in, NEW rest, NEW bad, NEW raw,
         NEW p, Holds(p, m, in, bad, raw), BeginsStr(in, s, W32, rest)
  PROVE  Holds(Str(p), m, rest, bad, raw) /\ Str(p).str = s
<1>1. s \in Seq(Char) /\ Len(s) < W32 /\ W32 \in Nat
  BY WidthAssumption DEF Str32
<1>2. QED BY <1>1, StrStage

LEMMA FillStage ==
  ASSUME NEW m, NEW m2, NEW rest, NEW bad, NEW raw, NEW p, NEW q,
         Holds(p, m, rest, bad, raw), Fills(p, q, m2)
  PROVE  Holds(q, m2, rest, bad, raw)
<1>1. IsParser(p)
  BY DEF Holds
<1>2. IsParser(q) /\ q.m = m2 /\ q.in = p.in /\ q.bad = p.bad /\ q.raw = p.raw
  BY <1>1, Filling
<1>3. QED BY <1>2 DEF Holds

LEMMA HeadStage ==
  ASSUME NEW m, NEW v \in Nat, NEW in, NEW rest, NEW bad, NEW raw,
         NEW p, Holds(p, m, in, bad, raw), Begins(in, "u", v, rest)
  PROVE  Holds(HeadIn(p), [m EXCEPT !.head = v], rest, bad, raw)
<1>1. PICK q : q = Pop(p, "u")
  OBVIOUS
<1>2. Holds(q, m, rest, bad, raw) /\ q.num = v
  BY <1>1, NatStage
<1>3. PICK m2 : m2 = [m EXCEPT !.head = v]
  OBVIOUS
<1>4. Fills(q, HeadIn(p), m2)
  <2>1. q.m = m
    BY <1>2 DEF Holds
  <2>2. QED BY <1>1, <1>2, <1>3, <2>1 DEF Fills, HeadIn
<1>5. QED BY <1>2, <1>3, <1>4, FillStage

LEMMA BitsStage ==
  ASSUME NEW m, NEW v \in Nat, NEW in, NEW rest, NEW bad, NEW raw,
         NEW p, Holds(p, m, in, bad, raw), Begins(in, "u", v, rest)
  PROVE  Holds(BitsIn(p), [m EXCEPT !.bits = v], rest, bad, raw)
<1>1. PICK q : q = Pop(p, "u")
  OBVIOUS
<1>2. Holds(q, m, rest, bad, raw) /\ q.num = v
  BY <1>1, NatStage
<1>3. PICK m2 : m2 = [m EXCEPT !.bits = v]
  OBVIOUS
<1>4. Fills(q, BitsIn(p), m2)
  <2>1. q.m = m
    BY <1>2 DEF Holds
  <2>2. QED BY <1>1, <1>2, <1>3, <2>1 DEF Fills, BitsIn
<1>5. QED BY <1>2, <1>3, <1>4, FillStage

\* A field that travels is read; one that does not stays.
FieldTaken(f, knd, msg, m, q, rest, bad, raw) ==
    \E m2 : /\ Holds(q, m2, rest, bad, raw)
            /\ m2 \in Message /\ \A g \in Fields \ {f} : m2[g] = m[g]
            /\ Has(knd, msg, f) => m2[f] = msg[f]

LEMMA KeyStage ==
  ASSUME NEW knd, NEW msg \in Message, Fits(knd, msg), NEW m \in Message, m.bits = msg.bits,
         NEW in, NEW rest \in Seq(Cells), NEW bad, NEW raw,
         NEW p, Holds(p, m, in, bad, raw), Joins(in, KeyOut(knd, msg), rest)
  PROVE  FieldTaken("key", knd, msg, m, KeyIn(knd, p), rest, bad, raw)
<1>0. p.m = m /\ (Has(knd, m, "key") <=> Has(knd, msg, "key"))
  BY SameBits DEF Holds
<1>1. CASE Has(knd, msg, "key")
  <2>1. PICK s \in Seq(Char) : s = msg.key
    BY MessageFields
  <2>2. Len(s) < W16 /\ W16 \in Nat
    BY <1>1, <2>1, WidthAssumption DEF Fits
  <2>3. BeginsStr(in, s, W16, rest)
    BY <1>1, <2>1 DEF KeyOut, BeginsStr, Joins
  <2>4. PICK q : q = Str(p)
    OBVIOUS
  <2>5. Holds(q, m, rest, bad, raw) /\ q.str = s
    BY <2>2, <2>3, <2>4, StrStage
  <2>6. PICK m2 : m2 = [m EXCEPT !.key = s]
    OBVIOUS
  <2>7. Fills(q, KeyIn(knd, p), m2)
    <3>1. q.m = m
      BY <2>5 DEF Holds
    <3>2. KeyIn(knd, p) = [q EXCEPT !.m.key = q.str]
      BY <1>0, <1>1, <2>4 DEF KeyIn
    <3>3. QED BY <2>5, <2>6, <3>1, <3>2 DEF Fills
  <2>8. Holds(KeyIn(knd, p), m2, rest, bad, raw)
    BY <2>5, <2>7, FillStage
  <2>9. Differs(m, m2, "key", s)
    BY <2>6, SetKey
  <2>10. QED BY <2>1, <2>8, <2>9 DEF Differs, FieldTaken
<1>2. CASE ~Has(knd, msg, "key")
  <2>1. KeyIn(knd, p) = p
    BY <1>0, <1>2 DEF KeyIn
  <2>2. in = rest
    BY <1>2, ConcatEmptySeq DEF KeyOut, Joins
  <2>3. QED BY <1>2, <2>1, <2>2 DEF FieldTaken
<1>3. QED BY <1>1, <1>2

LEMMA ExpireStage ==
  ASSUME NEW knd, NEW msg \in Message, NEW m \in Message, m.bits = msg.bits,
         NEW in, NEW rest \in Seq(Cells), NEW bad, NEW raw,
         NEW p, Holds(p, m, in, bad, raw), Joins(in, ExpireOut(knd, msg), rest)
  PROVE  FieldTaken("expire_time", knd, msg, m, ExpireIn(knd, p), rest, bad, raw)
<1>0. p.m = m /\ (Has(knd, m, "expire_time") <=> Has(knd, msg, "expire_time"))
  BY SameBits DEF Holds
<1>1. CASE Has(knd, msg, "expire_time")
  <2>1. PICK v \in Nat : v = msg.expire_time
    BY MessageFields
  <2>2. Begins(in, "u", v, rest)
    BY <1>1, <2>1 DEF ExpireOut, Begins, Joins
  <2>4. PICK q : q = Pop(p, "u")
    OBVIOUS
  <2>5. Holds(q, m, rest, bad, raw) /\ q.num = v
    BY <2>2, <2>4, NatStage
  <2>6. PICK m2 : m2 = [m EXCEPT !.expire_time = v]
    OBVIOUS
  <2>7. Fills(q, ExpireIn(knd, p), m2)
    <3>1. q.m = m
      BY <2>5 DEF Holds
    <3>2. ExpireIn(knd, p) = [q EXCEPT !.m.expire_time = q.num]
      BY <1>0, <1>1, <2>4 DEF ExpireIn
    <3>3. QED BY <2>5, <2>6, <3>1, <3>2 DEF Fills
  <2>8. Holds(ExpireIn(knd, p), m2, rest, bad, raw)
    BY <2>5, <2>7, FillStage
  <2>9. Differs(m, m2, "expire_time", v)
    BY <2>6, SetExpireTime
  <2>10. QED BY <2>1, <2>8, <2>9 DEF Differs, FieldTaken
<1>2. CASE ~Has(knd, msg, "expire_time")
  <2>1. ExpireIn(knd, p) = p
    BY <1>0, <1>2 DEF ExpireIn
  <2>2. in = rest
    BY <1>2, ConcatEmptySeq DEF ExpireOut, Joins
  <2>3. QED BY <1>2, <2>1, <2>2 DEF FieldTaken
<1>3. QED BY <1>1, <1>2

-----------------------------------------------------------------------------
(* The payload                                                              *)

\* No vector holds anything: a new message, or one that was Reset.
Clean(m) == m.values = <<>> /\ m.kvs = <<>> /\ m.vmembers = <<>>

\* q is m with the payload of msg.
Carries(knd, q, m, msg) ==
    /\ q \in Message /\ q.head = m.head /\ q.bits = m.bits /\ q.key = m.key
    /\ Content(knd, q) = Content(knd, msg)

\* Weights do not travel in raw data.
Readable(knd, msg, raw) ==
    raw = FALSE \/ ~(Payload(knd, msg) = "vmembers" /\ Len(msg.vmembers) > 0)

\* Fields that no payload changes
LEMMA CarriesField ==
  ASSUME NEW knd, NEW msg \in Message, NEW m \in Message, m.bits = msg.bits, NEW q,
         NEW f \in {"value", "values", "kvs", "vmembers"}, Payload(knd, msg) = f,
         Differs(m, q, f, msg[f])
  PROVE  Carries(knd, q, m, msg)
<1>1. q \in Message /\ q[f] = msg[f] /\ q.head = m.head /\ q.bits = m.bits /\ q.key = m.key
  BY DEF Differs, Fields
<1>2. Payload(knd, q) = f
  BY <1>1, SameBits
<1>3. Content(knd, q) = q[f] /\ Content(knd, msg) = msg[f]
  BY <1>2 DEF Content
<1>4. QED BY <1>1, <1>3 DEF Carries

LEMMA ValueStage ==
  ASSUME NEW knd, NEW msg \in Message, Payload(knd, msg) = "value",
         NEW m \in Message, m.bits = msg.bits,
         NEW in, NEW rest \in Seq(Cells), NEW bad, NEW raw,
         NEW p, Holds(p, m, in, bad, raw), in = PayloadOut(knd, msg) \o rest
  PROVE  \E m2 : Holds(PayloadIn(knd, p), m2, rest, bad, raw) /\ Carries(knd, m2, m, msg)
<1>1. Payload(knd, p.m) = "value" /\ p.m = m
  BY SameBits DEF Holds
<1>2. PICK s \in Str32 : s = msg.value
  BY MessageFields
<1>4. BeginsStr(in, s, W32, rest)
  BY <1>2 DEF PayloadOut, BeginsStr
<1>5. PICK q : q = Str(p)
  OBVIOUS
<1>6. Holds(q, m, rest, bad, raw) /\ q.str = s
  BY <1>4, <1>5, Str32Stage
<1>7. PICK m2 : m2 = [m EXCEPT !.value = s]
  OBVIOUS
<1>8. Fills(q, PayloadIn(knd, p), m2)
  <2>1. q.m = m
    BY <1>6 DEF Holds
  <2>2. PayloadIn(knd, p) = [q EXCEPT !.m.value = q.str]
    BY <1>1, <1>5 DEF PayloadIn
  <2>3. QED BY <1>6, <1>7, <2>1, <2>2 DEF Fills
<1>9. Holds(PayloadIn(knd, p), m2, rest, bad, raw)
  BY <1>6, <1>8, FillStage
<1>10. Differs(m, m2, "value", s)
  BY <1>2, <1>7, SetValue
<1>11. Carries(knd, m2, m, msg)
  BY <1>2, <1>10, CarriesField
<1>12. QED BY <1>9, <1>11

LEMMA ValuesStage ==
  ASSUME NEW knd, NEW msg \in Message, Payload(knd, msg) = "values",
         NEW m \in Message, m.bits = msg.bits, Clean(m),
         NEW in, NEW rest \in Seq(Cells), NEW bad, NEW raw,
         NEW p, Holds(p, m, in, bad, raw), in = PayloadOut(knd, msg) \o rest
  PROVE  \E m2 : Holds(PayloadIn(knd, p), m2, rest, bad, raw) /\ Carries(knd, m2, m, msg)
<1>1. Payload(knd, p.m) = "values" /\ p.m = m
  BY SameBits DEF Holds
<1>2. PICK vec \in Vec32(Str32) : vec = msg.values
  BY MessageFields
<1>3. IsParser(p) /\ p.in = VecOut(vec, ValueOut) \o rest /\ p.bad = bad /\ p.raw = raw
  BY <1>2 DEF Holds, PayloadOut
<1>4. PICK m2 : m2 = [m EXCEPT !.values = vec]
  OBVIOUS
<1>5. Holds(Vec(p, "values", <<>>, ValueElem), m2, rest, bad, raw)
  <2>1. m.values = <<>>
    BY DEF Clean
  <2>2. QED BY <1>1, <1>3, <1>4, <2>1, ValuesVec
<1>6. PayloadIn(knd, p) = Vec(p, "values", <<>>, ValueElem)
  BY <1>1 DEF PayloadIn
<1>7. Differs(m, m2, "values", vec)
  BY <1>4, SetValues
<1>8. Carries(knd, m2, m, msg)
  BY <1>2, <1>7, CarriesField
<1>9. QED BY <1>5, <1>6, <1>8

LEMMA KvsStage ==
  ASSUME NEW knd, NEW msg \in Message, Payload(knd, msg) = "kvs", Fits(knd, msg),
         NEW m \in Message, m.bits = msg.bits, Clean(m),
         NEW in, NEW rest \in Seq(Cells), NEW bad, NEW raw,
         NEW p, Holds(p, m, in, bad, raw), in = PayloadOut(knd, msg) \o rest
  PROVE  \E m2 : Holds(PayloadIn(knd, p), m2, rest, bad, raw) /\ Carries(knd, m2, m, msg)
<1>1. Payload(knd, p.m) = "kvs" /\ p.m = m
  BY SameBits DEF Holds
<1>2. PICK vec \in Vec32(Kvs) : vec = msg.kvs
  BY MessageFields
<1>3. IsParser(p) /\ p.in = VecOut(vec, KvOut) \o rest /\ p.bad = bad /\ p.raw = raw
  BY <1>2 DEF Holds, PayloadOut
<1>4. PICK m2 : m2 = [m EXCEPT !.kvs = vec]
  OBVIOUS
<1>5. Holds(Vec(p, "kvs", Pair, KvElem), m2, rest, bad, raw)
  <2>1. m.kvs = <<>>
    BY DEF Clean
  <2>2. \A i \in DOMAIN vec : Len(vec[i].key) < W16
    BY <1>2 DEF Fits
  <2>3. QED BY <1>1, <1>3, <1>4, <2>1, <2>2, KvsVec
<1>6. PayloadIn(knd, p) = Vec(p, "kvs", Pair, KvElem)
  BY <1>1 DEF PayloadIn, Pair
<1>7. Differs(m, m2, "kvs", vec)
  BY <1>4, SetKvs
<1>8. Carries(knd, m2, m, msg)
  BY <1>2, <1>7, CarriesField
<1>9. QED BY <1>5, <1>6, <1>8

LEMMA VmembersStage ==
  ASSUME NEW knd, NEW msg \in Message, Payload(knd, msg) = "vmembers",
         NEW m \in Message, m.bits = msg.bits, Clean(m),
         NEW in, NEW rest \in Seq(Cells), NEW bad, NEW raw, Readable(knd, msg, raw),
         NEW p, Holds(p, m, in, bad, raw), in = PayloadOut(knd, msg) \o rest
  PROVE  \E m2 : Holds(PayloadIn(knd, p), m2, rest, bad, raw) /\ Carries(knd, m2, m, msg)
<1>1. Payload(knd, p.m) = "vmembers" /\ p.m = m
  BY SameBits DEF Holds
<1>2. PICK vec \in Vec32(Weights) : vec = msg.vmembers
  BY MessageFields
<1>3. IsParser(p) /\ p.in = VecOut(vec, WeightOut) \o rest /\ p.bad = bad /\ p.raw = raw
  BY <1>2 DEF Holds, PayloadOut
<1>4. PICK m2 : m2 = [m EXCEPT !.vmembers = vec]
  OBVIOUS
<1>5. Holds(Vec(p, "vmembers", Weight0, WeightElem), m2, rest, bad, raw)
  <2>1. m.vmembers = <<>>
    BY DEF Clean
  <2>2. Len(vec) > 0 => raw = FALSE
    BY <1>2 DEF Readable
  <2>3. QED BY <1>1, <1>3, <1>4, <2>1, <2>2, VmembersVec
<1>6. PayloadIn(knd, p) = Vec(p, "vmembers", Weight0, WeightElem)
  BY <1>1 DEF PayloadIn, Weight0
<1>7. Differs(m, m2, "vmembers", vec)
  BY <1>4, SetVmembers
<1>8. Carries(knd, m2, m, msg)
  BY <1>2, <1>7, CarriesField
<1>9. QED BY <1>5, <1>6, <1>8

LEMMA CountStage ==
  ASSUME NEW knd, NEW msg \in Message, Payload(knd, msg) = "count",
         NEW m \in Message, m.bits = msg.bits,
         NEW in, NEW rest \in Seq(Cells), NEW bad, NEW raw,
         NEW p, Holds(p, m, in, bad, raw), in = PayloadOut(knd, msg) \o rest
  PROVE  \E m2 : Holds(PayloadIn(knd, p), m2, rest, bad, raw) /\ Carries(knd, m2, m, msg)
<1>1. Payload(knd, p.m) = "count" /\ p.m = m
  BY SameBits DEF Holds
<1>2. W32 \in Nat /\ W32 > 0
  BY WidthAssumption
<1>3. PICK n \in Int : n = Count(knd, msg)
  BY <1>2, MessageFields DEF Count
<1>4. PICK x \in Int, y \in Int : m.u = <<x, y>>
  <2>1. m.u \in Int \X Int
    BY MessageFields
  <2>2. QED BY <2>1
<1>5. Begins(in, "u", n, rest)
  BY <1>3 DEF PayloadOut, Begins
<1>6. PICK q : q = Pop(p, "u")
  OBVIOUS
<1>7. Holds(q, m, rest, bad, raw) /\ q.num = n
  BY <1>5, <1>6, WordStage
<1>8. PICK z : z = IF knd = "request" THEN (x - (x % W32)) + n ELSE n
  OBVIOUS
<1>9. PICK m2 : m2 = [m EXCEPT !.u = <<z, y>>]
  OBVIOUS
<1>10. SetCount(knd, m, n) = m2
  <2>1. m.u[1] = x /\ [m.u EXCEPT ![1] = z] = <<z, y>>
    BY <1>4
  <2>2. SetCount(knd, m, n) = [m EXCEPT !.u = [m.u EXCEPT ![1] = z]]
    BY <1>8, <2>1 DEF SetCount
  <2>3. QED BY <1>9, <2>1, <2>2
<1>11. Fills(q, PayloadIn(knd, p), m2)
  <2>1. q.m = m
    BY <1>7 DEF Holds
  <2>2. PayloadIn(knd, p) = [q EXCEPT !.m = SetCount(knd, q.m, q.num)]
    BY <1>1, <1>6 DEF PayloadIn
  <2>3. QED BY <1>7, <1>10, <2>1, <2>2 DEF Fills
<1>12. Holds(PayloadIn(knd, p), m2, rest, bad, raw)
  BY <1>7, <1>11, FillStage
<1>13. z \in Int /\ (IF knd = "request" THEN z % W32 ELSE z) = n
  <2>1. CASE knd = "request"
    <3>1. PICK v \in Int : v = msg.u[1]
      BY MessageFields
    <3>2. n = v % W32
      BY <1>3, <2>1, <3>1 DEF Count
    <3>3. n \in Nat /\ n < W32
      BY <1>2, <3>2
    <3>4. z = (x - (x % W32)) + n
      BY <1>8, <2>1
    <3>5. z \in Int /\ z % W32 = n
      BY <1>2, <3>3, <3>4, LowHalf
    <3>6. QED BY <2>1, <3>5
  <2>2. CASE knd # "request"
    BY <1>8, <2>2
  <2>3. QED BY <2>1, <2>2
<1>14. Differs(m, m2, "u", <<z, y>>)
  <2>1. <<z, y>> \in Int \X Int
    BY <1>13
  <2>2. QED BY <1>9, <2>1, SetU
<1>15. m2 \in Message /\ m2.head = m.head /\ m2.bits = m.bits /\ m2.key = m.key /\ m2.u = <<z, y>>
  BY <1>14 DEF Differs, Fields
<1>16. Payload(knd, m2) = "count"
  BY <1>15, SameBits
<1>17. Count(knd, m2) = n
  BY <1>13, <1>15 DEF Count
<1>18. Content(knd, m2) = <<n>> /\ Content(knd, msg) = <<n>>
  BY <1>3, <1>16, <1>17 DEF Content
<1>19. QED BY <1>12, <1>15, <1>18 DEF Carries

LEMMA RangeStage ==
  ASSUME NEW knd, NEW msg \in Message, Payload(knd, msg) = "range",
         NEW m \in Message, m.bits = msg.bits,
         NEW in, NEW rest \in Seq(Cells), NEW bad, NEW raw,
         NEW p, Holds(p, m, in, bad, raw), in = PayloadOut(knd, msg) \o rest
  PROVE  \E m2 : Holds(PayloadIn(knd, p), m2, rest, bad, raw) /\ Carries(knd, m2, m, msg)
<1>1. Payload(knd, p.m) = "range" /\ p.m = m
  BY SameBits DEF Holds
<1>2. PICK a \in Int, b \in Int : msg.u = <<a, b>>
  <2>1. msg.u \in Int \X Int
    BY MessageFields
  <2>2. QED BY <2>1
<1>3. PICK x \in Int, y \in Int : m.u = <<x, y>>
  <2>1. m.u \in Int \X Int
    BY MessageFields
  <2>2. QED BY <2>1
<1>4. PICK mid \in Seq(Cells) : Begins(in, "s", a, mid) /\ Begins(mid, "s", b, rest)
  <2>1. PICK c, d : c = <<Cell("s", a)>> /\ d = <<Cell("s", b)>>
    OBVIOUS
  <2>2. c \in Seq(Cells) /\ d \in Seq(Cells)
    BY <2>1, OneCell
  <2>3. PICK cd : Joins(cd, c, d)
    BY DEF Joins
  <2>4. PICK mid \in Seq(Cells) : Joins(mid, d, rest)
    BY <2>2, ConcatProperties DEF Joins
  <2>5. PayloadOut(knd, msg) = cd
    <3>1. PayloadOut(knd, msg) = <<Cell("s", a), Cell("s", b)>>
      BY <1>2 DEF PayloadOut
    <3>2. <<Cell("s", a), Cell("s", b)>> = c \o d
      BY <2>1
    <3>3. QED BY <2>3, <3>1, <3>2 DEF Joins
  <2>6. Joins(in, cd, rest)
    BY <2>5 DEF Joins
  <2>7. Joins(in, c, mid)
    BY <2>2, <2>3, <2>4, <2>6, Shift
  <2>8. QED BY <2>1, <2>4, <2>7 DEF Joins, Begins
<1>5. PICK l : l = Pop(p, "s")
  OBVIOUS
<1>6. Holds(l, m, mid, bad, raw) /\ l.num = a
  BY <1>4, <1>5, IntStage
<1>7. PICK m1 : m1 = [m EXCEPT !.u = <<a, y>>]
  OBVIOUS
<1>8. PICK l2 : l2 = [l EXCEPT !.m.u[1] = l.num]
  OBVIOUS
<1>9. Fills(l, l2, m1)
  <2>1. l.m = m
    BY <1>6 DEF Holds
  <2>2. [m.u EXCEPT ![1] = a] = <<a, y>>
    BY <1>3
  <2>3. l2 = [l EXCEPT !.m = [m EXCEPT !.u = [m.u EXCEPT ![1] = a]]]
    BY <1>6, <1>8, <2>1
  <2>4. QED BY <1>7, <2>2, <2>3 DEF Fills
<1>10. Holds(l2, m1, mid, bad, raw)
  BY <1>6, <1>9, FillStage
<1>11. PICK r : r = Pop(l2, "s")
  OBVIOUS
<1>12. Holds(r, m1, rest, bad, raw) /\ r.num = b
  BY <1>4, <1>10, <1>11, IntStage
<1>13. PICK m2 : m2 = [m EXCEPT !.u = <<a, b>>]
  OBVIOUS
<1>14. m1.u = <<a, y>>
  <2>1. <<a, y>> \in Int \X Int
    OBVIOUS
  <2>2. Differs(m, m1, "u", <<a, y>>)
    BY <1>7, <2>1, SetU
  <2>3. QED BY <2>2 DEF Differs
<1>15. Fills(r, PayloadIn(knd, p), m2)
  <2>1. r.m = m1
    BY <1>12 DEF Holds
  <2>2. PayloadIn(knd, p) = RangeIn(p)
    BY <1>1 DEF PayloadIn
  <2>3. RangeIn(p) = [r EXCEPT !.m.u[2] = r.num]
    BY <1>5, <1>8, <1>11 DEF RangeIn
  <2>4. [m1.u EXCEPT ![2] = b] = <<a, b>>
    BY <1>14
  <2>5. RangeIn(p) = [r EXCEPT !.m = [m1 EXCEPT !.u = [m1.u EXCEPT ![2] = b]]]
    BY <1>12, <2>1, <2>3
  <2>6. [m1 EXCEPT !.u = <<a, b>>] = m2
    BY <1>7, <1>13
  <2>7. QED BY <2>2, <2>4, <2>5, <2>6 DEF Fills
<1>16. Holds(PayloadIn(knd, p), m2, rest, bad, raw)
  BY <1>12, <1>15, FillStage
<1>17. Differs(m, m2, "u", <<a, b>>)
  <2>1. <<a, b>> \in Int \X Int
    OBVIOUS
  <2>2. QED BY <1>13, <2>1, SetU
<1>18. m2 \in Message /\ m2.head = m.head /\ m2.bits = m.bits /\ m2.key = m.key /\ m2.u = <<a, b>>
  BY <1>17 DEF Differs, Fields
<1>19. Payload(knd, m2) = "range"
  BY <1>18, SameBits
<1>20. Content(knd, m2) = m2.u /\ Content(knd, msg) = msg.u
  BY <1>19 DEF Content
<1>21. QED BY <1>2, <1>16, <1>18, <1>20 DEF Carries

-----------------------------------------------------------------------------
(* A parse takes one message                                                *)

PayloadFields == {"value", "values", "kvs", "count", "range", "vmembers"}

LEMMA Least ==
  ASSUME NEW S, S \subseteq Nat, S # {}
  PROVE  \E i \in S : \A j \in S : i <= j
<1> DEFINE A == {n \in Nat : \A j \in S : n <= j}
<1> SUFFICES ASSUME \A i \in S : \E j \in S : ~(i <= j) PROVE FALSE
  OBVIOUS
<1>1. 0 \in A
  OBVIOUS
<1>2. ASSUME NEW n \in A PROVE n + 1 \in A
  <2>1. n \in Nat /\ \A j \in S : n <= j
    OBVIOUS
  <2>2. n \notin S
    BY <2>1
  <2>3. \A j \in S : j \in Nat /\ n <= j /\ n # j
    BY <2>1, <2>2
  <2>4. \A j \in S : n + 1 <= j
    BY <2>1, <2>3
  <2>5. QED BY <2>1, <2>4
<1> HIDE DEF A
<1>3. Nat \subseteq A
  BY <1>1, <1>2, SetInduction
<1>4. PICK x \in S : x \in Nat
  OBVIOUS
<1>5. x + 1 \in A
  BY <1>3, <1>4
<1>6. QED BY <1>4, <1>5 DEF A

LEMMA PayloadIsField ==
  ASSUME NEW knd, NEW m
  PROVE  Payload(knd, m) \in PayloadFields \cup {"none"}
<1> DEFINE set == {i \in DOMAIN Chain(knd) : Has(knd, m, Chain(knd)[i])}
           first == CHOOSE i \in set : \A j \in set : i <= j
<1>1. DOMAIN Chain(knd) \subseteq Nat /\ \A i \in DOMAIN Chain(knd) : Chain(knd)[i] \in PayloadFields
  <2>1. CASE knd = "request"
    BY <2>1 DEF Chain, PayloadFields
  <2>2. CASE knd # "request"
    BY <2>2 DEF Chain, PayloadFields
  <2>3. QED BY <2>1, <2>2
<1>2. Payload(knd, m) = IF set = {} THEN "none" ELSE Chain(knd)[first]
  BY Zenon DEF Payload
<1>3. set \subseteq DOMAIN Chain(knd)
  OBVIOUS
<1> HIDE DEF set
<1>4. CASE set = {}
  BY <1>2, <1>4
<1>5. CASE set # {}
  <2>1. set \subseteq Nat
    BY <1>1, <1>3
  <2>2. first \in set
    BY <1>5, <2>1, Least
  <2> HIDE DEF first
  <2>3. Chain(knd)[first] \in PayloadFields
    BY <1>1, <1>3, <2>2
  <2>4. QED BY <1>2, <1>5, <2>3
<1>6. QED BY <1>4, <1>5

LEMMA NoneStage ==
  ASSUME NEW knd, NEW msg \in Message, Payload(knd, msg) = "none",
         NEW m \in Message, m.bits = msg.bits,
         NEW in, NEW rest \in Seq(Cells), NEW bad, NEW raw,
         NEW p, Holds(p, m, in, bad, raw), in = PayloadOut(knd, msg) \o rest
  PROVE  Holds(PayloadIn(knd, p), m, rest, bad, raw) /\ Carries(knd, m, m, msg)
<1>1. Payload(knd, m) = "none" /\ p.m = m
  BY SameBits DEF Holds
<1>2. PayloadIn(knd, p) = p
  BY <1>1 DEF PayloadIn
<1>3. PayloadOut(knd, msg) = <<>>
  BY DEF PayloadOut
<1>4. in = rest
  BY <1>3, ConcatEmptySeq
<1>5. Content(knd, m) = <<>> /\ Content(knd, msg) = <<>>
  BY <1>1 DEF Content
<1>6. QED BY <1>2, <1>4, <1>5 DEF Carries

LEMMA PayloadStage ==
  ASSUME NEW knd, NEW msg \in Message, Fits(knd, msg),
         NEW m \in Message, m.bits = msg.bits, Clean(m),
         NEW in, NEW rest \in Seq(Cells), NEW bad, NEW raw, Readable(knd, msg, raw),
         NEW p, Holds(p, m, in, bad, raw), in = PayloadOut(knd, msg) \o rest
  PROVE  \E m2 : Holds(PayloadIn(knd, p), m2, rest, bad, raw) /\ Carries(knd, m2, m, msg)
<1>1. CASE Payload(knd, msg) = "value"
  BY <1>1, ValueStage
<1>2. CASE Payload(knd, msg) = "values"
  BY <1>2, ValuesStage
<1>3. CASE Payload(knd, msg) = "kvs"
  BY <1>3, KvsStage
<1>4. CASE Payload(knd, msg) = "count"
  BY <1>4, CountStage
<1>5. CASE Payload(knd, msg) = "range"
  BY <1>5, RangeStage
<1>6. CASE Payload(knd, msg) = "vmembers"
  BY <1>6, VmembersStage
<1>7. CASE Payload(knd, msg) = "none"
  BY <1>7, NoneStage
<1>8. Payload(knd, msg) \in PayloadFields \cup {"none"}
  BY PayloadIsField
<1>9. QED BY <1>1, <1>2, <1>3, <1>4, <1>5, <1>6, <1>7, <1>8 DEF PayloadFields

LEMMA SameContent ==
  ASSUME NEW knd, NEW q, NEW m, \A f \in Fields \ {"expire_time"} : q[f] = m[f]
  PROVE  Content(knd, q) = Content(knd, m)
<1>1. /\ q.bits = m.bits /\ q.u = m.u /\ q.value = m.value /\ q.values = m.values
      /\ q.kvs = m.kvs /\ q.vmembers = m.vmembers
  BY DEF Fields
<1>2. Payload(knd, q) = Payload(knd, m) /\ Payload(knd, m) \in PayloadFields \cup {"none"}
  BY <1>1, SameBits, PayloadIsField
<1>3. Count(knd, q) = Count(knd, m)
  BY <1>1 DEF Count
<1>4. CASE Payload(knd, m) \in {"none", "count", "range"}
  BY <1>1, <1>2, <1>3, <1>4 DEF Content
<1>5. CASE Payload(knd, m) \in {"value", "values", "kvs", "vmembers"}
  <2>1. q[Payload(knd, m)] = m[Payload(knd, m)]
    BY <1>1, <1>5
  <2>2. QED BY <1>2, <1>5, <2>1 DEF Content
<1>6. QED BY <1>2, <1>4, <1>5 DEF PayloadFields

\* p is a parser that has taken it.
Taken(p, knd, msg, rest, raw) ==
    \E m : Holds(p, m, rest, FALSE, raw) /\ m \in Message /\ Matches(knd, m, msg)

LEMMA ParseLemma ==
  ASSUME NEW knd, NEW msg \in Message, Fits(knd, msg), NEW m \in Message, Clean(m),
         NEW rest, NEW raw, Readable(knd, msg, raw),
         NEW in, BeginsMessage(in, knd, msg, rest)
  PROVE  Taken(ParseFrom(knd, m, in, raw), knd, msg, rest, raw)
<1>0. rest \in Seq(Cells)
  BY DEF BeginsMessage
<1>1. PICK r1, r2, r3, r4 : Splits(in, knd, msg, rest, r1, r2, r3, r4)
  BY SerializeBegins
<1>2. /\ Begins(in, "u", msg.head, r1) /\ Begins(r1, "u", msg.bits, r2)
       /\ Joins(r2, KeyOut(knd, msg), r3)
       /\ Joins(r3, PayloadOut(knd, msg), r4)
       /\ Joins(r4, ExpireOut(knd, msg), rest)
       /\ r3 \in Seq(Cells) /\ r4 \in Seq(Cells)
  BY <1>1 DEF Splits
<1>3. PICK h \in Nat, b \in Nat : h = msg.head /\ b = msg.bits
  BY MessageFields
<1>4. PICK p0 : p0 = Parser(in, m, 0, <<>>, FALSE, raw)
  OBVIOUS
<1>5. Holds(p0, m, in, FALSE, raw)
  BY <1>4, ParserParts
<1>6. PICK p1, m1 : p1 = HeadIn(p0) /\ m1 = [m EXCEPT !.head = h]
  OBVIOUS
<1>7. Holds(p1, m1, r1, FALSE, raw)
  <2>1. Begins(in, "u", h, r1)
    BY <1>3, <1>2
  <2>2. QED BY <1>5, <1>6, <2>1, HeadStage
<1>8. PICK p2, m2 : p2 = BitsIn(p1) /\ m2 = [m1 EXCEPT !.bits = b]
  OBVIOUS
<1>9. Holds(p2, m2, r2, FALSE, raw)
  <2>1. Begins(r1, "u", b, r2)
    BY <1>3, <1>2
  <2>2. QED BY <1>7, <1>8, <2>1, BitsStage
<1>10. m2 \in Message /\ m2.head = msg.head /\ m2.bits = msg.bits /\ Clean(m2)
  <2>1. Differs(m, m1, "head", h)
    BY <1>6, SetHead
  <2>2. m1 \in Message
    BY <2>1 DEF Differs
  <2>3. Differs(m1, m2, "bits", b)
    BY <1>8, <2>2, SetBitsField
  <2>4. QED BY <1>3, <2>1, <2>3 DEF Differs, Fields, Clean
<1>11. PICK p3 : p3 = KeyIn(knd, p2)
  OBVIOUS
<1>12. PICK m3 : /\ Holds(p3, m3, r3, FALSE, raw)
                 /\ m3 \in Message /\ \A f \in Fields \ {"key"} : m3[f] = m2[f]
                 /\ Has(knd, msg, "key") => m3.key = msg.key
  <2>1. Joins(r2, KeyOut(knd, msg), r3) /\ r3 \in Seq(Cells)
    BY <1>2
  <2>2. m2 \in Message /\ m2.bits = msg.bits
    BY <1>10
  <2>3. FieldTaken("key", knd, msg, m2, p3, r3, FALSE, raw)
    BY <1>9, <1>11, <2>1, <2>2, KeyStage
  <2>4. QED BY <2>3 DEF FieldTaken
<1>13. m3.head = msg.head /\ m3.bits = msg.bits /\ Clean(m3)
  BY <1>10, <1>12 DEF Fields, Clean
<1>14. PICK p4 : p4 = PayloadIn(knd, p3)
  OBVIOUS
<1>15. PICK m4 : Holds(p4, m4, r4, FALSE, raw) /\ Carries(knd, m4, m3, msg)
  <2>1. r3 = PayloadOut(knd, msg) \o r4 /\ r4 \in Seq(Cells)
    BY <1>2 DEF Joins
  <2>2. m3 \in Message /\ Holds(p3, m3, r3, FALSE, raw)
    BY <1>12
  <2>3. QED BY <1>13, <1>14, <2>1, <2>2, PayloadStage
<1>16. m4 \in Message /\ m4.head = msg.head /\ m4.bits = msg.bits /\ m4.key = m3.key
       /\ Content(knd, m4) = Content(knd, msg)
  BY <1>13, <1>15 DEF Carries
<1>17. PICK p5 : p5 = ExpireIn(knd, p4)
  OBVIOUS
<1>18. PICK m5 : /\ Holds(p5, m5, rest, FALSE, raw)
                 /\ m5 \in Message /\ \A f \in Fields \ {"expire_time"} : m5[f] = m4[f]
                 /\ Has(knd, msg, "expire_time") => m5.expire_time = msg.expire_time
  <2>1. Joins(r4, ExpireOut(knd, msg), rest) /\ rest \in Seq(Cells)
    BY <1>0, <1>2
  <2>2. m4 \in Message /\ m4.bits = msg.bits /\ Holds(p4, m4, r4, FALSE, raw)
    BY <1>15, <1>16
  <2>3. FieldTaken("expire_time", knd, msg, m4, p5, rest, FALSE, raw)
    BY <1>17, <2>1, <2>2, ExpireStage
  <2>4. QED BY <2>3 DEF FieldTaken
<1>19. m5.head = msg.head /\ m5.bits = msg.bits /\ m5.key = m3.key
  BY <1>16, <1>18 DEF Fields
<1>20. Content(knd, m5) = Content(knd, msg)
  BY <1>16, <1>18, SameContent
<1>21. Matches(knd, m5, msg)
  BY <1>12, <1>18, <1>19, <1>20 DEF Matches
<1>22. ParseFrom(knd, m, in, raw) = p5
  BY <1>4, <1>6, <1>8, <1>11, <1>14, <1>17, ParseStages
<1>23. QED BY <1>18, <1>21, <1>22 DEF Taken

\* Weights in raw data are not read.
LEMMA LostLemma ==
  ASSUME NEW knd, NEW msg \in Message, Fits(knd, msg), NEW m \in Message, Clean(m),
         NEW rest, NEW raw, raw = TRUE, ~Readable(knd, msg, raw),
         NEW in, BeginsMessage(in, knd, msg, rest)
  PROVE  ParseFrom(knd, m, in, raw).bad = TRUE
<1>0. rest \in Seq(Cells)
  BY DEF BeginsMessage
<1>1. PICK r1, r2, r3, r4 : Splits(in, knd, msg, rest, r1, r2, r3, r4)
  BY SerializeBegins
<1>2. /\ Begins(in, "u", msg.head, r1) /\ Begins(r1, "u", msg.bits, r2)
       /\ Joins(r2, KeyOut(knd, msg), r3)
       /\ Joins(r3, PayloadOut(knd, msg), r4)
       /\ Joins(r4, ExpireOut(knd, msg), rest)
       /\ r3 \in Seq(Cells) /\ r4 \in Seq(Cells)
  BY <1>1 DEF Splits
<1>3. PICK h \in Nat, b \in Nat : h = msg.head /\ b = msg.bits
  BY MessageFields
<1>4. PICK p0 : p0 = Parser(in, m, 0, <<>>, FALSE, raw)
  OBVIOUS
<1>5. Holds(p0, m, in, FALSE, raw)
  BY <1>4, ParserParts
<1>6. PICK p1, m1 : p1 = HeadIn(p0) /\ m1 = [m EXCEPT !.head = h]
  OBVIOUS
<1>7. Holds(p1, m1, r1, FALSE, raw)
  <2>1. Begins(in, "u", h, r1)
    BY <1>3, <1>2
  <2>2. QED BY <1>5, <1>6, <2>1, HeadStage
<1>8. PICK p2, m2 : p2 = BitsIn(p1) /\ m2 = [m1 EXCEPT !.bits = b]
  OBVIOUS
<1>9. Holds(p2, m2, r2, FALSE, raw)
  <2>1. Begins(r1, "u", b, r2)
    BY <1>3, <1>2
  <2>2. QED BY <1>7, <1>8, <2>1, BitsStage
<1>10. m2 \in Message /\ m2.bits = msg.bits
  <2>1. Differs(m, m1, "head", h)
    BY <1>6, SetHead
  <2>2. m1 \in Message
    BY <2>1 DEF Differs
  <2>3. Differs(m1, m2, "bits", b)
    BY <1>8, <2>2, SetBitsField
  <2>4. QED BY <1>3, <2>3 DEF Differs
<1>11. PICK p3 : p3 = KeyIn(knd, p2)
  OBVIOUS
<1>12. PICK m3 : Holds(p3, m3, r3, FALSE, raw) /\ m3 \in Message /\ m3.bits = msg.bits
  <2>1. Joins(r2, KeyOut(knd, msg), r3) /\ r3 \in Seq(Cells)
    BY <1>2
  <2>2. FieldTaken("key", knd, msg, m2, p3, r3, FALSE, raw)
    BY <1>9, <1>10, <1>11, <2>1, KeyStage
  <2>3. QED BY <1>10, <2>2 DEF FieldTaken, Fields
<1>13. PICK p4 : p4 = PayloadIn(knd, p3)
  OBVIOUS
<1>14. Lost(p4)
  <2>1. Payload(knd, msg) = "vmembers" /\ Len(msg.vmembers) > 0
    BY DEF Readable
  <2>2. PICK vec \in Vec32(Weights) : vec = msg.vmembers
    BY MessageFields
  <2>3. r3 = VecOut(vec, WeightOut) \o r4
    BY <1>2, <2>1, <2>2 DEF PayloadOut, Joins
  <2>4. IsParser(p3) /\ p3.in = VecOut(vec, WeightOut) \o r4 /\ p3.raw = TRUE /\ p3.m = m3
    BY <1>12, <2>3 DEF Holds
  <2>5. Len(vec) > 0
    BY <2>1, <2>2
  <2>6. r4 \in Seq(Cells)
    BY <1>2
  <2>7. Lost(Vec(p3, "vmembers", Weight0, WeightElem))
    BY <2>4, <2>5, <2>6, RawVmembers
  <2>8. Payload(knd, p3.m) = "vmembers"
    BY <1>12, <2>1, <2>4, SameBits
  <2>9. p4 = Vec(p3, "vmembers", Weight0, WeightElem)
    BY <1>13, <2>8 DEF PayloadIn, Weight0
  <2>10. QED BY <2>7, <2>9
<1>15. PICK p5 : p5 = ExpireIn(knd, p4)
  OBVIOUS
<1>16. Lost(p5)
  <2>1. CASE ~Has(knd, p4.m, "expire_time")
    BY <1>14, <1>15, <2>1 DEF ExpireIn
  <2>2. CASE Has(knd, p4.m, "expire_time")
    <3>1. PICK q : q = Pop(p4, "u")
      OBVIOUS
    <3>2. Lost(q)
      BY <1>14, <3>1, PopLost
    <3>3. p5 = [q EXCEPT !.m.expire_time = q.num]
      BY <1>15, <2>2, <3>1 DEF ExpireIn
    <3>4. PICK x : Fills(q, p5, x)
      BY <3>3 DEF Fills
    <3>5. QED BY <3>2, <3>4, FillLost
  <2>3. QED BY <2>1, <2>2
<1>17. ParseFrom(knd, m, in, raw) = p5
  BY <1>4, <1>6, <1>8, <1>11, <1>13, <1>15, ParseStages
<1>18. QED BY <1>16, <1>17 DEF Lost

-----------------------------------------------------------------------------
(* The wire holds the messages not received                                 *)

\* What the messages of s are made into
Outs(knd, s) == [i \in DOMAIN s |-> SerializeTo(knd, s[i])]

LEMMA SerializeCells ==
  ASSUME NEW knd, NEW m \in Message
  PROVE  SerializeTo(knd, m) \in Seq(Cells)
<1>1. PICK rest : rest = <<>>
  OBVIOUS
<1>2. rest \in Seq(Cells)
  BY <1>1
<1>3. PICK in : Joins(in, SerializeTo(knd, m), rest)
  BY DEF Joins
<1>4. BeginsMessage(in, knd, m, rest)
  BY <1>2, <1>3 DEF BeginsMessage
<1>5. QED BY <1>4, SerializeBegins DEF Splits

LEMMA OutsCells ==
  ASSUME NEW knd, NEW s \in Seq(Message)
  PROVE  Outs(knd, s) \in [1 .. Len(s) -> Seq(Cells)]
<1>1. DOMAIN s = 1 .. Len(s) /\ \A i \in 1 .. Len(s) : s[i] \in Message
  OBVIOUS
<1>2. \A i \in 1 .. Len(s) : SerializeTo(knd, s[i]) \in Seq(Cells)
  BY <1>1, SerializeCells
<1>3. QED BY <1>1, <1>2 DEF Outs

LEMMA SendOuts ==
  ASSUME NEW knd, NEW s \in Seq(Message), NEW m \in Message
  PROVE  Joins(FlattenSeq(Outs(knd, Append(s, m))), FlattenSeq(Outs(knd, s)), SerializeTo(knd, m))
<1>1. PICK n \in Nat : n = Len(s)
  BY LenProperties
<1>2. PICK t : t = Append(s, m)
  OBVIOUS
<1>3. /\ t \in Seq(Message) /\ Len(t) = n + 1 /\ t[n + 1] = m
      /\ \A i \in 1 .. n : t[i] = s[i]
  BY <1>1, <1>2
<1>4. PICK outs : outs = Outs(knd, t)
  OBVIOUS
<1>5. outs \in [1 .. n + 1 -> Seq(Cells)]
  BY <1>3, <1>4, OutsCells
<1>6. FlattenSeq(outs) = FlattenSeq([i \in 1 .. n |-> outs[i]]) \o outs[n + 1]
  BY <1>5, FlattenLast
<1>7. \A i \in 1 .. n + 1 : outs[i] = SerializeTo(knd, t[i])
  BY <1>3, <1>4 DEF Outs
<1>8. [i \in 1 .. n |-> outs[i]] = Outs(knd, s)
  <2>1. DOMAIN s = 1 .. n
    BY <1>1
  <2>2. \A i \in 1 .. n : outs[i] = SerializeTo(knd, s[i])
    BY <1>3, <1>7
  <2>3. QED BY <2>1, <2>2 DEF Outs
<1>9. outs[n + 1] = SerializeTo(knd, m)
  BY <1>3, <1>7
<1>10. QED BY <1>4, <1>6, <1>8, <1>9, <1>2 DEF Joins

LEMMA ReceiveOuts ==
  ASSUME NEW knd, NEW s \in Seq(Message), s # <<>>
  PROVE  BeginsMessage(FlattenSeq(Outs(knd, s)), knd, Head(s), FlattenSeq(Outs(knd, Tail(s))))
<1>1. PICK n \in Nat : Len(s) = n + 1
  <2>1. Len(s) - 1 \in Nat /\ Len(s) = (Len(s) - 1) + 1
    OBVIOUS
  <2>2. QED BY <2>1
<1>2. PICK t : t = Tail(s)
  OBVIOUS
<1>3. /\ t \in Seq(Message) /\ Len(t) = n /\ s[1] = Head(s)
      /\ \A i \in 1 .. n : t[i] = s[i + 1]
  BY <1>1, <1>2
<1>4. PICK outs : outs = Outs(knd, s)
  OBVIOUS
<1>5. outs \in [1 .. n + 1 -> Seq(Cells)]
  BY <1>1, <1>4, OutsCells
<1>6. FlattenSeq(outs) = outs[1] \o FlattenSeq([i \in 1 .. n |-> outs[i + 1]])
  BY <1>5, FlattenFirst
<1>7. \A i \in 1 .. n + 1 : outs[i] = SerializeTo(knd, s[i])
  BY <1>1, <1>4 DEF Outs
<1>8. [i \in 1 .. n |-> outs[i + 1]] = Outs(knd, t)
  <2>1. DOMAIN t = 1 .. n
    BY <1>3
  <2>2. \A i \in 1 .. n : outs[i + 1] = SerializeTo(knd, t[i])
    BY <1>3, <1>7
  <2>3. QED BY <2>1, <2>2 DEF Outs
<1>9. outs[1] = SerializeTo(knd, Head(s))
  BY <1>3, <1>7
<1>10. FlattenSeq(Outs(knd, t)) \in Seq(Cells)
  <2>1. PICK rests : rests = Outs(knd, t)
    OBVIOUS
  <2>2. rests \in [1 .. n -> Seq(Cells)]
    BY <1>3, <2>1, OutsCells
  <2>3. FlattenSeq(rests) \in Seq(Cells)
    BY <2>2, FlattenSeqs
  <2>4. QED BY <2>1, <2>3
<1>11. QED BY <1>4, <1>6, <1>8, <1>9, <1>10, <1>2 DEF Joins, BeginsMessage

LEMMA ObservedNonempty ==
  ASSUME NEW knd, NEW m
  PROVE  Observed(knd, m) # <<>> /\ Observed(knd, m).payload = Payload(knd, m)
<1>1. Observed(knd, m).payload = Payload(knd, m) /\ "head" \in DOMAIN Observed(knd, m)
  BY DEF Observed
<1>2. "head" \notin DOMAIN <<>>
  OBVIOUS
<1>3. QED BY <1>1, <1>2

-----------------------------------------------------------------------------
(* Every step keeps the invariant                                           *)

Inv == /\ kind \in {"request", "response"}
       /\ sent \in Seq(Message)
       /\ aligned => \A i \in DOMAIN sent : Fits(kind, sent[i])
       /\ aligned /\ ~got.bad => obj \in Message
       /\ InStep
       /\ RoundTrip

LEMMA InStepOuts == InStep <=> (aligned /\ ~got.bad => wire = FlattenSeq(Outs(kind, sent)))
BY Zenon DEF InStep, Outs

LEMMA InStepOutsNext ==
    InStep' <=> (aligned' /\ ~got'.bad => wire' = FlattenSeq(Outs(kind', sent')))
BY Zenon DEF InStep, Outs

LEMMA NewIsMessage == New \in Message /\ Clean(New)
<1>1. <<>> \in Str32 /\ <<>> \in Vec32(Str32) /\ <<>> \in Vec32(Kvs) /\ <<>> \in Vec32(Weights)
  BY WidthAssumption DEF Str32, Vec32
<1>2. QED BY <1>1 DEF New, Message, Clean, Kvs, Weights

LEMMA ResetIsMessage ==
  ASSUME NEW m \in Message
  PROVE  Reset(m) \in Message /\ Clean(Reset(m))
<1>1. PICK x : x = <<>>
  OBVIOUS
<1>2. /\ x \in Seq(Char) /\ x \in Str32 /\ x \in Vec32(Str32)
      /\ x \in Vec32(Kvs) /\ x \in Vec32(Weights)
  BY <1>1, WidthAssumption DEF Str32, Vec32
<1>3. PICK a, b : a = [m EXCEPT !.bits = 0] /\ b = [a EXCEPT !.key = x]
  OBVIOUS
<1>4. PICK c, d : c = [b EXCEPT !.kvs = x] /\ d = [c EXCEPT !.values = x]
  OBVIOUS
<1>5. PICK e, f : e = [d EXCEPT !.value = x] /\ f = [e EXCEPT !.vmembers = x]
  OBVIOUS
<1>6. Reset(m) = f
  BY <1>1, <1>3, <1>4, <1>5 DEF Reset
<1>7. Differs(m, a, "bits", 0)
  BY <1>3, SetBitsField
<1>8. Differs(a, b, "key", x)
  <2>1. a \in Message
    BY <1>7 DEF Differs
  <2>2. QED BY <1>2, <1>3, <2>1, SetKey
<1>9. Differs(b, c, "kvs", x)
  <2>1. b \in Message
    BY <1>8 DEF Differs
  <2>2. QED BY <1>2, <1>4, <2>1, SetKvs
<1>10. Differs(c, d, "values", x)
  <2>1. c \in Message
    BY <1>9 DEF Differs
  <2>2. QED BY <1>2, <1>4, <2>1, SetValues
<1>11. Differs(d, e, "value", x)
  <2>1. d \in Message
    BY <1>10 DEF Differs
  <2>2. QED BY <1>2, <1>5, <2>1, SetValue
<1>12. Differs(e, f, "vmembers", x)
  <2>1. e \in Message
    BY <1>11 DEF Differs
  <2>2. QED BY <1>2, <1>5, <2>1, SetVmembers
<1>13. f \in Message /\ f.values = x /\ f.kvs = x /\ f.vmembers = x
  BY <1>9, <1>10, <1>11, <1>12 DEF Differs, Fields
<1>14. QED BY <1>1, <1>6, <1>13 DEF Clean

LEMMA InitInv == Init => Inv
<1> SUFFICES ASSUME Init PROVE Inv
  OBVIOUS
<1>1. kind \in {"request", "response"} /\ sent = <<>> /\ wire = <<>> /\ got = NoParse
  BY DEF Init
<1>2. sent \in Seq(Message) /\ DOMAIN sent = {}
  BY <1>1
<1>3. obj \in Message
  BY NewIsMessage DEF Init
<1>4. InStep
  <2>1. PICK outs : outs = Outs(kind, sent)
    OBVIOUS
  <2>2. outs = [i \in 1 .. 0 |-> outs[i]]
    BY <1>2, <2>1 DEF Outs
  <2>3. FlattenSeq(outs) = <<>>
    BY <2>2, FlattenEmpty
  <2>4. QED BY <1>1, <2>1, <2>3, InStepOuts
<1>5. RoundTrip
  BY <1>1 DEF RoundTrip, NoParse
<1>6. QED BY <1>1, <1>2, <1>3, <1>4, <1>5 DEF Inv

LEMMA SendKeeps ==
  ASSUME Inv, NEW m \in Messages[kind], Send(m)
  PROVE  Inv'
<1>1. /\ kind' = kind /\ obj' = obj /\ got' = got /\ sent' = Append(sent, m)
      /\ aligned' = (aligned /\ Fits(kind, m))
      /\ wire' = wire \o SerializeTo(kind, m)
  BY DEF Send
<1>2. m \in Message
  BY MessagesAssumption DEF Inv
<1>3. sent \in Seq(Message)
  BY DEF Inv
<1>4. sent' \in Seq(Message)
  BY <1>1, <1>2, <1>3
<1>5. ASSUME aligned' PROVE \A i \in DOMAIN sent' : Fits(kind', sent'[i])
  <2>1. Fits(kind, m) /\ \A i \in DOMAIN sent : Fits(kind, sent[i])
    BY <1>1, <1>5 DEF Inv
  <2>2. \A i \in DOMAIN sent' : sent'[i] = m \/ (i \in DOMAIN sent /\ sent'[i] = sent[i])
    BY <1>1, <1>2, <1>3
  <2>3. QED BY <1>1, <2>1, <2>2
<1>6. aligned' /\ ~got'.bad => obj' \in Message
  BY <1>1 DEF Inv
<1>7. InStep'
  <2>1. ASSUME aligned', ~got'.bad PROVE wire' = FlattenSeq(Outs(kind', sent'))
    <3>1. wire = FlattenSeq(Outs(kind, sent))
      BY <1>1, <2>1, InStepOuts DEF Inv
    <3>2. Joins(FlattenSeq(Outs(kind, Append(sent, m))), FlattenSeq(Outs(kind, sent)),
                SerializeTo(kind, m))
      BY <1>2, <1>3, SendOuts
    <3>3. QED BY <1>1, <3>1, <3>2 DEF Joins
  <2>2. QED BY <2>1, InStepOutsNext
<1>8. RoundTrip'
  BY <1>1 DEF Inv, RoundTrip
<1>9. QED BY <1>1, <1>4, <1>5, <1>6, <1>7, <1>8 DEF Inv

LEMMA ReceiveKeeps ==
  ASSUME Inv, NEW m, aligned /\ ~got.bad => m \in Message /\ Clean(m),
         NEW raw \in BOOLEAN, Receive(m, raw)
  PROVE  Inv'
<1>1. PICK p : p = ParseFrom(kind, m, wire, raw)
  OBVIOUS
<1>2. /\ sent # <<>> /\ ~got.bad /\ wire' = p.in /\ obj' = p.m
      /\ kind' = kind /\ aligned' = aligned /\ sent' = Tail(sent)
      /\ got'.want = Observed(kind, Head(sent)) /\ got'.seen = Observed(kind, p.m)
      /\ got'.bad = p.bad /\ got'.raw = raw
  BY <1>1 DEF Receive
<1>3. kind \in {"request", "response"} /\ sent \in Seq(Message)
  BY DEF Inv
<1>4. sent' \in Seq(Message) /\ Head(sent) \in Message
  BY <1>2, <1>3
<1>5. CASE ~aligned
  BY <1>2, <1>3, <1>4, <1>5, InStepOutsNext DEF Inv, RoundTrip
<1>6. CASE aligned
  <2>1. m \in Message /\ Clean(m)
    BY <1>2, <1>6
  <2>2. PICK msg \in Message : msg = Head(sent)
    BY <1>4
  <2>3. Fits(kind, msg) /\ \A i \in DOMAIN sent' : Fits(kind', sent'[i])
    <3>1. \A i \in DOMAIN sent : Fits(kind, sent[i])
      BY <1>6 DEF Inv
    <3>2. 1 \in DOMAIN sent /\ sent[1] = Head(sent)
      BY <1>2, <1>3
    <3>3. \A i \in DOMAIN sent' : i + 1 \in DOMAIN sent /\ sent'[i] = sent[i + 1]
      BY <1>2, <1>3
    <3>4. QED BY <1>2, <2>2, <3>1, <3>2, <3>3
  <2>4. PICK rest : rest = FlattenSeq(Outs(kind, sent'))
    OBVIOUS
  <2>5. BeginsMessage(wire, kind, msg, rest)
    <3>1. wire = FlattenSeq(Outs(kind, sent))
      BY <1>2, <1>6, InStepOuts DEF Inv
    <3>2. BeginsMessage(FlattenSeq(Outs(kind, sent)), kind, Head(sent),
                        FlattenSeq(Outs(kind, Tail(sent))))
      BY <1>2, <1>3, ReceiveOuts
    <3>3. QED BY <1>2, <2>2, <2>4, <3>1, <3>2
  <2>6. CASE Readable(kind, msg, raw)
    <3>1. Taken(p, kind, msg, rest, raw)
      BY <1>1, <2>1, <2>3, <2>5, <2>6, ParseLemma
    <3>2. PICK q : Holds(p, q, rest, FALSE, raw) /\ q \in Message /\ Matches(kind, q, msg)
      BY <3>1 DEF Taken
    <3>3. p.in = rest /\ p.m = q /\ p.bad = FALSE
      BY <3>2 DEF Holds
    <3>4. InStep'
      BY <1>2, <2>4, <3>3, InStepOutsNext
    <3>5. Observed(kind, q) = Observed(kind, msg)
      BY <3>2, MatchesObserved
    <3>6. RoundTrip'
      BY <1>2, <2>2, <3>3, <3>5 DEF RoundTrip
    <3>7. QED BY <1>2, <1>3, <1>4, <2>3, <3>2, <3>3, <3>4, <3>6 DEF Inv
  <2>7. CASE ~Readable(kind, msg, raw)
    <3>1. raw = TRUE /\ Payload(kind, msg) = "vmembers"
      BY <2>7 DEF Readable
    <3>2. p.bad = TRUE
      BY <1>1, <2>1, <2>3, <2>5, <2>7, <3>1, LostLemma
    <3>3. InStep'
      BY <1>2, <3>2, InStepOutsNext
    <3>4. RoundTrip'
      BY <1>2, <2>2, <3>1, ObservedNonempty DEF RoundTrip
    <3>5. QED BY <1>2, <1>3, <1>4, <2>3, <3>2, <3>3, <3>4 DEF Inv
  <2>8. QED BY <2>6, <2>7
<1>7. QED BY <1>5, <1>6

LEMMA NextInv == Inv /\ [Next]_vars => Inv'
<1> SUFFICES ASSUME Inv, [Next]_vars PROVE Inv'
  OBVIOUS
<1>1. ASSUME NEW m \in Messages[kind], Send(m) PROVE Inv'
  BY <1>1, SendKeeps
<1>2. CASE ReceiveNew
  BY <1>2, NewIsMessage, ReceiveKeeps DEF ReceiveNew
<1>3. CASE ReceiveAgain
  <2>1. aligned /\ ~got.bad => Reset(obj) \in Message /\ Clean(Reset(obj))
    BY ResetIsMessage DEF Inv
  <2>2. QED BY <1>3, <2>1, ReceiveKeeps DEF ReceiveAgain
<1>4. CASE ReceiveRaw
  BY <1>4, NewIsMessage, ReceiveKeeps DEF ReceiveRaw
<1>5. CASE UNCHANGED vars
  <2>1. /\ kind' = kind /\ wire' = wire /\ sent' = sent /\ obj' = obj /\ got' = got
        /\ aligned' = aligned
    BY <1>5 DEF vars
  <2>2. InStep'
    BY <2>1, InStepOuts, InStepOutsNext DEF Inv
  <2>3. QED BY <2>1, <2>2 DEF Inv, RoundTrip
<1>6. QED BY <1>1, <1>2, <1>3, <1>4, <1>5 DEF Next

THEOREM SpecInv == Spec => []Inv
<1>1. QED BY InitInv, NextInv, PTL DEF Spec

THEOREM InStepTheorem == Spec => []InStep
<1>1. Inv => InStep
  BY DEF Inv
<1>2. QED BY <1>1, SpecInv, PTL

THEOREM RoundTripTheorem == Spec => []RoundTrip
<1>1. Inv => RoundTrip
  BY DEF Inv
<1>2. QED BY <1>1, SpecInv, PTL
=============================================================================
