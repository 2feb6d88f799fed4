----------------------------- MODULE MmbpMessage -----------------------------
(***************************************************************************)
(* MmbpRequest and MmbpResponse on the wire: SerializeTo, ParseFrom and    *)
(* Reset, with the has-bits that say which optional fields follow, and the *)
(* MmkvValue the client makes of a response.                               *)
(*                                                                         *)
(* The wire is a sequence of cells, one per varint ("u", "s" if signed),   *)
(* fixed 64-bit word ("f") or character ("c").  A parser that expects one  *)
(* kind of cell and meets another is lost (bad).  W16 and W32 stand for    *)
(* 2^16 and 2^32, scaled down so that a key can be too long.               *)
(***************************************************************************)
EXTENDS Integers, Sequences, SequencesExt

CONSTANTS W16, W32,   \* the moduli of uint16_t and uint32_t
          Char,       \* characters
          Messages,   \* Messages[kind]: what may be sent
          MaxSent     \* bound: messages on the wire

ASSUME WidthAssumption   == W16 \in Nat \ {0} /\ W32 \in Nat \ {0} /\ W16 < W32

\* Strings and vectors whose length fits in 32 bits.  The codec accepts no
\* message of MAX_SIZE (2^26) bytes or more, so what it delivers is shorter.
Str32    == {s \in Seq(Char) : Len(s) < W32}
Vec32(S) == {v \in Seq(S) : Len(v) < W32}

Message == [head : Nat, bits : Nat, key : Seq(Char), value : Str32,
            values : Vec32(Str32), kvs : Vec32([key : Seq(Char), value : Str32]),
            u : Int \X Int, vmembers : Vec32([key : Int, value : Str32]),
            expire_time : Nat]

ASSUME MessagesAssumption ==
    \A knd \in {"request", "response"} : Messages[knd] \subseteq Message
ASSUME MaxSentAssumption == MaxSent \in Nat

VARIABLES kind,       \* "request" or "response": what this wire carries
          wire,       \* the cells not parsed yet
          sent,       \* history: the messages they were made from
          obj,        \* the message object of the last parse
          got,        \* history: what the last parse should and did yield
          aligned     \* history: no key on this wire was too long

vars == <<kind, wire, sent, obj, got, aligned>>

-----------------------------------------------------------------------------
\* The index of each field in has_bits_
Bit(knd) ==
    IF knd = "request"
    THEN [key |-> 0, value |-> 1, expire_time |-> 2, values |-> 3, kvs |-> 4,
          count |-> 5, range |-> 6, vmembers |-> 7]
    ELSE [value |-> 0, values |-> 1, kvs |-> 2, count |-> 3, vmembers |-> 4]

TestBit(bits, idx) == (bits \div 2 ^ idx) % 2 = 1

Has(knd, m, f) == f \in DOMAIN Bit(knd) /\ TestBit(m.bits, Bit(knd)[f])

\* The else-if chain of both directions: at most one of these fields travels.
Chain(knd) ==
    IF knd = "request"
    THEN <<"value", "values", "kvs", "count", "range", "vmembers">>
    ELSE <<"value", "values", "kvs", "count", "vmembers">>

Payload(knd, m) ==
    LET set == {i \in DOMAIN Chain(knd) : Has(knd, m, Chain(knd)[i])}
    IN  IF set = {} THEN "none" ELSE Chain(knd)[CHOOSE i \in set : \A j \in set : i <= j]

\* count and range are members of a union in a request: count is the low half
\* of range.left.  A response has a 64-bit count of its own.
Count(knd, m) == IF knd = "request" THEN m.u[1] % W32 ELSE m.u[1]

SetCount(knd, m, n) ==
    [m EXCEPT !.u[1] = IF knd = "request" THEN (@ - (@ % W32)) + n ELSE n]

\* A newly constructed message
New == [head |-> 0, bits |-> 0, key |-> <<>>, value |-> <<>>, values |-> <<>>,
        kvs |-> <<>>, u |-> <<0, 0>>, vmembers |-> <<>>, expire_time |-> 0]

\* Mutant of Reset: values is not cleared.
ResetKeeps(m) == [m EXCEPT !.bits = 0, !.key = <<>>, !.kvs = <<>>,
                           !.value = <<>>, !.vmembers = <<>>]

\* MmbpRequest::Reset; the integers keep their values
Reset(m) == [m EXCEPT !.bits = 0, !.key = <<>>, !.kvs = <<>>, !.values = <<>>,
                      !.value = <<>>, !.vmembers = <<>>]

-----------------------------------------------------------------------------
\* SerializeComponent
Cell(k, v) == [k |-> k, v |-> v]

StrOut(s, width) == <<Cell("u", Len(s) % width)>> \o [i \in DOMAIN s |-> Cell("c", s[i])]

VecOut(vec, ElemOut(_)) ==
    <<Cell("u", Len(vec) % W32)>> \o FlattenSeq([i \in DOMAIN vec |-> ElemOut(vec[i])])

ValueOut(s) == StrOut(s, W32)

KvOut(kv) == StrOut(kv.key, W16) \o StrOut(kv.value, W32)

WeightOut(wv) == <<Cell("f", wv.key)>> \o StrOut(wv.value, W32)

PayloadOut(knd, m) ==
    CASE Payload(knd, m) = "value"    -> StrOut(m.value, W32)
      [] Payload(knd, m) = "values"   -> VecOut(m.values, ValueOut)
      [] Payload(knd, m) = "kvs"      -> VecOut(m.kvs, KvOut)
      [] Payload(knd, m) = "count"    -> <<Cell("u", Count(knd, m))>>
      [] Payload(knd, m) = "range"    -> <<Cell("s", m.u[1]), Cell("s", m.u[2])>>
      [] Payload(knd, m) = "vmembers" -> VecOut(m.vmembers, WeightOut)
      [] OTHER                        -> <<>>

SerializeTo(knd, m) ==
    <<Cell("u", m.head), Cell("u", m.bits)>>
        \o (IF Has(knd, m, "key") THEN StrOut(m.key, W16) ELSE <<>>)
        \o PayloadOut(knd, m)
        \o (IF Has(knd, m, "expire_time") THEN <<Cell("u", m.expire_time)>> ELSE <<>>)

-----------------------------------------------------------------------------
(***************************************************************************)
(* ParseComponent.  The parser p has the cells in front of it (in), the    *)
(* message it fills (m) and what it read last (num, str).                  *)
(***************************************************************************)
Pop(p, k) ==
    IF p.in # <<>> /\ Head(p.in).k = k
    THEN [p EXCEPT !.in = Tail(@), !.num = Head(p.in).v]
    ELSE [p EXCEPT !.bad = TRUE, !.num = 0]

\* A length and so many characters; a key's length is 16 bits wide.
Str(p) ==
    LET q == Pop(p, "u")
        n == q.num
    IN  IF n <= Len(q.in) /\ \A i \in 1 .. n : q.in[i].k = "c"
        THEN [q EXCEPT !.in = SubSeq(@, n + 1, Len(@)),
                       !.str = [i \in 1 .. n |-> q.in[i].v]]
        ELSE [q EXCEPT !.bad = TRUE, !.str = <<>>]

\* vector::resize: the elements that were there keep their contents.
Resized(vec, n, empty) ==
    [i \in 1 .. n |-> IF i <= Len(vec) THEN vec[i] ELSE empty]

\* A length, the vector f resized to it, and its elements one by one
Vec(p, f, empty, Elem(_, _)) ==
    LET q == Pop(p, "u")
        after[i \in 0 .. q.num] ==
            IF i = 0 THEN [q EXCEPT !.m[f] = Resized(@, q.num, empty)]
                     ELSE Elem(after[i - 1], i)
    IN  after[q.num]

\* The elements are appended to, not assigned.
ValueElem(p, i) == LET q == Str(p) IN [q EXCEPT !.m.values[i] = @ \o q.str]

KvElem(p, i) ==
    LET k == Str(p)
        v == Str([k EXCEPT !.m.kvs[i].key = @ \o k.str])
    IN  [v EXCEPT !.m.kvs[i].value = @ \o v.str]

\* Weights travel as fixed words; the parser of raw data takes them for varints.
WeightElem(p, i) ==
    LET w == Pop(p, IF p.raw THEN "u" ELSE "f")
        v == Str([w EXCEPT !.m.vmembers[i].key = w.num])
    IN  [v EXCEPT !.m.vmembers[i].value = @ \o v.str]

\* Mutant of RangeIn: only one end is read.
RangeLeftIn(p) == LET l == Pop(p, "s") IN [l EXCEPT !.m.u[1] = l.num]

RangeIn(p) ==
    LET l == Pop(p, "s")
        r == Pop([l EXCEPT !.m.u[1] = l.num], "s")
    IN  [r EXCEPT !.m.u[2] = r.num]

PayloadIn(knd, p) ==
    LET f == Payload(knd, p.m)
        pair == [key |-> <<>>, value |-> <<>>]
    IN  CASE f = "value"    -> LET q == Str(p) IN [q EXCEPT !.m.value = q.str]
          [] f = "values"   -> Vec(p, f, <<>>, ValueElem)
          [] f = "kvs"      -> Vec(p, f, pair, KvElem)
          [] f = "count"    -> LET q == Pop(p, "u")
                               IN  [q EXCEPT !.m = SetCount(knd, @, q.num)]
          [] f = "range"    -> RangeIn(p)
          [] f = "vmembers" -> Vec(p, f, [key |-> 0, value |-> <<>>], WeightElem)
          [] OTHER          -> p

\* Both ParseFrom: from a Buffer, and from raw data
ParseFrom(knd, m, in, raw) ==
    LET p0 == [in |-> in, m |-> m, num |-> 0, str |-> <<>>, bad |-> FALSE, raw |-> raw]
        p1 == LET q == Pop(p0, "u") IN [q EXCEPT !.m.head = q.num]
        p2 == LET q == Pop(p1, "u") IN [q EXCEPT !.m.bits = q.num]
        p3 == IF ~Has(knd, p2.m, "key") THEN p2
              ELSE LET q == Str(p2) IN [q EXCEPT !.m.key = q.str]
        p4 == PayloadIn(knd, p3)
    IN  IF ~Has(knd, p4.m, "expire_time") THEN p4
        ELSE LET q == Pop(p4, "u") IN [q EXCEPT !.m.expire_time = q.num]

-----------------------------------------------------------------------------
\* MmkvValue: the one PrepareOutstandingCall makes has no type, and moving it
\* into cbq_ and out again keeps that.
NewValue == [type |-> "V_INVALID", status |-> "unset", data |-> <<>>]

\* MmkvValue::FromResponse fills in what the type asks for.
FromResponse(v, r) ==
    [v EXCEPT !.status = r.head,
              !.data = CASE v.type = "V_STR_VALUE"     -> r.value
                         [] v.type = "V_STR_VALUES"    -> r.values
                         [] v.type \in {"V_COUNT", "V_WEIGHT"} -> r.u[1]
                         [] v.type = "V_WEIGHT_VALUES" -> r.vmembers
                         [] v.type = "V_STR_KVS"       -> r.kvs
                         [] OTHER                      -> @]

\* What a receiver finds: the fields whose bit is set and that travelled.
Observed(knd, m) ==
    [head        |-> m.head,
     bits        |-> m.bits,
     key         |-> IF Has(knd, m, "key") THEN m.key ELSE <<>>,
     payload     |-> Payload(knd, m),
     content     |-> CASE Payload(knd, m) = "none"  -> <<>>
                       [] Payload(knd, m) = "count" -> <<Count(knd, m)>>
                       [] Payload(knd, m) = "range" -> m.u
                       [] OTHER                     -> m[Payload(knd, m)],
     expire_time |-> IF Has(knd, m, "expire_time") THEN m.expire_time ELSE 0]

\* The lengths that are cut to 16 bits fit.
Fits(knd, m) ==
    /\ Has(knd, m, "key") => Len(m.key) < W16
    /\ Payload(knd, m) = "kvs" => \A i \in DOMAIN m.kvs : Len(m.kvs[i].key) < W16

-----------------------------------------------------------------------------
NoParse == [want |-> <<>>, seen |-> <<>>, bad |-> FALSE, raw |-> FALSE, value |-> NewValue]

Init ==
    /\ kind \in {"request", "response"}
    /\ wire = <<>> /\ sent = <<>> /\ obj = New /\ got = NoParse /\ aligned = TRUE

Send(m) ==
    /\ Len(sent) < MaxSent
    /\ wire' = wire \o SerializeTo(kind, m)
    /\ sent' = Append(sent, m)
    /\ aligned' = (aligned /\ Fits(kind, m))
    /\ UNCHANGED <<kind, obj, got>>

\* The next message is parsed into m.  On a wire that is out of step there is
\* nothing to compare it with.
Receive(m, raw) ==
    LET p == ParseFrom(kind, m, wire, raw)
    IN  /\ sent # <<>> /\ ~got.bad
        /\ wire' = p.in
        /\ obj' = p.m
        /\ got' = [want  |-> Observed(kind, Head(sent)), seen |-> Observed(kind, p.m),
                   bad   |-> p.bad, raw |-> raw,
                   value |-> IF kind = "response" THEN FromResponse(NewValue, p.m)
                                                  ELSE NewValue]
        /\ sent' = Tail(sent)
        /\ UNCHANGED <<kind, aligned>>

\* A new object for every message: a prototype's New, or the client's local
ReceiveNew == Receive(New, FALSE)

\* A request object used again, "to reuse the old memory space"
ReceiveAgain == kind = "request" /\ Receive(Reset(obj), FALSE)

\* Raw data, which only requests can be parsed from
ReceiveRaw == kind = "request" /\ Receive(New, TRUE)

Next == (\E m \in Messages[kind] : Send(m)) \/ ReceiveNew \/ ReceiveAgain \/ ReceiveRaw

Spec == Init /\ [][Next]_vars

-----------------------------------------------------------------------------
\* No parse takes less or more than one message: what is left on the wire is
\* what the messages not yet received were made into, whichever bits are set.
InStep ==
    aligned /\ ~got.bad =>
        wire = FlattenSeq([i \in DOMAIN sent |-> SerializeTo(kind, sent[i])])

\* The receiver finds what was sent, in a new object as well as in one that was
\* Reset, and from raw data too unless weights travelled.
RoundTrip ==
    aligned /\ ~(got.raw /\ got.want # <<>> /\ got.want.payload = "vmembers") =>
        ~got.bad /\ got.seen = got.want

\* mmkv_value.h:41, on the way of every GetStr: ASSERT(type_ == V_STR_VALUE).
StrDelivered ==
    kind = "response" /\ got.want # <<>> /\ got.seen.payload = "value" =>
        got.value.type = "V_STR_VALUE" /\ got.value.data = got.seen.content
=============================================================================
