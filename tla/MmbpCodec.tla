------------------------------ MODULE MmbpCodec -----------------------------
(***************************************************************************)
(* The receiving side of mmkv::protocol::MmbpCodec: the message callback   *)
(* of a connection cuts a byte stream into messages                        *)
(*                                                                         *)
(*     varint size | "MMBP" | payload | checksum                           *)
(*                                                                         *)
(* The peer sends message after message; their cells arrive in chunks of   *)
(* any length, in order (TCP).                                             *)
(* A cell knows the message it belongs to and its place in it; what it     *)
(* says matters only at a message boundary, where the size header is read. *)
(* A header read anywhere else is garbage, and may decode to anything.     *)
(*                                                                         *)
(* One round of the callback's while loop is one step: the buffer belongs  *)
(* to the connection's loop thread, and nothing arrives during the loop.   *)
(* The checksum (xxHash, external) is taken to detect every wrong cut.     *)
(***************************************************************************)
EXTENDS Integers, Sequences

CONSTANTS Streams,    \* the streams of messages a peer may send
          MaxSize,    \* MAX_SIZE
          MaxHeader   \* bound: cells of a garbage size header

TagSize == 1          \* MMBP_TAG_SIZE, CHECKSUM_LENGTH: one cell each
CheckSumSize == 1
MinSize == TagSize + CheckSumSize

\* hlen: cells of the size header; size: what it says; len: cells that follow
\* it; sum, tag: checksum and tag are right
Frame == [hlen : Nat \ {0}, size : Nat, len : Nat, sum : BOOLEAN, tag : BOOLEAN]

ASSUME StreamsAssumption == \A s \in Streams : s \in Seq(Frame)
ASSUME MaxSizeAssumption == MaxSize \in Nat /\ MaxHeader \in 1 .. MaxSize - 1

VARIABLES stream,     \* the messages of this connection
          sent,       \* how many of them the peer has sent
          wire,       \* cells that have not arrived
          buffer,     \* the input buffer of the connection
          pc,         \* "idle", or "loop" in the message callback
          err,        \* errors reported to error_cb_, in order
          delivered   \* messages given to message_cb_, in order

vars == <<stream, sent, wire, buffer, pc, err, delivered>>

-----------------------------------------------------------------------------
\* What SerializeTo makes of message f of stream s
Cell(f, i) == [msg |-> f, at |-> i]
Total(s, f) == s[f].hlen + s[f].len
Cells(s, f) == [i \in 1 .. Total(s, f) |-> Cell(f, i)]

Drop(b, n) == SubSeq(b, n + 1, Len(b))

\* kvarint_decode32 at the front of buffer b: a result and, if it is OK, the
\* length and the value of the size header
Short     == [ok |-> FALSE, invalid |-> FALSE, len |-> 0, size |-> 0]
Invalid   == [ok |-> FALSE, invalid |-> TRUE, len |-> 0, size |-> 0]
Header(l, s) == [ok |-> TRUE, invalid |-> FALSE, len |-> l, size |-> s]

Decode(b) ==
    IF b = <<>> THEN {Short}
    ELSE IF b[1].at = 1
    THEN LET f == stream[b[1].msg]
         IN  IF Len(b) < f.hlen THEN {Short} ELSE {Header(f.hlen, f.size)}
    ELSE {Short, Invalid}
           \cup {Header(l, s) : l \in {n \in 1 .. MaxHeader : n <= Len(b)},
                                s \in 0 .. MaxSize}

\* The next size cells are the whole body of a message
IsBody(b, size) ==
    LET f == stream[b[1].msg]
    IN  b[1].at = f.hlen + 1 /\ f.size = size /\ f.len = size

\* Mutant of VerifyCheckSum: the checksum is not compared.
VerifyNothing(b, size) == IsBody(b, size)

VerifyCheckSum(b, size) == IsBody(b, size) /\ stream[b[1].msg].sum

-----------------------------------------------------------------------------
Init ==
    /\ stream \in Streams
    /\ sent = 0 /\ wire = <<>>
    /\ buffer = <<>> /\ pc = "idle" /\ err = <<>> /\ delivered = <<>>

\* The peer's Send of its next message
Send ==
    /\ sent < Len(stream)
    /\ sent' = sent + 1
    /\ wire' = wire \o Cells(stream, sent + 1)
    /\ UNCHANGED <<stream, buffer, pc, err, delivered>>

\* The default error callback answers and shuts down the sending side only: the
\* connection goes on receiving.
Fail(code) == err' = Append(err, code) /\ pc' = "idle"

\* Mutant of Arrive: a buffer of exactly the limit is accepted.
ArriveOver(n) ==
    /\ pc = "idle" /\ n <= Len(wire)
    /\ wire' = Drop(wire, n)
    /\ LET b == buffer \o SubSeq(wire, 1, n)
       IN  \/ /\ Len(b) > MaxSize
              /\ buffer' = <<>>
              /\ Fail("E_INVALID_SIZE_HEADER")
           \/ /\ Len(b) <= MaxSize
              /\ buffer' = b
              /\ pc' = "loop" /\ UNCHANGED err
    /\ UNCHANGED <<stream, sent, delivered>>

\* n cells arrive and the message callback is called: a buffer at the limit is
\* thrown away, all of it.
Arrive(n) ==
    /\ pc = "idle" /\ n <= Len(wire)
    /\ wire' = Drop(wire, n)
    /\ LET b == buffer \o SubSeq(wire, 1, n)
       IN  \/ /\ Len(b) >= MaxSize
              /\ buffer' = <<>>
              /\ Fail("E_INVALID_SIZE_HEADER")
           \/ /\ Len(b) < MaxSize
              /\ buffer' = b
              /\ pc' = "loop" /\ UNCHANGED err
    /\ UNCHANGED <<stream, sent, delivered>>

\* The size header is not there yet, or not decodable
NoHeader ==
    /\ pc = "loop"
    /\ \E d \in Decode(buffer) :
          /\ ~d.ok
          /\ \/ d.invalid /\ Fail("E_INVALID_MESSAGE")
             \/ ~d.invalid /\ pc' = "idle" /\ UNCHANGED err
    /\ UNCHANGED <<stream, sent, wire, buffer, delivered>>

BadSize(h) == h.size < MinSize \/ h.size >= MaxSize - h.len

\* Mutant of Complete: waits for one more byte.
MoreThanComplete(h) == Len(buffer) - h.len > h.size

Complete(h) == Len(buffer) - h.len >= h.size

InvalidSize ==
    /\ pc = "loop"
    /\ \E h \in Decode(buffer) : h.ok /\ BadSize(h)
    /\ Fail("E_INVALID_SIZE_HEADER")
    /\ UNCHANGED <<stream, sent, wire, buffer, delivered>>

WaitComplete ==
    /\ pc = "loop"
    /\ \E h \in Decode(buffer) : h.ok /\ ~BadSize(h) /\ ~Complete(h)
    /\ pc' = "idle"
    /\ UNCHANGED <<stream, sent, wire, buffer, err, delivered>>

\* The size header is consumed before the body is verified: a wrong body stays
\* in the buffer without it.
InvalidBody ==
    /\ pc = "loop"
    /\ \E h \in Decode(buffer) :
          /\ h.ok /\ ~BadSize(h) /\ Complete(h)
          /\ buffer' = Drop(buffer, h.len)
          /\ \/ /\ ~VerifyCheckSum(buffer', h.size)
                /\ Fail("E_INVALID_CHECKSUM")
             \/ /\ VerifyCheckSum(buffer', h.size)
                /\ ~stream[buffer'[1].msg].tag
                /\ Fail("E_INVALID_MESSAGE")
    /\ UNCHANGED <<stream, sent, wire, delivered>>

\* message_cb_ consumes the payload; the loop goes on.
Deliver ==
    /\ pc = "loop"
    /\ \E h \in Decode(buffer) :
          LET body == Drop(buffer, h.len)
          IN  /\ h.ok /\ ~BadSize(h) /\ Complete(h)
              /\ VerifyCheckSum(body, h.size) /\ stream[body[1].msg].tag
              /\ delivered' = Append(delivered, body[1].msg)
              /\ buffer' = Drop(body, h.size)
    /\ UNCHANGED <<stream, sent, wire, pc, err>>

Next == \/ Send
        \/ \E n \in 1 .. Len(wire) : Arrive(n)
        \/ NoHeader \/ InvalidSize \/ WaitComplete \/ InvalidBody \/ Deliver

Spec == Init /\ [][Next]_vars

-----------------------------------------------------------------------------
\* What is delivered must be the whole of a message with a right checksum and
\* tag and a size within the limits.
Sound(f) == /\ stream[f].sum /\ stream[f].tag /\ stream[f].len = stream[f].size
            /\ stream[f].size >= MinSize /\ stream[f].size < MaxSize

\* What must be delivered: its size header is also accepted.
Good(f) == Sound(f) /\ ~BadSize(Header(stream[f].hlen, stream[f].size))

\* Type invariant.
TypeOK ==
    /\ stream \in Streams /\ sent \in 0 .. Len(stream)
    /\ pc \in {"idle", "loop"}
    /\ \A b \in {buffer, wire} : b \in Seq([msg : 1 .. sent, at : Nat \ {0}])
    /\ Len(buffer) < MaxSize
    /\ delivered \in Seq(1 .. sent)
    /\ err \in Seq({"E_INVALID_SIZE_HEADER", "E_INVALID_CHECKSUM",
                    "E_INVALID_MESSAGE"})

\* However the stream is cut, and whatever was reported about earlier bytes,
\* only sound messages are delivered, in the order they were sent, each once.
InOrder ==
    /\ \A i \in DOMAIN delivered : Sound(delivered[i])
    /\ \A i, j \in DOMAIN delivered : i < j => delivered[i] < delivered[j]

\* The cell that follows c in the stream
NextCell(c) == IF c.at < Total(stream, c.msg) THEN Cell(c.msg, c.at + 1)
                                              ELSE Cell(c.msg + 1, 1)

\* b is every cell of the messages sent after message n, in order.
AllAfter(b, n) ==
    \/ b = <<>> /\ n = sent
    \/ /\ b # <<>> /\ b[1] = Cell(n + 1, 1)
       /\ b[Len(b)] = Cell(sent, Total(stream, sent))
       /\ \A i \in 1 .. Len(b) - 1 : b[i + 1] = NextCell(b[i])

\* No message is lost or held back: as long as no error was reported, what was
\* sent is exactly the messages delivered, the buffer and what has not arrived,
\* and the buffer does not hold a whole good message.
Prompt ==
    (err = <<>> /\ pc = "idle") =>
        LET n == Len(delivered)
        IN  /\ delivered = [i \in 1 .. n |-> i]
            /\ AllAfter(buffer \o wire, n)
            /\ n < sent /\ Good(n + 1) => Len(buffer) < Total(stream, n + 1)
=============================================================================
