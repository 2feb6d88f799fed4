---------------------------- MODULE MCMmbpMessage ----------------------------
(***************************************************************************)
(* TLC instance of MmbpMessage.  Every optional field alone, some pairs of *)
(* fields that exclude each other, with and without a key (of every length *)
(* up to one too many) and an expiration time.                             *)
(***************************************************************************)
EXTENDS MmbpMessage

CONSTANTS a, b        \* characters

\* The bits of a set of fields
SetBits(knd, fields) ==
    LET add[S \in SUBSET fields] ==
            IF S = {} THEN 0
            ELSE LET f == CHOOSE f \in S : TRUE
                 IN  2 ^ Bit(knd)[f] + add[S \ {f}]
    IN  add[fields]

Filled == [New EXCEPT !.head = 1, !.value = <<b>>, !.values = <<<<a>>, <<>>, <<a, b>>>>,
               !.kvs = <<[key |-> <<a>>, value |-> <<b>>]>>, !.u = <<W32 + 1, 2>>,
               !.vmembers = <<[key |-> 3, value |-> <<a>>], [key |-> 4, value |-> <<>>]>>,
               !.expire_time = 5]

LongKv == [Filled EXCEPT !.kvs = <<[key |-> <<a, b, a>>, value |-> <<>>]>>]

Payloads(knd) ==
    {{}} \cup {{f} : f \in ToSet(Chain(knd))}
         \cup {{"value", "vmembers"}, {"values", "kvs"}, {"count", "values"}}
         \cup (IF knd = "request" THEN {{"count", "range"}} ELSE {})

Of(knd, fields, m) == [m EXCEPT !.bits = SetBits(knd, fields)]

MCMessages ==
    [response |-> {Of("response", p, Filled) : p \in Payloads("response")}
                     \cup {Of("response", {"values"}, New)},
     request  |-> {Of("request", p \cup {"key"}, [Filled EXCEPT !.key = <<a>>]) :
                        p \in Payloads("request")}
                     \cup {Of("request", p \cup {"expire_time"}, Filled) :
                        p \in {{}, {"values"}, {"vmembers"}}}
                     \cup {Of("request", {"key", "value"}, [Filled EXCEPT !.key = k]) :
                        k \in {<<>>, <<a, b>>, <<a, b, a>>}}
                     \cup {Of("request", {"kvs"}, LongKv)}]
=============================================================================
