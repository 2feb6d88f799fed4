---------------------------- MODULE ConfigdClient ----------------------------
(***************************************************************************)
(* mmkv::ConfigdClient: asks the configuration daemon for the layout of    *)
(* the cluster and keeps, per shard, the endpoint of the node that has it. *)
(*                                                                         *)
(* A configuration gives every node in it a host, a port and a list of     *)
(* shards.  It is applied node by node and shard by shard, and the node's  *)
(* endpoint is moved at each step: what is left of it after a move has the *)
(* node's id and port and an empty host.  Each round of those loops is a   *)
(* step: the loop thread is busy and conf_lock_ is held meanwhile, but     *)
(* other threads and the daemon go on.                                     *)
(*                                                                         *)
(* External: the daemon changes its configuration and answers a request    *)
(* with the one it has then; TcpClient has one connection at a time, and   *)
(* it may end; protobuf iterates over a map in an order of its own.  The   *)
(* dictionary is a KeyedSet (AvlDictionary is a TreeHashTable).            *)
(***************************************************************************)
EXTENDS Integers, Sequences, SequencesExt

CONSTANTS Configs,    \* the configurations the daemon may have
          NoHost,     \* the empty string
          W16,        \* the modulus of uint16_t
          MaxVersion, \* bound: configurations the daemon goes through
          MaxFetch    \* bound: FetchConfig calls not yet answered

ASSUME ConfigsAssumption ==
    \A c \in Configs : \A n \in DOMAIN c : c[n].port \in Nat /\ c[n].shards \in Seq(Nat)
ASSUME WidthAssumption == W16 \in Nat \ {0}
ASSUME BoundAssumption == MaxVersion \in Nat /\ MaxFetch \in Nat

VARIABLES conn,       \* conn_: "wild" (never set), "null" or "up"; "dead" when
                      \* the program has used a wild one
          loopq,      \* FetchConfig functors queued in the loop
          requests,   \* requests on their way to the daemon
          responses,  \* its answers, oldest first
          conf, ver,  \* the daemon's configuration, and which one it is
          dict,       \* shard_endpoint_dict_
          nodes,      \* the keys of node_conf_map_
          got,        \* the answer OnMessage is applying, NoAnswer if none
          todo,       \* its nodes that are still to come
          ep, left,   \* node_end_point, and the shards of that node to come
          last,       \* history: the answer applied last
          asked       \* history: the version at the last FetchConfig on this
                      \* connection, 0 if there was none

daemon == <<conf, ver>>
table  == <<dict, nodes, last>>
work   == <<got, todo, ep, left>>
vars   == <<conn, loopq, requests, responses, daemon, table, work, asked>>

-----------------------------------------------------------------------------
NoAnswer == [conf |-> <<>>, ver |-> 0]

\* OnMessage is running in the loop, with conf_lock_
Busy == got.ver # 0

NodeEndPoint(n, h, p) == [node |-> n, host |-> h, port |-> p]

\* A port is a uint32 in a configuration and is cast to a uint16_t.
Port16(p) == p % W16

\* What a move leaves of an endpoint
MovedFrom(e) == NodeEndPoint(e.node, NoHost, e.port)

Init ==
    /\ conn \in {"null", "wild"}     \* the constructors do not set conn_
    /\ loopq = 0 /\ requests = 0 /\ responses = <<>>
    /\ conf \in Configs /\ ver = 1
    /\ dict = <<>> /\ nodes = {} /\ last = NoAnswer /\ asked = 0
    /\ got = NoAnswer /\ todo = {} /\ ep = NodeEndPoint(0, NoHost, 0) /\ left = <<>>

\* OnConnection, when the connection is there
Connected ==
    /\ conn \in {"null", "wild"}
    /\ conn' = "up"
    /\ UNCHANGED <<loopq, requests, responses, daemon, table, work, asked>>

\* OnConnection, when it has ended
Disconnected ==
    /\ conn = "up" /\ ~Busy
    /\ conn' = "null"
    /\ requests' = 0 /\ responses' = <<>> /\ asked' = 0
    /\ UNCHANGED <<loopq, daemon, table, work>>

\* Any thread: the functor is queued.
FetchConfig ==
    /\ conn # "dead" /\ loopq + requests + Len(responses) < MaxFetch
    /\ loopq' = loopq + 1
    /\ asked' = IF conn = "up" THEN ver ELSE asked
    /\ UNCHANGED <<conn, requests, responses, daemon, table, work>>

\* Mutant of RunFetch: with a configuration in hand nothing is sent.
RunFetchOnce ==
    /\ loopq > 0 /\ ~Busy
    /\ loopq' = loopq - 1
    /\ requests' = IF conn = "up" /\ last = NoAnswer THEN requests + 1 ELSE requests
    /\ UNCHANGED <<conn, responses, daemon, table, work, asked>>

\* The loop runs the functor: without a connection nothing is sent.  A conn_
\* that was never set may be null, or anything else.
RunFetch ==
    /\ conn # "dead" /\ loopq > 0 /\ ~Busy
    /\ loopq' = loopq - 1
    /\ requests' = IF conn = "up" THEN requests + 1 ELSE requests
    /\ conn' \in IF conn = "wild" THEN {"wild", "dead"} ELSE {conn}
    /\ UNCHANGED <<responses, daemon, table, work, asked>>

\* The daemon
Reconfigure ==
    /\ ver < MaxVersion
    /\ ver' = ver + 1
    /\ conf' \in Configs
    /\ UNCHANGED <<conn, loopq, requests, responses, table, work, asked>>

Respond ==
    /\ requests > 0
    /\ requests' = requests - 1
    /\ responses' = Append(responses, [conf |-> conf, ver |-> ver])
    /\ UNCHANGED <<conn, loopq, daemon, table, work, asked>>

-----------------------------------------------------------------------------
\* OnMessage, up to the loops; then a round of the outer loop: the next node
OnMessage ==
    /\ ~Busy /\ responses # <<>>
    /\ got' = Head(responses) /\ responses' = Tail(responses)
    /\ todo' = DOMAIN Head(responses).conf
    /\ left' = <<>>
    /\ UNCHANGED <<conn, loopq, requests, daemon, table, ep, asked>>

TakeNode ==
    /\ Busy /\ left = <<>>
    /\ \E n \in todo :
          /\ todo' = todo \ {n}
          /\ ep' = NodeEndPoint(n, got.conf[n].host, Port16(got.conf[n].port))
          /\ left' = got.conf[n].shards
    /\ UNCHANGED <<conn, loopq, requests, responses, daemon, table, got, asked>>

\* The dictionary with shard given endpoint e
Put(shard, e) == [s \in DOMAIN dict \cup {shard} |-> IF s = shard THEN e ELSE dict[s]]

\* Mutant of PutShard: a shard that is known keeps its endpoint.
PutNewShard ==
    /\ Busy /\ left # <<>>
    /\ dict' = IF Head(left) \in DOMAIN dict THEN dict ELSE Put(Head(left), ep)
    /\ ep' = MovedFrom(ep) /\ left' = Tail(left)
    /\ UNCHANGED <<conn, loopq, requests, responses, daemon, nodes, last, got, todo,
                   asked>>

\* Mutant of PutShard: a shard that is known keeps its host.
PutKeepHost ==
    /\ Busy /\ left # <<>>
    /\ LET shard == Head(left)
       IN  dict' = Put(shard, IF shard \in DOMAIN dict
                              THEN [ep EXCEPT !.host = dict[shard].host] ELSE ep)
    /\ ep' = MovedFrom(ep) /\ left' = Tail(left)
    /\ UNCHANGED <<conn, loopq, requests, responses, daemon, nodes, last, got, todo,
                   asked>>

\* A round of the inner loop: InsertKvWithDuplicate moves the endpoint into a new
\* entry whether or not it is inserted; a shard that is known is then assigned
\* what is left.
PutShard ==
    /\ Busy /\ left # <<>>
    /\ LET shard == Head(left)
       IN  dict' = Put(shard, IF shard \in DOMAIN dict THEN MovedFrom(ep) ELSE ep)
    /\ ep' = MovedFrom(ep) /\ left' = Tail(left)
    /\ UNCHANGED <<conn, loopq, requests, responses, daemon, nodes, last, got, todo,
                   asked>>

\* After the loops: node_conf_map_ is swapped and conf_lock_ given up.
EndMessage ==
    /\ Busy /\ left = <<>> /\ todo = {}
    /\ nodes' = DOMAIN got.conf /\ last' = got
    /\ got' = NoAnswer
    /\ UNCHANGED <<conn, loopq, requests, responses, daemon, dict, todo, ep, left,
                   asked>>

Next == \/ Connected \/ Disconnected \/ FetchConfig \/ RunFetch
        \/ Reconfigure \/ Respond
        \/ OnMessage \/ TakeNode \/ PutShard \/ EndMessage

\* The loop runs what is queued and the daemon answers; nobody has to fetch.
Fairness == /\ WF_vars(RunFetch) /\ WF_vars(Respond) /\ WF_vars(OnMessage)
            /\ WF_vars(TakeNode) /\ WF_vars(PutShard) /\ WF_vars(EndMessage)

Spec == Init /\ [][Next]_vars /\ Fairness

-----------------------------------------------------------------------------
\* QueryNodeEndpoint: the endpoint of a shard, none if it is not known.  It
\* takes conf_lock_, so it is answered when OnMessage is not running.
QueryNodeEndpoint(shard) == {dict[s] : s \in {shard} \cap DOMAIN dict}

ShardsOf(c) == UNION {ToSet(c[n].shards) : n \in DOMAIN c}

\* A query for any shard of the configuration applied last is answered with a
\* node that has it, and that node's port as 16 bits hold it, whatever was known
\* before.
LastConfigServed ==
    (last.ver # 0 /\ ~Busy) =>
        \A shard \in ShardsOf(last.conf) :
            \E e \in QueryNodeEndpoint(shard) :
                /\ e.node \in nodes
                /\ shard \in ToSet(last.conf[e.node].shards)
                /\ e.port = Port16(last.conf[e.node].port)

\* However often endpoints are moved and entries overwritten, a query never
\* gives the host of another node: it is that of the node, or empty.
HostIsOwn ==
    \A shard \in DOMAIN dict :
        \/ dict[shard].host = NoHost
        \/ \E c \in Configs : /\ dict[shard].node \in DOMAIN c
                              /\ dict[shard].host = c[dict[shard].node].host

\* A FetchConfig made while the connection is up brings the client to what the
\* daemon had at that moment, or to something newer, unless the connection ends.
FetchTakesEffect ==
    \A v \in 1 .. MaxVersion :
        asked >= v ~> last.ver >= v \/ conn # "up"
=============================================================================
