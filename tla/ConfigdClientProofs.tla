------------------------- MODULE ConfigdClientProofs -------------------------
(***************************************************************************)
(* Proofs about ConfigdClient for any set of configurations and in any     *)
(* order of nodes: LastConfigServed and HostIsOwn.                         *)
(*                                                                         *)
(* While an answer is applied, every shard of a node taken so far is       *)
(* served, except those of the current node that are still to come         *)
(* (Applying).  A shard that two nodes claim changes hands between them    *)
(* and stays served, so nothing already done is undone.                    *)
(***************************************************************************)
EXTENDS ConfigdClient, SequenceTheorems, TLAPS

\* d gives shard to a node of c that has it.
Served(c, d, shard) ==
    /\ shard \in DOMAIN d
    /\ d[shard].node \in DOMAIN c
    /\ shard \in ToSet(c[d[shard].node].shards)
    /\ d[shard].port = Port16(c[d[shard].node].port)

\* h is empty or the host of node n in some configuration.
OwnHost(n, h) == h = NoHost \/ \E c \in Configs : n \in DOMAIN c /\ h = c[n].host

Answers == [conf : Configs, ver : Nat]

Types ==
    /\ conf \in Configs /\ ver \in Nat
    /\ responses \in Seq(Answers)
    /\ Busy => got.conf \in Configs
    /\ left \in Seq(Nat)

\* How far OnMessage has come
Applying ==
    /\ left # <<>> =>
          /\ ep.node \in DOMAIN got.conf /\ ToSet(left) \subseteq ToSet(got.conf[ep.node].shards)
          /\ ep.port = Port16(got.conf[ep.node].port)
    /\ todo \subseteq DOMAIN got.conf
    /\ \A n \in DOMAIN got.conf \ todo : \A shard \in ToSet(got.conf[n].shards) :
          Served(got.conf, dict, shard) \/ shard \in ToSet(left)

\* The inductive invariant
Inv ==
    /\ Types
    /\ Busy => Applying
    /\ last.ver # 0 =>
          /\ nodes = DOMAIN last.conf
          /\ ~Busy => \A n \in nodes : \A shard \in ToSet(last.conf[n].shards) :
                          Served(last.conf, dict, shard)
    /\ left # <<>> => Busy
    /\ HostIsOwn /\ OwnHost(ep.node, ep.host)

-----------------------------------------------------------------------------
\* The steps that do not touch the table or the handler
LEMMA Elsewhere ==
  ASSUME Inv, UNCHANGED <<table, work>>, Types'
  PROVE  Inv'
BY DEF Inv, table, work, Busy, Applying, Served, HostIsOwn, OwnHost

LEMMA InitInv ==
  ASSUME Init
  PROVE  Inv
<1>1. ~Busy /\ last.ver = 0
  BY DEF Init, Busy, NoAnswer
<1>2. Types
  BY <1>1 DEF Init, Types
<1>3. HostIsOwn
  BY DEF Init, HostIsOwn
<1>4. OwnHost(ep.node, ep.host) /\ left = <<>>
  BY DEF Init, OwnHost, NodeEndPoint
<1>5. QED BY <1>1, <1>2, <1>3, <1>4 DEF Inv

LEMMA OthersInv ==
  ASSUME Inv, Connected \/ Disconnected \/ FetchConfig \/ RunFetch \/ Reconfigure \/ Respond
  PROVE  Inv'
<1>1. UNCHANGED <<table, work>>
  BY DEF Connected, Disconnected, FetchConfig, RunFetch, Reconfigure, Respond
<1>2. Types /\ got' = got /\ left' = left
  BY <1>1 DEF Inv, work
<1>3. CASE Connected \/ Disconnected \/ FetchConfig \/ RunFetch
  <2>1. UNCHANGED <<conf, ver>> /\ responses' \in {responses, <<>>}
    BY <1>3 DEF Connected, Disconnected, FetchConfig, RunFetch, daemon
  <2>2. responses' \in Seq(Answers)
    <3>1. responses \in Seq(Answers) /\ <<>> \in Seq(Answers)
      BY <1>2 DEF Types
    <3>2. responses' = responses \/ responses' = <<>>
      BY <2>1
    <3>3. QED BY <3>1, <3>2
  <2>3. Types'
    BY <1>2, <2>1, <2>2 DEF Types, Busy
  <2>4. QED BY <1>1, <2>3, Elsewhere
<1>4. CASE Reconfigure
  <2>1. conf' \in Configs /\ ver' = ver + 1 /\ responses' = responses
    BY <1>4 DEF Reconfigure
  <2>2. Types'
    BY <1>2, <2>1 DEF Types, Busy
  <2>3. QED BY <1>1, <2>2, Elsewhere
<1>5. CASE Respond
  <2>1. UNCHANGED <<conf, ver>> /\ responses' = Append(responses, [conf |-> conf, ver |-> ver])
    BY <1>5 DEF Respond, daemon
  <2>2. [conf |-> conf, ver |-> ver] \in Answers
    BY <1>2 DEF Types, Answers
  <2>3. responses' \in Seq(Answers)
    BY <1>2, <2>1, <2>2 DEF Types
  <2>4. Types'
    BY <1>2, <2>1, <2>3 DEF Types, Busy
  <2>5. QED BY <1>1, <2>4, Elsewhere
<1>6. QED BY <1>3, <1>4, <1>5

LEMMA OnMessageInv ==
  ASSUME Inv, OnMessage
  PROVE  Inv'
<1> DEFINE r == Head(responses)
<1>1. /\ ~Busy /\ responses # <<>> /\ got' = r /\ responses' = Tail(responses)
      /\ todo' = DOMAIN r.conf /\ left' = <<>>
      /\ UNCHANGED <<conf, ver, dict, nodes, last, ep>>
  BY DEF OnMessage, daemon, table
<1>2. r \in Answers /\ responses' \in Seq(Answers)
  <2>1. responses \in Seq(Answers)
    BY DEF Inv, Types
  <2>2. QED BY <1>1, <2>1, HeadTailProperties
<1> HIDE DEF r
<1>3. Types'
  <2>1. r.conf \in Configs
    BY <1>2 DEF Answers
  <2>2. QED BY <1>1, <1>2, <2>1 DEF Inv, Types
<1>4. Applying'
  BY <1>1 DEF Applying
<1>5. HostIsOwn' /\ OwnHost(ep.node, ep.host)' /\ left' = <<>>
  BY <1>1 DEF Inv, HostIsOwn, OwnHost
<1>6. last'.ver # 0 =>
          /\ nodes' = DOMAIN last'.conf
          /\ \A n \in nodes' : \A shard \in ToSet(last'.conf[n].shards) :
                 Served(last'.conf, dict', shard)
  BY <1>1 DEF Inv
<1>7. QED BY <1>3, <1>4, <1>5, <1>6 DEF Inv

LEMMA TakeNodeInv ==
  ASSUME Inv, TakeNode
  PROVE  Inv'
<1> DEFINE c == got.conf
<1>1. PICK n \in todo : /\ todo' = todo \ {n}
                        /\ ep' = NodeEndPoint(n, c[n].host, Port16(c[n].port))
                        /\ left' = c[n].shards
  BY DEF TakeNode
<1>2. /\ Busy /\ left = <<>> /\ got' = got
      /\ UNCHANGED <<conf, ver, responses, dict, nodes, last>>
  BY DEF TakeNode, daemon, table
<1>3. Applying /\ n \in DOMAIN c /\ c \in Configs
  BY <1>1, <1>2 DEF Inv, Types, Applying
<1>4. left' \in Seq(Nat)
  BY <1>1, <1>3, ConfigsAssumption
<1>5. ep'.node = n /\ ep'.host = c[n].host /\ ep'.port = Port16(c[n].port)
  BY <1>1 DEF NodeEndPoint
<1>6. Types' /\ Busy'
  BY <1>2, <1>4 DEF Inv, Types, Busy
<1>7. ToSet(left) = {}
  BY <1>2 DEF ToSet
<1>8. Applying'
  <2>1. ASSUME NEW m \in DOMAIN c \ todo', NEW shard \in ToSet(c[m].shards)
        PROVE  Served(c, dict, shard) \/ shard \in ToSet(left')
    <3>1. CASE m = n
      BY <1>1, <3>1
    <3>2. CASE m # n
      <4>1. m \in DOMAIN c \ todo
        BY <1>1, <3>2
      <4>2. QED BY <1>3, <1>7, <4>1 DEF Applying
    <3>3. QED BY <3>1, <3>2
  <2>2. todo' \subseteq DOMAIN c
    BY <1>1, <1>3 DEF Applying
  <2>3. ep'.node \in DOMAIN c /\ left' = c[ep'.node].shards /\ ep'.port = Port16(c[ep'.node].port)
    BY <1>1, <1>3, <1>5
  <2>4. c' = c /\ dict' = dict
    BY <1>2
  <2>5. QED BY <2>1, <2>2, <2>3, <2>4 DEF Applying
<1>9. HostIsOwn' /\ OwnHost(ep.node, ep.host)'
  <2>1. OwnHost(n, c[n].host)
    BY <1>3 DEF OwnHost
  <2>2. QED BY <1>2, <1>5, <2>1 DEF Inv, HostIsOwn, OwnHost
<1>10. last'.ver # 0 => nodes' = DOMAIN last'.conf
  BY <1>2 DEF Inv
<1>11. QED BY <1>6, <1>8, <1>9, <1>10 DEF Inv

LEMMA PutShardInv ==
  ASSUME Inv, PutShard
  PROVE  Inv'
<1> DEFINE c == got.conf
           shard == Head(left)
           new == IF shard \in DOMAIN dict THEN MovedFrom(ep) ELSE ep
<1>1. /\ Busy /\ left # <<>> /\ dict' = Put(shard, new) /\ ep' = MovedFrom(ep)
      /\ left' = Tail(left) /\ got' = got /\ todo' = todo
      /\ UNCHANGED <<conf, ver, responses, nodes, last>>
  BY DEF PutShard, daemon
<1>2. Applying /\ c \in Configs /\ left \in Seq(Nat)
  BY <1>1 DEF Inv, Types
<1>3. left' \in Seq(Nat) /\ shard \in ToSet(left) /\ ToSet(left) = ToSet(left') \cup {shard}
  <2>1. /\ Len(left) \in Nat /\ Len(left) >= 1 /\ Len(left') = Len(left) - 1
        /\ DOMAIN left = 1 .. Len(left) /\ DOMAIN left' = 1 .. Len(left')
        /\ left[1] = shard /\ \A i \in 1 .. Len(left') : left'[i] = left[i + 1]
        /\ left' \in Seq(Nat)
    BY <1>1, <1>2
  <2>2. \A i \in 1 .. Len(left) : i # 1 => i - 1 \in 1 .. Len(left') /\ left[i] = left'[i - 1]
    BY <2>1
  <2>3. ASSUME NEW x PROVE x \in ToSet(left) <=> x \in ToSet(left') \/ x = shard
    <3>1. x \in ToSet(left') => x \in ToSet(left)
      <4> SUFFICES ASSUME x \in ToSet(left') PROVE x \in ToSet(left)
        OBVIOUS
      <4>1. PICK i \in 1 .. Len(left') : x = left'[i]
        BY <2>1 DEF ToSet
      <4>2. i + 1 \in DOMAIN left /\ x = left[i + 1]
        BY <2>1, <4>1
      <4>3. QED BY <4>2 DEF ToSet
    <3>2. x = shard => x \in ToSet(left)
      BY <2>1 DEF ToSet
    <3>3. x \in ToSet(left) => x \in ToSet(left') \/ x = shard
      <4> SUFFICES ASSUME x \in ToSet(left), x # shard PROVE x \in ToSet(left')
        OBVIOUS
      <4>1. PICK i \in 1 .. Len(left) : x = left[i]
        BY <2>1 DEF ToSet
      <4>2. i - 1 \in DOMAIN left' /\ x = left'[i - 1]
        BY <2>1, <2>2, <4>1
      <4>3. QED BY <4>2 DEF ToSet
    <3>4. QED BY <3>1, <3>2, <3>3
  <2>4. QED BY <2>1, <2>3
<1>4. Types' /\ Busy'
  BY <1>1, <1>3 DEF Inv, Types, Busy
<1>5. /\ new.node = ep.node /\ new.port = ep.port
      /\ ep'.node = ep.node /\ ep'.port = ep.port /\ ep'.host = NoHost
      /\ OwnHost(new.node, new.host) /\ OwnHost(ep'.node, ep'.host)
  <2>1. /\ MovedFrom(ep).node = ep.node /\ MovedFrom(ep).port = ep.port
        /\ MovedFrom(ep).host = NoHost
    BY DEF MovedFrom, NodeEndPoint
  <2>2. OwnHost(ep.node, ep.host) /\ OwnHost(ep.node, NoHost)
    BY DEF Inv, OwnHost
  <2>3. QED BY <1>1, <2>1, <2>2
<1> HIDE DEF new, shard
<1>6. /\ DOMAIN dict' = DOMAIN dict \cup {shard} /\ dict'[shard] = new
      /\ \A s \in DOMAIN dict : s # shard => dict'[s] = dict[s]
  BY <1>1 DEF Put
<1>7. Served(c, dict', shard)
  <2>1. ep.node \in DOMAIN c /\ ToSet(left) \subseteq ToSet(c[ep.node].shards)
        /\ ep.port = Port16(c[ep.node].port)
    BY <1>1, <1>2 DEF Applying
  <2>2. QED BY <1>3, <1>5, <1>6, <2>1 DEF Served
<1>8. \A s : Served(c, dict, s) => Served(c, dict', s)
  <2> SUFFICES ASSUME NEW s, Served(c, dict, s), s # shard PROVE Served(c, dict', s)
    BY <1>7
  <2>1. s \in DOMAIN dict' /\ dict'[s] = dict[s]
    BY <1>6 DEF Served
  <2>2. QED BY <2>1 DEF Served
<1>9. Applying'
  <2>1. ASSUME NEW n \in DOMAIN c \ todo, NEW s \in ToSet(c[n].shards)
        PROVE  Served(c, dict', s) \/ s \in ToSet(left')
    <3>1. Served(c, dict, s) \/ s \in ToSet(left)
      BY <1>2 DEF Applying
    <3>2. QED BY <1>3, <1>7, <1>8, <3>1
  <2>2. /\ ep'.node \in DOMAIN c /\ ToSet(left') \subseteq ToSet(c[ep'.node].shards)
        /\ ep'.port = Port16(c[ep'.node].port)
    BY <1>1, <1>2, <1>3, <1>5 DEF Applying
  <2>3. todo \subseteq DOMAIN c
    BY <1>2 DEF Applying
  <2>4. c' = c /\ todo' = todo
    BY <1>1
  <2>5. QED BY <2>1, <2>2, <2>3, <2>4 DEF Applying
<1>10. HostIsOwn'
  <2> SUFFICES ASSUME NEW s \in DOMAIN dict'
               PROVE  OwnHost(dict'[s].node, dict'[s].host)
    BY DEF HostIsOwn, OwnHost
  <2>1. CASE s = shard
    BY <1>5, <1>6, <2>1
  <2>2. CASE s # shard
    <3>1. s \in DOMAIN dict /\ dict'[s] = dict[s]
      BY <1>6, <2>2
    <3>2. QED BY <3>1 DEF Inv, HostIsOwn, OwnHost
  <2>3. QED BY <2>1, <2>2
<1>11. last'.ver # 0 => nodes' = DOMAIN last'.conf
  BY <1>1 DEF Inv
<1>12. OwnHost(ep.node, ep.host)'
  BY <1>5 DEF OwnHost
<1>13. QED BY <1>4, <1>9, <1>10, <1>11, <1>12 DEF Inv

LEMMA EndMessageInv ==
  ASSUME Inv, EndMessage
  PROVE  Inv'
<1> DEFINE c == got.conf
<1>1. /\ Busy /\ left = <<>> /\ todo = {} /\ nodes' = DOMAIN c /\ last' = got
      /\ got' = NoAnswer
      /\ UNCHANGED <<conf, ver, responses, dict, todo, ep, left>>
  BY DEF EndMessage, daemon
<1>2. ~Busy'
  BY <1>1 DEF Busy, NoAnswer
<1>3. Types'
  BY <1>1, <1>2 DEF Inv, Types
<1>4. ToSet(left) = {}
  BY <1>1 DEF ToSet
<1>5. \A n \in DOMAIN c : \A shard \in ToSet(c[n].shards) : Served(c, dict, shard)
  BY <1>1, <1>4 DEF Inv, Applying
<1>6. HostIsOwn' /\ OwnHost(ep.node, ep.host)'
  BY <1>1 DEF Inv, HostIsOwn, OwnHost
<1>7. /\ nodes' = DOMAIN last'.conf
      /\ \A n \in nodes' : \A shard \in ToSet(last'.conf[n].shards) :
             Served(last'.conf, dict', shard)
  BY <1>1, <1>5
<1>8. QED BY <1>1, <1>2, <1>3, <1>6, <1>7 DEF Inv

LEMMA NextInv ==
  ASSUME Inv, [Next]_vars
  PROVE  Inv'
<1>1. CASE Connected \/ Disconnected \/ FetchConfig \/ RunFetch \/ Reconfigure \/ Respond
  BY <1>1, OthersInv
<1>2. CASE OnMessage
  BY <1>2, OnMessageInv
<1>3. CASE TakeNode
  BY <1>3, TakeNodeInv
<1>4. CASE PutShard
  BY <1>4, PutShardInv
<1>5. CASE EndMessage
  BY <1>5, EndMessageInv
<1>6. CASE UNCHANGED vars
  <2>1. UNCHANGED <<table, work>> /\ UNCHANGED <<conf, ver, responses, got, left>>
    BY <1>6 DEF vars, daemon, work
  <2>2. Types'
    BY <2>1 DEF Inv, Types, Busy
  <2>3. QED BY <2>1, <2>2, Elsewhere
<1>7. QED BY <1>1, <1>2, <1>3, <1>4, <1>5, <1>6 DEF Next

-----------------------------------------------------------------------------
\* The inductive invariant holds in every reachable state.
THEOREM Invariance == Spec => []Inv
BY InitInv, NextInv, PTL DEF Spec

\* After every answer, in whatever order its nodes are taken and whatever was
\* known before, QueryNodeEndpoint gives for each of its shards a node that has
\* the shard, with that node's port as a uint16_t holds it.
THEOREM ServedTheorem == Spec => []LastConfigServed
<1>1. Inv => LastConfigServed
  <2> SUFFICES ASSUME Inv, last.ver # 0, ~Busy, NEW shard \in ShardsOf(last.conf)
               PROVE  \E e \in QueryNodeEndpoint(shard) :
                          /\ e.node \in nodes
                          /\ shard \in ToSet(last.conf[e.node].shards)
                          /\ e.port = Port16(last.conf[e.node].port)
    BY DEF LastConfigServed
  <2>1. PICK n \in DOMAIN last.conf : shard \in ToSet(last.conf[n].shards)
    BY DEF ShardsOf
  <2>2. nodes = DOMAIN last.conf /\ Served(last.conf, dict, shard)
    BY <2>1 DEF Inv
  <2>3. dict[shard] \in QueryNodeEndpoint(shard)
    BY <2>2 DEF QueryNodeEndpoint, Served
  <2>4. QED BY <2>2, <2>3 DEF Served
<1>2. QED BY <1>1, Invariance, PTL

\* The moves of OnMessage never leave the host of one node with another.
THEOREM HostTheorem == Spec => []HostIsOwn
<1>1. Inv => HostIsOwn
  BY DEF Inv
<1>2. QED BY <1>1, Invariance, PTL
=============================================================================
