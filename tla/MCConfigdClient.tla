--------------------------- MODULE MCConfigdClient ---------------------------
(***************************************************************************)
(* TLC instance of ConfigdClient: two nodes and three shards that move     *)
(* from node to node and disappear; in the last layout both nodes claim    *)
(* shard 1.  The port of node 2 does not fit in W16.                       *)
(***************************************************************************)
EXTENDS ConfigdClient, TLC

CONSTANTS h1, h2      \* hosts

Node1(shards) == 1 :> [host |-> h1, port |-> 3, shards |-> shards]
Node2(shards) == 2 :> [host |-> h2, port |-> W16 + 4, shards |-> shards]

MCConfigs ==
    {Node1(<<1, 2, 3>>), Node1(<<1, 2>>) @@ Node2(<<3>>), Node1(<<3>>) @@ Node2(<<2, 1>>),
     Node2(<<2>>), Node1(<<1>>) @@ Node2(<<1, 2>>)}
=============================================================================
