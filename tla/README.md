# TLA+ models of the mmkv client library

The library (`src/`) is the asynchronous C++ client of the mmkv key-value
server, together with the containers and the wire protocol it shares with the
server. This directory holds TLA+ models of its core, the TLC configurations
that check them on small instances, and TLAPS proofs for every size.

## The system

| part | state | operations | modules |
|---|---|---|---|
| `MmkvClient` (`client/mmkv_client.*`) | the queue of waiting callbacks `cbq_`, the queue of parked requests `pending_requestq_`, one connection | `AddStr`/`GetStr` (callback or future) from any thread; connection callback, message callback, `Close` | `MmkvClient`, `MmkvClientProofs` |
| `TreeHashTable` (`algo/internal/tree_hash*.h`) | two arrays of AVL buckets, `used`, the rehash index | `Insert`, `Push`, `Find`, `Extract`/`Erase`, `EraseNode`, `Clear`, `ClearApply`, iteration | `TreeHashTable`, `TreeHashTableProofs` |
| AVL tree (`algo/internal/avl_*`) | linked nodes with parent, children and height | `Insert`, `Push`, `Find`, bounds, `Extract`/`Erase`, `EraseNode`, `ReuseAllNodes`, `Clear`, iteration both ways, `DoInAll` | `AvlTree`, `AvlTreeProofs` |
| `HashTable`, `HashSet` (`algo/hash_table.h`, `algo/hash_set.h`, `algo/internal/hash_*`) | two arrays of singly linked buckets, `used`, the rehash index | `Insert`, `Find`/`FindSlot`, `EraseAfterFindSlot`, `Extract`/`Erase`, `Clear`, `Clone`, iteration, `EraseRandom`, `Union`, `Intersection`, `Difference` | `HashTable`, `HashTableProofs` |
| `MmbpCodec` (`protocol/mmbp_codec.*`) | the connection's input buffer | receive loop, `SerializeTo`, error callback | `MmbpCodec`, `MmbpCodecProofs` |
| `MmbpRequest`, `MmbpResponse`, `mmbp_util.h` | fields and has-bits | `SerializeTo`, `ParseFrom`, `Reset` | `MmbpMessage`, `MmbpMessageProofs` |
| `MmkvValue` (`client/mmkv_value.*`) | a typed value of a call | `FromResponse`, accessors | `MmbpMessage` |
| `ConfigdClient` (`client/configd_client.*`) | endpoint per shard, connection | `FetchConfig`, `OnMessage`, `QueryNodeEndpoint` | `ConfigdClient`, `ConfigdClientProofs` |
| `CompletionQueueNext` (`thread/completion_queue_next.*`) | queue, mutex, condition variable | `Push`, `Next` | `CompletionQueueNext` |
| `CompletionQueuePluck` | a map, per-thread contexts | `Push`, `Pluck` | none: unfinished, `Pluck` has no exit |
| `Slist`, `Blist`, `ReservedArray` | linked nodes, raw arrays | list and array operations | `Slist` as the buckets of `HashTable` |
| `BlockArray`, allocators, type utilities, command tables | none, or none that matters | | none |

How they interact. A caller thread runs `MmkvClient::AddStr`, which queues a
callback, and hands a request to the connection through `MmbpCodec::Send`; the
event loop thread (kanon, not in `src/`) runs the connection callback, which
sends what is parked, and the codec's message callback, which cuts the stream
into messages and gives each response to the client's message callback. The
client shares `cbq_` and `pending_requestq_` between these threads, under two
different mutexes. A payload is parsed by `MmbpResponse::ParseFrom` and copied
into the call's `MmkvValue`. `TreeHashTable` has AVL trees as buckets,
`HashTable` has `Slist`s; both keep them in `ReservedArray`s, and both are used
by one thread at a time. `ConfigdClient` has a loop and a connection of its own
and keeps its shard table, an `AvlDictionary` over `TreeHashTable`, under
`conf_lock_`.

What is hard here: the three separately locked steps of
`PrepareOutstandingCall` against the loop; matching responses by position only;
a rehash spread over the calls that follow it, so that every operation, lookups
included, changes the table; lookups that reorder a list; nodes that leave a
balanced tree and come back with an old height; a stream that is cut anywhere;
optional fields whose presence two parties must read alike; endpoints that are
moved from and used again; a wakeup that reaches a thread too late.

## Modules

**`MmkvClient`.** `cbq`, `pending` are the client's two queues, `link` the
state of the connection, `sendq` the `Send` calls of other threads that the loop
has not run, `net` the requests that are sent and not answered. `pc`/`cur` say
where each caller is: `PushCallback` is `AddStr`/`GetStr` up to the unlock of
`cbq_mu_`, `GetConnection` the read of the connection, `PushPending` and `Send`
the two branches. The loop's actions are `OnConnection`, `RunSend`,
`OnMessage`; `Close` and `Disconnected` end the connection. A call, its request
and its response have the same name, and `got` records which response each
callback was given. kanon and the server are external: bytes keep their order,
the server answers each request once and in order, and nothing reconnects
(`src/` never asks for it).

`DisciplinedSpec` restricts the environment, not the code: one call at a time,
and the connection does not come up during one.

**`KeyedSet`** is what a container with unique keys promises: a set, and the
answer of each call. **`TreeHashTable`** and **`HashTable`** implement it. In
both, `ht` holds the two arrays with their sizes, `used` and the rehash index,
`ret` the last call and its answer, and `lost` counts the entries that were
erased without `--used`. The rehash work that a call does first is part of its
action. In `TreeHashTable` a bucket is the set of its values (what an AVL tree
of unique keys holds); `PushWithDuplicate` is modelled with a null `duplicate`,
as `Push` calls it. In `HashTable` a bucket is the sequence of its nodes, so
move-to-front, the order of a moved bucket and the iterator are visible.
`hash & size_mask` is `%` in the models; the assumption `MaskIsModulo` of
`MCTreeHashTable` and of `MCHashTable` has TLC evaluate that they agree for the
sizes that occur.

Iterators are functions of the table: `Begin`, `Increment` and the walk they
make. An iterator of `HashTable` is its node with the table and bucket it is
in, so `HashSet`'s loops can be run while `Find` moves nodes under them: `Union`
and the others are `Step` repeated on the set, the operand and the result built
so far; a loop is cut off after as many steps as the set it runs over has nodes,
and the proofs show which loops have ended by then. With another set as operand the result is
exact. With the set itself it is exact, outside a rehash, just when no bucket
holds two nodes: `Find` brings the second node of a bucket to its front, the
iterator then meets the first one again, and the loop does not end
(`SelfOperations` says both).

**`AvlTree`** is the tree down to its links: `tree` has the root and every
node's left, right, parent and height; a loop of the code is `Loop`
over its pass, cut off after as many passes as there are nodes, plus one; the
proofs show that every loop has ended by then. `held` are nodes the caller took out with `Extract` or `ReuseAllNodes` and
may push again, `stale` remembers that one came back with another height than a
new node's. The tree is shown to implement `KeyedSet`, the same specification
that `TreeHashTable` assumes of a bucket by taking it as a set of unique keys.
The early return for a second node leaves the root's height wrong; this is
harmless (`BalancedUnlessStale`), because the next retracing repairs it.

**`MmbpCodec`.** The peer sends message after message (`Send`), whose cells
arrive in chunks (`Arrive`); each round of the loop is one action. At a message boundary the size header says what the message says;
anywhere else it may decode to anything. Tag and checksum have one cell each.
The checksum is taken to detect every wrong cut. `message_cb_` is taken to
consume the payload it was told about.

**`MmbpMessage`.** The wire carries typed cells: a varint, a signed varint, a
fixed word, a character. A parser that meets another kind of cell than it
expects is out of step (`bad`), so a serializer and a parser that disagree about
a field or its order are caught without modelling bytes. Lengths keep their
widths, scaled: `W16` = 3 and `W32` = 8 in the run, which has two characters. Reading takes new objects,
reused ones after `Reset` (requests), and raw data (requests). The `MmkvValue`
of a call is `NewValue`, filled by `FromResponse`.

**`ConfigdClient`.** `dict` is the shard table, `loopq` the queued functors,
`requests` and `responses` what is under way. `OnMessage` takes an
answer and the lock, `TakeNode` and `PutShard` are one round of its outer and of
its inner loop, `EndMessage` gives the lock back; the nodes come in any order,
and `MovedFrom` is what `std::move` leaves of an endpoint. A port is a `uint32` in
a configuration and is cast to `uint16_t` on the way to the endpoint (`Port16`);
the width is scaled: `W16` = 8 in the run. The loop thread does
nothing else meanwhile (`Busy`), and a query has to wait for the lock. The daemon is
external and changes its layout at any time. `conn_` is not initialised by the
constructors: it starts as null or "wild", and a fetch through a wild pointer
ends the program ("dead"). Every request is a fetch, so the branch of `OnMessage`
for `CONF_INVALID_REQ`, which ends the program with `LOG_FATAL`, is not modelled.

**`CompletionQueueNext`.** What a thread does with `cq_mu_` held is one action;
`Wait` splits `Next` in two. `SpuriousWakeup` is what a condition variable may
do. The asserted `!cq_.empty()` is the guard under which a thread takes.

Operators that begin with the comment "Mutant of ..." are plausible wrong
versions of the definition they stand before; no specification uses them. Each
property is known to fail when the mutated definition replaces the right one.

## Runs

| run | result | shows |
|---|---|---|
| `client` | pass | cbq_ always has a callback for each response that can come; no callback runs twice. 3 callers, 4 calls |
| `client_ordered` | pass | under the discipline each call gets its own response, nothing is pending when a response can come, and every call completes unless the connection ends |
| `client_match` | violation | without it, one caller is enough for a call to get another call's response |
| `tree_hash_table` | pass | structure, uniqueness, load, `size()`, exact iteration, refinement of `KeyedSet`; a rehash ends |
| `hash_table` | pass | placement, uniqueness, `size()`, exact iteration, faithful clone, set operations, refinement of `KeyedSet` |
| `avl` | pass | links agree, walks in order, bounds exact, refinement of `KeyedSet`, balance while no node comes back with a stale height |
| `avl_balance` | violation | a reused node has height 0, and the tree loses its balance |
| `completion_queue` | pass | FIFO, no lost wakeup, no completion is left while a thread is in `Next` |
| `codec` | pass | messages are delivered in order, once, and as soon as they are complete |
| `message` | pass | parsers stay in step with serializers for every kind of message, and yield what was sent |
| `value_delivered` | violation | a string that was received does not reach the `MmkvValue` of its call |
| `configd` | pass | the last layout is served, with no foreign host; a fetch on a live connection takes effect |

The scenario behind `client_match`: a caller finds no connection; the connection
comes up and its callback flushes the parked requests; the caller parks its
request. Nothing sends it any more, its call never completes, its callback stays
at the front of `cbq_` and is given the response to the next call. The assertion
`pending_requestq_.empty()`, commented out in the message callback, would fail
in that response's callback; under the discipline it holds
(`PendingEmptyOnMessage`).

Behind `avl_balance`: `ReuseAllNodes` resets every node to height 0 and `Push`
keeps it. The third node below a chain of two such nodes finds a parent whose
height does not change, and retracing stops. Bucket lookups stay right
(`ImplementsKeyedSet` holds), only their cost is not bounded by a balanced tree
any more. `TreeHashTable`'s rehash moves its nodes this way.

Seen while modelling, with no run of their own: `load_factor()` reaches 1 when
a table is full, `LoadBound` is what holds; the codec's buffer limit throws away
a largest legal message that arrives together with the start of the next, and
after a wrong checksum the body stays in the buffer and is read as headers (the
`codec` run has both among its eight streams); the host of a node reaches the
shard table only if the first shard in its list was unknown, since each round
moves the endpoint, and not after a refetch; a node's port of 2^16 or more is
answered as another port;
shards that vanish from the layout stay in the table; the raw `ParseFrom` reads
weights as varints although they are written as fixed words, and a key of 2^16
characters or more throws the receiver out of step.

Bounds. The client runs have up to 3 callers and 4 calls: two callers reorder,
the third overtakes both, and a fourth call meets the shifted queue; all
reachable states are explored, with callers and calls interchangeable in the
safety runs. The hash tables have 5 or 6 keys whose hashes collide in 4 buckets
and separate in 8 and 16, and two values for one key. Up to three entries
erased without `--used` bring `used` to 8, so that the second rehash (8 to 16)
happens. The codec's limit is 10 cells, so that the largest legal message is in
reach; garbage headers have up to 2 cells. The queue has 4 threads and 4
completions. The tree has six keys, one with two values: single and double
rotations in both directions, successors at depth two, rotations after erasure
that propagate; `MaxHeld` = 1 extracted node and `MaxReused` = 3 nodes in a tree
that reused one, which is enough for a missing rotation. The wire holds two
messages, so that a parse that takes too much or too little damages another;
they have each field alone, pairs of fields that exclude each other, and keys up
to one character too long. The daemon goes through three layouts out of five, in
which shards move, vanish and are claimed twice; one of the two nodes has a port
that does not fit in `W16`; two fetches are under way at
most. The other operands of the set operations are sets of one, three and five
elements, the last one in a rehash. The client, codec, message and configd runs
have a finite number of calls, messages or layouts and may stop, so they do not
check for deadlock; the containers can always be called again, and so can the
completion queue, whose threads may wake spuriously.

Fairness. `FairSpec` of the client: threads inside a call and the loop are
scheduled, the connection is made and the server answers; no call has to be
made. `FairSpec` of `TreeHashTable`: the owner goes on using the table (the
rehash has no other engine; some call always changes the table, so
`[]<><<TRUE>>_vars` says the same as `WF_vars(Next)`). `FairSpec` of the queue:
a woken thread gets the mutex in the end; neither `Push`, nor `Next`, nor a
spurious wakeup has to happen. `ConfigdClient`: its loop runs what is queued and
what arrived and does not stop inside `OnMessage`, and the daemon answers; nobody has to fetch, and a connection may
end at any time, which the property allows for.

## Proofs

For all values of the constants, under the assumptions named in the modules
(finite sets of threads and of tree nodes; a key and, in the hash tables, a
natural hash for every element):

* `TreeHashTableProofs`: `TypeOK`, `OneHome`, `KeysUnique`, `LoadBound`,
  `SizeCounts` are invariants, and `Spec` implements `KeyedSet!Spec`. None is
  inductive alone. `Inv` joins the shape of the arrays, the placement of every
  element, the frontier (table1 is empty below the rehash index, table2 holds
  only keys from there), uniqueness within each bucket, the load, the count, and
  that a `Find` answer is still stored when `EraseNode` uses it. The frontier is
  the key: it makes `Push`'s late check of table2 vacuous, tells lookups that
  two buckets suffice, and counts how far the rehash is ahead of insertions. The
  lemmas follow the code: what `Rehash`, `MoveBucket`, `EndRehash`, the
  insertion into and the removal from one table do to the stored set and to each
  part of `Inv`; then one lemma per action.
* `MmkvClientProofs`: `TypeOK`; `CallbackForEveryRequest` (inductive with
  `TypeOK`, by counting busy callers); `CompletedOnce` from `Waiting` (callbacks
  in `cbq_` are distinct and not completed). Under `DisciplinedSpec`,
  `OwnResponse` and `PendingEmptyOnMessage` from `Order`: `cbq_` is at all
  times the concatenation of the queues the requests pass through, plus the
  request in the one busy caller's hands; which queues depends on the link.
* `CompletionQueueNext` (in the module itself): `TypeOK`, `Fifo`, and `NoLostWakeup`, which is
  inductive with `TypeOK`.
* `HashTableProofs`: `TypeOK`, `Reachable`, `KeysUnique`, `SizeCounts` are
  invariants, and `Spec` implements `KeyedSet!Spec`. `Inv` is the shape of the
  arrays, the placement of every node, the uniqueness of its key in its list and
  between the arrays, the count, and that the answer of a `FindSlot` is still at
  the front of its list when `EraseAfterFindSlot` drops the header
  (`FindCurrent`). A bucket is a sequence here: the first lemmas say what
  removing a node, moving it to the front and sifting a list into another array
  do to its members and their keys. Everything the code does to one bucket is
  then an instance of `RelinkedLemma`: a list is replaced by one with given
  members that belong there. Unlike in `TreeHashTable`, table2 may hold keys
  that table1 has not given up; what excludes a second node of a key is that an
  insertion searches both arrays in that case.
* `TreeHashTableProofs` and `HashTableProofs` prove `IterationExact`. For both, a
  predicate says what an iterator in a given place has still to give (`Rest`,
  `Leaves`): what is behind its node in its bucket, the later buckets of its
  array and, from table1, all of table2. `Scan` is shown to reach the first
  place that has something to give, `Increment` to take exactly one element
  away, so after as many steps as there are elements the walk is at the end.
* `HashTableProofs` proves `CloneFaithful`: in the middle of a rehash a bucket of
  the clone is the concatenation of what each old list sends there and the new
  list; two of these parts share no key, since a key has one bucket in the old
  array and is in one array only (`FlattenParts`).
* `HashTableProofs` proves `SetOperationsExact`, for every other set built by
  insertions. Each pass of a loop takes one node from what is still to do and
  looks it up in the other set, which may rehash and reorder it but keeps what it
  stores and the invariant (`FoundIs`); the callback is given the node or not, so
  after all passes it has been given exactly the keys wanted, once each (`Gave`,
  `FilteredLemma`). `size()` only decides which set is looped over.
* `HashTableProofs` proves `SelfOperations`. If no bucket has two nodes, no lookup
  changes the table (`StillLemma`; that needs that the table is no more than its
  fields, `TableInvariance`), and the loop is the one over two equal sets. If a
  bucket has two, the loop is at or before it at all times (`Stuck`): a lookup
  puts the node the iterator is at to the front of its bucket, whose length stays
  (`FoundAtFront`), so the node always has a next one, and the loop does not end.
* `MmbpCodecProofs`: `TypeOK`, `InOrder`, `Prompt`. The invariant is about
  `buffer \o wire`: it is an unbroken run of cells (`Chain`) up to the last cell
  sent (`Ends`), all of messages after the last one delivered (`Ahead`), and
  while no error was reported it is everything after that one (`Unbroken`).
  Every step of the receiver takes a suffix of it; a message passes
  `VerifyCheckSum` only where its body begins, so a delivery leaves a suffix
  that begins with the next message.
* `ConfigdClientProofs`: `LastConfigServed` and `HostIsOwn`. The invariant says
  how far `OnMessage` has come (`Applying`): every shard of a node taken so far
  is served, except those of the current node that are still to come; a shard
  that two nodes claim changes hands and stays served. The port is the node's as
  a `uint16_t` holds it, which is the port itself when it fits; ports may be any
  natural number.
* `AvlTreeProofs`: `WellLinked` and `BoundsExact` are
  invariants, and `Spec` implements `KeyedSet!Spec`. The invariant gives every
  node the set of nodes at or below it (`HasTree`): the set is the node and the
  disjoint sets of its children, keys are less on the left and greater on the
  right, child and parent links agree, and the nodes outside the root's set are
  linked to nothing. This invariant does not mention heights, so it also covers
  trees whose balance is lost. Its first part says what each elementary change
  does to it: a rotation, hanging a node under an empty link, cutting out a node
  with at most one child, putting a node in the place of another.
  `AvlTreeProofs` takes the loops: each has a set of states that its pass keeps
  and a number that every pass lowers (the size of the subtree the search is in,
  or of what is still to be taken apart), so it stops in a known state, before
  the bound on the passes. What the searches return then follows from the order
  of the keys, and what `Extract`, `ReuseAllNodes` and `Clear` hand out from the
  sets.
* `AvlTreeProofs` also proves `BalancedUnlessStale`, from the links and a second
  invariant (`HeightsGood`): while nothing stale was pushed, every node is higher
  by one than its higher child and its children differ by one at most, except a
  root of two nodes, which the early return of the second insertion leaves at
  height 1 (`Kept`). Within a call, `Climb` says that only the node retracing has
  reached may be off, and by how much: its subtree has grown by one (insertion)
  or lost one (removal), at most, against the height it still carries. A pass
  settles that node and hands the same situation to its parent, whose subtree is
  larger, so retracing ends within its passes; where it stops early the node is
  balanced and nothing above it is owed a change. A third insertion into a tree
  with a short root starts from `Late` instead. When a removal moves the
  successor up, it takes the height of the node it replaces, which is why only
  the node where retracing begins can be off. The heights so kept are those
  `CalculateHeight` counts (`TrueHeights`).
* `AvlTreeProofs` proves `WalksInOrder` from the links. The node after n in key
  order is the first one of its right subtree or, if it has none, the last
  ancestor on the way up with n on its left: the keys of a subtree have no other
  node's key between them (`SubtreeApart`). A walk keeps that as many nodes are
  put out as have smaller keys than the one it has reached (`Walking`, with
  `Rank`), so it ends after all of them. `DoInAll` has no parent links: it keeps
  that the nodes still to be visited are its stack, the right subtrees of what is
  on it and the subtree it is in (`Todo`), and that these are the greatest keys.
  The walk back is the walk forward in the mirrored tree.

* `MmbpMessageProofs` proves `InStep` and `RoundTrip`, for all messages and any
  number of them on the wire. `Inv` joins them with: what is still to be received
  has no key that is too long, and a request object that may be used again is a
  message. A sequence of cells is taken apart from the front (`Begins`,
  `BeginsStr`, `Joins`), and the parser is shown to take, stage by stage, what the
  serializer put there: the two `else if` chains agree because both are decided
  by the bits alone, which travel first (`BitsDecide`). Three of the stages are
  loops: after i of n elements the parser is in front of what remains (`Rests`)
  and has filled its vector up to the i-th (`Part`), the rest being empty as
  `resize` left it. That is where the object has to be new or `Reset` (`Clean`):
  the elements are appended to. From raw data a parser that meets a weight is lost
  and stays lost (`Lost`), which is the case `RoundTrip` leaves out.
  `MessagesAssumption` gives the fields their types; strings and vectors are
  shorter than 2^32, since the codec delivers no message of `MAX_SIZE` (2^26) bytes
  or more. No bound on keys is assumed: `aligned` says which wires had none that
  was too long.

A loop of the code is a recursive function on `0 .. n` in the model; its proofs
state, by induction over a set of natural numbers (`SetInduction`), what is true
after every pass: `AvlTreeProofs` in the form of an invariant, a measure and a
number of passes, the others for the walk at hand.

Only model-checked: the liveness properties `Served`, `RehashCompletes`,
`FetchTakesEffect` and `CallsComplete`, which are out of the prover's reach. Every
invariant and every refinement that a passing run checks is also proved.

## Not modelled

`CompletionQueuePluck` (its loop never ends), `BlockArray` (unfinished); `Blist`
and the parts of `Slist` that nothing in the library calls; `ReservedArray` as
such (an array of a given size in the tables); operations of the AVL tree
without a caller (`PushEq`, `InsertEq`, `Extract` without a key, `Erase` with a
predicate) and its counted variant; `ParseFrom2` and `PeekCommand`; copying and
swapping of `MmkvValue`; `ConfigdClient::SetConfigdEndpoint`; the allocators,
type utilities and constant tables; the deprecated `MmbpCodec::Parse`; debug
printing. A failing allocation is not considered.

## Plan

What could be added: the operations of `Slist` and `Blist` that nothing in the
library calls yet, and `MmbpCodec` and `MmbpMessage` on one wire of bytes.
