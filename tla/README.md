# Verification of algors

`algors` is a Rust workspace of data structures: two lock-free bounded queues
with pluggable waiters (`algors-queue`, `algors-utils`), a radix-tree map
(`algors-trie`), a binary heap (`algors-heap`) and a union-find
(`algors-union-find`). This directory holds TLA+ models of them, the TLC
configurations that check the models, and TLAPS proofs about them.

1. [The system](#the-system)
2. [The modules](#the-modules)
3. [The queues](#the-queues)
4. [Blocking calls](#blocking-calls)
5. [Union-find](#union-find)
6. [Heap](#heap)
7. [Trie](#trie)
8. [The runs, their bounds and their fairness](#the-runs)
9. [The proofs](#the-proofs)
10. [Disagreements between the code and what is said of it](#disagreements)
11. [What is not modelled](#what-is-not-modelled)
12. [Plan](#plan)

## The system

| Component | State | Operations | What is hard | What makes it correct |
|---|---|---|---|---|
| SPSC queue (`algors-queue/src/spsc.rs`, `slot.rs`) | ring of slots, `head`, `tail`, a cached copy of the other side's index on each side, `Arc` | `try_push`, `try_pop`, `push`, `pop`, drop | acquire/release pairing, indices stale by design, wrap-around, exact drop | accesses to a slot ordered and alternating, FIFO, drop destroys exactly what is left |
| MPMC queue (`algors-queue/src/mpmc.rs`) | ring of slots each with a sequence number, `head`, `tail`, `Arc` | `try_push`, `try_pop`, `push`, `pop`, clone, drop | compare-exchange races, publication out of order, stale `idx`, wrap-around, retry loops | the same, with any number of threads; honest refusals; no call loops for ever |
| Waiters (`algors-utils/src/waiter.rs`, `backoff.rs`) | `BlockingWait`: a counter under a mutex and a condition variable; `Backoff`: a count | `wait_for`, `notify` | lost wakeups, deadlock, spurious wakeups | nobody sleeps when nobody is left to wake him |
| Atomics and allocation shims (`sync.rs`, `lib.rs`, `alloc.rs`, `types.rs`) | none | re-exports, `CachePadded`, one allocation call | | |
| Trie map (`algors-trie/src/trie.rs`) | a tree of nodes | `insert`, `remove`, `remove_prefix`, `get`, `get_mut`, `for_each_prefix`, `clear` | splitting and merging nodes, long sequences of operations | it is a map; the pointers a removal climbs back along are live; compression keeps it small |
| Trie nodes (`node.rs`, and the vector of `util.rs`) | a block of one of two layouts, a value that is there or not by a bit of the pointer, a prefix, children in a bitmap and a vector with its capacity in a pointer's tag | `new`, `set_val`, `take_val`, `insert_child`, `remove_child`, `transfer_children`, prefix accessors, drop | index of a child by counting bits, growth to 256 entries, bitwise moves of nodes, values and vectors that are marked as moved by hand | a byte finds the child filed under it; everything has one owner and is freed once, with the right layout |
| Prefixes and byte utilities (`prefix.rs`, `util.rs`) | inline or heap bytes | construction, joining, cutting, `first`; `lcp` | the boundary between the two forms, word-wise comparison with an overlapping last word | a prefix is the bytes it was made from; `lcp` is the longest common prefix |
| Heap (`algors-heap/src/heap.rs`) | a vector | `push`, `pop`, `peek` | the order while an element is on its way; a comparison that panics | least first, nothing lost |
| Union-find (`algors-union-find/src/union_find.rs`) | a vector of parents or negative sizes, the number of sets | `add`, `find`, `union`, `size_of` | path compression overwrites the links it follows | a partition; shallow trees |

How they interact. `push` and `pop` of both queues run `try_push` and `try_pop`
under a `Waiter` (`wait_for` retries until the operation succeeds) and then
call `notify` on another waiter, or on the same. The queues' retry loops use
`Backoff`, and so does `BlockingWait` before it sleeps. `trie.rs` is built from
`node.rs`, which is built from `prefix.rs` and `util.rs`. Nothing else is
shared: the heap, the union-find and the trie are used by one thread at a time.

Concurrency is found in the queues and the waiters only; nothing is persisted
or sent, so there are no crashes, restarts or lost messages to model. In the
sequential structures what is hard is a loop that changes the structure it
walks (find, sifts, compress), a user's `cmp` that panics half way through, and
long sequences of legal calls.

## The modules

| Module | Models | Uses |
|---|---|---|
| `MachineWord` | `usize` arithmetic: words, wrapping add and sub, `as isize` | |
| `BoundedFifo` | abstract: what a bounded queue promises its callers | |
| `TicketRing` | abstract: how the threads of a queue hand slots to one another | |
| `SPSCQueue` | `spsc.rs`, one step per access to shared memory | `MachineWord`; implements `BoundedFifo` and `TicketRing` |
| `MPMCQueue` | `mpmc.rs`, one step per access to shared memory | `MachineWord`; implements `BoundedFifo` and `TicketRing` |
| `BlockingQueue` | `waiter.rs`, `backoff.rs` and the queues' `push`/`pop` | `TicketRing` |
| `Partition`, `UnionFind` | abstract partition; `union_find.rs` | `UnionFind` implements `Partition` |
| `PriorityQueue`, `Heap` | abstract priority queue; `heap.rs` | `Heap` implements `PriorityQueue` |
| `TrieData` | bytes, values and names, the constants all parts of the trie share | |
| `PrefixMap`, `TrieMap` | abstract map; `trie.rs`, one step per iteration of a loop | `TrieData`; `TrieMap` implements `PrefixMap` |
| `ChildTable` | the bitmap of `node.rs` and `BoundedRawVec` of `util.rs`: pure operators | |
| `Prefix` | the two forms of `prefix.rs`: pure operators | |
| `NodeForest`, `TrieNode` | abstract trees of nodes; `node.rs`, one action per method | `TrieData`, `ChildTable`, `Prefix`; `TrieNode` implements `NodeForest` |
| `CommonPrefix` | `util::lcp`, one step per word compared | |
| `MC*` | values of the constants for TLC; `MCTrie` runs `TrieMap`, `TrieNode` and `CommonPrefix` side by side | |
| `ModularArithmetic` | lemmas about `%` | |
| `*_proofs` | theorems about the module named before the underscore; `TrieMap_proofs` has those about `CommonPrefix` too, `TrieNode_proofs` those about `ChildTable` | |

Conventions. Definitions keep the source's names (`Mask`, `Diff`, `DropRange`,
`num_sets`, `root_i`, ...). Operators
with a lower-case suffix after an underscore (`Full_past`, `Climb_fromCur`) are
not part of the models: each is the definition it is named after with a bug a
programmer could make, kept so that it can be seen which property notices it.

## The queues

`SPSCQueue` and `MPMCQueue` have one action per access to shared memory:

| `spsc.rs` | action | `mpmc.rs` | action |
|---|---|---|---|
| `try_push`: test of `head_cache` | `PushCall` | `try_push`: load of `tail` | `PushCall` |
| reload of `head` and second test | `PushRefresh` | load of the slot's `seq`, `diff` | `PushLoadSeq` |
| write of the slot | `PushWrite` | compare-exchange of `tail` | `PushClaim`, `PushLose` |
| store of `tail` | `PushPublish` | reload of `tail` (`diff > 0`) | `PushReload` |
| | | write of the slot, store of `seq` | `PushWrite`, `PushPublish` |
| `try_pop` likewise | `PopCall` ... `PopRelease` | `try_pop` likewise | `PopCall` ... `PopRelease` |
| drop of a handle | `DropHandle` | clone, drop of a handle | `CloneHandle`, `DropHandle` |

Indices are machine words of a small `Modulus` and wrap. In `SPSCQueue` the run
has no bound at all, so they wrap for ever. In `MPMCQueue` positions count
without wrapping, every test of the code is made on their machine words, and
the queue is started at a position (`Start`) from which it wraps.

*Memory model.* With `StaleLoads` a load may return an older store than the
last one, never an older one than the thread has already seen of that variable,
and each store's sequence is in modification order. A compare-exchange that
succeeds reads the last store. What an Acquire load of a Release store orders
is kept in ghost variables (`seenReads`, `seenWrites`; `stamp`, `acq`), and
`NoDataRace` says that the access a thread is about to make to a slot is
ordered after the last access to it. `Acquired_relaxed` turns the Acquire
into a Relaxed load, and `NoDataRace` fails at once. What the model assumes and
the code's orderings give: one total order of the stores to each atomic, and
happens-before edges from each Release store to the Acquire loads of it. Loads
out of thin air and reordering of the plain slot accesses past the atomics that
guard them are excluded by those same orderings.

*Properties.* `NoDataRace`; `SlotsAlternate` (never a write over an unread
value, never a read of a slot that owns none: the preconditions of the unsafe
`write` and `assume_init_read`); `DropExact` (the loop of `Inner::drop` destroys
exactly the values still there); `FifoSpec`: the queue implements `BoundedFifo`,
a sequence of at most `Cap` values from which each value accepted is delivered
once and in order; `RingSpec`: the queue implements `TicketRing`, what one
thread's operation does to the others.

In `BoundedFifo` and in `TicketRing` a refusal changes nothing and so promises
nothing, since with stale loads the code may refuse what would succeed. What a refusal
means is a property of its own, `RefusalIsHonest`. For the SPSC queue: a push is
refused only if the ring is full by the last store of `head` the producer could not
miss when it called (`toldHead`, a ghost: at least `head_cache`, and what other
synchronization may have told the thread), a pop likewise by `toldTail`. So a cached index never refuses by itself, which is
what the reload in `try_push` and `try_pop` is for: without it (`PushCall_cached`) the
property fails. For the MPMC queue, with loads that are not stale: the queue is full (empty), *or* a thread that claimed the slot has
not handed it on. That second case is real: a `try_push` can be refused by a
queue that holds fewer than `Cap` values. `CallsReturn` says that no thread is
left going round the MPMC retry loop.

The refinement mappings: in the SPSC queue a push takes effect at the store of
`tail` and a pop at the store of `head`; in the MPMC queue both take effect at
the compare-exchange, before the value is in the slot or out of it, so the
abstract queue takes the value of a claimed and unpublished position from its
claimant's argument.

## Blocking calls

`BlockingQueue` is `wait_for` of the three waiters around an attempt on a
`TicketRing` (an attempt that succeeds takes two steps, acquiring the slot and
handing it on), then `notify`. `SPSCQueue` and `MPMCQueue` are each shown to acquire
and hand on slots in just that way (`RingSpec`), so that the composition needs no
product of the two state spaces.

`RingSpec` permits any refusal; which refusals there are rests on `RefusalIsHonest`.
An attempt is refused when the slot it looks at is not free or not full (`Refused`), or, with
`StaleLoads`, when a store that would have let it succeed is one the thread may not
see (`Unseen`). Before the sample nothing orders other threads' stores before the
attempt's loads, so `Spin` may always be a refusal. After it the mutex does:
`notify` comes after the store that handed the slot on, and a `Sample` that locks
`state` after that `notify` sees it. Hence the retry misses only a store whose notification
came after the sample (`moved`) or is still to be made (`handed` is the slot its maker handed on last), and the
thread does not fall asleep, or is woken. For the SPSC queue this is what the theorem `HonestRefusals` says, with
the value the lock hands over as `toldHead` or `toldTail`. For the MPMC queue the property is about loads that
are not stale; the stale case is argued and not modelled. A position is claimed only when its slot's `seq` has reached it,
and `seq` grows, so a push or pop with a stale cursor is refused only if its `seq` is stale as well; in either case the
store it missed is one whose notification came after the sample (`moved`) or is still to be made. If the cursor is exact, that store handed on
the slot at the cursor: `Unseen`. If it is stale, the thread's side has several threads, and in the sound setups the
other side has one. That one notifies before it goes on, so it has handed on nothing after the store that was missed: the slot
at the real cursor is not there either, and the refusal is `Refused`.

`Setups` says how a program may use the queue:
which waiter, one object for both sides or one for each, how many threads.
`moved[t]` is all a thread can see of the counter: whether it still equals the
`prev` it read. Spurious wakeups may always happen and never have to.

`NoThreadStranded`: it never happens that every thread has finished or sleeps
while the attempt of one of the sleepers would succeed. `AllReturn`: with as
many pops as pushes every call returns. Both hold when one side of the queue has
a single thread and each side has its own waiter, for one producer and one
consumer that share a waiter, and for `YieldWait` and `SpinWait`. They fail for
two producers and two consumers, see [below](#disagreements).

## Union-find

Every iteration of the two loops of `find` is a step (`Climb`, `Flatten`), `union`
is two finds and a link (`UnionSecondFind`, `UnionLink`), `add` and the return of
`size_of` are steps of their own. Indices are those below `len`: any other index
panics before anything changes.

`NoCycle`, `FindsOwnRoot` (the argument leads to where find is, at each
iteration of the loop that redirects the links it is walking along, and union's
first root is still one when the second find is done), `SizesExact`,
`ShallowTrees` (an element d links below its root is in a set of at least 2^d
elements, which only a union that hangs the smaller tree below the larger one
keeps; `Weight` is 2^d, doubled from link to link),
`PartitionSpec` (implements `Partition`) and `CallsReturn`.

"Leads to" is stated without recursion: an element leads to another when every
set closed under the links that has the one has the other. It is the transitive
closure, and it is what makes the proofs possible without induction over data.

## Heap

An iteration of `sift_up` or `sift_down` is a step (`UpSwap`, `UpDone`,
`DownSwap`, `DownDone`), because each of them calls the user's `cmp`; `CmpPanics`
ends the call at that point and leaves the vector as it is. The vector's
representation (length, elements from index 0) is the code's own.

`HeapOrder` holds at each iteration: only the pairs the sifted element is in can
be out of order, on the side it is moving to, and its parent is in order with its
children. It holds, and so does the theorem `PeekCorrect` (between calls `peek` is a least element, `PeekIsLeast`), as long as no comparison has
panicked (`broken`); after a panic `PriorityQueueSpec` still says that no
element was lost or duplicated, and, before one, that `pop` returns a least
element of those in the heap.

## Trie

The trie is modelled in three layers: `TrieMap` is `trie.rs` over nodes with
names, each with a prefix that is a sequence and children that are a function;
`TrieNode` is `node.rs`, and shows that the nodes in memory are such nodes;
`CommonPrefix` is the comparison `trie.rs` makes at each node, and shows that it
returns what `TrieMap` takes it to.

**The map** (`TrieMap`). `forest` are the nodes alive, by names that stand for their
addresses; `root`, `cur` (`cur_node`), `rest` (`cur_data`) and `visited` are the code's
own variables, `todo` are the calls of `for_each_prefix_from_node` that have not been made.
`path` and `tidy` are ghosts: all the bytes on the way to a node, and whether the trie was
compressed when the call began.

| `trie.rs` | actions |
|---|---|
| the tests before the loops | `Start`, `Refuse` |
| an iteration of a loop that walks down (`insert`, `get`, `get_mut`, `remove`, `remove_prefix`, `find_prefix_node`) | `Descend`, or one of the ends below |
| `get`, `get_mut`, and nothing found by any of them | `Answer`, `GetMut` (with the caller's write through the reference), `Miss` |
| `insert` | `InsertFirst` (no root), `InsertSplit` (the lower half of a node becomes its child), then `InsertHere` or `InsertLeaf` |
| `remove`, `remove_prefix` | `RemoveHere`, `CutChild`, `CutRoot` |
| an iteration of `compress` | `Climb` (drops the child if it is of no use), then `Join` (the parent takes over its only child) or `Settle` (the loop breaks) |
| what `compress` does at the root | `RootGone`, `RootJoin`, `RootKept` |
| `for_each_prefix` | `Find`, `Visit`, `EndVisits` |

The children of a node are visited in any order, which is more than the code does. The
empty key is refused by every operation on keys and means everything to the
operations on prefixes, as in the code. `clear` is `remove_prefix` of the empty prefix.

`MapSpec`: the trie implements `PrefixMap`, a map in which each call takes effect in one
step, and `for_each_prefix` hands over each key with the prefix once, with what follows the
prefix. The map is `contents`, the values of the nodes by their paths: a step that splits,
joins or climbs is a stutter of it. `MapTypeOK` says that each child is filed under the first
byte of its prefix, that a node has one parent, and that `path` is what the prefixes on the way
add up to. `Traversed`: `compress` goes back along raw pointers it noted on the way down and unwraps
the child it came by; each of them is to a live node that still has a child at that byte,
and the child is the next of them. `InsertStaysCompressed` and `RemovalLeavesOne` say
what compression does: inserting into a compressed trie keeps it compressed, and
a removal from one leaves at most one useless node, and never a leaf without
value. From a trie that is *not* compressed a removal can leave such a leaf:
`EmptyWithoutKeys` shows it.

**The nodes** (`TrieNode`). Its state is memory: which blocks are alive and of
which of the two layouts (`leaf`: LEAF_TAG), which of them own a value (`valued`:
VAL_TAG), what the memory for the value holds (`val`), the prefix in its form,
the bitmap and the vector (`table`). `hands` are the nodes the caller owns as
`Node` variables; every other node is owned by one slot of one vector, which
nobody records: ownership is where the bits are. `outside` are the values no node
cares for, `ledger` counts the allocations not yet freed by layout, as an
allocator that checks `dealloc` would.

| `node.rs` | action | what else it does |
|---|---|---|
| `Node::new` | `New` | prefix inline or on the heap |
| `set_val`, `take_val` | `SetVal`, `TakeVal` | an old value is dropped; the tag is cleared, the memory becomes `Junk` |
| `insert_child` | `InsertChild` | `upgrade_to_internal` of a leaf; growth of the vector into a buffer of twice the capacity; the tail one slot up |
| `remove_child` | `RemoveChild` | the tail one slot down; the buffer stays |
| `transfer_children` | `TransferChildren` | the destination's upgrade and the drop of its empty buffer |
| `prefix_mut` as used by `insert` and `compress` | `CutPrefix`, `JoinPrefixes` | the old form is dropped, the new one may be the other |
| `Drop` | `DropNode` | the subtree, by the order of the vectors |

The guards are those under which `trie.rs` calls a method: a child is a tree of
its own whose first byte is free, the destination of a transfer has no children,
a node that is a child keeps its first byte. What happens outside them (an
assertion, a node below itself) no caller reaches. `Uses` says what a caller does
with the nodes, so that TLC can look at each kind of use on its own; the theorems
hold for every set of uses.

`FiledInOrder`: at any time the number of bits below that of a byte is the
index, in the vector, of the child whose prefix starts with that byte, and slots
are in the order of bytes, which is the order in which `for_each_prefix` visits.
`RoomForAll`: the assertion `cur_tag < TAG_MAX` when the vector grows is out of
reach while a byte is free. `OwnedOnce`: each node has one owner and each value
is in one place, although nodes and values are copied bit by bit. `NothingLeaks`:
the ledger is what the nodes alive have, and they are all in reach of the caller.
`ForestSpec`: the nodes implement `NodeForest`, trees with sequences for
prefixes, where a call changes the node it is made on and no other.

**The comparison** (`CommonPrefix`). A step compares two words. The word width is
fixed by the shorter buffer, only words of 16 bytes go round the loop, and the
last word ends where the shorter buffer ends. Buffers are byte sequences; the
first differing byte of two little-endian words is the number of zero bits at the
end of their exclusive or, divided by eight. `LcpExact`: the result is the length
of the longest common prefix.

## The runs

| Run | Module, bounds | What it shows | Distinct states, about |
|---|---|---|---|
| `spsc` | `MCSPSCQueue`, 4 slots, words of 3 bits, 2 values, stale loads | all seven properties of the SPSC ring | 320 000 |
| `mpmc_sc` | `MPMCQueue`, 2 + 2 threads, 2 slots, words of 3 bits, 3 pushes of 2 values | FIFO, hand-over of slots, honest refusals, exact drop | 160 000 |
| `mpmc_stale` | 2 + 2 threads, 2 slots, words of 4 bits, 4 pushes, stale loads of every atomic | `NoDataRace`, `SlotsAlternate` | 1 600 000 |
| `mpmc_live` | 2 + 2 threads that keep their handles, 2 slots, 3 pushes, fair | `CallsReturn` | 47 000 |
| `mpmc_pow0` | 1 + 1 threads, 1 slot | violated: `UnreadIsRefused` | until found |
| `wait_sound` | 2 slots, setups with 4 pushes and 4 pops in each, stale loads, fair | `NoThreadStranded`, `AllReturn` | 110 000 |
| `wait_shared`, `wait_separate` | 2 + 2 threads, 2 slots, 4 pushes and 4 pops | violated: `NoThreadStranded` | until found |
| `union_find` | up to 5 elements, any number of calls, fair | all seven properties of the forest | 410 000 |
| `heap` | up to 6 elements of 4 kinds, two of which compare equal, any number of calls | all three properties of the heap | 140 000 |
| `trie` | `MCTrie`. Map: 6 keys and 5 prefixes over two letters, up to 3 bytes long, the empty one among them, 6 names, 2 values, any number of calls. Nodes: 5, 3 and 3 nodes in three kinds of use, 4 bytes in three words of a bitmap of two-bit words, vectors of 2 and 4, prefixes of up to 2 bytes of which 1 fits inline. `lcp`: buffers of up to 34 bytes that differ in at most two places | five properties of the map, five of the nodes and `TypeOK`, one of the comparison | 53 000 |
| `trie_empty` | the same keys, 1 value | violated: `EmptyWithoutKeys` | until found |

*Why the bounds are enough for what they are meant to show.* Queues: the words
are the smallest in which a full ring is still less than half of the words, and
each run crosses the wrap of both the slots and the words (`Start` is the last
word before it; the SPSC ring goes round for ever). Two slots are the least a
correct MPMC ring has, and with two threads a side there are publications out
of order, lost compare-exchanges, threads a lap behind, and claims overtaken by
claims; the proofs below cover all other sizes. `MaxCalls` bounds pushes only:
pops are unbounded. Waiters: the two violations need four threads, and the
setups that are sound are checked with the same number of calls and with `StaleLoads` (the violations
need none); `SpinTries`
is 1 because a thread that spins more often retries the same attempt. Union-find:
5 elements give trees of depth 2 that are flattened and merged again. Heap: 6
elements give a left child without a sibling, and paths of two swaps. Trie map:
keys that end at, above and below a split, nodes with no, one and two children,
three levels; no two nodes have one path, and these keys have six prefixes a node could be at, so six names
are enough. Trie nodes: with 4 bytes and vectors of 2 and 4 a vector is empty,
full, grown, full with every byte taken and shrunk again, and a byte has children
in no, one or two words below its own; one inline byte and prefixes of two make
every cut and join cross between the forms; three nodes are the least with a
transfer between parents and a chain of two levels. The proofs
cover all sizes. `lcp`: 34 bytes are two words of 16 and a
tail that overlaps, and every other width has a length in the set.

*Symmetry* is used in the SPSC run (values), the safety runs of the MPMC ring (producers, consumers, values) and the trie
run (values), where no test looks at what is permuted; not in the runs with
liveness. The trie runs also have a `VIEW`: states that differ only in
which name stands for which node are one (`MapShape` writes paths for names). No definition looks at a name except to
tell nodes apart, so such states have the same behaviours up to names. *Deadlock* is allowed where a program simply has no more calls to make
or has dropped its handles (all queue runs), and checked in the other runs.

*Fairness.* `mpmc_live`: every thread in a call keeps being scheduled (weak
fairness of its steps), and a weak compare-exchange that could succeed again and
again does not fail spuriously for ever (strong fairness of `PushClaim` and
`PopClaim`): the algorithm is lock-free, not wait-free, and a thread may lose
every race as long as others make progress; what the run excludes is that
threads go round without anybody making progress. Calls are bounded by
`MaxCalls` on the producers' side, so others' progress cannot go on for ever there. A call
need never begin. `LiveSpec` keeps the handles: a thread that drops its handle is like one that makes no call.
`wait_sound`: every thread that is not asleep is scheduled, which includes that it makes
the calls of its setup: a push that never comes is no reason for a pop to return. A store is seen in the end by a
thread that goes on trying (a stale refusal of a yielding thread changes nothing, so weak fairness of
its steps is not met by such refusals alone; a `BlockingWait` samples after `SpinTries` of them). Nobody promises a
spurious wakeup. `union_find`: the loops go on. The
safety runs assume no fairness.

## The proofs

TLAPS proves the following for every value of the constants. Each is an
inductive invariant (`IInv` in the proof module), three facts (`Init => IInv`,
`IInv /\ [Next]_vars => IInv'` by one lemma per action, `IInv` implies the
property) and a temporal step.

| Module | Theorems | Hypotheses |
|---|---|---|
| `SPSCQueue_proofs` | `TypeCorrect`, `NoRace`, `Alternation`, `ExactDrop`, `HandsOver`, `FirstInFirstOut`, `HonestRefusals` | `Cap` divides `Modulus` and is less: `pow < usize::BITS` |
| `MPMCQueue_proofs` | `TypeCorrect`, `NoRace`, `Alternation`, `ExactDrop`, `OneHolder`, `HandsOver`, `FirstInFirstOut`, `HonestRefusals`, `FullIsRefused` | the same, and `Fits` |
| `BlockingQueue_proofs` | `TypeCorrect`, `NoLostWakeup` | finitely many threads (`FiniteAssumption`); for `NoLostWakeup` every setup is `Sound` |
| `UnionFind_proofs` | `TypeCorrect`, `Acyclic`, `FindCorrect`, `SizeCorrect`, `OneRoot`, `KeepsPartition`, `StayShallow` | |
| `Heap_proofs` | `TypeCorrect`, `OrderCorrect`, `PeekCorrect`, `PopCorrect`, `IsPriorityQueue` | `Key` gives integers |
| `TrieNode_proofs` | `TypeCorrect`, `FiledCorrectly`, `RoomSuffices`, `OneOwner`, `NoLeak`, `NodesAreTrees` | `BytesAssumption` (the bytes fit four words and `2 ^ (TAG_MAX + 1)` slots: 256 and 7), `InlineAssumption` (the length fits a tag of a byte), `NamesAssumption`, `UsesAssumption` |
| `TrieMap_proofs` | `WellFiled`, `PointersLive`, `IsMap`, `InsertsCompressed`, `RemovalsLeaveOne` | `TextsAssumption` (keys and prefixes are byte strings), `NoneAssumption` (`None` is neither a value nor a name) |
| | `LcpCorrect`, `LcpReads`, `LcpIsCommon` | `Buffers` are pairs of sequences |

`ModularArithmetic` holds lemmas only. The refinements (`HandsOver`, `FirstInFirstOut`,
`KeepsPartition`, `IsPriorityQueue`, `NodesAreTrees`, `IsMap`) show, from the invariant, that the
initial state maps to an initial one and each step to a step or a stutter of the abstract
specification.

**SPSC.** Why a cached index is enough: `IndicesInv` says that `head_cache` is
behind `head` by less than makes the ring look larger than it is, and
`tail_cache` behind `tail`, in terms of wrapped differences; `SeenInv` that what a
thread has seen of the other's slot accesses is what its cached index says;
`OwnershipInv` which slots own a value, counted from `head`. The work is in the
word arithmetic: `OnTheWay` says that a stale word lies between the word a thread
knew and the current one, wherever the wrap is. `HandsOver` needs no more. `HonestRefusals` is
from `ToldInv` (what a thread had been told is between its cached index and the current one, until it is overtaken by
the cache): the word a refusal went by lies beyond `toldHead`, and a ring that is full by a later `head` is full by an earlier one. For
`FirstInFirstOut` the contents of the queue are the slots from `head` on; `Written` adds that
the value between a write and its publication is the caller's argument, and a step changes
one end of the sequence or no slot in it.

**MPMC.** `Fits` is the hypothesis `Cap > 1` and `2 * (MaxCalls + Cap) < Modulus`.
The first part is necessary (`mpmc_pow0`). The second keeps any two positions a
thread can compare less than half of the words apart, so that `Diff` is exact and
a compare-exchange cannot mistake a word for the one a full turn later: with
64-bit words it holds for any run of less than 2^62 pushes. It is a real limit of the
algorithm: a thread delayed for longer could be fooled. The invariant has two
halves. By slot: if a slot's sequence number is a position of its own, it waits
to be written, is less than a lap ahead of `head`, and either nobody has claimed
it or exactly one producer holds it; else it is one more than a position of its
own, which waits to be read or is held by exactly one consumer. By thread: a
thread that holds a slot is at a position its side has claimed and the other side
has not passed, and the sequence number it acquired is still there. `ClaimsInv`
is what makes stale sequence numbers harmless: a thread about to claim has seen
the number it needs, the slot's can only have grown, and if the
compare-exchange succeeds the position is `head` or `tail`, from which the slot's
invariant leaves one number only (`ClaimedFree`, `ClaimedFull`). That no more
positions are claimed than calls were made is a cardinality argument (`Trying`).

`HandsOver` maps a claimed slot to its holder and the rest to free or full by the sequence
number; each compare-exchange acquires the slot at a cursor and each store of `seq` hands it on.
`FirstInFirstOut` is harder, since the abstract queue accepts a value before it is in its slot:
the value of each position between `head` and `tail` is its claimant's argument as long as
there is a claimant, who is the only one (`ClaimedOnce`), and the slot's afterwards (`Queued`).
A step of any other thread, a whole lap of them included, keeps it (`QueueStays`), and the
consumer of a position finds there the value it was accepted with, for `ClaimedFull` says it has
been published. `HonestRefusals` and `FullIsRefused` come down to two positions of one slot being
at least a lap apart (`LapBelow`).

**Waiters.** `Sound` are the setups in which `BlockingWait` is used as the sound runs use it: a
waiter for each side and one caller on at least one of them, or a waiter for both and one
caller on each; `YieldWait` and `SpinWait` in any way. Two arguments meet. A side with one thread
is `Settled`: if that thread dozes, or is about to with nothing to wake it, while the slot it wants
is there, then a thread of the other side has still to notify. The side that faces a single
thread is `Served`: as the other side hands slots over one at a time the wanted ones are
consecutive (`Layout`), and while somebody dozes there are as many threads about to try again
as there are wanted slots, up to the one notification that may be on its way (`Enough`). With two
threads on both sides `Layout` fails, since slots are published out of order, and `wait_separate`
shows what comes of it. Stale refusals add one case to both: a thread about to sleep although its slot is there. Then either
its sample is out of date, and it will not sleep, or the thread that handed the slot on has still to notify. On a `Served` side
`LastOf` then says that this slot is the last one wanted; it is also the one at the cursor, so it is the only
one, and the notification on its way is the one `Enough` allows for. The theorem is about `BlockingQueue`; for the queues themselves it rests on
`HandsOver` and on refusals being those of `Unseen` (see [Blocking calls](#blocking-calls)).

**Union-find.** `LeadsTo` quantifies over closed sets. The tree of a root and the
rest of the forest are both closed (`TreeClosed`, `RestClosed`), so trees of
different roots are disjoint; redirecting a link to the root of its own tree
keeps every tree, and linking one root to another adds one tree to the other,
which gives `FindsOwnRoot`, `NoCycle` and, with cardinalities of finite sets,
`SizesExact`. `OneRoot` says that the trees are a partition of the elements, and
`KeepsPartition` that they change as the abstract one does: the root of each element's tree is the
representative, which no iteration of find moves. `Weight` is a recursive function;
that it has the value its equation gives is proved from `NoCycle` (each element is in a closed
set on which the equation has a solution, and two solutions agree where both are), and `StayShallow` from what a redirected link and a link
of two roots do to it.

**Heap.** `HeapOrder` is inductive with `TypeOK`. That the first element is a least one
(`LeastFirst`) is shown by a smallest counterexample: the parent of an element
less than the root is less than the root too. `IsPriorityQueue`: the bag of an element is the
number of indices it is at (`Count`, `Where`); an exchange of two indices moves one or both sets
by one element and back, a push adds an index, and the removal of the last one drops that of the
first element (`LastMoved`). `PriorityQueue` has no limit on its size, as `heap.rs` has none.

**Child tables.** The index of a byte, `child_idx_from_pos`, counts the bits below its own
across the words of the bitmap. `TrieNode_proofs` shows that it grows with the byte, is
different for different present bytes (`RankMonotone`, `RankInjective`), is below the length
(`RankBound`), and moves by one when a lower bit is set or cleared (`RankAdd`), as the slots
do. `InStep` says that the byte of the child in each slot is present and has the slot as its
index; `insert_child` and `remove_child` keep it (`InsertStep`, `RemoveStep`), and then every
present byte finds its child (`Lookup`) and slots are in the order of bytes (`Ordered`).

**Trie nodes.** The invariant has one part for each thing that is recorded twice.
`Shapes`: a table's length fits its capacity, and leaves and dead nodes have none.
`Filed`: every table is in step with the first bytes of its children's prefixes.
`Parents`: a node is in the caller's hands exactly when it is in no table, and in no two
of them. `Kept`: the same of values. `FiledInOrder`, `RoomForAll` and `OwnedOnce` follow.
`RoomForAll` is where `BytesAssumption` is needed: a full vector with the largest tag holds
as many children as there are bytes. Subtrees are smallest closed sets (`Below`), so
that dropping one needs no induction: it is closed, and so is what is left (`Subtree`). For `NothingLeaks` the invariant `LInv` adds that the ledger counts, layout by
layout, what each live node has, and that the only closed set with the caller's nodes is
all of them; each call changes the stock of one node (`CountChange`), a transfer of two, a
drop that of a subtree. `NodesAreTrees` is the refinement, call by call: a form of a prefix
denotes its bytes (`PrefixIs`), the vector denotes the function from bytes to children.

**Trie map.** There is no bound on the keys, their lengths, the names or the number of calls.
The invariant begins with the tree (`Tree`), stated about paths so that nothing in it
is recursive: a child's path is longer than its parent's and goes on with the byte it is filed
under, and its prefix is the difference (`KidsFiled`); if the path of one node is the beginning of
another's, then the first has a child on the way to the second (`Nested`); every node is below the root and, but for the root, has a
parent (`Rooted`). It follows that no two nodes have one path (so `contents` is a function of
the keys), that each has one parent, and that the nodes
dropped with one are those whose path begins with its own. That last step is where an
induction on depth would be, and is a smallest counterexample instead. The changes of a tree (a split, a new leaf, a child cut, a join, a join at the root) are
lemmas that each keep `Tree` and say what becomes of `contents`. The rest of the invariant is
about the call in progress. `OnTheWay`: the bytes above `cur`'s prefix are the key's, and `rest` is
what follows (`Reached`), so that if the walk ends at `cur` the key is its path, and if it
misses no path is the key or begins with it. `Chain`: `visited` leads along children from the root to where the removal is,
and `compress` changes only what lies below its end, so each pointer in it is live when it is used.
`Visits`: the paths of the nodes to visit begin with the prefix, and none with another's, so no key is
handed over twice and none is forgotten. `Tidy`: while a removal from a compressed trie climbs, one node
at most is useless, and if it is a leaf it is the one that the next iteration will drop.

**lcp.** Everything before the offset is equal: the words of the loop are adjacent and the
last one starts at or before the offset, so its first difference is the first one of the
buffers. `LcpReads` says that no word reaches beyond either buffer, and `LcpIsCommon` that the
result is `Common`, by which `TrieMap` describes the call.

*What is only model-checked.* Liveness (`CallsReturn`, `AllReturn`): the prover
does not handle fairness. Every invariant and every other property of a passing run is a theorem.
That the refusals of the MPMC queue with stale loads are those of `Unseen` is argued above, and neither checked nor proved.

## Disagreements

Four runs end in a violation of something the repository says of itself.

* **A ring of one slot** (`mpmc_pow0`). `Inner::new` of `mpmc.rs` accepts `pow = 0`. With
  one slot the sequence number of an unread value, `idx + 1`, is also the one
  that means "free" to the next position, so `diff` is 0 where the comment at the
  refusal says that the slot holds an unread value (`mpmc.rs:134-137`): a push
  claims the position, overwrites the value, and the consumer goes round its loop
  with a `diff > 0` that no reload will change. The SPSC ring is correct with one
  slot.
* **One `BlockingWait` shared by both sides** (`wait_shared`), as in
  `tests/mpmc.rs:15-52`. `notify` wakes one sleeper of either kind. With two producers
  and two consumers the wakeup meant for a consumer can go to a producer that
  finds the queue still full and sleeps again; in the end everybody sleeps and
  an operation that would succeed is never retried.
* **One `BlockingWait` for each side** (`wait_separate`). Values are published out of
  order: a consumer woken for a value can find an earlier position unpublished,
  and goes back to sleep. When that one is published too there is one
  `notify_one` for two values that can now be popped, and the second consumer
  sleeps for ever.
* **Leaves without a value** (`trie_empty`). `compress` stops at a parent that is not
  left with exactly one child; it is also taken for "has several children" when it
  is left with none. Insert `ab`, `abc`, `a`. Remove `ab`: its node keeps one child.
  Remove `abc`: the child goes and the node stays, with neither value nor child. Remove `a`: the root has one child, this
  bare leaf, which is joined with it and becomes the root (`trie.rs:128-133`). No key is left and `is_empty()` is false, where
  `tests/stress_tests.rs:189` expects true once every key is removed. Lookups
  are not affected (`MapSpec`).

## What is not modelled

* Overflow of the plain `t + 1`, `idx + 1` and `head + i + 1` of the queues: they wrap
  in a release build, which is what the models do; a debug build panics at the
  wrap instead.
* Waiters that abort (`wait_for` returning an error, and the `store.take()` of the queues'
  `push`): the trait allows them, the repository has none.
* Poisoned mutexes, durations of spins, fairness among waiters of a `Condvar`
  beyond "one of the sleepers".
* A counter of `BlockingWait` that comes round after 2^64 notifications while a thread
  is between its two lock operations.
* `sync.rs`, `alloc.rs`, `types.rs`: re-exports, padding, an allocation.
* The composition of `TrieMap` with `TrieNode` in one state space: `NodeForest` says that the
  nodes behave as those of `TrieMap`, call by call, and a step of `TrieMap` may make several
  calls (a join takes the child, joins the prefixes, moves the value and the children).
* In `node.rs` and `util.rs`: allocations that fail, elements of size zero, a prefix longer than
  a `u32` can count (the code panics), the layout of a pointer on a big-endian machine.
  Iterators are modelled by the order they visit in; `next_back` is used by nothing.
* The depth of the recursion of `for_each_prefix` and of dropping a node.
* Mutation of values in place by a user's `Ord` or `Drop`; panics other than `cmp`'s.
* Benches.

## Plan

Done, in this order: the two rings and what they promise; the waiters on top of
them; the proofs about the SPSC ring; union-find and heap with their proofs; the
trie as a map; the proofs about the MPMC ring; the trie's nodes, child tables and
prefixes with their proofs, and the refinement of nodes to trees; `lcp` with its proof; the
refinement proofs of both rings, of union-find and of the heap, and the invariant of the waiters;
the trie's walks step by step, and the proof that they make a map.

Next: *the trie's layers together*: each step of `TrieMap` as the sequence of calls it makes on
`NodeForest`, so that `NodesAreTrees` and `IsMap` become one theorem about the nodes in memory.
