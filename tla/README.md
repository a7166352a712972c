# Verification of struct: TLA+ models, model checking and proofs

struct is a small C/C++ library of data structures, most of them ports of the
Linux kernel's. This directory holds TLA+ models translated from its source,
the TLC configurations that check them on small instances, and TLAPS proofs.

## 1. The system

The library has no threads of its own. Concurrency comes from its callers:
klist, kfifo, slist and fifo are written to be called by several threads at
once; every other structure is sequential, and hard for the sequences of
operations it must survive.

| component | state | operations | interacts through |
|---|---|---|---|
| klist (`klist.c`, `klist.h`) | a circular list under `k_lock`; per node a `kref` and the pointer `n_klist` with a dead bit; a global list of waiters under `klist_remove_lock` | add head/tail/after/before, del, remove (blocks), iterators init/init_node/exit/next | callbacks `get`, `put`; the scheduler (`schedule`, `wake_up_process`); other callers through the locks |
| kfifo (`kfifo.c`, `kfifo.h`) | free-running `in` and `out`, `mask`, a ring of elements or of records with a length field | alloc/init/free, in/out/peek/put/get/skip/reset, user-space copies, DMA, the same for records | one writer and one reader without a lock; callers' spinlock otherwise; copies that fault |
| slist, stack (`slist.h`, `cmpxchg.h`) | `first` and the nodes' `next` | add, remove_head, del_all, traversals | compare-and-exchange |
| fifo, queue (`fifo.h`) | `head`, `tail`, `max`, a ring of pointers | init, close, put, get, empty, full | one producer, one consumer |
| rbtree (`rbtree.c`, `rbtree_augmented.h`) | nodes with a coloured parent pointer and two children | link, insert_color, erase, replace, first/last/next/prev; augment callbacks | caller does the search and keeps the lock |
| rblist, intlist, strlist | an rbtree and `nr_entries`; callbacks node_new, node_cmp, node_delete | add, remove, find, entry, delete | rbtree |
| btree (`btree.c`) | nodes of keys and values, height, a memory pool | insert, update, remove, lookup, last, get_prev, merge, visitor, grim visitor | allocator, which may fail |
| avltree (`avltree.cpp`) | a tree of disjoint intervals with heights and parents | insert, find, min, max, clear, remove, load, save | `malloc` |
| hashtable (`hashtable.cpp`) | buckets, a list of all nodes, a ring of brothers and parent/child links | create, insert, remove, find, enum, clear, count, children, close | the routine `EnumHashEntry` calls |
| dlist (`dlist.h`) | circular intrusive lists with a head | insertion, removal, replacement, moving, splitting, joining, loops | loop bodies that change the list |
| hlist, hash_map (`hlist.h`, `hash_map.h`) | chains of nodes with a pointer back at the pointer to them; a table of chains | insertion at a key or next to a node, lookup, removal, loops | loop bodies that remove |
| map (`map.h`) | a map over rbtree | - | - |

Out of consideration: `rfifo.c`, `segmentree.*` (neither compiles, no target
builds them), `map.h` (does not compile when included), `hash.h`, `jhash.h` (word arithmetic), the type helpers, the
example, the build description.

### What is hard here, and what makes each component correct

- **klist**: iterators survive any interleaving of additions and removals. The
  count of a node covers exactly the iterators on it plus its initial
  reference; a node an iterator stands on is linked; a deleted node is handed
  out no more; `klist_remove` returns, not before all iterators have left the
  node and not never; each `get` is matched by one `put`.
- **kfifo**: one writer and one reader share the ring without a lock. Each works
  with an index it read once and that has since moved on, and the two
  indices wrap. Elements come out as they went in, none lost, doubled or torn.
- **slist, fifo**: the same, on an exchange instruction or on volatile alone.
- **lists**: an entry is on one list, linked in both directions, whatever calls move it;
  a loop that its body changes the list under goes on with what should come next.
- **trees and tables**: after any sequence of legal calls the structure still is
  what it is called (balanced, ordered, each entry reachable, the counters
  right), and it implements a dictionary. Failing allocations in between leave
  it intact.

## 2. Modules

| module | models |
|---|---|
| `Klist` | every function of `klist.c`, for one list and any number of tasks |
| `KlistPromise` | the abstract lifecycle of a node that klist promises; `Klist!KeepsPromise` is the refinement |
| `KlistWalk` | Klist with two history variables that follow one task's iterations |
| `Kfifo` | the fifo of elements, with concurrent writers and readers |
| `FifoPromise` | the queue a kfifo promises; `Kfifo!KeepsPromise` is the refinement |
| `KfifoRec` | the fifo of records (the `*_r` functions) |
| `RecordPromise` | the queue of records it promises; `Kfifos!RecordsKeepPromise` is the refinement |
| `Kfifos` | the two kinds of kfifo side by side, for one run |
| `KfifoSgl` | the scatterlists of the kfifo's DMA calls |
| `KfifoSetup` | allocation, initialisation, freeing, and the counting of bytes and elements |
| `Fifo` | `fifo.h`; it refines `FifoPromise` too |
| `Slist` | `slist.h` over `cmpxchg.h`, by any number of threads |
| `StackPromise` | the stack it promises; `Slist!KeepsPromise` is the refinement |
| `Rbtree` | `rbtree.c` and `rbtree_augmented.h`, one turn of a rebalancing loop per step |
| `Rblist` | `rblist.cpp` with the callbacks of `intlist.cpp`, on `Rbtree` |
| `Btree` | `btree.c`: two trees on one pool, as `btree_merge` has them |
| `DictionaryPromise` | named dictionaries, and what each operation makes of them; `Rblist!RblistKeepsPromise`, `Btree!BtreeKeepsPromise` and `Hashtable!HashtableKeepsPromise` are the refinements, which tie each call to its operation and its arguments (`Rekeys`: only an owner of `rbtree` nodes can put another key in an entry's place) |
| `Dlist` | `dlist.h`: several lists between which entries move, and the loops |
| `HashMap` | `hash_map.h` on `hlist.h` |
| `ListsPromise` | named sequences; `Dlist!DlistKeepsPromise` and `HashMap!HashMapKeepsPromise` are the refinements |
| `Hashtable` | `hashtable.cpp` |
| `Avltree` | insertion, lookup and clearing in `avltree.cpp` |
| `Lists` | `Slist`, `Dlist`, `HashMap` and `Hashtable` side by side, for one run |
| `Containers` | `KfifoSetup`, `KfifoSgl`, `Fifo`, `Rblist`, `Btree` and `Avltree` side by side, for one run |
| `Lemmas` | what the proofs share: induction over the numbers, remainders by a constant (for the slots of a ring buffer), rings and chains of pointers: insertion, removal, what a walk finds, turns around a ring that changes |
| `KlistProofs` | the theorems about Klist and KlistWalk, on one inductive invariant |
| `KfifoProofs`, `KfifoRecProofs` | the theorems about Kfifo and, through Kfifos, about KfifoRec |
| `KfifoSetupProofs`, `FifoProofs`, `SlistProofs`, `HashtableProofs` | the theorems about KfifoSetup, Fifo, Slist and Hashtable |
| `MC*` | symmetry sets and the constants of the instances for TLC, nothing else |

Each module holds a few operators called *mutants* (the comment says so): the
form a plausible bug would give the definition next to them. They are not part
of the model; they show that a property would notice the bug.

### Klist

`next`, `prev`, `n_klist`, `n_ref` are the fields of the nodes (`HEAD` is
`&k->k_list`), `k_lock` and `klist_remove_lock` the holders of the two
spinlocks, `klist_remove_waiters` and `waiter` the waiter structures on the
stacks of the tasks in `klist_remove`, `state` the scheduler state
`set_current_state` writes. `pc` and `fr` say where in a call a task is and
what its locals hold. `objref` counts the references the callbacks `get` and
`put` keep; the callbacks themselves belong to the callers, as do
`list.h`, `kref.h` and the scheduler, which the repository does not contain
and which are modelled as `klist.c` uses them.

A critical section that releases no node is one step: nobody else can see its
middle. `klist_release` runs under `k_lock` as well, but `klist_remove` reads
`waiter.woken`, `klist_node_attached` reads `n_klist`, and
`klist_iter_init_node` takes its reference, without that lock. So it is split
into the steps such a reader can tell apart (`Unlink`, `Wake`, `Rouse`,
`Delist`, `WakeDone`, `Detach`), and the loop of `klist_remove` into
`SetState`, `Check`, `Schedule`. `klist_next` is `klist_next` (take the lock,
read the successor, drop the node), possibly the release steps, `SkipDead` for
each dead node it walks over, and `Arrive`; `Put` is the callback made after
the unlock.

`owned` stands for the contract of the callers: the initial reference of a node
is dropped once, by one `klist_del` or one `klist_remove`, after the node has
been added. Two constants say how careful callers are.
`RemoveWhilePinned` lets a task call `klist_remove` while its own iterator
stands on a node. It then may wait for itself; the safety run allows this
(and so does not check for deadlock), the others do not.
`StartAnywhere` lets it start an iterator at a node that another task may be
removing, having seen only that `klist_node_attached` holds.

### Kfifo

`in`, `out`, `data` are the fields of `struct __kfifo` (for elements of size
`esize`; the model's slots are whole elements). Indices have `UINT` values and
wrap; `Size` is `mask + 1`. A call reads the other side's index when it starts
(`StartIn`, `StartOut`, which cut the length down), copies element by element
(`kfifo_copy_in`, `kfifo_copy_out`; the two memcpys of a wrapped range are
copied in this order), and publishes (`PublishIn`, `PublishOut`). `kfifo_put`
and `kfifo_get` are the one-element forms, with their own tests for full and
empty. `StopIn` and `StopOut` are a user-space copy that faults, or a DMA transfer
that ends early; only whole elements count. `kfifo_reset_out` and `kfifo_skip` are single stores of the
reader's side. `kfifo_reset` happens while no call is in progress, as its
comment asks. With `LockIn` (`LockOut`) the writers (readers) use the
`_spinlocked` macros; without it there is at most one. The run takes two of
each, both locked: the unlocked writer or reader is the case in which the second
one never calls, as the lock does nothing then. The proofs cover both forms.

The barriers `smp_wmb` are modelled by a sequentially consistent memory.

### KfifoRec, Kfifos, KfifoSgl and KfifoSetup

`KfifoRec` keeps the ring in bytes: a record is its length, in `recsize` (1 or 2) bytes of
`BYTE` values, and its payload. `StartIn` and `StartOut` decide on lengths (the guard
`len + recsize > kfifo_unused`, `__kfifo_peek_n`), `Fill` and `Take` copy,
`PublishIn` and `PublishOut` move the index; a DMA transfer is prepared, filled by the
device, given its length by `kfifo_dma_in_finish`, and published. One step per copy
is enough: `Kfifo` shows that the two sides touch different slots.
Callers test that the fifo is not empty before `kfifo_skip`, ask
`kfifo_dma_out_prepare` for no more than the record, and
give `kfifo_in` no record longer than its length field can say.

`Kfifos` joins the two kinds, which share `struct __kfifo` and the macros: `kind`, chosen
once, says which one runs. Its properties about records speak of `KfifoRec` with renamed variables.

`KfifoSgl` lays a ring of `ring[1]` elements of `ring[2]` bytes somewhere into virtual memory,
over pages that `frame` maps to physical ones; between any two neighbours there may be a gap.
`dma_prepare` is `setup_sgl` for every part of the ring and every number of entries;
`setup_loop` is the loop of `setup_sgl_buf`, `l` and `off` as in the code. Entries are
an address and a length in bytes.

`KfifoSetup` leaves the data out and looks at sizes: what `kfifo_alloc` and
`kfifo_init` make of the size they are given, what a failure leaves, and what the
user-space copies publish and report for every length, element size and point of failure.

### Fifo

`put` and `get` say where the producer is in `fifo_put` and the consumer in
`fifo_get`; each access to `table`, `tail`, `head` that the other side can see
is a step. `fifo_init` and `fifo_close` happen between the calls. The accesses keep their
program order: the indices are volatile, the table is not, and the model
relies on the compiler and an x86 to keep the store to the table before the store to `tail`.

### Slist

A thread in `slist_add` or `slist_remove_head` reads `first`, prepares what it wants to
store, and tries `cmpxchg` until it succeeds. `free` are the nodes nobody uses; a
popped or visited node is free at once and may be pushed again, which is
what makes the exchange hard (the node it compares may have left and come back).
`consumer_lock` is the lock the table in `slist.h` asks for: `slist_remove_head` runs
under it, `slist_del_all` takes it only where somebody uses `slist_remove_head`.
`slist_remove_head` does not test for an empty list; its callers do, under that lock.
The variable `use`, chosen once, says who does what with a list (the table in `slist.h` tells
which combinations need the lock) and whether `cmpxchg` is one access: where `use.atomic` is
false it is `Compare` and `Store`, as it is compiled, without a `lock`
prefix, for a machine with several processors.

### Rbtree and Rblist

`tree` holds the fields of all nodes; a node is named by the key its owner sorts it by,
and `child` is a function of the side, so that the two mirror images of each loop
are one, with the side as a parameter. `rb_link_node` and `rb_erase` do what
comes before a loop; each turn of `__rb_insert` and `__rb_erase_color` is then an action
(`InsertFlip`, `InsertRotate`, `EraseUnderRed`, `EraseFlip`, `EraseRotate` and
the two ends of an insertion), with `cursor` for the variables of the loop, so that what the
comments in the code call loop invariants are invariants of the model
(`RedBlackTree`). `augmented` is the value the callbacks of `RB_DECLARE_CALLBACKS` keep,
with `rbtree_test.c`'s maximum; `Weight` are the values.

`Rblist` starts such a sequence from `rblist__add_node` (whose `node_new` may fail), from
`rblist__remove_node`, and from the loop of `rblist__delete`, and ends it with `Added`
and `node_delete`. `pos` and `next` are the loop variables of
`intlist__for_each_safe`, whose body may remove the node it stands on, and of
`rblist__delete`. `node_cmp` subtracts with the width of an int. `ReplaceNode` is
`rb_replace_node`, called by an owner that puts another node in the same place.

### Btree

A node is the sequence of its used slots (the unused ones hold 0, and lie behind them),
`mem` maps addresses to nodes, `used` are the allocated ones, `btree_head` the
two trees. A call is a step: nothing can look at a tree before the call
returns. Within it the model follows the code's order on a copy of the memory
(`find_below` lowers keys on its way, `btree_insert_level` and `btree_remove_level` recur upwards), because
the calls look the tree up again after each change. `pool` is how many allocations succeed; `T.pool = 0`
says that all were made, so that each value is one way for a call to fail or to succeed.
A fresh node takes the lowest free address. `mangled` says that the key that is removed is
a pointer into the slot being shifted away, as in `merge`. The `BUG_ON`s, and
a write in front of a node, set `struck`. `btree_merge` is a step per entry, which may fail. A value never equals a key
(values are pointers), and a client inserts no key that is there, which
`btree_insert` answers with a `BUG_ON`.

### Dlist

`links` holds the fields `next` and `prev` of heads and entries alike; the functions of
`dlist.h` are operators on it, composed as in the code, and an action applies one where a
caller may. `dlist_join` does not initialise the head it takes the entries from, so
that it still points at them; such a head is `stale`, and callers do not use it until `dlist_init`, or
until `dlist_cut_position` or `dlist_replace` fills it. The loops that are safe against removal are actions per
turn: `turn` holds `pos` and `n`, between two turns the body may take `pos` off its list (and put it on
another one, or another entry in its place), or change what follows and call `dlist_safe_reset_next`. `turn.rest` is
history: what an uninterrupted walk has yet to visit. The `entry` forms of the loops differ in a
`container_of` only. `dlist_remove` links the entry to itself instead of poisoning it, so that removing or
moving an entry that is on no list does no harm; the model's callers do that too.

### HashMap

`chain.next[h]` is `h->first` where `h` is a head, `n->next` where it is a node, and
`chain.pprev[n]` names the head or node whose pointer points at `n`. `hash_map_insert`, `find` and
`earse` go through a bucket; `hlist_add_before`, `hlist_add_after`, `hlist_del`,
`hlist_del_init`, `hlist_move_list` are what the owner of the nodes may do to the chains besides.
`HTABLE_INDEX` is a remainder, as the number of buckets is a power of two. The abstract lists are one per
map and key, although the code has a chain per bucket.

### Hashtable

`rings` holds `Flink` and `Blink` of every `listentry_t`: the heads of the buckets, `FastList`, and the
`Entry`, `FastEntry` and `BrotherEntry` of each node. An id names its node, since the table
refuses a second one with the same id; a freed node is linked to itself. `family` holds `Child` and
`Parent`. `EnumHashEntry` is an action per turn, and between the turns the routine it calls
may insert nodes, remove any other, and change the families; it may ask for its own to be deleted.

`hashtable.cpp` does not look after the relations of a node that is removed. The model's
callers undo them first (`Single`). A child has one parent, not itself: callers relate a child that has none,
and dissolve a relation that exists, or is dissolved already.

When the newest of several children is taken from its parent, line 429 makes `Child` a pointer into the middle of a
node (`WILD`). The model goes on with it as the code does: taking other children away only compares the pointer;
`GetChildHashEntryCount` returns nothing sensible, and `AddChildHashEntry` writes through what lies at the wrong
offset, which ends in a fault (`answer` is `"fault"`, after which there is nothing). `ChildrenCounted` is what the header promises, and
`hashtable_child` the run that refutes it; `FamiliesTogether` says what is so for all that: the rings of
brothers are right even then, and a parent's `Child` is one of its children or wild.

### Avltree

`avl` maps the intervals in the tree to their fields, `root` is the pointer of the caller. `Insert` recurs as
`InsertAvlEntry` does and rotates on its way back; `Turned` is what the two single rotations
have in common. `LRRotate`, `RLRotate` and, but for a lucky case, `RRRotate` are wrong as
written (see the findings). With `SingleTurns` callers make no insertion that would
use them, nor one that covers an entry in the tree (which the code's test for overlaps
misses); `AvlSound` then says that the rest is an AVL tree. Without it they insert anything.

### Lists and Containers

These structures need few states, and none uses another in a module beside it: `structure` and
`part`, chosen once, say which one is in use, while the rest stay as initially. One run
then checks the four of `Lists`, another the six of `Containers`.

## 3. Runs

| run | instance | question | distinct states |
|---|---|---|---|
| `klist_safety` | 3 tasks, 2 nodes | counts, links and wake-ups of klist; no deleted node is handed out | 1.1 million |
| `klist_live` | 2 tasks, 2 nodes | klist refines `KlistPromise`; `klist_remove` returns; a deleted node is detached | 78 thousand |
| `klist_walk` | 2 tasks, 3 nodes | what a whole iteration returns | 1.2 million |
| `klist_last_access` | 2 tasks, 1 node | finding: `klist_remove` returns too early | - |
| `klist_start_node` | 2 tasks, 1 node | finding: an iterator revives a node being released | - |
| `kfifo` | ring of 4, 3-bit indices, 2 writers, 2 readers of elements | the sides need no lock against each other; they are one queue | 238 thousand, |
| | ring of 4 bytes, 1 or 2 length bytes, a writer and a reader of records | records stay aligned and come out whole | both kinds |
| `containers` | sizes to 6, elements of 1 to 3 bytes | the kfifo's ring lies in its memory; faults publish whole elements | 118 thousand, |
| | rings of 2 to 8 bytes on pages of 2, to 4 entries | the device gets the bytes of the transfer in order, and all of them if the entries suffice | all six |
| | fifo of 3 entries | one producer and one consumer need no lock on a fifo, which is one queue | |
| | ints 1 to 10 | the rblist stays a red-black tree with right augmented values, and is a set; loops visit its entries in order, also when they remove them | |
| | keys 1 to 11, nodes of 4 and of 5 slots | the btrees stay ordered, shallow and complete dictionaries, with any allocation failing; no node leaks, no `BUG_ON` strikes | |
| | 8 keys, 3 longer intervals | the avl tree, as far as its rotations are right, is balanced and finds every entry | |
| `btree_remove_zero` | the same | finding: `btree_remove` of an absent key 0 | - |
| `avl_rotations` | the same | finding: a double rotation dereferences a null pointer | - |
| `lists` | slist: 3 threads, 4 nodes, three ways of use | one stack although nodes are reused; the loops are lock-free | 165 thousand, |
| | 2 dlists, 3 entries | dlists are sequences; their loops survive what their bodies do | all four |
| | 2 maps of 2 buckets, 2 keys that share one, 3 nodes | the hash map is a stack of nodes for each key | |
| | 3 ids in 2 buckets | the hash table is a dictionary; its rings, families and counts agree; enumeration visits all | |
| `slist_exchange` | 3 threads, 3 nodes | finding: `cmpxchg` as compiled loses a node | - |
| `hashtable_child` | 3 ids in 2 buckets | finding: a parent whose newest child was removed has a wild pointer | - |

**Why the bounds are enough.** Two nodes and three tasks give klist an iterator
on a node, a second task that deletes or removes it, and a third that drops the
last reference or adds next to it; the walk needs a third node so that one can
be between two others. No counter of Klist needs a bound: references are
limited by the tasks, and nodes are reused without limit. A ring of 4 with
indices below 8 lets each index wrap at the ring and at the width in the same
run, with calls of every length from 0 to one more than fits. The proofs lift
the ring's bounds. The sizes of KfifoSetup contain powers
of 2, what lies between them, and sizes too small. Records are run on a ring that holds one record of the longest
length or several short ones, with a byte of three values, so that a client can ask for more than a
length field can say. In some rings of the scatterlists a page ends inside an element, the largest lies on up to five pages,
and there are up to four entries, so that they run out before, at and after the wrap. The stack needs three threads and a node to spare for a
node to be popped, pushed again and compared by a third.

A red-black tree needs ten nodes for the erasure's colour flip to move up
more than once, a B-tree eleven keys at four slots to have a third level. All sequences of calls
on so many keys would be too many. So the clients are bounded (`Loose` for Rblist;
`Few`, `Mixed` and `Asked` for Btree): with few entries they add and remove what they like;
with more they only go on to fill a tree in ascending (Rblist) or descending order (Btree), or remove
entries, in the tree any one and in the B-tree the first, the last and those of `Mixed`.
That this reaches every case of the loops and of `rebalance` was seen from
TLC's coverage: the only expression of the B-tree never taken is `level > T.height`, which the code cannot
take either, since a tree never loses its root that way. Five slots are there because an odd node is split
unevenly. Up to three allocations are made by one call. `UintMax` is 1,
as `nr_entries` is used by nothing there. No two ints of the run are further apart
than `IntMax`.

Three entries on two lists let each list be empty, have one entry, and have one in the middle, which is all
that the tests in `dlist.h` tell apart; a loop on the one can lose its current entry to the other. Three
nodes under two keys of one bucket give each key older and newer nodes, mixed. Three ids in two buckets
give a parent with two children, a ring of brothers of more than one, and an enumeration with a node before
and one behind the current. Single rotations that reach the root, with an inner subtree to hand over, need six
keys that descend; there are eight, and three intervals that overlap others.

**Fairness.** `klist_live` assumes that tasks in a call keep running, that
spinlocks are fair, that is, strong fairness for each task's steps (a task that spins
gets the lock if it becomes free again and again; the kernel's ticket
locks do this), and that a client with an open iterator moves or closes
it in the end. Nothing is assumed of clients that hold no iterator.
Without the last assumption `klist_remove` waits for ever, as it should.
`lists` assumes only that a thread inside a call of `slist.h` keeps running (weak fairness);
that suffices for some call to return, and no single one is promised to.

**Symmetry** is used in the runs of invariants and action properties, never
with liveness. Values are symmetric in the fifo because it only moves them.

### Findings

- `klist_last_access` (`klist.c:196`): `klist_release` sets `woken` first and
  uses the waiter and the node afterwards; `klist_remove` tests `woken` without a
  lock and may return, and its caller free the node, in between.
  The model keeps the returned task's waiter readable; in the program it is a dead stack frame.
- `klist_start_node` (`klist.c:287`): `klist_iter_init_node` takes its reference
  without the lock; a node whose count is 0 already is revived and released twice.
- `slist_exchange` (`cmpxchg.h:165`): `LOCK_PREFIX` is empty; the exchange is not atomic
  between processors and a push is lost.
- `btree_remove_zero` (`btree.c:606`): unused slots hold key 0, so an absent key 0 is "found" in the first of them;
  the last used entry is cleared instead, and NULL returned.
- `avl_rotations` (`avltree.cpp:64`, `:74`): the double rotations turn the same node twice instead of its child first, and
  dereference a null pointer as soon as three entries come in the wrong order.
- `hashtable_child` (`hashtable.cpp:429`): the `BrotherEntry` of the next brother is cast to a node and becomes the parent's newest
  child; `GetChildHashEntryCount` (`hashtable.h:101`) then counts from the wrong place, and `AddChildHashEntry` writes there.

Seen while modelling, without a run of their own:

- `kfifo.c:46`, `kfifo.c:87` round a size down to a power of 2, as `kfifo.c:42` says;
  `kfifo.h:327` and `kfifo.h:362` say it "will be rounded-up".
- `kfifo.c:220`, `kfifo.c:280`: after a fault `*copied` is a number of bytes less a number of
  elements; `kfifo.h:609` and `kfifo.h:637` call it the number of copied bytes. `KfifoSetup` computes it as the code does.
- `slist.h:204`: `slist_for_each_safe` empties the list after each node, and so drops nodes
  that other threads push during the loop; in the run `lists` only a lone thread uses it.
- `kfifo.c:456`: `__kfifo_in_r` does not call `__kfifo_max_r` as its siblings do. A longer record is stored whole behind
  a truncated length, and `RecordsTile` fails; the model's callers keep within the length field.
- `btree.c:584` says that "no two neighboring nodes can be merged". A removal that leaves a node at least half full tries no
  merge, so that two neighbours that would fit into one do occur. `btree.c:546` says that an emptied node is its parent's
  only child; it may have siblings. Neither does harm. The last removal from a tree of height 1 leaves an empty root node.
- `intlist.cpp:46` subtracts ints; for ints more than `INT_MAX` apart the order is wrong.
- `avltree.cpp:48`: `RRRotate` hands over `tree->left` where it should `root->left`. With entries inserted in ascending order it
  loses one, or links one twice, when a rotation has an inner subtree; with none, the two are the same.
- `avltree.cpp:99` does not notice a new interval that covers one in the tree. `data_len` is never stored (`avltree.cpp:95`), so `SaveAvlTree` would save no
  data; it and `LoadAvlTree` compare the count `fwrite` and `fread` return, 1, with the size in bytes, and give up.
- `dlist.h:225`: the arguments of `dlist_move_tail` are in the wrong order (its head comes first, `dlist.h:170`), so that `dlist_rotate_left`
  (`dlist.h:216`: "rotate the list to the left") moves the head to where it is, and nothing rotates. `Dlist` has it as it is;
  it is the one call of which `DlistKeepsPromise` does not say that it does what its name says, but that it does nothing.
- `rblist.cpp:44`: `rblist__remove_node` does not decrement `nr_entries`, although `rblist__add_node` counts each entry, so that after a removal
  `rblist__empty` (`rblist.h:36`) is wrong and `example.cpp:159` counts one entry too many, and dereferences what `strlist_entry` returns for it, NULL.
- `hashtable.cpp:105`: the node just allocated is not freed when the id exists. `hashtable.cpp:168` frees the node, which `hashtable.h:70` says is not
  destroyed. `hashtable.h:41-42` have the meanings of `ENUM_STOP` and `ENUM_CONTINUE` the other way round. `CreateHashTable` does not test its second allocation.
- `hash_map.h:58`: `hash_map_for_each` indexes the map as if it were the table of buckets, and does not compile.
- `kfifo.c:331`: where a range ends exactly with a page, the loop goes on to the next one, and, if that lies elsewhere, an entry of
  length 0 follows. `SglDescribes` allows it, as the device gets the same bytes.
- `strlist.cpp`: `strlist_load` adds a buffer on its stack, which dangles unless the list duplicates its strings.

## 4. Proofs

TLC checks small instances; these theorems hold for every value of the constants. Each
one is stated of the component's own specification, and its property is one that a
run of section 3 checks.

| theorem | what it says | of |
|---|---|---|
| `KlistTypeCorrect` | `TypeOK`: no count drops below zero, no pointer goes wild | Klist |
| `KlistRefsAccounted` | `RefsAccounted`: a kref counts the iterators on its node and its initial reference | |
| `KlistListIntegrity` | `ListIntegrity`: the pointers form one ring of the attached nodes; iterators stand on nodes of it | |
| `KlistNoLostWakeup` | `NoLostWakeup`: none falls between the test of `woken` and `schedule()` | |
| `KlistDeletedForGood` | `DeletedForGood`, an action property: no iterator comes to stand on a deleted node | |
| `KlistKeepsPromise` | Klist implements `KlistPromise` | |
| `KlistWalkComplete` | `WalkComplete`: an iteration returns every node that was on the list all the while | KlistWalk |
| `KlistWalkOnce` | `WalkOnce`: it returns no node twice, unless it was added again | |
| `TypeCorrect`, `NeverOverfullCorrect`, `ClaimsFitCorrect`, `NoRaceCorrect` | indices in range; at most `Size` elements; a claim from an old index stays good; no slot is filled and read at once | Kfifo |
| `KfifoImplementsQueue` | Kfifo implements `FifoPromise` | |
| `RecordsAlwaysTile` | `RecordsTile`: length fields lead from `out` exactly to `in`; the claims of both sides hold until they publish | Kfifos |
| `RecordsImplementQueue` | `RecordsKeepPromise`: KfifoRec implements `RecordPromise` | |
| `RingsFitMemory` | `RingFitsMemory`: the slots of a ready fifo lie in its memory, and their number divides the range of an index | KfifoSetup |
| `CopiesPublishWhole` | `WholeElements`, an action property: a copy that stops anywhere publishes the elements that came across whole | |
| `FifoImplementsQueue` | Fifo implements `FifoPromise` | Fifo |
| `SlistLosesNothing`, `SlistNodesSafe` | `NothingLost`, `NodesSafe` | Slist |
| `SlistKeepsPromise` | Slist implements `StackPromise` | |
| `HashtableFamilies` | `FamiliesTogether`: buckets, list of all nodes, count and families agree | Hashtable |
| `HashtableIsDictionary` | Hashtable implements `DictionaryPromise` | |

### Klist

*Assumptions.* `KlistConstants` (finite sets of nodes and threads, which a program
has), and `~StartAnywhere`: an iterator starts only at a node that nobody is
removing. Without the second the properties are false: `klist_start_node` is the
counterexample. `RemoveWhilePinned` may be either.

*Invariant.* `Inv == IInv /\ Iterators`, where `IInv` is the conjunction of

- `TypeOK`;
- `Locks`: who is where in a critical section holds its lock, and nobody else does;
- `Frames`: what a call's locals are good for at each place. The successor `klist_next` has read
  is linked, and not the node it is about to release;
- `Ownership`: a node carries the plain `k` exactly as long as its initial reference is
  owned or in one hand; who releases a node finds it dead, with no reference left;
- `Ordered`: `next` and `prev` form one ring (`IsRing` of `Lemmas`) of the head and the
  `Linked` nodes, which are those attached except one on its way in or out;
- `Waiters`: whoever is on `klist_remove_waiters` is being woken or still waits;
- `Counts`: `RefsAccounted`, in sets that have names.

None of them is inductive by itself. That the count of a node reaches zero once rests on
`Ownership`; that the ring survives an unlink in the middle of a walk rests on `Frames` and
`Locks`; that a successor is still linked when the walk comes to it rests on `Counts`, because
an unlinked node has no reference. `KlistProofs` has one lemma per action that says the
invariant is kept and what becomes of `Linked`. `ListIntegrity` speaks of a walk along `next`,
a recursive function: `WalkFound` and `WalkAround` show that it finds the ring.

*Refinement.* A node is out while it is not linked, condemned once its initial reference
was dropped, else in. The steps map as follows, all others to stutters: `Link` to `Enter`;
the kills of `klist_del` and `klist_remove` to `Condemn`; the entry into `klist_remove` to `Await` and the return after `Check`
to `Return`; `klist_iter_exit` and the start of `klist_next` to `StepOff`; `Arrive` and
`klist_iter_init_node` to `StepOn`; `Unlink` to `Leave`; `Wake` to `Tell`.

*Whole iterations.* `Inv` says where an iterator is, not what it has been past. For that `WalkInv`
claims a set `A` of nodes which the turn around the ring has passed (`HasPassed`: all nodes from the head
to the one before the next to come), such that every node the walk has returned and that is still linked
is in `A`, and of the nodes that were there all along `A` holds only returned ones. A turn
goes on by one node per `Arrive` or `SkipDead`; a node linked or unlinked behind or before the iterator
changes `A` (`TurnInsert`, `TurnRemove`), but not what it says of the others. At the end the
next to come is the head, so `A` is the whole ring (`TurnEnds`). Both theorems
assume `~StartAnywhere` as the others do.

### Kfifo and Fifo

The inductive invariant of the safety theorems is `IInv == TypeOK /\ Exclusive /\ Copying /\
NeverOverfull /\ ClaimsFit`. `NeverOverfull` alone is not inductive: that
`in` may advance rests on the claim made from an old `out` (`ClaimsFit`), that the claim of one
side survives the other's publication rests on there being one call per side
(`Exclusive`) that publishes no more than it claimed (`Copying`). `NoRace`
follows: the indices of the pending slots lie within `Size` of one another, and
within that distance remainders by `Size` differ (`DistinctRemainders`). The one
assumption on the width is that it is a multiple of the ring size and at least
twice it, which powers of two give.

The refinement needs to know what is in the slots: `RInv` adds that the slots between `out` and
`in` are filled (`Filled`), that a writer has put the beginning of its source behind
`in` (`CopiedIn`), and that a reader's destination is what lies behind `out` (`CopiedOut`). Then
`PublishIn` appends the source to the queue, a publication of `out` takes its head, and
the copying steps stutter.

*Records.* `RecordsTile` and the abstract queue speak of `Start`, a recursive function along the length fields. The
invariant `RecInv` claims marks instead: a sequence of places that begins at `out`, ends at `in`, and where each is
behind the one before by the length field there and what it says (`Marks`). `StartFound` and `ContentsOfMarks` show that
`Start` is the marks and `Contents` the records between them. Publication by the writer adds a mark,
publication by the reader takes the first one off; in between a writer's bytes go to slots in the
unused part, which is where its claim is (`Writing`), and a reader's `n` is the length at the first mark (`Reading`).
Of the bytes nothing is known but what the writer put behind `in`: stale ones of an aborted call may stay there. `KfifoRecProofs` is about
KfifoRec by itself; `Kfifos` instantiates that module, and `KfifoProofs` carries the results over. `KfifosConstants` says
of a byte and of a length field's width no more than is so in C.

*Sizes.* `SetupInv` has of a ready fifo that its element size is allowed, that `(mask + 1) * esize` bytes are there, and that `mask + 1`
is a power of 2. `rounddown_pow_of_two` chooses a power of 2; that there is exactly one
to choose for every size is an induction over doublings, and that a power of 2 divides the larger power `UINT`
is another. For this `KfifoSetupConstants` says that `UINT` is a power of 2. `WholeElements` is arithmetic
on quotients and remainders by the element size, in the cases the code has: stopped in the first or the second part of a range.

`FifoInv` says the same of `fifo.h` with less: the producer's slot is free and holds its entry
before `tail` moves, the consumer's is filled and read before `head` moves.

### Slist

*Assumptions.* `Allowed(u)` for every way of use: threads share a list only through an exchange
that is one access to memory, and `slist_for_each_safe` runs only where one thread has the list to itself. This is what `slist.h`
says; `slist_exchange` shows what happens without the first. Who adds, pops and drains is
free, so that any number of threads may do all three.

*Invariant.* `SlistInv` says that there is a set `L` of nodes on the list and a set
`A[t]` ahead of each traversal such that each is a chain of pointers that ends in NULL (`Chains`), nobody has a node of
another's (`Apart`), no node is missing (`Everything`), and the locals fit (`Locals`). The
heart is in `Locals`: the node a popper has read from `first` is on the list, and what it will
store is what comes behind that node. The popper's lock keeps all others from taking nodes,
and a push changes no pointer of a node that is on the list. So it does not matter
that the exchange compares addresses only and nodes come back.

`From`, with which the properties speak of the list, is defined by a recursive function;
`FromChain` shows that it finds a chain's nodes. In the refinement a successful exchange is the push or the pop, `slist_del_all`
is `TakeAll`, and all else stutters.

### Hashtable

*Assumptions.* `HashtableConstants` (ids are numbers, there are finitely many, `NOBODY` and `WILD` are none of them). There may be any number of buckets.

*Invariant.* `TableInv` says that there is a set `S` of ids such that the ring of each bucket holds the `Entry` of those
ids of `S` that fall into it, the ring of `FastList` the `FastEntry` of all (`Stored`), `NumberOfNode` is the number of
`S`, the children of each parent are in `S` and their `BrotherEntry` form one ring, on which `Child` points unless it is wild, while the
`BrotherEntry` of any other node is linked to itself (`Together`), and an enumeration stands at
a node of `S`. The ring is stated from every child and not from `Child`, which may have lost it (`RingAround`: a ring is one
seen from any of its places). One node has entries in three rings, so that each insertion and removal must leave alone the two rings it is
not made in; that is what `RingElsewhere` and the disjointness of the three sets of entries are for.

`Ring`, with which the model looks nodes up as the code does and with which the property speaks of the rings,
is a recursive walk that returns a sequence; the first part of `HashtableProofs` shows
that on a ring it returns each entry once. What `FindHashEntry` finds is then the content of the
ids of `S`, so an insertion of a new id is `DictionaryPromise`'s for that id, a removal takes that id and no other,
and the links of the families, wild ones included, do not matter to it.

### What is only model-checked

- Liveness and whatever needs fairness (`RemoveReturns`, `DeletedLeave`, `LockFree` and the like): beyond the prover.
- `LoopsVisitAll`: a walk that its body cuts short, whose remainder is a sequence kept as history. The invariant would have to say of each `rest` that
  it is the ring ahead, in order and without what was removed, for every way the body may change it.
- Dlist, HashMap and KfifoSgl. Their promises are sequences that recursive functions of several arguments, `SelectSeq` and `FlattenSeq`
  compute: lemmas about these need induction over sequences, and the library's induction theorems cannot be used, since they
  take an operator as a parameter. `Induction` in `Lemmas` states it for a set of numbers instead, which is enough for
  walks along pointers and for marks in a ring.
- The trees. What `RedBlackTree` and `Lookups` say of a red-black tree needs an induction over its subtrees for each turn of a loop. Btree and Avltree use RECURSIVE operators,
  with which the prover loses its SMT backend; so `TreeShape`, `BtreeLookups`, `AvlSound` and the types in `Containers` (which reaches those modules) stay with TLC.

## 5. Not modelled, and the plan

- Weak memory. The repository builds for x86; on weaker machines the reads of
  `kfifo_copy_out` and the store of `out` have only a write barrier between them.
- The interior of callbacks, of `kmalloc`, of `list.h`.
- Several klists: nodes do not move between lists, and only the waiter list is shared.
- Insertion into a B-tree in the middle of a large tree: with more than `Few` entries keys come in order.
- `strlist`: its tree is Rblist's; its parsing, its files and the ownership of strings are left out.
- `RemoveAvlEntry`: `avltree.h` declares it with another type of its last parameter than `avltree.cpp` defines it with, so that the
  definition is another function in C++, which no caller can reach. (It also relies on heights it does not update.) `LoadAvlTree` and `SaveAvlTree`
  are file input and output; `SaveHashTable` and `LoadHashTable` only return `EINVAL`. `CloseHashTable` is `ClearHashTable` and `free`.
- `map.h`, `rfifo.c`, `segmentree.*` do not compile; `hash.h` and `jhash.h` are arithmetic without state.
- What callers do against the contracts above (a freed node with relations, a stale head, an interval over another): each such
  misuse is named where its module is described.

What could follow:

1. Proofs: that Dlist keeps its lists linked both ways, with the lemmas on rings; for Rbtree that rotations keep the order.
2. A second parent, and grandchildren, for the hash table, and three lists for Dlist, if a run can take the states.
