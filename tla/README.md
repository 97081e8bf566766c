# Verification of learn_spdk

TLA+ models of the programs in this repository, the TLC runs that check them
on small instances, and TLAPS proofs of what matters most about eight of them.
`PROJECT.json` is the machine-readable inventory: components, runs, the map
from every definition to the source lines it stands for, findings and hazards.

The repository is a collection of separate programs and data structures, and
so are the models. What interacts is modelled together: the file system with
the SPDK thread, the blob store and the kernel's descriptors; the servers with
their clients; the block device programs with the controllers; queue, pool and
trees with their callers. Programs that share their operations share a module.

## Parts and modules

| Part (source under `src/`) | Module | State and actions |
| --- | --- | --- |
| `atomic/LockfreeQueue.cpp` | `LockfreeQueue`, abstract `FifoQueue`, proofs `LockfreeQueue_proof` | Nodes with `next` and `data`, `head`, `tail`, and per thread the locals and a program counter. One action per atomic load or compare-exchange; a weak exchange has a success and a failure action. |
| `ThreadPool/Threadpool.cpp` | `ThreadPool`, proofs `ThreadPool_proof` | Queue, `stop`, where each worker and the owner are. One action per critical section; `notify_one`, `notify_all` and `join` are steps of their own. |
| `LRU_with_TTL/LRUCache.cpp` | `LRUCache`, proofs `LRUCache_proof` | The list, the keys of the map, a clock. `get` and `put` are one action per path; the clock may advance between the readings inside one call. |
| `spdk_filesystem/myfs.c` | `MyFS`, proofs `MyFS_proof` | The hooks `creat`, `open`, `read`, `write`, `close`, the setup by the first `creat`, `release` and `myfs_destory`; the descriptor bitmap and `files`; posted messages and outstanding blob store requests. One action per message and per completion callback; a call lasts from the start of `poller()` to its return. |
| `spdk_filesystem/json_config.c` | `JsonConfig`, proofs `JsonConfig_proof` | The loader's context, iterators, poller, posted message, RPC and initialization. One action per callback. |
| `Red_Black_Tree/RBTree.hpp` | `RBTree`, with `SearchTrees`, abstract `OrderedMap` | The nodes by key, the shared sentinel a node of its own. One action per public operation, the repairs as operators. |
| `KV_Store/RBTree.cpp` (and `B+Tree/temp.cpp`) | `KVRBTree`, with `SearchTrees`, abstract `OrderedMap` | The same for the tree without a sentinel, and its count. |
| `KV_Store/BplusTree.cpp` (and `B+Tree/BplusTree.cpp`) | `BPlusTree` | A heap of leaf and internal nodes and the leaf chain; an action each for insert and remove; lookup, range query and the validator as operators. |
| `spdk_echo_server/spdk_server.c`, `KV_Store/spdk_server.c` | `EchoServer`, proofs `EchoServer_proof` | The listener, the backlog, connections, the bytes in each direction. One action per poller run or socket callback; the clients and the kernel are the environment. The variable `program` says which server runs; the KV server splits its buffer into tokens before it sends it back. |
| `KV_Store/simple_slab.c` | `Slab`, proofs `Slab_proof` | The page as bytes, with the links stored in the free blocks, and what clients hold. |
| `spdk_nvme/nvme_opera.c`, `KV_Store/kv_main.cpp` | `NvmeOpera`, proofs `NvmeOpera_proof` | The attach callbacks and where they are, the lists and globals of the KV program, queue pairs, commands at the controller, buffers and media. `program` says which of the two runs. |

Each `MC` module instantiates these for TLC. An operator commented `BUG:` is a
mutated form of the operator after it. No specification uses it; substituted
for the original, it makes the property named in `PROJECT.json` fail.

Some properties hold only up to a fault of the code that the model contains.
The model then records the fault in a history variable (`misread` in
`LRUCache`, `late`, `misrouted` and `torn` in `MyFS`, `cut` in `JsonConfig`,
`short` in `EchoServer`, `failed` in `NvmeOpera`) and the property says what holds before
it, or regardless of it.

## What the runs check

Bounds are the constants in the `.cfg` files and the definitions of the `MC`
modules.

**queue** (two threads, two values, two enqueues, any number of dequeues and
`empty` calls, then the destructor). `Structure`: the nodes form one chain,
`head` has not passed `tail`, `tail` lags by at most one. `Inv`: the inductive
invariant. `PointersAdvance`: neither pointer goes back. `Linearizable`: each
call takes effect as a call of `FifoQueue` at one moment between call and
return. `DestructorDrains`. `EveryCallReturns`, the destructor included. Two
enqueues are enough for a lagging tail, a helper, and an enqueuer overtaken
before it moves `tail` to meet; the proofs remove the bounds for all but the
last property. **queue_move** (violated): with an element type that a move
empties, `dequeue` returns a moved-from value, after two dequeuers moved it or
after one had to repeat a compare-exchange that failed spuriously.

**pool** (three workers, four tasks, submitted by the owner or by a running
task): `Inv`, `DestructorRunsAll`, `NoLostWakeup` (never is a task queued with
nobody awake or notified), `NobodySleepsThroughStop`, `EveryTaskRuns`,
`DestructorReturns`. More tasks than workers makes tasks queue; three workers
let one sleep, one run and one be in between.

**lru** (three keys, two values, capacity 2, lifetime 2, five clock values).
Line 56 reads the key of the node line 55 has erased; the model lets it read
anything. `SizeBounded` holds regardless. As long as it reads the right key,
`MapMatchesList`, `MissHasReason` (a miss means never put, expired, or least
recently used) and `HitIsLatest` hold. After a wrong one, a later call can use
the erased node. One key more than the capacity makes eviction happen, and
clock values beyond two lifetimes let a key expire, return and expire again.

**myfs** (two descriptors, seven calls, failing and arbitrarily slow
requests). `FdsDistinct`: an open file has a descriptor and a `myfs_file_s` of
its own, although `close` leaves `files[fd]` behind. `CreatGivesBlob`: a
descriptor whose `creat` completed has an open blob. `EveryCallReturns`.
`NothingOutlivesItsCall` until a `poller()` gives up on a request that is still
in flight; afterwards its completion can end a later call early, or write to a
frame that has returned. `SetupIsNotReentered`: the `open` calls SPDK makes
while the first `creat` sets it up go to the kernel (the fault that
`fix_core_dump.txt` is about); they do come back to `myfs_open` when an `open`
sets up again after `myfs_destory`. `release` and `myfs_destory`, which `myfs.c`
offers and does not call itself, are made calls of the program. Two descriptors
let the table fill up, and seven calls (of which the first `creat` takes three)
let a descriptor be closed and given again.

**json** (every configuration of up to two subsystems with up to two entries
of every kind, any step failing, both values of `stop_on_error`).
`SendsThePlan`: the requests sent are those the two walks should send, in
order and without a gap, and all of them when the load succeeds.
`OneThingPending`, `CallbackOnceAndLast`, `AlwaysCallsBack`. Two subsystems with two entries cover first, next and last of both walks. A
connection error seen while a message or the initialization is outstanding
frees the context under it; `CallbackOnceAndLast` says nothing else does.

**trees** (eight keys, either red-black tree). `SearchTree`; `AlwaysRedBlack`,
the tree's own validator; `ImplementsMap`. Eight keys give trees of four
levels, in which every case of both repairs occurs. The trees never look at
values, so it is enough to let one key have another value than the rest. Each
call is recorded with its key and its answer, so that a wrong answer for one key
cannot pass for a right one for another; the record is never read, and states
that differ in it alone are explored once (`VIEW Pointers`).

**bplus** (degree 2; either three keys with repetition and removal, up to
seven entries and eight nodes, or ten distinct keys). `TreeIsWellFormed`: the
leaf chain visits every leaf once, in trees of two levels in order, what else it
visits is empty, and an internal node in use has more children than keys.
`NothingLost`; for trees of two levels, `RangeQueryIsComplete` and
`MissesOnlySeparators`: `find` finds all keys but those that are separators. The first client empties leaves that stay on the
chain; the second grows trees whose internal nodes split below the root.
**bplus_bulk** (violated; different keys, no removals): `BulkInsertChecks` is the
disjunction of what test 5 announces, that each key is found and that the tree is
accepted, so its violation shows one tree of which both are false. It is the
first with two leaves: the key that is also the separator is not found, and
`validate` rejects the tree, because it asks that a child's least key be greater
than the separator left of it, which is that key itself.

**echo** (either server; two clients with three bytes each, in words, spaces
and NULs; a receive buffer of three, a send window of two, room for one token;
failing socket calls): `EchoInOrder`, `EveryByteComesBack`, and
`OneLeakEndsAccepting`: a failed `getaddr` costs the server its listening socket
and leaks the connection at hand, nothing else does either, so no second one
leaks, and the server dies only on that null socket or in the KV server's split.
Three bytes overfill the window, a full buffer has no NUL behind it, and two
words in one message are one token too many for the KV server.

**slab** (a page of 12 bytes, pointers of 3, blocks of 3, 4, 5, 7 or 13, so with
no remainder, with remainders that hold a part of a pointer or all of one, with
blocks at unaligned addresses, and with no block at all): `FreeListIsExact`: the first `free_count` blocks that the links from
`first_free` lead to are the blocks nobody holds, each once.
`WritesStayInFreeBlocks`: what a client holds is
not written, byte by byte, and nothing outside the page is, with one exception:
`init_slab` writes a closing link behind the last block, and where the blocks
leave fewer bytes of the page than a pointer has, exactly the missing bytes go
behind the page. For the pages of 4096 bytes and pointers of 8 of the code that
is so for 16 (all 8 bytes) and for 12 (4 of them).

**nvme** (either program; every choice of up to two controllers with up to two
namespaces, with and without a controller memory buffer, any allocation,
submission or command failing): `NothingOutlivesItsOperation`; `ReadsBackText`
for namespaces without a failed command (the completion callbacks ignore the
status, so a failed write is reported as successful); `GlobalsMatchLists`: what
`main` of the KV program works on is the controller attached last and its first
namespace, both in its lists, and it meets a null pointer only when there is no
such controller or namespace. Two controllers let the last one be without a
namespace while another has one.

Deadlock checking is off where the system may stop: after the destructor, at a
bound on calls, time or nodes, or at the end of a load or an attach.

## Fairness

* Queue: a thread inside a call keeps running (weak fairness), and a weak
  compare-exchange that is tried again and again with agreeing pointers
  succeeds in the end (strong fairness on success). The number of enqueues is
  bounded, so contention is; without that the loops are only lock-free.
* Pool: workers and the owner keep running and tasks end. Nothing makes the
  owner submit or destroy, and no spurious wakeup is relied on.
* File system: `poller()` polls in a loop, so running messages and completions,
  and its own return, are weakly fair. Callers are not.
* Loader: the SPDK thread keeps polling, and the RPC server, which the same
  thread polls, answers each request. The source relies on it: "there is no
  timeout in SPDK for any RPC command" (`json_config.c`, line 57). Connection
  errors may come at any time but are not relied on.
* Echo server: SPDK runs both pollers over and over, and clients read what
  arrives. Clients need not send, and no error is relied on.

## What is proved

For every set of threads or workers, every set of values or tasks, every size
of the descriptor table, every capacity and lifetime, every page and block
size, every set of configurations, every number of controllers and namespaces, every
finite set of clients and of texts, every buffer and send window, every choice of failures and every bound, from the assumptions named in the
modules that declare the constants.

The queue: `LockfreeQueue_proof` takes the steps that are no linearization
point first, then those that are, then the theorems and the refinement of
`FifoQueue`. `Inv` strengthens `Structure`, which is not inductive:
that `tail` moves along a link depends on what the thread moving it has read.
The history variable `pos` numbers nodes in the order of linking, and `Inv`
says of every thread, at each point of its call, where the pointers it holds
lie: at or behind `head` and `tail`, joined by a link that is never written
again (`EnqReads`, `DeqReads`, `EmptyReads`); that unlinked nodes belong to one
enqueuer each (`Allocation`); which of "empty" and "filled" each caller has
lived through (`Observed`). One lemma per action shows that `Inv` is kept;
actions that change only one thread's locals share `LocalStep`, and those that
move a shared pointer use `ReadsAreStable`: positions only grow, so what was
read stays true. From `Inv` follow `StructureCorrect`, `DestructorCorrect`,
`PointersAdvanceCorrect` and `LinearizableCorrect`: an enqueue takes effect
when its node is linked, a dequeue when `head` moves, an empty answer at a
moment recorded in `seen`. The last theorem assumes `~MoveClears`;
**queue_move** shows why.

The pool: in `ThreadPool_proof`, `Inv` says that what was started followed by what is
queued is what was accepted, that what was started is running or finished, and
that workers exit only a stopped pool with an empty queue. With nobody running
when `join` has returned, `DestructorRunsAllCorrect` follows.
`NobodySleepsCorrect` is proved by an induction of its own on top of `Inv`.
`NoLostWakeupCorrect` counts: a queued task has a worker that is awake or
notified (`Coming`) or a notification its submitter has not sent yet (`Owed`).
`Counts` says how one worker entering or leaving `Coming` changes its size, and
`WakeupStep` that no step takes one without the task or the notification.

The cache: in `LRUCache_proof`, `IInv` says, as long as no erased node was
misread, that the map has the keys of the list, each of them once (`Distinct`);
that the list is a subsequence of `recency`, all keys in the order of their last
use (`Embeds`); that each node has the value and the expiry of the latest put
(`Remembered`); and that every key without an entry was never put, has expired,
or has `Capacity` keys before it in `recency` (`Excused`). `Embeds` is what makes
eviction right: the node at the end of a full list is at least `Capacity` places
down in `recency`. `clean_expire`, `splice` and `pop_back` each leave a
subsequence of the list (`Sub`), and one lemma says that subsequences keep what
`IInv` says. What the loop of `clean_expire` leaves is found by induction on
the nodes it has passed (`Left`). From `IInv` follow `MapMatchesListCorrect`,
`SizeBoundedCorrect`, `HitIsLatestCorrect` and `MissHasReasonCorrect`. The last
assumes that -1 is no value: for a cache that holds -1, a hit with it looks like
a miss.

The file system: in `MyFS_proof`, `IInv` adds to the type invariant what the
properties leave open while a call is in progress. `Shape` says what the call,
its message and its requests are numbered with; `OneAtATime` that before a
`poller()` gave up there is the message, or one request, or the done flag, and
never two of them; `TableOK` that the descriptor and the file being handed out
or given back are nobody else's; `BlobOK` that a `creat` that is done has passed
the open of its blob, and that nothing that closes a blob is under way while a
descriptor stands for it; `SetupOK` that only `myfs_destory` leaves the flag
`initilized` without a file system. All completion callbacks have one form
(`CompletionForm`), so that each conjunct is shown once for all of them. From
`IInv` follow `DescriptorsAreDistinct`, `RequestsStayInTheirCall`,
`CreatedFilesHaveBlobs` and `FirstSetupIsNotReentered`.

The loader: in `JsonConfig_proof`, `Phases` says what may be outstanding before,
during and after the life of the context: while the loader is live exactly one
of the posted message, the response and the initialization; when it is freed
nothing, unless a connection error freed it. `Calls` counts the callback.
`CallsBackOnce` and `OneAtATime` follow. For `SendsThePlanCorrect`, `Position`
says what the walk has come to by what is outstanding: everything planned before
the cursor is sent and nothing behind it (`Done`). A configuration may be any
sequence of subsystems with any sequence of entries.

The slab: in `Slab_proof`, `IInv` says that there is a list of all free blocks,
each once, that starts at `first_free` and in which the pointer in each block is
the address of the next (`Threads`). Each operation makes a new list from the
old: `init_slab` that of all blocks, `alloc_slab` the tail, `free_slab` the list
with the block in front. `FreeListIsExactCorrect` adds that following the links
gives this list, by induction, and that it has no more than all blocks, by
counting; `WritesStayInFreeBlocksCorrect` is part of `IInv`. Beneath are facts
about bytes: that blocks do not overlap and lie in the page (`Apart`,
`BlocksInPage`), that the closing link begins where the remainder of the page
does (`Layout`), and that a pointer is loaded as it was stored while its bytes
are left alone (`LoadStored`, `LoadSame`).

The block device programs: in `NvmeOpera_proof`, `Placed` says which controller
and namespace an operation is on, `Commands` that there is at most one command,
that it is the polling operation's, and what it has done once it is completed;
`QueuePairs` counts them; `Order`, that a namespace is read once and after its
write, keeps a later write from belying what a read printed; `Lists` describes
the lists of the KV program. `OperationsCleanUp`, `ReadsAreTrue` and
`GlobalsCorrect` follow.

The servers: in `EchoServer_proof`, `Inv` adds three things to `EchoInOrder`,
which is not inductive. `Waiting`: what the kernel holds for `accept` are queued
connections, each once, so that a poller run that fails for one of them cannot
close or drop one that is open. `Bounded`: no more was received than sent, and
what a client has not read fits its send window, so that a `writev` takes
between none and all of a reply. And the sets of bytes that `Total` counts are
finite: `bytes_in` and `bytes_out` are sums over the connections, stated as the
size of a set, so that one callback adds what one client's part grows by
(`TotalGrows`) and no induction over the clients is needed. `ReplyFollows` says
what one callback sends: the bytes just received, of which the split in the KV
server changes only a space after a word of the same buffer, so never the first;
`EchoExtends`, that any beginning of it extends the stream the client was sent;
`ReadMoves`, that reading leaves that stream as it is. For
`OneLeakEndsAcceptingCorrect`, `Waiting` again: the connection that leaks was
queued, so it is not one that had leaked before, and the poller accepts only
while the listening socket is open; `NobodyYet` adds that nothing leaks before
the server serves.

Both induction proofs, over the nodes of the list and along the links, use that a
set of natural numbers has a least element (`Least`). Stated about sets and not
about operators, induction is within the prover's reach for functions that recur
on a number.

Only model-checked: all liveness, which is out of the prover's reach, and
everything about the trees. The tree modules are built from recursive operators,
which the prover does not handle, and so is what `ImplementsMap` compares; what
a search or a repair that goes along the pointers of any tree computes would
need induction over trees.

## Findings and known faults

Two runs contradict what the repository says of itself: **queue_move**, and
**bplus_bulk** in two ways. Further faults of the code are part of the models and are
named above: the erased node in the cache; late completions, `files[fd]`
outliving `close` and overlapping kernel descriptors, `open` without a blob,
and what is used after `myfs_destory`, in the file system; the connection error
in the loader; short writes, the listening socket closed for a failed connection, and the
token array and the missing NUL of the KV server; the closing link of the slab;
the ignored status in the NVMe program, and the last controller without a
namespace in the KV program.

## Not modelled

* Memory orderings weaker than sequential consistency, in the queue.
* Contents of blobs, blocks and messages beyond identity and order; requests
  and JSON as text. The KV server's commands are empty cases, so what follows
  the splitting of a message changes nothing.
* `lseek`, which returns 0; the blob demonstrations in `myfs.c` that are
  compiled out.
* An active namespace for which `get_ns` gives null, and a controller memory
  buffer that is too small.
* Printing and read-only traversals of the trees; a cache of capacity 0.
* `Sigleton/Singleton.cpp`, whose guarantee is that of static initialization
  in the language; the echo client, which the clients of `EchoServer` subsume;
  the test drivers, whose sequences of calls the runs of the trees include.
