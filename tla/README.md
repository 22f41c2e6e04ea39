# Verification of the REI-Network native binding

`src/` holds the C++ addons behind the REI Network client: a LevelDB binding
(`leveldb-binding/binding.cc`, a fork of leveldown), an EVM binding
(`evm-binding/binding.cpp`) over a trimmed aleth (`libaleth/`), and the
JavaScript that drives both (`src/src`).  This directory holds TLA+ models of
that code, TLC configurations that check them on small instances, and proofs
that TLAPS checks for every instance.

## Inventory

| Component | State it keeps | Operations | What makes it correct |
|---|---|---|---|
| LevelDB binding, lifecycle | `db_`, `priorityWork_`, `pendingCloseWorker_`, `iterators_`, `nexting_`, `isEnding_`, `endWorker_` | open, close, operations, iterator init/next/seek/end, finalizers, environment exit | close() runs alone, an iterator is used by one thread, nothing is used after it is deleted, every call is answered |
| LevelDB binding, iteration | position, `landed_`, `count_`, `cache`, `finished` | SeekToRange, Seek, ReadMany, `_next`, `_seek` | gives the range of the snapshot, in order, each key once, up to the limit |
| LevelDB binding, data | the map of keys | put, del, batch, chained batch, get, getMany, clear | batches are atomic, an answer comes from one moment, clear deletes what the range held |
| EVM binding | a State for each object | runTx, runCall, runMessage, genesis | the result depends on root and transaction only |
| account state | `m_cache`, `m_changeLog`, `m_unchangedCacheEntries`, `m_nonExistingAccountsCache`, warm sets, trie | balance, nonce, code, storage, kill, savepoint, rollback, commit, setRoot | rollback restores, commit writes what is seen, caches never lie |
| transaction execution | frames over the state, gas, refunds | initialize, call, create, go, finalize, revert | money is conserved, a failure costs its gas and nonce and no more, code is not replaced |
| gas and stake accounting | stake of each account, gas prices | fee callback, GasPricer | stake is used only while it is there |
| overlay databases | memory map with reference counts, auxiliary data, store | insert, kill, purge, commit, rollback | a committed node is readable; a refused write is retried |
| Merkle Patricia trie | nodes by hash | insert, remove, lookup, iterate | one root per content, references exact, iteration in order |
| worker threads | `m_state`, thread, condition variable | start, stop, terminate | no request lost, what a call promises holds when it returns |
| block verification queue | five maps and queues under a lock, `m_verifying` under another | import, tick, verify, drain, doneDrain | every block once, parents first, nothing left behind |
| transaction queue | current and future by account and nonce, priority, limits, LRU of dropped | import, drop, dropGood, setFuture, topTransactions | the containers agree, nonces without gaps, counts exact |
| chain and blocks | extras, index of numbers, blooms, caches, best block; pending block | import, reorganise, rewind, search, commitToSeal, sealBlock, sync, enact | best is stored with all it rests on, the index follows the head, a sealed block can be imported |
| sealing and mining | `m_sealing`, `m_onSealGenerated`, work packages of farm and miners | generateSeal, cancel, manuallySetWork, manuallySubmitWork, setWork, submitProof | a seal answers the work that is set, nobody waits for ever |
| codecs and crypto | a stream's list stack, a reader's last item | append, appendList, appendRaw, operator[], iterators | what was written is read |
| networking | headers and bodies by number, what is being downloaded and by whom, what each peer is asked | status, headers, bodies, new blocks and hashes, disconnect, drained | what is marked as downloading is asked of somebody |
| client | `m_preSeal`, `m_working`, `m_postSeal`, `m_sealingInfo`, three flags | doWork with its steps, importTransaction, submitSealed | no transaction is lost when the chain turns, a wake-up is not lost |
| precompiled contracts, log filters, small containers, chain parameters, legacy interpreter, key stores, json_spirit | | | see "Not modelled" |

How they interact.  JavaScript calls the LevelDB binding, which queues workers
on the libuv pool and calls back on the main thread.  `db.exposed` gives the raw
`leveldb::DB*` to the EVM binding, whose State reads its tries through OverlayDB
over it.  Executive drives State through savepoints and rollbacks and is driven
by evmone through ExtVM, each nested frame an Executive of its own.  A Block
owns a State and asks BlockChain for uncles and the head; BlockChain::sync
drains the block queue and hands bad blocks back to it; the farm's miners own
their threads (EthashCPUMiner) and hand their solutions to Ethash, which calls the
Block's owner; of the compiled classes only Client derives from Worker.
BlockChainSync fills the block queue with what its peers send; the client's thread
drains it into the chain, moves transactions between the transaction queue and the
blocks it works on, and has them sealed.  The chain, the queues and the farm are
compiled into libethereum; nothing in the bindings calls them.  The sync and the
client are in the tree and its `CMakeLists.txt` comments them out.

The hard behaviours.  Main thread against pool threads in the LevelDB binding
(close, end, next, finalizers, exit); nested savepoints over several caches in
State, and failures at any depth of frames; reference counts of shared trie
nodes over commits that fail; verifiers that finish in any order; a chain that
reorganises, crashes between its writes and is read meanwhile; two locks and
joined threads in sealing.  `PROJECT.json` lists the hazards at their lines.

## Modules

| Module | Models | Extends / instantiates |
|---|---|---|
| `Database` | lifecycle of `binding.cc`: workers, iterators, close, finalizers, exit | |
| `StoreSession` | what the database promises its user | |
| `DatabaseSession` | the refinement of the one by the other | `Database`, instance of `StoreSession` |
| `RangeIterator` | range options, seeks, read-ahead and JavaScript cache of one iterator | instance of `Cursor` |
| `Cursor` | what an iterator over a range promises | |
| `StoreData` | put, del, batches, get, getMany, clear over a map | |
| `StateJournal` | `State.cpp`, `Account.cpp`: caches, change log, rollback, commit | |
| `Ledger` | what State promises the executor: a map of accounts with saved copies | |
| `StateLedger` | the refinement of the one by the other | `StateJournal`, instance of `Ledger` |
| `Execution` | `Executive.cpp`, `ExtVM.cpp`, `EVMC.cpp` and the binding's run: frames, gas, refunds | |
| `FreeStaking` | the fee callback and the cache it reads | |
| `OverlayDB` | StateCacheDB and OverlayDB: counts, commit, rollback, reopening | |
| `Trie` | `TrieDB.h` with all references, `TrieHash.cpp` as the reference | `OverlayDB` |
| `RLP` | the stream, the prefixes, the reader | |
| `Worker` | `libdevcore/Worker`: start, stop and terminate of one thread | |
| `Listing` | sets as sequences, parts of sequences, without recursion | |
| `BlockTree` | a tree of blocks with numbers and difficulties | `Listing` |
| `BlockQueue` | the block queue, its verifiers, and BlockChain::sync around it | `BlockTree` |
| `TransactionQueue` | the transaction queue with its verifier | `Listing` |
| `BlockChain` | insertion, reorganisation, rewind, index, caches, crashes | `BlockTree` |
| `BlockBlooms` | blooms of the canonical blocks and the search in them | `BlockChain` |
| `PendingBlock` | `Block.cpp`: sync, execute, commitToSeal, uncommit, sealBlock, enact | |
| `BlockSync` | BlockChainSync, EthereumPeer, the packets of EthereumCapability, the queue and chain as far as the sync asks them | `BlockTree` |
| `ChainClient` | `Client.cpp`: the thread around the queues, the chain and the blocks it works on | `BlockTree` |
| `Farm` | Ethash, GenericFarm, GenericMiner, EthashCPUMiner | |
| `FoldFacts` | what holds of a fold or a sum, if each turn keeps it | instances of it in the proofs |
| `BlockTree_proofs` | facts about `BlockTree` and `Listing` | |
| `Leveldb_proofs` | theorems about `Database`, `DatabaseSession` and `StoreData` | |
| `Chain_proofs` | theorems about `BlockChain`, `PendingBlock`, `BlockSync` and `BlockQueue` | `BlockTree_proofs` |
| `Threads_proofs` | theorems about `Worker`, `Farm`, `ChainClient` and `TransactionQueue` | `BlockTree_proofs` |
| the other `*_proofs` | theorems about the module they name | |
| `MCBindings`, `MCNode`, `MCThreads` | several components in one state graph | the modules above |
| the other `MC*` | constants for one module | |

`MCBindings`, `MCNode` and `MCThreads` put components side by side that share no
variable: a variable `part` says whose behaviour it is and the others stay in
their first state.  The state graph is the sum of theirs, and each property is
checked on the part it speaks of.

### Database

One variable per C++ field or JavaScript status; one action per Node-API call
(`DbOpen`, `DbClose`, `DbOp`, `IteratorInit/Next/End`, `SeekBegin/Return`), one
per worker stage (`Start`, `Finish` for DoExecute, `DoComplete` for the callback,
`DoFinally`), one per finalizer and for the exit of the environment.  Workers
are named by kind and owner.  User code can run when the main thread is idle or
inside a callback, which is how `next()` can be called again before `DoFinally`
of the previous one.  `PriorityWorker` operations are one kind: they differ in
data only, and `StoreData` has the data.  `end()` on an iterator that `close()`
is already ending does nothing and drops its callback, as the code does;
`CallsAnswered` speaks of the `end()` that creates the EndWorker.

Not in the model, because abstract-leveldown and levelup do not pass them on: a
second `close()` before the first is answered, and `close()` during `open()`.
`OutlivesUse` says that leveldb, its block cache, the Database and the iterators'
objects outlive all that can reach them, a next() that is queued or executing
included.  It is checked without read errors: with them it is false, because a
next() that is retried from the error callback may reach a leveldb that close() has
deleted (finding `retry_after_read_error`).
The raw pointer that `db_expose` (`binding.cc:1038`) hands out is left to the
order in which the user closes databases and runs transactions.

`StoreSession`: requests are accepted only while open, the store goes away only
when all are answered.  `DatabaseSession` maps the phase to `db_` with the
JavaScript status, and the pending requests to the operation and next workers
that have not reached `DoFinally`.

### RangeIterator and StoreData

In `RangeIterator` keys are numbers and the snapshot is a set of them.
`options`, `pos`, `didSeek`, `landed`, `count` are the fields of `BaseIterator`
and `Iterator`; `cache` and `finished` those of `iterator.js`.  `ToRange`,
`ToTarget`, `ToEnd` are SeekToRange, Seek and SeekToEnd; `ReadMany` is its
loop.  The leveldb iterator is external: moving it when it is off its entries
gives `Undefined`.  `next()` with its worker and callback is one step, because
abstract-leveldown admits no second call in between; what `close()` and `end()`
do meanwhile is in `Database`.  Left out: values, encodings, the byte size bound
of a batch (any batch size up to `MaxBatch` is possible instead), `gt` and `gte`
given together (SeekToRange looks at one of them only), and seek() to a target
outside the range of an empty database, which moves leveldb's iterator from
nowhere (`binding.cc:830`).

`Cursor` is a set of keys that are left, a direction and an allowance.  Left are
those in the cache and those ahead of `pos`; the key at `pos` too, when the limit was
met there (`Passed`).  It lets
`seek()` lose from the limit the keys that were read ahead and not given: the
code counts what it reads, not what it gives.

In `StoreData` an operation is called, executes on a pool thread and is
answered; getMany and clear take their snapshot when they are called (the
constructor of the worker) and read or delete one key at a time.  `MomentIsKept`
is about getMany (every answer comes from the moment of the call) and clear (it
deletes all that its range held then, and an error half way leaves a prefix of
it deleted).  What the model shows besides: clear() may delete a key that was
stored again after the call, and two queued writes may execute in either order.
A chained batch that is used after close() is left to levelup.

### StateJournal

One action per method of State that changes it: `Read`, `ReadStorage`,
`AddBalance`, `SubBalance`, `IncNonce`, `SetNonce`, `SetStorage`, `ClearStorage`,
`SetCode`, `UnrevertableTouch`, `AccessAddress`, `AccessStorage`, `Savepoint` and
`Return`, `Revert`, `Abort` (rollback), `Commit`, `Drop` (a call's result thrown
away), `SetRoot`.  `Access` is `account()` with the random purge, an existential over what
is purged.  `AccountAt` undoes log entries in the reverse order, as rollback()
does, and includes that rollback() itself fetches accounts.  Balances wrap at
`Modulus`.  The guards say how Executive and ExtVM use State: nonce, code and
storage of a new contract are set only during its creation, a contract that
stores exists, a sender that only has its nonce raised is not empty.  They admit
more than Executive does (creation may end at any point).  Left out: upgrade
messages, genesis, stake and code versions.  A storage trie is the function it
stores.

`Ledger` has no caches, log or overlays: a save is a copy of the world, a restore
puts it back.  `StateLedger` maps what is committed to the trie as far as it can be
read (an account whose code is not stored cannot), the world to what `account()` finds, and the
copies to what undoing the log down to each held savepoint would bring back, so
the refinement says that no later operation disturbs what a savepoint stands
for.  `Ledger` allows what the code does with an unrevertable touch
(`State.cpp:588`): `m_unrevertablyTouched` is never cleared, so a touch in a
dropped run removes the empty account in a later commit of the same State.

### Execution and FreeStaking

`Execution` is one run of the binding at a time: `Begin` (a transaction, a call
or a message with its checks), then one action per thing the code of a frame can
make evmone ask for (`Call`, `Create`, `Store`, `SelfDestruct`, steps that cost
gas), the return or failure of a frame, and `Finalize` with the refunds, the
unused gas and the selfdestructs.  A frame is a record with its address, gas,
savepoint and substate; the bytecode is any sequence of these actions.  State is
what `Ledger` promises: accounts, and saved copies.  A message's `isStatic` is
not a part of a frame: `Executive.cpp:201-211` builds the parameters without it, so
that such a message may write, and it is looked at only at the end, when the binding
chooses what it keeps.  `NetMetering` chooses between the two branches of
set_storage's refunds (`ExtVMFace.cpp:46-100` and `101-130`); TLC checks the first,
the proofs hold for both.  Facts of the model:
accounts that are empty and absent are not told apart (the rules after EIP-158),
an account has one storage slot, CREATE and CREATE2 addresses may collide in the
instance TLC checks (so that `CodeIsNotReplaced` meets an occupied address), and
evmone is external.  Seen in the code while translating it, with no property:
an upgrade message takes a contract with an empty storage root for one that does
not exist, and charges all its gas for one that does (`Executive.cpp:433`); an
internal error of the VM in a nested frame, and an exception in a loader's
callback, end the process; a wrong argument sets a JavaScript exception and the
C++ goes on; block hashes from the fork on (`ExtVM.cpp:190`) run a nested
transaction on the same State, which no default parameter enables.

`FreeStaking` is the callback of the estimate_fee contract
(`Executive.cpp:255`) with the cache of `State.cpp:197`: it keeps a reference
into `m_cache` over two lookups.  The model purges at any fetch; the code only
above 1000 unchanged entries.

### OverlayDB, Trie and RLP

`OverlayDB` keeps `m_main` with its reference counts, the store and the write
batch that is being committed.  A store may refuse a write; the next attempt
finds the batch gone (finding); after the last attempt the process exits, and
`Reopen` is the next one.  `Trie` is every edit of `TrieDB.h` as functions from a
set of references to another: `Place`, `Graft`, `Merge`, `Cleve`, `Branched`,
`MergeAt`, `DeleteAt` with the nodes each kills, forces or streams, small nodes
inlined and large ones referred to.  A node stands for its hash.
`RootIsCanonical` compares the root with what `TrieHash.cpp` computes from the
content; `NodesAreKept` says that the counts in memory are exactly the
references from the root, and that each committed root can be read in full,
after a refused commit, a rollback or a restart; `IteratesInOrder` compares
iteration from any key with the sorted content.  Restrictions: values of at most
32 bytes; no removal of an absent key that others extend (State does not do it);
the empty root, which nothing holds, is spared; `MaxNibble` is 1, so a branch
has two children.  rollback() forgets `m_main` and keeps `m_aux`
(`OverlayDB.cpp:103`), so that auxiliary data of a dropped block is written by
the next commit: harmless for preimages, and so no property.

In `RLP` bytes are numbers below `Base`; with `Base` 16 and lengths of at most
two bytes all eight forms of prefix occur within 16 bytes.  A list's prefix is
put in when its last item is there and may complete the list around it
(`NoteAppended`).  `EncodingIsRead` says that the reader gets the tree that was
appended, by iterators and by `operator[]` whichever item was read before, and
that it refuses none of it.  Seen in the code, on input no stream wrote:
`operator[]` sets `m_lastItem` before sizeAsEncoded may throw (`RLP.cpp:84`), so
that after an item that cannot be read the one before it is refused too;
on a string it looks into the payload, where `RLP.h:119` says "or RLP()
otherwise".

### Worker and Farm

In `Worker` a critical section under `x_work` is one step; what the worker thread reads
without the mutex (the head of its loop, `shouldStop`) is a step of its own.
`thread` is where the worker thread is, `pc` where each caller is.  A wait ends
when somebody notifies after it began.  With `SelfEnds` the work may end before
it is asked (it threw, or a workLoop of a derived class returned).  With `Serial`
a call is made only when no other is under way.  That is an assumption about the
callers, and the code does not see to it.  Only Client derives from Worker:
terminate() is called in its destructor, the other two by its constructor,
syncQueue(), reopenChain() and prepareForTransaction(), the last on whatever thread
submits a transaction, and `Worker.cpp:107` expects a second terminate().  Without
`Serial` TLC refutes `CallersCanRely` and `CallsReturn`: a terminate() is overwritten,
since the worker looks at `m_state` without the mutex and sets Started under it
later; a second terminate() returns while the first still joins; stopWorking()
returns while another caller's start is about to begin work; and one that waits
misses its moment, because another call moves `m_state` on.  A startWorking()
that comes just after the work has ended by itself, before Stopped is set, does
nothing (`Worker.cpp:21`).

`Farm` has the threads that call Ethash (generateSeal, cancelGeneration,
submitEthashWork, getWork) and the miners, with `m_submitLock`,
`x_minerWork` and each miner's `x_work` taken and released where the code does;
joining a thread is a step that waits for it.  `SolutionsHoldNobodyUp` is
liveness: a miner with a solution and a thread that stops it do not wait for
each other over `x_minerWork`.  They do over `m_submitLock`, which is the
finding; the property therefore assumes that generateSeal() comes to an end.
getWork() writes `m_sealing` without the lock (`Ethash.h:92`) and may do so at any
time, inside the handler of a solution too: `replaced` says that it did so between
the verification and the encoding of the seal (`Ethash.cpp:33-39`).  `SealIsSolved` says
that what is handed to the owner of the block is a header with the solution that
was verified for it, and that only such a write makes it anything else, which is then
a header without any solution.
A miner resets its work after its solution was taken (`GenericMiner.h:126`), without
asking whether it has been given other work since.  That wipes the header and leaves
the boundary, so the miner goes on to hash for the zero header, and what it finds is
refused.  `MinersFollowFarm` forbids old work and allows this loss of new work.
Seen besides: a second seal of the same work, and onSolutionFound({}) of
`Ethash.cpp:50` against running miners.

### BlockQueue and TransactionQueue

`BlockQueue` has a state for each container of the code and one action per
critical section: the verifiers take, verify and finish in any order; bad blocks
take their descendants with them; `drain` and `doneDrain` are called by
BlockChain::sync, which is modelled with them (`SyncOne`): it imports a block,
finds it bad, or drops it with no more than a log line (`BlockChain.cpp:543-553`).  The
latter happens to a block of the future (`FutureTime`; the queue lets a future block of
our own pass, `BlockQueue.cpp:195`) and to one whose execution meets a
`TransientError`; `Shaky` are the blocks that may meet one.  clear() comes
at any time, between drain() and doneDrain() too, since restartSync
(`BlockChainSync.cpp:874`) and rewind (`Client.cpp:855`) call it on other threads than
the one that syncs.  `strayed` are the blocks that
sync() was given and that nothing accounts for any more: dropped, or in a batch
that was there when the queue was cleared.  `SyncedInOrder` says that a block comes to
sync() after its parent, which is imported, bad or strayed, and that nothing is verified
that descends from a bad block, unless that one strayed.
`ClearBusy` FALSE keeps clear() from running while a verifier works, which the code
does not guarantee: with TRUE TLC refutes `ReadyIsQueued`, since the verifier puts its
block back.  Left out: retryAllUnknown() and the
public noteReady(), which nothing calls, stop(), and totals.  Of the totals:
SizedBlockMap::insert adds a block's size after moving it away, so that `m_size`
wraps on removal, and `m_difficulty` counts a future block twice.

In `TransactionQueue` a transaction is an account, a nonce and a price;
`m_current`, `m_currentByAddressAndNonce`, `m_currentByHash`, `m_future`,
`m_futureSize`, `m_known` and the LRU of dropped ones are kept as in the code.
The order of `m_current` is not claimed: its comparator depends on
`m_currentByAddressAndNonce` (`TransactionQueue.h:159`), so that taking out an
account's first nonce changes the order of elements already placed, and TLC
refutes that the multiset stays sorted.  Seen besides: `m_known` keeps the
hashes of future transactions that were replaced or evicted; drop() of a future
transaction leaves it queued; dropGood() and makeCurrent can exceed `m_limit`
until the next import; callbacks run under `m_lock`.

### BlockChain, BlockBlooms and PendingBlock

`BlockChain` splits insert() at its two writes to the database and the write of
"best", with a crash possible between any two and readers that look up a number
between the database and the cache, at any step of an import or a rewind.  queryExtras
inserts what it has read without having held the lock (`BlockChain.h:341`), so a stale
hash may come into the cache after the import has cleared it.  `late` marks a look-up
that an import or a rewind has overtaken, and `overtaken` are the numbers at which
the cache has what a late reader put there.  `CacheFollowsIndex` says that the cache
is stale at no other number, at every step; the stale hash itself is a race of the code
that the model has, and no property forbids it.
After a crash between the extras and "best" the index leads to the other branch, and so
it may after a rewind to an overtaken number, which takes the new head from the cache
(`torn`); `IndexFollowsHead` says so explicitly.

`MCNode` checks readers together with imports, rewinds and crashes (part "chain"), and
blooms with everything but readers (part "blooms"): the two touch none of each
other's variables.

`BlockBlooms` adds the levels of blooms with their chunks, garbage collection,
clearing and the search.  Clearing is in memory only, so stale bits stay in the
database and give false positives, never misses.  The importing thread is the
one that collects: a collection in the middle of an import, or a reader held up
over several collections, would lose blooms.  Seen besides: withBlockBloom's
`index <= ceilDiv(_latest, u)` (`BlockChain.cpp:1375`) looks at one more chunk
and can give numbers above `_latest`; clearBlockBlooms writes without the lock;
a crash before "best" can lose blooms of the old branch; `upow` is right for
exponents up to 2.

`PendingBlock` is a Block from reset to seal, with its State as the pair of what
it executed and what was committed to seal.  `Forks` stands for what is done to
the state at a block number (irregular modifications, the block-hash contract).
`CopyCommitted` FALSE: no copy of a block that is committed to seal
(`Block.cpp:68` copies the flag without the state before, and rewards would be
put on twice); `SameRoot` FALSE: no header that repeats its parent's state root
(`Block.cpp:608` does not compare then).  Seen besides: sync with the
transaction queue tries a failing transaction again until its deadline and then
says there is more (`Block.cpp:290`); uncommit comes before verification
contrary to the comment at 631; headers are compared without their seals.  Left
out: populateFromChain, receipts, rebuild and rescue.

### BlockSync

All handlers of BlockChainSync run under `x_sync`, so each is a function of one
record, `sync`, with a field for each member, and an action is a packet or a
callback that applies one: `Status`, `Answer` (headers or bodies, as many as the
peer has or none), `PeerMoves` (a new block, a new hash, or no word),
`Disconnect`, `DrainOne`, `ImportOne` and `Resume` (the drained handler's posted
continueSync()).  `m_headers` and `m_bodies` keep their chunks as functions: a
chunk is a run of numbers in the domain.  `Body(b)` is what `HeaderId` tells
apart, and two blocks may share it.  The queue and the chain are inside the
record, since the sync asks and clears them in its handlers; the queue is
drained one block at a time.

`DownloadsAreAsked`: a number that is marked as being downloaded is one that a
connected peer has been asked for and has not answered.  It is about restarts,
disconnects and late answers in any order; invariants() of the code compares
only whether the two records are empty.

Left out: the DAO challenge, peers of another network, blocks from the future, a
full queue of unknown blocks, and the ratings and bans of peers, which end in
`Disconnect`.  With DEV_INVARIANT_CHECK a handler may throw besides.

Seen while modelling, and confirmed by TLC with other constants: the common
block is taken to be found as soon as the search is at block 1
(`m_haveCommonHeader`, `requestBlocks`), so that a node on a fork that begins there
never leaves it; a sync that waits for a full queue is never resumed when a bad
block empties the queue; "Header is too old" of invariants() is violated when a
block is imported while its header is still held; headers that come before the
common block is known are not checked to be a chain.  Seen in the code: clearing
the headers after a strange one erases the id of the new header and not theirs
(`BlockChainSync.cpp:559`); what is noted as being downloaded is not always what
is asked for; the posted continueSync() sets Blocks after a reset too; after a
restart nobody is asked until something comes from outside; the peer is copied
before its status is requested (`EthereumCapability.cpp:615`); removeItem drops
all of the chunk from the item on.

### ChainClient

`doWork()` is a round of steps, and `stage` is where it is: `SyncBlockQueue` with
`DrainDone` and `AfterDrain` (the answer of doneDrain() is taken and written in two
steps, so that a block that gets ready in between is seen to be overlooked),
`OnDeadBlocks`, `DropGoodTxs`, `OnChainChanged`, `ResetIfNeeded` and `HasReset`,
`SyncTransactionQueue` and `Execute`, `RejigSealing`.  Between any two of them a
block may get ready, a transaction come in or a sealed block be submitted.  The
chain is the tree of blocks with a head, the queue of blocks a sequence, the
transaction queue two sets (`TransactionQueue` has it in full), and a block that is
worked on is what it is on and what it has executed.  `isMajorSyncing()`,
`shouldSeal()`, the gas price and the time are choices of the step that asks.  Left
out: getWork, a change of author, rewind, clearPending, reopenChain, filters and
watches, and the limits of the queues.

`TransactionsAreKept`: what was taken in is queued or on the chain, it or one that
outbid it, or in a dead block that is about to be taken in again.  `accepted` is
what was taken in.  `misled` excepts a loss that the code has: the route of an
import names the block's transactions as good even if the block ends up beside the
chain (`BlockChain.cpp:1029`), and onChainChanged drops them from the queue as soon
as another block of the same drain becomes the head.  Without the exception TLC
refutes the property.

Seen in the code: `m_syncBlockQueue` and `m_syncTransactionQueue` are overwritten
with the answer of a call, and `m_needStateReset` is cleared after the reset, so
that a wake-up in between is lost; setAuthor() restarts mining from its caller's
thread while the client's thread works on the same blocks; a sealed block that the
queue refuses leaves `m_working` sealed until the chain changes; the resync is
skipped while a major sync is under way.

## Runs

| Run | Parts and bounds | What it shows |
|---|---|---|
| `bindings` | leveldb: 2 operations, 2 iterators, read errors. range: 4 keys, every snapshot, bounds, direction, limits -1, 0, 1, 3, batches of up to 3. data: 2 calls at a time, versions 0 and 1, a delete and a batch of a put and a delete, clear from either side with a limit. evm: signer, contract, new address, precompiled contract, 4 frames, 3 instructions, 1 run, gas and amounts up to 1, net metering | `PriorityWorkCounts`, `PendingCloseIsServed`, `ExitLeavesNothing`; `MovesFromEntries`, `ImplementsCursor`; `MomentIsKept`; `MoneyIsKept`, `RefundsFollowStorage`, `NonceIsUsedUp`, `FailureOnlyCosts`, `CodeIsNotReplaced` |
| `database_live` | 1 operation, 1 iterator, no read errors, fair | `CloseRunsAlone`, `OutlivesUse`, `IteratorUsedAlone`, the session refined with its promises, `CallsAnswered` |
| `state_journal` | 1 address, 1 slot, 1 code, balances modulo 2, 2 log entries, 2 savepoints, every root | `JournalIsGrounded`, `ImplementsLedger` |
| `state_purge` | 2 addresses, 1 log entry, 2 savepoints | `CachesFollowTrie` |
| `node` | trie: 4 keys, 2 values, every starting content, 2 edits, a commit. transactions: 4 of 2 accounts, limits 2 and 1. blocks: 1-2 and 3-4-5 with an invalid, an unsound, a late one and one that may meet a transient error, 2 verifiers, 5 imports. pending: 1 transaction, 4 blocks, a fork. chain: the same tree, 1 reader at any step, 1 crash, 1 rewind. blooms: 2 levels of 2, without readers. rlp: 4 items. sync: 2 peers, one header or body to a request, 3 moves, a block that does not verify. | `RootIsCanonical`, `NodesAreKept`, `IteratesInOrder`; `QueueIsConsistent`; `ReadyIsQueued`, `SyncedInOrder`; `StateFollowsTransactions`, `SealedIsEnactable`; `BestIsStored`, `IndexFollowsHead`, `CacheFollowsIndex`, `SearchFindsAll`; `EncodingIsRead`; `DownloadsAreAsked` |
| `threads` | worker: 2 callers in turns, `SelfEnds`. farm: 2 callers, 2 miners, 2 headers, 2 calls, 2 finds, getWork() at any time; both fair. client: 1-2 and 3, 1 sealed by the node, 3 transactions of 2 accounts, 2 blocks to a drain | `CallersCanRely`, `CallsReturn`; `MinersFollowFarm`, `SealIsSolved`, `SolutionsHoldNobodyUp`; `TransactionsAreKept` |
| `retry_after_read_error` | 1, 1 | finding: a next() retried from the error callback escapes close() |
| `seek_after_end` | 1, 1 | finding: seek() on an ending iterator races the EndWorker |
| `overlay_retry` | 1 edit, 10 attempts | finding: no retry of a refused commit can succeed |
| `block_queue_stall` | 3 blocks, 2 on 1 and 3 alone, 1 unsound | finding: finished blocks are left in m_verifying |
| `farm_deadlock` | the farm of `threads` | finding: generateSeal() waits for a miner that waits for it |
| `stake_reference` | a staker, and a contract that is config and fee manager | finding: a purged account's stake is read |

Why the bounds are enough.  Two of each slot let an operation and an iterator be
at different stages while another pair keeps the count above zero; slots are
reused, so these behaviours are not bounded in length, and the proofs remove the
bound.  Four keys leave one on each side of a range with two inside it, and
batches of three with limits of two let the limit, the batch and the range each
end first.  Two calls on data are a reader and a writer, or two writers, at every
relative speed.  Four frames put a failure above, below and beside a success;
amounts of one already pay, receive and return.  One address is where the
entries of a change log interact (every entry names one address), two savepoints
are a run and a call that is reverted in it, two entries are the pairs whose
order matters; fetching one account purges another, so purging has its own run.
The four keys of the trie part at their last nibble, at the first, and one
extends another, so that every shape of `TrieDB.h` occurs, and every content is
a starting point for two edits.  Two branches, each heavier in its turn, make
the chain reorganise forward and back, and a block with three in its branch has
blooms on both levels.  One transaction below and one above a limit of two, and
two nonces of one account, give each move between current and future.  Two peers
on different branches, and one header or body to a request, have each other's
numbers, gaps and restarts, and a block that does not verify cuts a branch that
is being downloaded.  Two callers of a worker are one more than there are in a
call at a time.

Deadlock is not checked: in every run the system may stop, after the environment
has exited, when a bound is reached, or because nobody calls.  That what was
called goes on is what the liveness properties say.

Fairness.  `Database`: a queued worker is started and finished (libuv's pool is
FIFO), a finished one is completed and finalised (the event loop is FIFO; strong
fairness because the main thread is shared and callbacks can seek), a seek
returns.  `Worker`: threads are scheduled, and the work ends once `shouldStop()`
says so; work that is still wanted may go on for ever.  `Farm`: threads that can
go on do; finding a solution is not fair.  User calls are never fair: nobody has
to call anything.  In `threads` both fairness conditions hold of every behaviour;
the part that stands still is in its first state, where no fair action is
enabled.

## Findings

- `binding.cc:1908`: `nexting_` is cleared after the callback of next() has run;
  a next() made in it is not waited for by end() or close().
- `binding.cc:1770`: seek() on an ended iterator throws and then seeks.
- `OverlayDB.cpp:67`: the retries of a commit pass a batch that was moved away.
- `BlockQueue.cpp:287`: removing a bad block at the front of `m_verifying` leaves
  the finished blocks behind it there.
- `Ethash.cpp:162`: generateSeal() holds `m_submitLock` while it joins a miner
  that wants it.
- `Executive.cpp:263`: a reference into the account cache is used after lookups
  that may purge the account.

## Proofs

`Leveldb_proofs`, about `Database`: `CountInv` (types, exact priority count, who may be where) is
inductive for every `Op`, `Iter` and whatever errors occur.  Cardinality facts
tie the counter to the sets.  `SafetyInv` adds how
`nexting_` matches the NextWorker in flight, when an EndWorker may be held, and
what a live iterator implies about `db_`; with no read errors and no seek on
ending iterators it is inductive, and the safety properties follow from it.
`CloseRunsAlone` alone is not inductive: it needs to know that each live
iterator is attached, each attached one counted, and each operation counted.
`NothingUsedAfterItsEnd` says it of leveldb, its cache and the objects of JavaScript,
and rests on one theorem for the store, one for the Database object and one for the
iterators' objects, all with these two hypotheses.  `DatabaseIsASession`: initial
states map to initial states, each step to a step or a stutter, from the same
invariant.

`RangeIterator_proofs`: `MoveInv` says that an iterator that was landed and is not
finished stands on a key of its range, so that moving it first and looking after is
safe (`EntriesAreLeft`).  `CursorInv` adds that the cache leads, in order, what is
unread, and what `finished` means for it; under it every action is one of `Cursor`
(`RangeIsACursor`).  The loop of ReadMany is a recursive function of its turns:
`TurnByTurn` makes of a fact about one turn one about a read of any batch size, from
the well-foundedness of `<` on the naturals.  `RangeIsACursor` has a hypothesis,
at most one bound at each end.  It is needed: with `gte` below `gt` SeekToRange goes to a
key that is out of range, where the iteration ends before it began.  The proof found
that the mapping used before was wrong for limits above 2 (it took the key at which the
limit was met for given); the run now has limit 3.

`Leveldb_proofs`, about `StoreData`: clear() reads and deletes batch by batch while others write, so what
it has deleted at some moment is no set one could name beforehand.  `ClearInv` says that
it is a front of the range in the order of the iteration, that `count_` is its size, and
that just the rest of the range is ahead of the iterator; then the end of the iteration,
or the limit, makes the front all that should be deleted (`FrontIsAll`).  Where the
iterator starts and moves to is cited from `RangeIterator_proofs` with the variables of
the ClearWorker put in, and with the hypothesis of `RangeIsACursor`.  For getMany() it is
enough that what it has read agrees with the view of its call.

`Threads_proofs`, about `Worker`, assumes `Serial` and nothing else: any set of callers, work that
may end by itself.  `TurnInv` says that one caller at most is in a call, that a
request in `m_state` (Starting, Stopping, Killing) has its caller waiting, and
what `m_state` can be at each place of the thread.  It is needed because the
thread may set Started only when a Starting is held by a caller, who excludes a
terminate().

`Execution_proofs` follows the sender's account through a run: in the state, in
every savepoint that is held and in every substate its nonce is the used one and
it has no code (`SenderIsUsed`).  A failure of any frame goes back to a savepoint
of which that is known, and a failure of the run to the outermost one, so that
`FailedRunsOnlyCost` holds for any depth, bytecode, set of addresses and
schedule of gas.

`Execution_proofs`, about money: a frame that fails goes back to its savepoint, and
drops what it destroyed, its refunds and its gas, so what is said of the state now
has to be said of every savepoint, with just the frames outside it counted.  It holds
with and without net metering.
`Accounted` says it of a state: nobody owes, it holds no more than the transaction
began with, less what was paid in advance, and exactly that if nobody destroyed
itself, and the frames have earned enough for all storage that is cleared.  `MoneyInv`
is that of the state (`Going`), of each savepoint with the frames outside it
(`Stacked`), and that the frames share out the gas that was paid for (`Within`).
`MoneyKept` and `RefundsFollow` follow.  Here `MoneyAssumption` is used: leaving a
slot as it is costs no more than setting or clearing it, as in each EVMSchedule;
refunds are not negative; and in the states at first nobody owes, and a contract with
code or storage has a nonce, as creations leave it.

`CodeStays` needs that no two frames that create are at one address, and that an
address at which a frame creates has no code before the frame halts (`CodeInv`).  A
creation gives its account a nonce before its code runs; all savepoints of the frames
inside it have that nonce, and it keeps others from creating there.  An upgrade is excepted, as
in the property.

`FoldFacts` says of FoldLeft, FoldSet, a maximum and a sum what holds of the result,
if it holds of the base and is kept by each turn, and how a sum changes with one of
its terms.  The operator and the fact are CONSTANTS of the module, so that a proof
takes an instance with its own; the induction is over the number of elements, by the
well-foundedness of `<`.  No theorem with an operator as a parameter is cited.

`Chain_proofs`, about `BlockChain`, uses branches as the smallest sets closed under parents, so
that no induction over the length of a chain is needed.  Its invariants are
layers: what is stored (`StoredInv`), what is cached (`CachedInv`), and what
holds while a reorganisation turns the index from one branch to the other
(`TurningInv`).  Readers look up and cache at any step: `CachedInv` says of a look-up
that is not late, and of a cached number that is not overtaken, that it is what the
index has, and that a late look-up can only make its number overtaken.  No hypothesis
is left.

`Chain_proofs`, about `BlockSync`: the sync notes what is downloaded twice, as a set of
numbers (what nobody else should be asked for) and as the numbers of each peer (what
to give back when it answers or leaves).  `SyncInv` says that every marked number is
noted for a peer that is connected and asking.  Each handler does several things to
the two records before it ends, so the lemmas say, function by function, what is
marked but not noted in between (`NotedBut`).  Peers are finitely many, since
continueSync() goes over all of them.

`Chain_proofs`, about `BlockQueue`: `Orderly` says that the three queues, seen as one line,
have every block once and behind its parent, which is in the line, in the chain, being
drained, strayed or bad; that `m_readySet` is what the line holds; that nothing in it is unknown, and that
nothing verified follows on a bad block that has not strayed.  This has to be kept by the fold that hands
on what is finished, by the one that collects what waited for a block, and by the one
over all that sync() found bad.  What updateBad collects is defined as the smallest
set that has all that goes with its members, and this is used both ways: all of it is
removed (the set is closed), and only what is bad or follows on something bad (it is the
smallest).  `AtWork`: a block a verifier has taken keeps its place or is known to be
bad, and no two have taken the same.  `InSync` follows a batch between drain() and
doneDrain().  The two theorems have the hypothesis that clear() finds no verifier at
work; without it TLC finds `ReadyIsQueued` violated, see above.

`StateJournal_proofs`: what rollback brings back depends on entries far below the
top of the change log, so no invariant about the present accounts is inductive.
`IInv` speaks of what is left of an account at every height that can still be
rolled back to: it fits the trie (clean, it shows what the trie shows; a code that
is not stored is marked new), and it is there and dirty wherever an entry below
changed it.  That is the reason why the purge of clean accounts, which happens
inside almost every operation, takes nothing from under the log.  The rest of `IInv`
is the order of the savepoints, `NonExistingIsRight`, the list that purging takes
from, and that every known trie's codes are stored.  Rollback is a recursion over the
log; it is reasoned about through the function that undoes entry by entry
(`Left`), whose equation is shown from the library's well-foundedness of `<` on the
naturals: a set of heights closed downwards has them all (`Downwards`).  Each kind of step
(exchange of a clean account, replacement by its like, one or two entries, a cut of the
log) has its lemma, which shows both that `IInv` is kept and that undoing still brings
back what it would have brought back.  `CachesAreRight`, `RollbackFindsAccounts` and
`CodesAreFound` follow from `IInv`.  Assumed are the constants' assumptions in the
module: `None` is neither an account nor an entry nor anything seen, and there are
slots.  TLC has checked `IInv` as an invariant of the two instances before.

`StateImplementsLedger`: under `IInv` the refinement mapping is plain, a world of what
each account shows and a copy for each savepoint of what is left at its height.
Every action of State is then an action of `Ledger` or a stutter, `Commit` and `Rollback` included, so
this holds for any number of addresses, slots, savepoints and
entries.

`Threads_proofs`, about `Farm`: what a call does to all miners is a loop that other threads see
between its steps.  `RoundInv` says of each kind of loop (work handed out, start,
stop, a solution found) what already holds of the miners it has passed, and that
the thread which runs it holds `x_minerWork`; with it `NobodyOnOldWork` is
inductive.  `SealsAreSolved` rests on who holds `m_submitLock` and, since getWork()
does not hold it, on `replaced` being set whenever it writes between verification and
encoding; it has no hypothesis.
Assumed of the constants is that callers, miners and rounds are different things.

`Threads_proofs`, about `ChainClient`: `Kept` says that what was taken in, or a rival that outbid
it, is queued, on the chain of the head, in the dead blocks of the route, or was given up
by a misleading route (`misled`).  `ClientInv` adds what the stages rely on: what is
executed is on the head, and the dead blocks have been given back before the good
transactions are dropped.  That the transactions of the old branch are those of the
new one and of the dead blocks is a fact about branches.  Assumed is that a block has finitely many
transactions.

`Threads_proofs`, about `TransactionQueue`: `Agrees` says of a queue that `m_current` lists
what the two indices hold, each once, that no two transactions in them or in
`m_future` have the account and nonce of one another, that `m_futureSize` counts
`m_future`, and that all of it is known, but for what an import has not noted yet.
The loops of makeCurrent and manageImport, which place, evict, free and trim one by one,
are folds that keep it; where makeCurrent places a run of future transactions the
fact also says which of them are placed so far.  A transaction may be put in at any
place that the multiset allows, so nothing rests on the order of `m_current`.

`Listing` is there for these proofs.  The provers do not know SelectSeq and
SetToSortSeq of the libraries, which are recursive.  `InOrder` lists a set by rank (a
member's place is the number of those that come before it), and `Without` and
`Selected` list the places that are picked.  `BlockTree_proofs` shows that what is
listed are all members, each once and in order.

`Chain_proofs`, about `PendingBlock`: `PInv` says what the pending block is at each stage, and speaks
of known blocks only; the chain only grows, so no import changes it.  Therefore what was
committed to seal stays importable however long sealing takes (`SealedIsImported`, if
no block is copied that is committed to seal: `CopyCommitted` FALSE), and states are
those of the transactions (`StatesFollow`, if also roots are not repeated: `SameRoot`
FALSE).  Ancestors are a recursive function of the generations and are reasoned about
by induction on their number.  That an uncle chosen by commitToSeal() passes the check
of enact() is arithmetic on the numbers of ancestors, and that there are two at most
a fact about strict total orders (`FirstTwo`).

Only model-checked: liveness (`CallsAnswered`, `CallsReturn`,
`SolutionsHoldNobodyUp`, the fair session), which is out of the prover's reach;
`RootIsCanonical`, `NodesAreKept` and `IteratesInOrder` of `Trie`, and
`EncodingIsRead` of `RLP`, whose definitions recurse over data of any shape
with RECURSIVE operators; and `SearchFindsAll` of `BlockBlooms`, whose chunks are
quotients by powers of 16 at every level, which the arithmetic of the provers does
not follow.  What `StateJournal`, `RangeIterator`, `StoreData` and
`PendingBlock` repeat over a log, turns or generations is a recursive function of a
number, and is reasoned about by the well-foundedness of `<`.

## Not modelled, and the plan

Not modelled, with the reason: precompiled contracts (number theory and hashing;
that one succeeds, fails or lacks gas is a choice in `Execution`); log filters and
chain parameters (small pure functions, constants and 27000 lines of genesis
data); the legacy interpreter, key stores and option parsing (not compiled); warp
snapshots and the propagation of blocks and transactions to peers
(not compiled, and around a network library that is not in the tree); json_spirit (vendored); hashes, signatures and text
conversions (pure functions of a size TLC cannot enumerate); the median of gas
prices.

Next, in this order:

1. `StoreData` composed with `Database`: writes that execute while close() is
   pending, clear() with iterators open.
2. The public noteReady(), stop() and the totals of the block queue;
   populateFromChain and receipts of Block.
