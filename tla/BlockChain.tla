----------------------------- MODULE BlockChain -----------------------------
(***************************************************************************)
(* libethereum/BlockChain: the blocks and their details in two databases,  *)
(* the index from numbers to hashes, the best block, and what is kept in   *)
(* memory.  One thread imports, others read; a crash may come between any  *)
(* two writes.  Receipts, blooms, transaction addresses and the children   *)
(* of a block go with its details and are left out.                        *)
(*                                                                         *)
(* What a reader has looked up may be old when it caches it: overtaken     *)
(* marks the numbers this has happened to, and decides nothing.            *)
(***************************************************************************)
EXTENDS BlockTree, FiniteSetsExt, Functions

CONSTANTS
    GasUsed(_), \* the gas used by a block's transactions, which breaks a tie
    Reader,     \* threads that call numberHash()
    NoHash,     \* NullBlockHash, and "nothing"
    MaxCrashes, \* bound on crashes
    MaxRewinds  \* bound on the calls of rewind()

VARIABLES
    blocksDB,  \* the blocks in m_blocksDB
    details,   \* the blocks that have details in m_extrasDB
    index,     \* ExtraBlockHash in m_extrasDB: hashes by number
    best,      \* "best" in m_extrasDB
    last,      \* m_lastBlockHash; m_lastBlockNumber is its number
    hashes,    \* m_blockHashes
    importing, \* the import under way: [block, at, canon], or NoHash
    reading,   \* what each reader has looked up and not cached yet: [number, hash, late]
    overtaken, \* the numbers that have in hashes what a late reader put there
    torn,      \* the head may be off the index: a crash came between the commit of the
               \* extras and "best", or rewind() met what a late reader had cached
    crashes, rewinds

ImportRecord == [block : Block, at : {"blocks", "extras", "best"}, best : BOOLEAN, canon : SUBSET Tree]

ASSUME ChainAssumption == NoHash \notin Tree /\ NoHash \notin ImportRecord

stored == <<blocksDB, details, index, best>>
chainVars == <<stored, last, hashes, importing, reading, overtaken, torn, crashes, rewinds>>

Numbers == {Number(b) : b \in Block}
NoIndex == [n \in Numbers |-> NoHash]

ChainInit ==
    /\ blocksDB = {} /\ details = {Genesis} /\ index = NoIndex /\ best = Genesis
    /\ last = Genesis /\ hashes = NoIndex /\ importing = NoHash
    /\ reading = [r \in Reader |-> NoHash] /\ overtaken = {}
    /\ torn = FALSE /\ crashes = 0 /\ rewinds = 0

\* isKnown() for any block, and for one not above the head.
IsStored(b) == b = Genesis \/ (b \in blocksDB /\ b \in details)
IsKnown(b) == IsStored(b) /\ Number(b) <= Number(last)

TotalDifficulty(b) == FoldSet(LAMBDA c, sum : sum + Difficulty(c), 0, Branch(b) \ {Genesis})

Heavier(b, c) ==
    \/ TotalDifficulty(b) > TotalDifficulty(c)
    \/ TotalDifficulty(b) = TotalDifficulty(c) /\ GasUsed(b) > GasUsed(c)

\* treeRoute: the last block the two branches share.
Common(a, b) == CHOOSE c \in Branch(a) \cap Branch(b) :
                    \A d \in Branch(a) \cap Branch(b) : Number(d) <= Number(c)

\* Bug variant: only the new block goes to the index.
BugCanonised(b, common) == {b}

\* The route backwards, from the new head to the common block.
Canonised(b, common) == Branch(b) \ Branch(common)

\* Bug variant: the first block after the common one is forgotten.
BugReverted(first) == [n \in Numbers |-> IF n \in first + 1..Number(last) THEN NoHash ELSE hashes[n]]

\* clearCachesDuringChainReversion
Reverted(first) == [n \in Numbers |-> IF n \in first..Number(last) THEN NoHash ELSE hashes[n]]

\* Readers of numbers that an import or a rewind is about to give other blocks.
Overtake(first) ==
    [r \in Reader |-> IF reading[r] # NoHash /\ reading[r].number >= first
                      THEN [reading[r] EXCEPT !.late = TRUE] ELSE reading[r]]

\* What is cleared is no longer overtaken.
StillCached(numbers) == {n \in numbers : hashes'[n] # NoHash}
-----------------------------------------------------------------------------
\* insertBlockAndExtras up to its first commit: a heavier block becomes the best
\* one, and its branch down to the common block goes to the index.
ImportBegin(b) ==
    /\ importing = NoHash /\ ~IsKnown(b) /\ IsStored(Parent(b))
    /\ LET heavier == Heavier(b, last)
           common == Common(last, Parent(b))
       IN  /\ importing' = [block |-> b, at |-> "blocks", best |-> heavier,
                            canon |-> IF heavier THEN Canonised(b, common) ELSE {}]
           /\ hashes' = IF heavier /\ common # last THEN Reverted(Number(common) + 1) ELSE hashes
           /\ reading' = IF heavier THEN Overtake(Number(common) + 1) ELSE reading
    /\ overtaken' = StillCached(overtaken)
    /\ UNCHANGED <<stored, last, torn, crashes, rewinds>>

\* insert(): into the databases, with no part in the canonical chain.
InsertBegin(b) ==
    /\ importing = NoHash /\ ~IsKnown(b) /\ IsStored(Parent(b))
    /\ importing' = [block |-> b, at |-> "blocks", best |-> FALSE, canon |-> {}]
    /\ UNCHANGED <<stored, last, hashes, reading, overtaken, torn, crashes, rewinds>>

CommitBlocks ==
    /\ importing # NoHash /\ importing.at = "blocks"
    /\ blocksDB' = blocksDB \cup {importing.block}
    /\ importing' = [importing EXCEPT !.at = "extras"]
    /\ UNCHANGED <<details, index, best, last, hashes, reading, overtaken, torn, crashes, rewinds>>

CommitExtras ==
    /\ importing # NoHash /\ importing.at = "extras"
    /\ details' = details \cup {importing.block}
    /\ index' = [n \in Numbers |-> IF \E c \in importing.canon : Number(c) = n
                                   THEN Ancestor(importing.block, n) ELSE index[n]]
    /\ importing' = IF importing.best THEN [importing EXCEPT !.at = "best"] ELSE NoHash
    /\ UNCHANGED <<blocksDB, best, last, hashes, reading, overtaken, torn, crashes, rewinds>>

\* Bug variant: "best" is written before the extras are.
BugCommitBest ==
    /\ importing # NoHash /\ importing.best /\ importing.at \in {"extras", "best"}
    /\ last' = importing.block /\ best' = importing.block
    /\ importing' = IF importing.at = "best" THEN NoHash ELSE [importing EXCEPT !.best = FALSE]
    /\ UNCHANGED <<blocksDB, details, index, hashes, reading, overtaken, torn, crashes, rewinds>>

CommitBest ==
    /\ importing # NoHash /\ importing.at = "best"
    /\ last' = importing.block /\ best' = importing.block
    /\ importing' = NoHash
    /\ UNCHANGED <<blocksDB, details, index, hashes, reading, overtaken, torn, crashes, rewinds>>

\* rewind(), which reads the new head through the cache.
CachedHash(n) == IF n = 0 THEN Genesis ELSE IF hashes[n] # NoHash THEN hashes[n] ELSE index[n]

Rewind(n) ==
    /\ importing = NoHash /\ n < Number(last)
    /\ rewinds < MaxRewinds /\ rewinds' = rewinds + 1
    /\ LET cleared == Reverted(n + 1)
       IN  /\ last' = CachedHash(n) /\ best' = last'
           /\ hashes' = IF n = 0 THEN cleared ELSE [cleared EXCEPT ![n] = last']
    /\ reading' = Overtake(n + 1) /\ overtaken' = StillCached(overtaken)
    /\ torn' = (torn \/ n \in overtaken)
    /\ UNCHANGED <<blocksDB, details, index, importing, crashes>>

\* What an import under way is to change, and what lies above the head, which the
\* next import changes without clearing it.
Unsettled(n) ==
    \/ n > Number(last)
    \/ importing # NoHash /\ \E c \in importing.canon : Number(c) <= n

\* queryExtras: the lookup in the database, with no lock, then, under the lock of
\* the cache, the insertion, which keeps what is there.
ReadBegin(r, n) ==
    /\ reading[r] = NoHash /\ hashes[n] = NoHash /\ index[n] # NoHash
    /\ reading' = [reading EXCEPT ![r] = [number |-> n, hash |-> index[n], late |-> Unsettled(n)]]
    /\ UNCHANGED <<stored, last, hashes, importing, overtaken, torn, crashes, rewinds>>

ReadEnd(r) ==
    /\ reading[r] # NoHash
    /\ LET n == reading[r].number
       IN  IF hashes[n] # NoHash THEN UNCHANGED <<hashes, overtaken>>
           ELSE /\ hashes' = [hashes EXCEPT ![n] = reading[r].hash]
                /\ overtaken' = IF reading[r].late THEN overtaken \cup {n} ELSE overtaken
    /\ reading' = [reading EXCEPT ![r] = NoHash]
    /\ UNCHANGED <<stored, last, importing, torn, crashes, rewinds>>

\* The process dies and open() finds what the databases hold.
Crash ==
    /\ crashes < MaxCrashes /\ crashes' = crashes + 1
    /\ torn' = (torn \/ (importing # NoHash /\ importing.at = "best"))
    /\ last' = best /\ hashes' = NoIndex
    /\ importing' = NoHash /\ reading' = [r \in Reader |-> NoHash] /\ overtaken' = {}
    /\ UNCHANGED <<stored, rewinds>>

ChainNext ==
    \/ \E b \in Block : ImportBegin(b) \/ InsertBegin(b)
    \/ CommitBlocks \/ CommitExtras \/ CommitBest
    \/ \E n \in Numbers \cup {0} : Rewind(n)
    \/ \E r \in Reader : ReadEnd(r) \/ \E n \in Numbers : ReadBegin(r, n)
    \/ Crash

ChainSpec == ChainInit /\ [][ChainNext]_chainVars
-----------------------------------------------------------------------------
(***************************************************************************)
(* Properties                                                              *)
(***************************************************************************)

\* Wherever the process dies, the best block is stored with all it rests on.
BestIsStored == \A b \in Branch(best) : IsStored(b)

\* Between imports the index leads from every number up to the head to the
\* block of the head's branch, after any reorganisation, rewind or crash, but for
\* a crash that has torn the index from "best" and a rewind to a number whose
\* cached hash was overtaken.
IndexFollowsHead ==
    importing = NoHash /\ ~torn =>
        \A n \in 1..Number(last) : index[n] = Ancestor(last, n)

\* numberHash(), read by any thread of a class that is "@threadsafe" while another
\* imports or rewinds: up to the head it has cached what the index says, at every
\* step of an import, or what a reader brought that began above the head, or was
\* overtaken by the import or the rewind that was to change its number.
CacheFollowsIndex ==
    \A n \in 1..Number(last) \ overtaken : hashes[n] \in {NoHash, index[n]}
=============================================================================
