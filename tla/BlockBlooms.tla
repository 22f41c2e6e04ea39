----------------------------- MODULE BlockBlooms -----------------------------
(***************************************************************************)
(* libethereum/BlockChain: the blooms of the canonical blocks, by which    *)
(* logs are searched.  Level 0 has the bloom of each block by its number,  *)
(* in chunks of IndexSize; an item of a higher level has all the blooms of *)
(* one chunk below it.  A block's bloom is a bit of its own here: the      *)
(* block.  Chunks are kept in memory from the first use on.                *)
(***************************************************************************)
EXTENDS BlockChain, SequencesExt

CONSTANTS IndexSize, IndexLevels \* c_bloomIndexSize, c_bloomIndexLevels

VARIABLES
    blooms,    \* m_blocksBlooms, by chunk: <<level, index>>
    bloomsDB,  \* ExtraBlocksBlooms in m_extrasDB
    altered    \* the chunks in the batch of the import under way

ASSUME BloomAssumption == IndexSize \in Nat \ {0, 1} /\ IndexLevels \in Nat \ {0}

bloomVars == <<chainVars, blooms, bloomsDB, altered>>

Levels == 0..IndexLevels - 1
NullBlocksBlooms == [o \in 0..IndexSize - 1 |-> {}]

\* The item of a level that stands for a number, and the chunk it is in.
Item(level, n) == n \div IndexSize ^ level
Chunk(level, item) == <<level, item \div IndexSize>>

BlocksBlooms(memory, id) ==
    IF id \in DOMAIN memory THEN memory[id]
    ELSE IF id \in DOMAIN bloomsDB THEN bloomsDB[id] ELSE NullBlocksBlooms

\* The blooms with other bits at some items of a level.
Updated(memory, level, bits) ==
    LET ids == {Chunk(level, i) : i \in DOMAIN bits}
    IN  [id \in DOMAIN memory \cup ids |->
            [o \in 0..IndexSize - 1 |->
                LET item == id[2] * IndexSize + o
                IN  IF id \in ids /\ item \in DOMAIN bits THEN bits[item] ELSE BlocksBlooms(memory, id)[o]]]

\* Bug variant: a higher level is cleared as the lowest is, and not rebuilt.
BugRebuilt(memory, level, item) == {}

Rebuilt(memory, level, item) ==
    IF level = 0 THEN {} ELSE UNION Range(BlocksBlooms(memory, <<level - 1, item>>))

\* clearBlockBlooms(begin, last + 1), from the lowest level upwards.
Cleared(memory, begin) ==
    FoldLeft(LAMBDA m, level :
                 Updated(m, level, [i \in Item(level, begin)..Item(level, Number(last)) |-> Rebuilt(m, level, i)]),
             memory, [k \in 1..IndexLevels |-> k - 1])

\* The blooms of the blocks that become canonical, in the levels they are at.
Collated(memory, canon) ==
    FoldLeft(LAMBDA m, level :
                 Updated(m, level, [i \in {Item(level, Number(b)) : b \in canon} |->
                     BlocksBlooms(m, Chunk(level, i))[i % IndexSize] \cup {b \in canon : Item(level, Number(b)) = i}]),
             memory, [k \in 1..IndexLevels |-> k - 1])

Altered(canon) == {Chunk(level, Item(level, Number(b))) : level \in Levels, b \in canon}
-----------------------------------------------------------------------------
BloomInit == ChainInit /\ blooms = <<>> /\ bloomsDB = <<>> /\ altered = <<>>

BloomImport(b) ==
    /\ ImportBegin(b)
    /\ LET common == Common(last, Parent(b))
           canon == importing'.canon
           clear == IF importing'.best /\ common # last THEN Cleared(blooms, Number(common) + 1) ELSE blooms
       IN  /\ blooms' = Collated(clear, canon)
           /\ altered' = Restrict(blooms', Altered(canon))
    /\ UNCHANGED bloomsDB

\* The batch takes the chunks along with the index.
BloomCommit ==
    /\ CommitExtras
    /\ bloomsDB' = [id \in DOMAIN bloomsDB \cup DOMAIN altered |->
                        IF id \in DOMAIN altered THEN altered[id] ELSE bloomsDB[id]]
    /\ altered' = <<>>
    /\ UNCHANGED blooms

\* What is cleared here is cleared in memory only.
BloomRewind(n) == Rewind(n) /\ blooms' = Cleared(blooms, n + 1) /\ UNCHANGED <<bloomsDB, altered>>

\* queryExtras, in a search or before an update: what the database has is kept.
ReadBlooms(id) ==
    /\ id \in DOMAIN bloomsDB \ DOMAIN blooms
    /\ blooms' = [i \in DOMAIN blooms \cup {id} |-> IF i = id THEN bloomsDB[id] ELSE blooms[i]]
    /\ UNCHANGED <<chainVars, bloomsDB, altered>>

\* The thread that imports drops chunks that were read from the database.
GarbageCollect(id) ==
    /\ importing = NoHash /\ id \in DOMAIN blooms \cap DOMAIN bloomsDB
    /\ blooms' = Restrict(blooms, DOMAIN blooms \ {id})
    /\ UNCHANGED <<chainVars, bloomsDB, altered>>

BloomCrash == Crash /\ blooms' = <<>> /\ altered' = <<>> /\ UNCHANGED bloomsDB

BloomNext ==
    \/ \E b \in Block : BloomImport(b) \/ (InsertBegin(b) /\ UNCHANGED <<blooms, bloomsDB, altered>>)
    \/ BloomCommit
    \/ (CommitBlocks \/ CommitBest) /\ UNCHANGED <<blooms, bloomsDB, altered>>
    \/ \E n \in Numbers \cup {0} : BloomRewind(n)
    \/ \E r \in Reader :
           /\ ReadEnd(r) \/ \E n \in Numbers : ReadBegin(r, n)
           /\ UNCHANGED <<blooms, bloomsDB, altered>>
    \/ \E id \in DOMAIN bloomsDB : ReadBlooms(id) \/ GarbageCollect(id)
    \/ BloomCrash

BloomSpec == BloomInit /\ [][BloomNext]_bloomVars
-----------------------------------------------------------------------------
\* withBlockBloom: a number is found when, at every level from the top, its item
\* is among those looked at and has the bits.  The topmost chunks are looked at
\* one further than the range goes.
LooksAt(level, n, earliest, latest) ==
    LET chunk == Item(level + 1, n)
    IN  /\ chunk = Item(level + 1, earliest) => Item(level, n) >= Item(level, earliest)
        /\ chunk = Item(level + 1, latest) => Item(level, n) <= Item(level, latest)

WithBlockBloom(bits, earliest, latest) ==
    LET u == IndexSize ^ IndexLevels
        top == (latest + u - 1) \div u
    IN  {n \in (earliest \div u) * u..(top + 1) * u - 1 :
            \A level \in Levels :
                /\ LooksAt(level, n, earliest, latest)
                /\ bits \subseteq BlocksBlooms(blooms, Chunk(level, Item(level, n)))[Item(level, n) % IndexSize]}

\* Between imports a search misses no block of the head's branch that has what is
\* searched, whatever reorganisations, rewinds and crashes came before, which
\* chunks are in memory and which were dropped; but for a crash that has torn
\* what is stored from "best".
SearchFindsAll ==
    importing = NoHash /\ ~torn =>
        \A earliest, latest \in 1..Number(last) : \A n \in earliest..latest :
            n \in WithBlockBloom({Ancestor(last, n)}, earliest, latest)
=============================================================================
