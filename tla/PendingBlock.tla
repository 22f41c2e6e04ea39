---------------------------- MODULE PendingBlock ----------------------------
(***************************************************************************)
(* libethereum/Block: the block that is being put together on the chain's  *)
(* head, committed to seal and sealed, and the one that enacts a block to  *)
(* be imported, in BlockChain::import.  Block has no locks: its callers    *)
(* take turns.                                                             *)
(*                                                                         *)
(* A state root stands for the state, which is what was applied to the     *)
(* genesis state: transactions, rewards and irregular changes.  A block is *)
(* known by the number of its import, a header with its body; seals, gas   *)
(* and receipts go with the transactions.  An uncle is a known block.      *)
(* Blocks put together from the chain (populateFromChain) are only read    *)
(* and left out.                                                           *)
(***************************************************************************)
EXTENDS Naturals, Sequences, FiniteSets

CONSTANTS
    Pending,     \* transactions: [from, nonce]
    Capacity,    \* how many transactions the gas limit of a block allows
    Forks,       \* numbers of blocks that start with irregular modifications, or
                 \* with an update of the blockhash contract
    Generations, \* 6: how far back uncles may be
    Makers,      \* authors of blocks that come from elsewhere
    Own, Nobody, \* the author of ours; a header not committed to yet
    CopyCommitted, \* may a block that is committed to seal be copied?
    SameRoot,      \* may a block repeat its parent's root when it is not its own?
    MaxBlocks

ASSUME PendingAssumption ==
    /\ Capacity \in Nat /\ Generations \in Nat \ {0} /\ MaxBlocks \in Nat /\ Forks \subseteq Nat
    /\ CopyCommitted \in BOOLEAN /\ SameRoot \in BOOLEAN
    /\ Own \notin Makers /\ Nobody \notin Makers /\ Own # Nobody

VARIABLES
    blocks, \* the chain's blocks but for the genesis block 0, in order of import
    tip,    \* the best block
    offered,\* transactions of the queue that are current
    block,  \* the pending Block
    asked   \* the header that was given away to be sealed

pendingVars == <<blocks, tip, offered, block, asked>>

Reward(uncles) == [uncles |-> uncles]
Fork == [uncles |-> {0}]

GenesisHeader ==
    [parent |-> 0, number |-> 0, txs |-> <<>>, uncles |-> {}, root |-> <<>>, author |-> Nobody]
HeaderOf(b) == IF b = 0 THEN GenesisHeader ELSE blocks[b]
InChain == 1..Len(blocks)

\* The n-th ancestor of b.
Up(b, n) ==
    LET up[i \in 0..n] == IF i = 0 THEN b ELSE HeaderOf(up[i - 1]).parent
    IN  up[n]
Line(b) == {Up(b, i) : i \in 0..(Generations - 1)} \ {0}

\* allKinFrom.
Kin(b) == {b} \cup UNION {{HeaderOf(a).parent} \cup HeaderOf(a).uncles : a \in Line(b)}

\* The state a block starts from, with performIrregularModifications.
Started(b) == HeaderOf(b).root \o (IF HeaderOf(b).number + 1 \in Forks THEN <<Fork>> ELSE <<>>)

Applied(root, t) == \E i \in 1..Len(root) : root[i] = t
Executable(t, root) ==
    /\ ~Applied(root, t)
    /\ \A u \in Pending : u.from = t.from /\ u.nonce < t.nonce => Applied(root, u)

Executes(root, txs) ==
    \A i \in 1..Len(txs) : Executable(txs[i], root \o SubSeq(txs, 1, i - 1))
-----------------------------------------------------------------------------
(* Enacting a block: enactOn, on a Block of its own. *)

Sealable(h) ==
    /\ Cardinality(h.uncles) <= 2 /\ h.uncles \cap Kin(h.parent) = {}
    /\ \A u \in h.uncles :
        LET depth == h.number - HeaderOf(u).number
        IN  depth \in 1..Generations /\ HeaderOf(u).parent = Up(h.parent, depth)

RightRoot(h) == Started(h.parent) \o h.txs \o <<Reward(h.uncles)>>

\* A header that repeats its parent's root is not compared with the state.
Enacts(h) ==
    /\ Len(h.txs) <= Capacity /\ Executes(Started(h.parent), h.txs) /\ Sealable(h)
    /\ h.root \in {RightRoot(h), HeaderOf(h.parent).root}

\* It gets a place in the chain, and is its best block if it is the heavier one.
Joins(h) ==
    /\ Len(blocks) < MaxBlocks /\ \A b \in InChain : blocks[b] # h
    /\ Enacts(h)
    /\ blocks' = Append(blocks, h)
    /\ LET best == HeaderOf(tip)
       IN  tip' = IF h.number > best.number \/ (h.number = best.number /\ Len(h.txs) > Len(best.txs))
                  THEN Len(blocks) + 1 ELSE tip

ImportOther(h) == Joins(h) /\ UNCHANGED <<offered, block, asked>>

ImportSealed ==
    /\ block.sealed /\ Joins([block.current EXCEPT !.txs = block.body.txs, !.uncles = block.body.uncles])
    /\ UNCHANGED <<offered, block, asked>>
-----------------------------------------------------------------------------
(* The pending block. *)

\* resetCurrent on block b.
Reset(b) ==
    [previous |-> b,
     current |-> [parent |-> b, number |-> HeaderOf(b).number + 1, txs |-> <<>>, uncles |-> {},
                  root |-> HeaderOf(b).root, author |-> Nobody],
     txs |-> <<>>, root |-> Started(b), precommit |-> HeaderOf(b).root,
     committed |-> FALSE, sealed |-> FALSE, body |-> [txs |-> <<>>, uncles |-> {}]]

PendingInit ==
    /\ blocks = <<>> /\ tip = 0 /\ offered = {}
    /\ block = Reset(0) /\ asked = block.current

Offer(t) ==
    /\ t \notin offered /\ offered' = offered \cup {t}
    /\ UNCHANGED <<blocks, tip, block, asked>>

\* sync(): to the block just sealed, to nothing new, or to another block.
SyncChain ==
    /\ tip # block.previous /\ block' = Reset(tip)
    /\ UNCHANGED <<blocks, tip, offered, asked>>

ResetCurrent ==
    /\ block' = Reset(block.previous)
    /\ UNCHANGED <<blocks, tip, offered, asked>>

\* The copy becomes the pending block.
Copy ==
    /\ ~block.committed \/ CopyCommitted
    /\ block' = [block EXCEPT !.precommit = block.root, !.committed = FALSE]
    /\ UNCHANGED <<blocks, tip, offered, asked>>

\* uncommitToSeal.
\* Bug variant: the rewards stay.
BugUncommitted == [block EXCEPT !.committed = FALSE]
Uncommitted ==
    IF block.committed THEN [block EXCEPT !.root = block.precommit, !.committed = FALSE] ELSE block

\* execute of one transaction that sync() has from the queue.  What cannot be
\* executed is dropped, put off or, if only the block is full, left.
Full == Len(block.txs) >= Capacity
ExecuteTx(t) ==
    /\ ~block.sealed /\ t \in offered /\ \A i \in 1..Len(block.txs) : block.txs[i] # t
    /\ LET b == Uncommitted
           done == Executable(t, b.root) /\ ~Full
       IN  /\ block' = IF done THEN [b EXCEPT !.root = Append(b.root, t), !.txs = Append(b.txs, t)] ELSE b
           /\ offered' = IF done \/ Full THEN offered ELSE offered \ {t}
    /\ UNCHANGED <<blocks, tip, asked>>

\* A transaction executed to be undone.
Simulate ==
    /\ ~block.sealed /\ block' = Uncommitted
    /\ UNCHANGED <<blocks, tip, offered, asked>>

\* Those not cited yet, at most two, the youngest and first imported ones.
\* Bug variant: also those that were cited before.
BugUncles(b) == LET kin == {b} \cup Line(b)
                    candidates == {u \in InChain \ kin : HeaderOf(u).parent \in Line(HeaderOf(b).parent)}
                IN  {u \in candidates : Cardinality({v \in candidates : v > u}) < 2}
Uncles(b) ==
    LET candidates == {u \in InChain \ Kin(b) : HeaderOf(u).parent \in Line(HeaderOf(b).parent)}
        Before(u, v) ==
            \/ HeaderOf(u).number > HeaderOf(v).number
            \/ HeaderOf(u).number = HeaderOf(v).number /\ u < v
    IN  {u \in candidates : Cardinality({v \in candidates : Before(v, u)}) < 2}

CommitToSeal ==
    /\ ~block.sealed
    /\ LET base == Uncommitted.root
           body == [txs |-> block.txs, uncles |-> Uncles(block.previous)]
           root == Append(base, Reward(body.uncles))
       IN  block' = [block EXCEPT
                !.precommit = base, !.root = root, !.committed = TRUE, !.body = body,
                !.current = [@ EXCEPT !.parent = block.previous, !.txs = body.txs,
                                      !.uncles = body.uncles, !.root = root, !.author = Own]]
    /\ UNCHANGED <<blocks, tip, offered, asked>>

AskSeal ==
    /\ block.committed /\ ~block.sealed /\ asked' = block.current
    /\ UNCHANGED <<blocks, tip, offered, block>>

\* sealBlock, with a header that was asked for some time ago.
SealBlock ==
    /\ block.committed /\ asked = block.current
    /\ block' = [block EXCEPT !.sealed = TRUE, !.current = asked, !.root = block.precommit]
    /\ UNCHANGED <<blocks, tip, offered, asked>>

\* Blocks that others may make on b.
Made(b) ==
    UNION {{[parent |-> b, number |-> HeaderOf(b).number + 1, txs |-> txs, uncles |-> uncles,
             root |-> root, author |-> maker] :
               root \in {Started(b) \o txs \o <<Reward(uncles)>>}
                        \cup (IF SameRoot THEN {HeaderOf(b).root} ELSE {})} :
           txs \in {<<>>} \cup {<<t>> : t \in Pending},
           uncles \in {s \in SUBSET (InChain \ {b}) : Cardinality(s) <= 2}, maker \in Makers}

PendingNext ==
    \/ Len(blocks) < MaxBlocks /\ \E b \in {0} \cup InChain : \E h \in Made(b) : ImportOther(h)
    \/ ImportSealed
    \/ \E t \in Pending : Offer(t) \/ ExecuteTx(t)
    \/ SyncChain \/ ResetCurrent \/ Copy \/ Simulate
    \/ CommitToSeal \/ AskSeal \/ SealBlock

PendingSpec == PendingInit /\ [][PendingNext]_pendingVars
-----------------------------------------------------------------------------
\* States follow from transactions: the pending block's is that of the block it
\* is put on with its transactions, and the rewards once while it is committed to
\* seal; a stored block's has all of its own.
StateFollowsTransactions ==
    /\ LET plain == Started(block.previous) \o block.txs
       IN  /\ block.root = IF block.committed /\ ~block.sealed
                           THEN Append(plain, Reward(block.current.uncles)) ELSE plain
           /\ block.committed => block.precommit = plain
    /\ \A b \in InChain : blocks[b].root = RightRoot(blocks[b])

\* What is sealed can be imported: its body is that of its header, its
\* transactions give its root, and the uncles commitToSeal() chose pass the check
\* of enact(), whatever was imported since.
SealedIsEnactable ==
    block.sealed =>
        /\ block.current.txs = block.body.txs /\ block.current.uncles = block.body.uncles
        /\ Enacts(block.current)
=============================================================================
