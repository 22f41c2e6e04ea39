------------------------------- MODULE MCNode -------------------------------
(* What a node keeps: the trie over the overlay, the two queues, the pending *)
(* block, the chain with its index and blooms, the encoding of it all, and   *)
(* the download of other chains.                                             *)
(* They share no variable, so each behaviour is one of one part: the others  *)
(* stay as they started.  The chain is there twice, with readers of numbers  *)
(* and with chunks of blooms read and dropped: the two touch nothing that    *)
(* the other does.                                                           *)
EXTENDS Trie, TransactionQueue, BlockQueue, BlockBlooms, PendingBlock, RLP, BlockSync

VARIABLE part

\* Two keys that part at their last nibble, one that parts at the first, and
\* one that extends another.
MCKey == {<<0, 0>>, <<0, 1>>, <<1, 0>>, <<0, 0, 1, 0>>}
MCStart == {[k \in K |-> v] : K \in SUBSET Key, v \in Value}

SyncRest == theirs = [p \in Peer |-> 2] /\ SyncInit /\ sync.last = 0
TrieRest == committed = {[root |-> EmptyNode, content |-> <<>>]} /\ TrieInit

MCTx == {[from |-> "a", nonce |-> 0, price |-> 1], [from |-> "a", nonce |-> 0, price |-> 2],
         [from |-> "a", nonce |-> 1, price |-> 1], [from |-> "b", nonce |-> 0, price |-> 1]}

\* Two branches from the genesis block, 1-2 and 3-4-5: each in its turn is the
\* heavier one, by its gas, by its length or in spite of it.
MCParent(b) == IF b \in {1, 3} THEN 0 ELSE b - 1
MCNumber(b) == IF b > 2 THEN b - 2 ELSE b
MCDifficulty(b) == IF b \in {2, 5} THEN 3 ELSE 1
MCGasUsed(b) == b

\* One block is empty, and two of different branches have the same transactions.
MCBody(b) == CASE b = 4 -> 0 [] b = 3 -> 2 [] OTHER -> b

\* One transaction: what tells pending blocks apart is who made them and what
\* they cite.
MCPending == {[from |-> "signer", nonce |-> 0]}

\* No byte, one that is its own encoding or not, and strings short and long.
MCBytes == {<<>>, <<0>>, <<9>>, <<0, 1>>, [i \in 1..15 |-> 8]}
MCRaws == {[bytes |-> AsData(<<5>>) \o AsData(<<9, 1>>), items |-> <<Leaf(<<5>>), Leaf(<<9, 1>>)>>],
           [bytes |-> ListPrefix(1) \o AsData(<<4>>), items |-> <<Node(<<Leaf(<<4>>)>>)>>]}

NodeInit ==
    /\ QueueInit /\ BlockQueueInit /\ PendingInit /\ BloomInit /\ RLPInit
    /\ \/ part = "trie" /\ TrieInit /\ SyncRest
       \/ part = "sync" /\ TrieRest /\ SyncInit
       \/ part \in {"transactions", "blocks", "pending", "chain", "blooms", "rlp"} /\ TrieRest /\ SyncRest

NodeNext ==
    \/ part = "trie" /\ TrieNext /\ UNCHANGED <<part, queueVars, bqVars, pendingVars, bloomVars, rlpVars, peerVars>>
    \/ part = "transactions" /\ QueueNext /\ UNCHANGED <<part, trieVars, bqVars, pendingVars, bloomVars, rlpVars, peerVars>>
    \/ part = "blocks" /\ BlockQueueNext /\ UNCHANGED <<part, trieVars, queueVars, pendingVars, bloomVars, rlpVars, peerVars>>
    \/ part = "pending" /\ PendingNext /\ UNCHANGED <<part, trieVars, queueVars, bqVars, bloomVars, rlpVars, peerVars>>
    \/ /\ \/ part = "chain" /\ BloomNext /\ chainVars' # chainVars
          \/ part = "blooms" /\ BloomNext /\ reading' = reading
       /\ UNCHANGED <<part, trieVars, queueVars, bqVars, pendingVars, rlpVars, peerVars>>
    \/ part = "rlp" /\ RLPNext /\ UNCHANGED <<part, trieVars, queueVars, bqVars, pendingVars, bloomVars, peerVars>>
    \/ part = "sync" /\ SyncNext /\ UNCHANGED <<part, trieVars, queueVars, bqVars, pendingVars, bloomVars, rlpVars>>

NodeSpec ==
    NodeInit /\ [][NodeNext]_<<part, trieVars, queueVars, bqVars, pendingVars, bloomVars, rlpVars, peerVars>>
=============================================================================
