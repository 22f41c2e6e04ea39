------------------------------- MODULE MCTrie -------------------------------
EXTENDS Trie
MCKey == {<<0, 0>>, <<0, 1>>, <<1, 0>>, <<0, 0, 1, 0>>}
MCStart == {[k \in K |-> v] : K \in SUBSET Key, v \in Value}
=============================================================================
