-------------------------------- MODULE Trie --------------------------------
(***************************************************************************)
(* libdevcore/TrieDB.h over OverlayDB: insertion, removal, lookup and      *)
(* lower_bound of the Merkle Patricia trie, with the references to nodes   *)
(* that each rewriting gives and takes.  A node is a value, and where the  *)
(* code stores the hash of a node of 32 bytes or more and the bytes of a   *)
(* smaller one the model has the node in both cases: Big tells them apart. *)
(* TrieHash.cpp, which computes a root from the pairs at once, is the      *)
(* reference.                                                              *)
(***************************************************************************)
EXTENDS OverlayDB, FiniteSetsExt, SequencesExt

CONSTANTS
    MaxNibble, \* nibbles above this one do not occur in keys (15 in the code)
    Key,   \* keys: sequences of nibbles of even length
    Value, \* "s", a byte, and "l", 32 bytes
    Start,     \* contents that an earlier process may have committed
    MaxEdits,  \* bounds of the model: insertions and removals,
    MaxCommits \* and commits

Nibble == 0..MaxNibble

VARIABLES
    root,      \* the node of m_root
    open,      \* setRoot() has been called since the overlay was cleared
    content,   \* what the trie should hold: the pairs inserted and not removed
    committed, \* the roots committed so far, each with its content
    abandoned, \* setRoot() has left a root that was not committed
    edits      \* how many edits there were

trieVars == <<root, open, content, committed, abandoned, edits, overlayVars>>

EmptyNode == [kind |-> "empty"]
LeafNode(k, v) == [kind |-> "leaf", key |-> k, value |-> v]
ExtNode(k, n) == [kind |-> "ext", key |-> k, next |-> n]
BranchNode(f, v) == [kind |-> "branch", next |-> f, value |-> v]
NoValue == "none"
NoNext == [i \in Nibble |-> EmptyNode]

IsPair(n) == n.kind \in {"leaf", "ext"}

\* Bytes of the RLP of a key with its prefix, of a value and of a node.
KeySize(k) == IF Len(k) < 2 THEN 1 ELSE 2 + Len(k) \div 2
ValueSize(v) == IF v = "l" THEN 33 ELSE 1

RECURSIVE Size(_)
Size(n) ==
    LET Slot(x) == LET b == Size(x) IN IF b < 32 THEN b ELSE 33
    IN CASE n.kind = "empty" -> 1
         [] n.kind = "leaf" -> 1 + KeySize(n.key) + ValueSize(n.value)
         [] n.kind = "ext" -> 1 + KeySize(n.key) + Slot(n.next)
         [] n.kind = "branch" ->
              1 + ValueSize(n.value) + (15 - MaxNibble)
                + MapThenSumSet(LAMBDA i : Slot(n.next[i]), Nibble)

Big(n) == Size(n) >= 32

Suffix(k, i) == SubSeq(k, i + 1, Len(k))
Shared(a, b) == Len(LongestCommonPrefix({a, b}))

-----------------------------------------------------------------------------
\* A rewriting gives a node and the references it took and gave, in order.
Result(n, ops) == [node |-> n, ops |-> ops, found |-> TRUE]
NotFound == [node |-> EmptyNode, ops |-> <<>>, found |-> FALSE]
Forced(what, n) == <<[what |-> what, node |-> n]>>
Kill(n) == IF Big(n) THEN Forced("kill", n) ELSE <<>>
Stream(n) == IF Big(n) THEN Forced("insert", n) ELSE <<>>

Place(n, k, v) ==
    Result(IF n.kind = "empty" THEN LeafNode(k, v) ELSE [n EXCEPT !.value = v], Kill(n))

Cleve(n, s) ==
    LET bottom == [n EXCEPT !.key = Suffix(@, s)]
    IN Result(ExtNode(SubSeq(n.key, 1, s), bottom), Kill(n) \o Stream(bottom))

Branched(n) ==
    LET rest == [n EXCEPT !.key = Tail(@)]
    IN CASE n.key = <<>> -> Result(BranchNode(NoNext, n.value), Kill(n))
         [] n.kind = "ext" /\ Len(n.key) = 1 ->
              Result(BranchNode([NoNext EXCEPT ![n.key[1]] = n.next], NoValue), Kill(n))
         [] OTHER ->
              Result(BranchNode([NoNext EXCEPT ![n.key[1]] = rest], NoValue),
                     Kill(n) \o Stream(rest))

RECURSIVE MergeAt(_, _, _, _)
MergeAt(n, k, v, inLine) ==
    LET killed == IF inLine THEN <<>> ELSE Kill(n)
        Into(child, j) == LET r == MergeAt(child, Suffix(k, j), v, ~Big(child))
                          IN Result(r.node, r.ops \o Stream(r.node))
        Again(r) == LET s == MergeAt(r.node, k, v, TRUE) IN Result(s.node, r.ops \o s.ops)
    IN CASE n.kind = "empty" \/ (n.kind = "leaf" /\ n.key = k)
              \/ (n.kind = "branch" /\ k = <<>>) -> Place(n, k, v)
         [] n.kind = "branch" /\ k # <<>> ->
              LET r == Into(n.next[k[1]], 1)
              IN Result([n EXCEPT !.next[k[1]] = r.node], killed \o r.ops)
         [] n.kind = "ext" /\ IsPrefix(n.key, k) ->
              LET r == Into(n.next, Len(n.key))
              IN Result([n EXCEPT !.next = r.node], killed \o r.ops)
         [] OTHER -> IF Shared(k, n.key) > 0 THEN Again(Cleve(n, Shared(k, n.key)))
                                             ELSE Again(Branched(n))
-----------------------------------------------------------------------------
InUse(n) == {i \in Nibble : n.next[i] # EmptyNode}
                \cup (IF n.value = NoValue THEN {} ELSE {16})

\* The pair for the only slot in use of a branch; when the slot holds a pair
\* graft() makes one pair of the two, with no reference left to the inner one.
Graft(n) ==
    Result([n.next EXCEPT !.key = n.key \o @],
           IF Big(n.next) THEN Forced("kill", n.next) ELSE <<>>)

Merge(n, i) ==
    CASE i = 16 -> Result(LeafNode(<<>>, n.value), <<>>)
      [] i # 16 /\ IsPair(n.next[i]) -> Graft(ExtNode(<<i>>, n.next[i]))
      [] OTHER -> Result(ExtNode(<<i>>, n.next[i]), <<>>)

BugRejig(n) == Result(n, <<>>)

Rejig(n) == IF Cardinality(InUse(n)) = 1 THEN Merge(n, CHOOSE i \in InUse(n) : TRUE)
                                         ELSE Result(n, <<>>)

RECURSIVE DeleteAt(_, _)
DeleteAt(n, k) ==
    LET Into(child, j) == LET r == DeleteAt(child, Suffix(k, j))
                          IN [r EXCEPT !.ops = IF r.found THEN @ \o Stream(r.node) ELSE @]
        Then(r, s) == Result(s.node, r.ops \o Kill(n) \o s.ops)
    IN CASE n.kind = "leaf" /\ n.key = k -> Result(EmptyNode, Kill(n))
         [] n.kind = "ext" /\ IsPrefix(n.key, k) ->
              LET r == Into(n.next, Len(n.key))
                  m == [n EXCEPT !.next = r.node]
              IN IF ~r.found THEN NotFound
                 ELSE Then(r, IF IsPair(r.node) THEN Graft(m) ELSE Result(m, <<>>))
         [] n.kind = "branch" /\ k = <<>> /\ n.value # NoValue ->
              LET s == Rejig([n EXCEPT !.value = NoValue])
              IN Result(s.node, Kill(n) \o s.ops)
         [] n.kind = "branch" /\ k # <<>> ->
              LET r == Into(n.next[k[1]], 1)
              IN IF ~r.found THEN NotFound
                 ELSE Then(r, Rejig([n EXCEPT !.next[k[1]] = r.node]))
         [] OTHER -> NotFound

Apply(m, ops) ==
    FoldLeft(LAMBDA x, op : IF op.what = "insert" THEN InsertNode(x, op.node)
                                                  ELSE KillNode(x, op.node), m, ops)
-----------------------------------------------------------------------------
RECURSIVE At(_, _)
At(n, k) ==
    CASE n.kind = "leaf" /\ n.key = k -> n.value
      [] n.kind = "ext" /\ IsPrefix(n.key, k) -> At(n.next, Suffix(k, Len(n.key)))
      [] n.kind = "branch" -> IF k = <<>> THEN n.value ELSE At(n.next[k[1]], Tail(k))
      [] OTHER -> NoValue

BugEarlier(k, p) ==
    LET s == Shared(k, p) IN s < Len(p) /\ s < Len(k) /\ k[s + 1] < p[s + 1]

\* NibbleSlice::isEarlierThan: a prefix is earlier.
Earlier(k, p) ==
    LET s == Shared(k, p)
    IN s < Len(p) /\ (s = Len(k) \/ k[s + 1] < p[s + 1])

\* The keys an iterator from lower_bound(k) gives, in its order: m_trail is the
\* stack of this recursion, and k the rest of the key while it is still
\* followed (<<>> also once it has been left: from then on all is given).
RECURSIVE From(_, _)
From(n, k) ==
    LET Under(p, s) == [j \in 1..Len(s) |-> p \o s[j]]
        later == IF k = <<>> THEN 0 ELSE k[1]
        Slots == [i \in 1..(MaxNibble + 1 - later) |->
                    LET c == later + i - 1
                    IN Under(<<c>>, From(n.next[c],
                                IF c = later /\ k # <<>> THEN Tail(k) ELSE <<>>))]
    IN CASE n.kind = "empty" -> <<>>
         [] IsPair(n) /\ IsPrefix(n.key, k) ->
              LET rest == Suffix(k, Len(n.key))
              IN IF n.kind = "ext" THEN Under(n.key, From(n.next, rest))
                 ELSE IF rest = <<>> THEN <<n.key>> ELSE <<>>
         [] IsPair(n) /\ ~IsPrefix(n.key, k) ->
              IF ~Earlier(k, n.key) THEN <<>>
              ELSE IF n.kind = "ext" THEN Under(n.key, From(n.next, <<>>)) ELSE <<n.key>>
         [] n.kind = "branch" ->
              (IF k = <<>> /\ n.value # NoValue THEN << <<>> >> ELSE <<>>)
                  \o FlattenSeq(Slots)
-----------------------------------------------------------------------------
\* TrieHash: the node of a set of pairs, the first s nibbles being behind.
RECURSIVE HashNode(_, _)
HashNode(pairs, s) ==
    LET keys == DOMAIN pairs
        one == CHOOSE k \in keys : TRUE
        shared == Len(LongestCommonPrefix(keys))
        At1(i) == {k \in keys : Len(k) > s /\ k[s + 1] = i}
        ends == {k \in keys : Len(k) = s}
    IN CASE keys = {} -> EmptyNode
         [] Cardinality(keys) = 1 -> LeafNode(Suffix(one, s), pairs[one])
         [] Cardinality(keys) > 1 /\ shared > s ->
              ExtNode(SubSeq(one, s + 1, shared), HashNode(pairs, shared))
         [] OTHER ->
              BranchNode([i \in Nibble |-> HashNode(Restrict(pairs, At1(i)), s + 1)],
                         IF ends = {} THEN NoValue ELSE pairs[CHOOSE k \in ends : TRUE])
RECURSIVE Hashed(_)
\* The nodes below n that are stored under their hash.
Hashed(n) ==
    (IF Big(n) THEN {n} ELSE {}) \cup
    CASE n.kind = "ext" -> Hashed(n.next)
      [] n.kind = "branch" -> UNION {Hashed(n.next[i]) : i \in Nibble}
      [] OTHER -> {}

Reachable(n) == Hashed(n) \cup {n}

-----------------------------------------------------------------------------
TrieInit ==
    /\ \E c \in Start :
        /\ OverlayInit(IF c = <<>> THEN {} ELSE Reachable(HashNode(c, 0)), DOMAIN c)
        /\ committed = {[root |-> HashNode(c, 0), content |-> c]}
    /\ root = EmptyNode /\ open = FALSE /\ content = <<>>
    /\ abandoned = FALSE /\ edits = 0

SetRoot ==
    /\ Idle
    /\ \E c \in committed :
        /\ root' = c.root /\ content' = c.content
        /\ abandoned' = (abandoned \/ (open /\ root # c.root))
        /\ main' = IF c.root = EmptyNode /\ ~Found(EmptyNode)
                     THEN InsertNode(main, EmptyNode) ELSE main
    /\ open' = TRUE
    /\ UNCHANGED <<committed, edits, aux, store, auxStore, attempt, writeBatch, refused, exited>>

Edit == Idle /\ open /\ edits < MaxEdits /\ edits' = edits + 1

\* The root is always looked up by its hash, so it is always counted.
NewRoot(r) ==
    /\ root' = r.node
    /\ LET killed == IF Big(root) THEN <<>> ELSE Forced("kill", root)
       IN main' = Apply(main, r.ops \o killed \o Forced("insert", r.node))

Insert(k, v) ==
    /\ Edit
    /\ NewRoot(MergeAt(root, k, v, FALSE))
    /\ content' = [x \in DOMAIN content \cup {k} |-> IF x = k THEN v ELSE content[x]]
    /\ aux' = aux \cup {k}
    /\ UNCHANGED <<open, committed, abandoned, store, auxStore, attempt, writeBatch, refused, exited>>

\* Not called for an absent key that others extend: deleteAt() then reads the
\* key past its end.  The keys of a trie of the node have one length.
Delete(k) ==
    /\ Edit
    /\ k \in DOMAIN content \/ \A x \in DOMAIN content : ~IsPrefix(k, x)
    /\ LET r == DeleteAt(root, k)
       IN IF r.found THEN NewRoot(r) ELSE UNCHANGED <<root, main>>
    /\ content' = Restrict(content, DOMAIN content \ {k})
    /\ UNCHANGED <<open, committed, abandoned, aux, store, auxStore, attempt, writeBatch, refused, exited>>

TrieCommitWrites ==
    /\ CommitWrites
    /\ committed' = committed \cup {[root |-> root, content |-> content]}
    /\ UNCHANGED <<root, open, content, abandoned, edits>>

TrieNext ==
    \/ SetRoot
    \/ \E k \in Key : Delete(k) \/ \E v \in Value : Insert(k, v)
    \/ /\ open /\ Cardinality(committed) <= MaxCommits
       /\ CommitBegin
       /\ UNCHANGED <<root, open, content, committed, abandoned, edits>>
    \/ TrieCommitWrites
    \/ /\ Purge \/ CommitThrows
       /\ UNCHANGED <<root, open, content, committed, abandoned, edits>>
    \/ /\ Rollback \/ Reopen
       /\ open' = FALSE
       /\ UNCHANGED <<root, content, committed, abandoned, edits>>

TrieSpec == TrieInit /\ [][TrieNext]_trieVars
-----------------------------------------------------------------------------
(***************************************************************************)
(* Properties                                                              *)
(***************************************************************************)
\* However it was edited, the trie is the one its content alone determines:
\* the root hash does not depend on history (mergeAt and deleteAt against
\* hash256rlp of TrieHash.cpp).
RootIsCanonical == open => root = HashNode(content, 0)

\* Every node of the current root is in the store or held by a reference, so
\* neither a purge nor a commit can lose it (killNode, forceKillNode, insert).
\* The empty root is spared: setRoot() inserts it when it is not there.  And none
\* is held that the trie does not use, unless setRoot() has abandoned some
\* (leftOvers, check(true)).
\* And a commit is whole: each root committed can be read from the store alone,
\* with the preimages of its keys, in this process and in the next; a rollback,
\* which forgets nodes and keeps preimages, does not change that
\* (OverlayDB::commit, OverlayDB::rollback, FatGenericTrieDB).
RootIsHeld ==
    open => /\ Reachable(root) \ {EmptyNode} \subseteq Counted \cup store
            /\ ~abandoned => Counted \subseteq Reachable(root)

CommittedRootsReadable == \A c \in committed :
    /\ Reachable(c.root) \ {EmptyNode} \subseteq store
    /\ DOMAIN c.content \subseteq auxStore

NodesAreKept == RootIsHeld /\ CommittedRootsReadable

\* at() and the iterator from lower_bound() agree with the content: a value is
\* found exactly for its key, and the keys not before k are all given, in order
\* (atAux, iterator::next).
KeyOrder(a, b) ==
    \/ IsPrefix(a, b)
    \/ \E i \in 1..Min({Len(a), Len(b)}) :
        a[i] < b[i] /\ SubSeq(a, 1, i - 1) = SubSeq(b, 1, i - 1)
IteratesInOrder ==
    open => \A k \in Key :
        /\ At(root, k) = IF k \in DOMAIN content THEN content[k] ELSE NoValue
        /\ From(root, k) = SetToSortSeq({x \in DOMAIN content : KeyOrder(k, x)}, KeyOrder)
=============================================================================
