------------------------------ MODULE BlockTree ------------------------------
(***************************************************************************)
(* The blocks that BlockQueue and BlockChain are given, as the headers     *)
(* describe them.  A block stands for its hash.                            *)
(***************************************************************************)
EXTENDS Listing

CONSTANTS
    Block,
    Genesis,
    Number(_),    \* the number of a block
    Difficulty(_),\* its difficulty
    Parent(_)     \* its parent

Tree == Block \cup {Genesis}

ASSUME BlockAssumption ==
    /\ Genesis \notin Block /\ Number(Genesis) = 0 /\ Difficulty(Genesis) \in Nat
    /\ \A b \in Block : /\ Parent(b) \in Tree
                        /\ Number(b) \in Nat /\ Number(b) = Number(Parent(b)) + 1
                        /\ Difficulty(b) \in Nat

\* From each block down to the genesis block: the smallest set with b in it that
\* has every parent.
HasParents(S) == \A b \in S \ {Genesis} : Parent(b) \in S
branch == [b \in Tree |-> {c \in Tree : \A S \in SUBSET Tree : b \in S /\ HasParents(S) => c \in S}]
Branch(b) == branch[b]

\* The block of that number at or below b.
Ancestor(b, n) == CHOOSE c \in Branch(b) : Number(c) = n
=============================================================================
