-------------------------- MODULE BlockTree_proofs --------------------------
(***************************************************************************)
(* Facts about BlockTree, for any tree of blocks, and about Listing, for   *)
(* any sets and sequences.                                                 *)
(*                                                                         *)
(* A branch is the smallest set with every parent, so that what holds for  *)
(* a block, and for the parent of any block it holds for, holds on its     *)
(* branch.                                                                 *)
(*                                                                         *)
(* A set is listed by rank: how many members come before one.              *)
(***************************************************************************)
EXTENDS BlockTree, SequencesExt, FiniteSetTheorems, SequenceTheorems, WellFoundedInduction, TLAPS
-----------------------------------------------------------------------------
\* The parents and numbers of blocks.
LEMMA BlockFacts ==
    /\ Genesis \in Tree /\ Genesis \notin Block /\ Number(Genesis) = 0
    /\ \A b \in Block : /\ b \in Tree /\ b # Genesis /\ Parent(b) \in Tree
                        /\ Number(b) = Number(Parent(b)) + 1
    /\ \A b \in Tree : Number(b) \in Nat
    /\ \A b \in Tree : b # Genesis => b \in Block
BY BlockAssumption DEF Tree

\* A branch has its block and every parent.
LEMMA BranchIn ==
    ASSUME NEW b \in Tree
    PROVE  /\ Branch(b) \subseteq Tree /\ b \in Branch(b)
           /\ HasParents(Branch(b))
<1>1. Branch(b) = {c \in Tree : \A S \in SUBSET Tree : b \in S /\ HasParents(S) => c \in S}
  BY DEF Branch, branch
<1>2. ASSUME NEW c \in Branch(b), c # Genesis
      PROVE  Parent(c) \in Branch(b)
  <2>1. c \in Tree /\ Parent(c) \in Tree
    BY <1>1, <1>2, BlockFacts
  <2>2. ASSUME NEW S \in SUBSET Tree, b \in S, HasParents(S)
        PROVE  Parent(c) \in S
    <3>1. c \in S
      BY <1>1, <2>2
    <3> QED  BY <1>2, <2>2, <3>1 DEF HasParents
  <2> QED  BY <1>1, <2>1, <2>2
<1> QED  BY <1>1, <1>2 DEF HasParents

\* Going down the branch of b.
LEMMA BranchDown ==
    ASSUME NEW b \in Tree, NEW S, S \subseteq Tree, b \in S, HasParents(S)
    PROVE  Branch(b) \subseteq S
BY DEF Branch, branch

\* A branch has the branch of each of its blocks.
LEMMA BranchNested ==
    ASSUME NEW b \in Tree, NEW c \in Branch(b)
    PROVE  c \in Tree /\ Branch(c) \subseteq Branch(b)
<1>1. c \in Tree
  BY BranchIn
<1> QED  BY <1>1, BranchIn, BranchDown

\* A branch is its block and the branch of its parent.
LEMMA BranchOfParent ==
    ASSUME NEW b \in Block
    PROVE  /\ Branch(b) = {b} \cup Branch(Parent(b))
           /\ Parent(b) \in Branch(b)
<1>1. b \in Tree /\ b # Genesis /\ Parent(b) \in Tree
  BY BlockFacts
<1>2. Parent(b) \in Branch(b)
  BY <1>1, BranchIn DEF HasParents
<1>3. Branch(Parent(b)) \subseteq Branch(b) /\ b \in Branch(b)
  BY <1>1, <1>2, BranchIn, BranchNested
<1> DEFINE S == {b} \cup Branch(Parent(b))
<1>4. S \subseteq Tree /\ b \in S
  BY <1>1, BranchIn
<1>5. HasParents(S)
  BY <1>1, BranchIn DEF HasParents
<1> HIDE DEF S
<1>6. Branch(b) \subseteq S
  BY <1>1, <1>4, <1>5, BranchDown
<1> QED  BY <1>2, <1>3, <1>6 DEF S

\* The branch of the genesis block.
LEMMA BranchOfGenesis == Branch(Genesis) = {Genesis}
<1> DEFINE S == {Genesis}
<1>1. S \subseteq Tree /\ Genesis \in S /\ HasParents(S)
  BY BlockFacts DEF HasParents
<1>2. Genesis \in Tree
  BY BlockFacts
<1> HIDE DEF S
<1>3. Branch(Genesis) \subseteq S
  BY <1>1, <1>2, BranchDown
<1> QED  BY <1>2, <1>3, BranchIn DEF S

\* Numbers fall along a branch.
LEMMA BranchFalls ==
    ASSUME NEW b \in Tree, NEW c \in Branch(b)
    PROVE  c = b \/ Number(c) < Number(b)
<1> DEFINE S == {d \in Tree : d = b \/ Number(d) < Number(b)}
<1>1. HasParents(S)
  <2> SUFFICES ASSUME NEW d \in S, d # Genesis  PROVE Parent(d) \in S
    BY DEF HasParents
  <2>1. /\ d \in Block /\ Parent(d) \in Tree /\ Number(d) = Number(Parent(d)) + 1
        /\ Number(d) \in Nat /\ Number(Parent(d)) \in Nat /\ Number(b) \in Nat
    BY BlockFacts
  <2>2. Number(Parent(d)) < Number(b)
    BY <2>1
  <2> QED  BY <2>1, <2>2
<1>2. S \subseteq Tree /\ b \in S
  OBVIOUS
<1> HIDE DEF S
<1>3. c \in S
  BY <1>1, <1>2, BranchDown
<1> QED  BY <1>3 DEF S

\* Of two blocks of a branch the lower one is on the branch of the other.
LEMMA BranchOrdered ==
    ASSUME NEW b \in Tree, NEW c \in Branch(b), NEW d \in Branch(b), Number(d) <= Number(c)
    PROVE  d \in Branch(c)
<1> DEFINE S == {x \in Branch(b) : \A y \in Branch(b) : Number(y) <= Number(x) => y \in Branch(x)}
<1>1. HasParents(S)
  <2> SUFFICES ASSUME NEW x \in S, x # Genesis, NEW y \in Branch(b), Number(y) <= Number(Parent(x))
               PROVE  Parent(x) \in Branch(b) /\ y \in Branch(Parent(x))
    BY BranchIn DEF HasParents
  <2>1. x \in Block /\ Number(x) = Number(Parent(x)) + 1 /\ y \in Tree /\ Parent(x) \in Tree
    BY BlockFacts, BranchIn
  <2>2. Number(x) \in Nat /\ Number(y) \in Nat /\ Number(Parent(x)) \in Nat
    BY <2>1, BlockFacts
  <2>3. Number(y) <= Number(x) /\ y # x
    BY <2>1, <2>2
  <2>4. y \in Branch(x)
    BY <2>3
  <2>5. Parent(x) \in Branch(b)
    BY BranchIn DEF HasParents
  <2> QED  BY <2>1, <2>3, <2>4, <2>5, BranchOfParent
<1>2. S \subseteq Tree /\ b \in S
  BY BranchIn
<1> HIDE DEF S
<1>3. c \in S
  BY <1>1, <1>2, BranchDown
<1> QED  BY <1>3 DEF S

\* A branch has one block of a number.
LEMMA BranchUnique ==
    ASSUME NEW b \in Tree, NEW c \in Branch(b), NEW d \in Branch(b), Number(d) = Number(c)
    PROVE  d = c
<1>1. c \in Tree /\ d \in Tree
  BY BranchIn
<1>2. Number(c) \in Nat /\ Number(d) \in Nat
  BY <1>1, BlockFacts
<1>3. d \in Branch(c)
  BY <1>2, BranchOrdered
<1> QED  BY <1>1, <1>2, <1>3, BranchFalls

\* A set of naturals that is not empty has a least element.
LEMMA HasLeast ==
    ASSUME NEW T, T \subseteq Nat, T # {}
    PROVE  \E n \in T : \A m \in T : n <= m
<1> DEFINE R == OpToRel(<, Nat)
<1>1. IsWellFoundedOn(R, Nat)
  BY NatLessThanWellFounded
<1> HIDE DEF R
<1>2. PICK n \in T : \A m \in T : ~ (<<m, n>> \in R)
  BY <1>1, WFMin
<1>3. \A m \in T : ~ (m < n)
  BY <1>2 DEF R, OpToRel
<1>4. \A m \in T : n <= m
  BY <1>3
<1> QED  BY <1>4

\* Every branch goes down to the genesis block, and has a block of every number.
LEMMA BranchToGenesis ==
    ASSUME NEW b \in Tree
    PROVE  Genesis \in Branch(b)
<1> DEFINE T == {Number(c) : c \in Branch(b)}
<1>1. \A c \in Branch(b) : c \in Tree /\ Number(c) \in Nat
  BY BranchIn, BlockFacts
<1>2. T \subseteq Nat /\ T # {}
  BY <1>1, BranchIn
<1>3. PICK n \in T : \A m \in T : n <= m
  BY <1>2, HasLeast
<1>4. PICK c \in Branch(b) : Number(c) = n
  BY <1>3
<1>5. CASE c = Genesis
  BY <1>5
<1>6. CASE c # Genesis
  <2>1. c \in Block /\ Parent(c) \in Branch(b)
    BY <1>1, <1>6, BlockFacts, BranchIn DEF HasParents
  <2>2. n <= Number(Parent(c)) /\ Number(Parent(c)) \in Nat
    BY <1>1, <1>3, <2>1
  <2> QED  BY <1>4, <2>1, <2>2, BlockFacts
<1> QED  BY <1>5, <1>6

\* A branch has a block of every number up to its block's.
LEMMA BranchComplete ==
    ASSUME NEW b \in Tree, NEW n \in 0..Number(b)
    PROVE  \E c \in Branch(b) : Number(c) = n
<1> DEFINE S == {c \in Branch(b) : \A m \in Nat : Number(c) <= m /\ m <= Number(b) =>
                                        \E d \in Branch(b) : Number(d) = m}
<1>1. Number(b) \in Nat /\ \A c \in Branch(b) : c \in Tree /\ Number(c) \in Nat
  BY BranchIn, BlockFacts
<1>2. HasParents(S)
  <2> SUFFICES ASSUME NEW c \in S, c # Genesis, NEW m \in Nat, Number(Parent(c)) <= m, m <= Number(b)
               PROVE  Parent(c) \in Branch(b) /\ \E d \in Branch(b) : Number(d) = m
    BY BranchIn DEF HasParents
  <2>1. Parent(c) \in Branch(b) /\ c \in Block
    BY <1>1, BlockFacts, BranchIn DEF HasParents
  <2>2. Number(c) = Number(Parent(c)) + 1 /\ Number(Parent(c)) \in Nat
    BY <1>1, <2>1, BlockFacts
  <2>3. CASE m = Number(Parent(c))
    BY <2>1, <2>3
  <2>4. CASE m # Number(Parent(c))
    <3>1. Number(c) <= m
      BY <2>2, <2>4
    <3> QED  BY <2>1, <3>1
  <2> QED  BY <2>3, <2>4
<1>3. S \subseteq Tree /\ b \in S
  <2>1. b \in Branch(b)
    BY BranchIn
  <2>2. \A m \in Nat : Number(b) <= m /\ m <= Number(b) => Number(b) = m
    BY <1>1
  <2> QED  BY <1>1, <2>1, <2>2
<1> HIDE DEF S
<1>4. Branch(b) \subseteq S
  BY <1>2, <1>3, BranchDown
<1>5. Genesis \in S
  BY <1>4, BranchToGenesis
<1> QED  BY <1>1, <1>5, BlockFacts DEF S

\* The block of a number on a branch.
LEMMA AncestorIs ==
    ASSUME NEW b \in Tree, NEW n \in 0..Number(b)
    PROVE  Ancestor(b, n) \in Branch(b) /\ Number(Ancestor(b, n)) = n
BY BranchComplete DEF Ancestor

\* A block of a branch is the one of its number.
LEMMA AncestorUnique ==
    ASSUME NEW b \in Tree, NEW c \in Branch(b)
    PROVE  Ancestor(b, Number(c)) = c
<1>1. Number(c) \in 0..Number(b)
  <2>1. c \in Tree /\ Number(c) \in Nat /\ Number(b) \in Nat
    BY BranchIn, BlockFacts
  <2> QED  BY <2>1, BranchFalls
<1> QED  BY <1>1, AncestorIs, BranchUnique

\* A block of a branch has the ancestors of the branch.
LEMMA AncestorNested ==
    ASSUME NEW b \in Tree, NEW c \in Branch(b), NEW n \in 0..Number(c)
    PROVE  Ancestor(c, n) = Ancestor(b, n)
<1>1. c \in Tree /\ Branch(c) \subseteq Branch(b)
  BY BranchNested
<1>2. Ancestor(c, n) \in Branch(b) /\ Number(Ancestor(c, n)) = n
  BY <1>1, AncestorIs
<1> QED  BY <1>2, AncestorUnique

\* A branch is finite: its blocks have numbers of their own, up to that of its block.
LEMMA BranchFinite ==
    ASSUME NEW b \in Tree
    PROVE  IsFiniteSet(Branch(b))
<1> DEFINE f == [c \in Branch(b) |-> Number(c)]
<1>1. \A c \in Branch(b) : Number(c) \in 0..Number(b)
  <2> TAKE c \in Branch(b)
  <2>1. c \in Tree /\ Number(c) \in Nat /\ Number(b) \in Nat
    BY BranchIn, BlockFacts
  <2> QED  BY <2>1, BranchFalls
<1>2. f \in [Branch(b) -> 0..Number(b)]
  BY <1>1
<1>3. \A c, d \in Branch(b) : f[c] = f[d] => c = d
  BY BranchUnique
<1>4. f \in Injection(Branch(b), 0..Number(b))
  BY <1>2, <1>3 DEF Injection, IsInjective
<1>5. IsFiniteSet(0..Number(b))
  BY BlockFacts, FS_Interval
<1> QED  BY <1>4, <1>5, FS_Injection
-----------------------------------------------------------------------------
(* What listing a set gives (Listing). *)

\* f lists the members of S, each once.
Enumerates(f, S) ==
    /\ Cardinality(S) \in Nat /\ DOMAIN f = 1..Cardinality(S)
    /\ \A i \in DOMAIN f : f[i] \in S
    /\ \A i, j \in DOMAIN f : f[i] = f[j] => i = j
    /\ \A x \in S : \E i \in DOMAIN f : f[i] = x

\* R puts the members of S in an order.
Ordered(R, S) ==
    /\ \A x \in S : <<x, x>> \notin R
    /\ \A x, y \in S : x # y => <<x, y>> \in R \/ <<y, x>> \in R
    /\ \A x, y, z \in S : <<x, y>> \in R /\ <<y, z>> \in R => <<x, z>> \in R

Below(R, S, x) == {y \in S : <<y, x>> \in R}

\* Members have different numbers below them, from none to all but one.
Ranked(R, S) ==
    /\ Cardinality(S) \in Nat
    /\ \A x, y \in S : Cardinality(Below(R, S, x)) = Cardinality(Below(R, S, y)) => x = y
    /\ \A i \in 1..Cardinality(S) : \E x \in S : Cardinality(Below(R, S, x)) = i - 1
    /\ \A x \in S : \E i \in 1..Cardinality(S) : Cardinality(Below(R, S, x)) = i - 1
    /\ \A x, y \in S : <<x, y>> \in R => Cardinality(Below(R, S, x)) < Cardinality(Below(R, S, y))

\* So have those of an ordered finite set.
LEMMA Ranks ==
    ASSUME NEW S, IsFiniteSet(S), NEW R, Ordered(R, S)
    PROVE  Ranked(R, S)
<1> DEFINE n == Cardinality(S)
           c(x) == Cardinality(Below(R, S, x))
           ranks == {c(x) : x \in S}
<1>1. n \in Nat /\ \A x : IsFiniteSet(Below(R, S, x)) /\ c(x) \in Nat
  BY FS_CardinalityType, FS_Subset DEF Below
<1>2. \A x, y \in S : <<x, y>> \in R => c(x) < c(y)
  <2> SUFFICES ASSUME NEW x \in S, NEW y \in S, <<x, y>> \in R  PROVE c(x) < c(y)
    OBVIOUS
  <2>1. Below(R, S, x) \subseteq Below(R, S, y) /\ x \in Below(R, S, y) /\ x \notin Below(R, S, x)
    BY DEF Ordered, Below
  <2>2. c(x) <= c(y) /\ c(x) # c(y)
    BY <1>1, <2>1, FS_Subset
  <2> QED  BY <1>1, <2>2
<1>3. \A x, y \in S : c(x) = c(y) => x = y
  <2> SUFFICES ASSUME NEW x \in S, NEW y \in S, c(x) = c(y)  PROVE x = y
    OBVIOUS
  <2>1. c(x) \in Nat /\ c(y) \in Nat /\ ~(c(x) < c(y)) /\ ~(c(y) < c(x))
    <3>1. c(x) \in Nat /\ c(y) \in Nat
      BY <1>1
    <3> HIDE DEF c
    <3> QED  BY <3>1
  <2>2. <<x, y>> \notin R /\ <<y, x>> \notin R
    BY <1>2, <2>1
  <2> QED  BY <2>2 DEF Ordered
<1>4. \A x \in S : c(x) \in 0..(n - 1)
  <2> SUFFICES ASSUME NEW x \in S  PROVE c(x) \in 0..(n - 1)
    OBVIOUS
  <2>1. Below(R, S, x) \subseteq S /\ x \notin Below(R, S, x)
    BY DEF Ordered, Below
  <2>2. c(x) <= n /\ c(x) # n
    BY <2>1, FS_Subset
  <2> QED  BY <1>1, <2>2
<1>5. ranks = 0..(n - 1)
  <2> DEFINE f == [x \in S |-> c(x)]
  <2>1. f \in Bijection(S, ranks)
    BY <1>3 DEF Bijection, Injection, Surjection, IsInjective
  <2>2. IsFiniteSet(ranks) /\ Cardinality(ranks) = n
    <3> HIDE DEF f, ranks
    <3>1. ExistsBijection(S, ranks)
      BY <2>1 DEF ExistsBijection
    <3> QED  BY <3>1, FS_Bijection
  <2>3. ranks \subseteq 0..(n - 1)
    BY <1>4
  <2>4. IsFiniteSet(0..(n - 1)) /\ Cardinality(0..(n - 1)) = n
    <3>1. 0 \in Int /\ n - 1 \in Int
      BY <1>1
    <3>2. IsFiniteSet(0..(n - 1)) /\ Cardinality(0..(n - 1)) = IF 0 > n - 1 THEN 0 ELSE (n - 1) - 0 + 1
      BY <3>1, FS_Interval
    <3> HIDE DEF n
    <3> QED  BY <1>1, <3>2
  <2> HIDE DEF ranks, n
  <2> QED  BY <2>2, <2>3, <2>4, FS_Subset
<1> HIDE DEF c, n
<1>6. \A i \in 1..n : i - 1 \in 0..(n - 1)
  BY <1>1
<1>7. \A k \in 0..(n - 1) : k + 1 \in 1..n /\ (k + 1) - 1 = k
  BY <1>1
<1>8. \A i \in 1..n : \E x \in S : c(x) = i - 1
  BY <1>5, <1>6
<1>9. \A x \in S : \E i \in 1..n : c(x) = i - 1
  BY <1>4, <1>7
<1> QED  BY <1>1, <1>2, <1>3, <1>8, <1>9 DEF c, n, Ranked

\* What is read from such numbers lists the set.
LEMMA Listed ==
    ASSUME NEW S, IsFiniteSet(S), NEW R, Ordered(R, S), NEW f, DOMAIN f = 1..Cardinality(S),
           \A i \in DOMAIN f : f[i] \in S /\ Cardinality(Below(R, S, f[i])) = i - 1
    PROVE  Enumerates(f, S)
<1> DEFINE n == Cardinality(S)
           c(x) == Cardinality(Below(R, S, x))
<1>1. /\ n \in Nat
      /\ \A x, y \in S : c(x) = c(y) => x = y
      /\ \A x \in S : \E i \in 1..n : c(x) = i - 1
  BY Ranks DEF Ranked
<1>2. \A i \in 1..n : f[i] \in S /\ c(f[i]) = i - 1
  OBVIOUS
<1> HIDE DEF c, n
<1>3. \A i, j \in 1..n : f[i] = f[j] => i = j
  BY <1>1, <1>2
<1>4. \A x \in S : \E i \in 1..n : f[i] = x
  BY <1>1, <1>2
<1> QED  BY <1>1, <1>2, <1>3, <1>4 DEF Enumerates, n

\* Numbers in their order.
LEMMA NumbersInOrder ==
    ASSUME NEW S, IsFiniteSet(S), S \subseteq Int
    PROVE  /\ Enumerates(InOrder(S, <), S)
           /\ \A i, j \in 1..Cardinality(S) : i < j => InOrder(S, <)[i] < InOrder(S, <)[j]
<1> DEFINE R == {pair \in S \X S : pair[1] < pair[2]}
           f == InOrder(S, <)
           n == Cardinality(S)
<1>1. Ordered(R, S) /\ \A x, y \in S : <<x, y>> \in R <=> x < y
  BY DEF Ordered
<1>2. \A x \in S : {y \in S : y < x} = Below(R, S, x)
  BY <1>1 DEF Below
<1> HIDE DEF R
<1>3. /\ n \in Nat
      /\ \A i \in 1..n : \E x \in S : Cardinality(Below(R, S, x)) = i - 1
      /\ \A x, y \in S : <<x, y>> \in R => Cardinality(Below(R, S, x)) < Cardinality(Below(R, S, y))
      /\ \A x \in S : \E i \in 1..Cardinality(S) : Cardinality(Below(R, S, x)) = i - 1
  <2> HIDE DEF f
  <2>1. Ranked(R, S)
    BY <1>1, Ranks
  <2> QED  BY <2>1 DEF Ranked
<1>4. DOMAIN f = 1..n
  BY DEF InOrder
<1>5. \A i \in 1..n : f[i] \in S /\ Cardinality(Below(R, S, f[i])) = i - 1
  <2> SUFFICES ASSUME NEW i \in 1..n  PROVE f[i] \in S /\ Cardinality(Below(R, S, f[i])) = i - 1
    OBVIOUS
  <2>1. f[i] = CHOOSE x \in S : Cardinality({y \in S : y < x}) = i - 1
    BY DEF InOrder
  <2>2. \E x \in S : Cardinality({y \in S : y < x}) = i - 1
    BY <1>2, <1>3
  <2>3. f[i] \in S /\ Cardinality({y \in S : y < f[i]}) = i - 1
    BY <2>1, <2>2
  <2> QED  BY <1>2, <2>3
<1> HIDE DEF f
<1>6. Enumerates(f, S)
  BY <1>1, <1>4, <1>5, Listed
<1>7. \A i, j \in 1..n : i < j => f[i] < f[j]
  <2> SUFFICES ASSUME NEW i \in 1..n, NEW j \in 1..n, i < j  PROVE f[i] < f[j]
    OBVIOUS
  <2>1. f[i] \in S /\ f[j] \in S /\ f[i] # f[j]
    BY <1>4, <1>5, <1>6 DEF Enumerates
  <2>2. ~(<<f[j], f[i]>> \in R)
    <3>1. Cardinality(Below(R, S, f[i])) = i - 1 /\ Cardinality(Below(R, S, f[j])) = j - 1
      BY <1>5
    <3>2. ~(j - 1 < i - 1)
      BY <1>3
    <3> QED  BY <1>3, <2>1, <3>1, <3>2
  <2> QED  BY <1>1, <2>1, <2>2 DEF Ordered
<1> QED  BY <1>6, <1>7 DEF f, n

\* r has elements of s in the order they have there.
IsPart(r, s) ==
    \E g \in [DOMAIN r -> DOMAIN s] :
        /\ \A i, j \in DOMAIN r : i < j => g[i] < g[j]
        /\ \A i \in DOMAIN r : r[i] = s[g[i]]

\* The part of a sequence at some places.
LEMMA PickedIs ==
    ASSUME NEW T, NEW s \in Seq(T), NEW I \in SUBSET DOMAIN s
    PROVE  /\ Picked(s, I) \in Seq(T) /\ ToSet(Picked(s, I)) = {s[i] : i \in I}
           /\ IsPart(Picked(s, I), s)
<1> DEFINE place == InOrder(I, <)
           n == Cardinality(I)
           f == [i \in 1..n |-> s[place[i]]]
<1>1. IsFiniteSet(I) /\ I \subseteq Int /\ DOMAIN s = 1..Len(s) /\ Len(s) \in Nat
  <2>1. DOMAIN s = 1..Len(s) /\ Len(s) \in Nat
    OBVIOUS
  <2>2. IsFiniteSet(1..Len(s))
    BY <2>1, FS_Interval
  <2> QED  BY <2>1, <2>2, FS_Subset
<1>2. Picked(s, I) = f
  <2>1. {ElementsAt(t, P) : t \in {s}, P \in {I}} = {ElementsAt(s, I)}
    OBVIOUS
  <2>2. Picked(s, I) = ElementsAt(s, I)
    BY <2>1 DEF Picked, TheOne
  <2> QED  BY <2>2 DEF ElementsAt
<1>3. Enumerates(place, I) /\ \A i, j \in 1..n : i < j => place[i] < place[j]
  BY <1>1, NumbersInOrder
<1> HIDE DEF place
<1>4. /\ n \in Nat /\ DOMAIN place = 1..n /\ \A i \in 1..n : place[i] \in I
      /\ \A x \in I : \E i \in 1..n : place[i] = x
  BY <1>3 DEF Enumerates
<1> HIDE DEF n
<1>5. f \in Seq(T) /\ Len(f) = n /\ DOMAIN f = 1..n
  <2>1. f \in [1..n -> T]
    BY <1>4
  <2> QED  BY <1>4, <2>1
<1>6. \A i \in 1..n : f[i] = s[place[i]]
  BY <1>4
<1> HIDE DEF f
<1>7. ToSet(f) = {s[i] : i \in I}
  <2>1. \A i \in 1..n : f[i] \in {s[j] : j \in I}
    BY <1>4, <1>6
  <2>2. ASSUME NEW x \in I PROVE s[x] \in ToSet(f)
    <3>1. PICK i \in 1..n : place[i] = x
      BY <1>4
    <3>2. f[i] = s[x]
      BY <1>6, <3>1
    <3> QED  BY <1>5, <3>2 DEF ToSet
  <2>3. ToSet(f) = {f[i] : i \in 1..n}
    BY <1>5 DEF ToSet
  <2> QED  BY <2>1, <2>2, <2>3
<1>8. IsPart(f, s)
  <2> DEFINE g == [i \in 1..n |-> place[i]]
  <2>1. g \in [DOMAIN f -> DOMAIN s]
    BY <1>4, <1>5
  <2>2. \A i \in 1..n : g[i] = place[i]
    OBVIOUS
  <2> HIDE DEF g
  <2>3. \A i, j \in DOMAIN f : i < j => g[i] < g[j]
    BY <1>3, <1>5, <2>2
  <2>4. \A i \in DOMAIN f : f[i] = s[g[i]]
    BY <1>5, <1>6, <2>2
  <2> QED  BY <2>1, <2>3, <2>4 DEF IsPart
<1> QED  BY <1>2, <1>5, <1>7, <1>8

\* What of a sequence is not in a set.
LEMMA WithoutIs ==
    ASSUME NEW T, NEW s \in Seq(T), NEW out
    PROVE  /\ Without(s, out) \in Seq(T) /\ ToSet(Without(s, out)) = ToSet(s) \ out
           /\ IsPart(Without(s, out), s)
<1> DEFINE I == {i \in DOMAIN s : s[i] \notin out}
<1>1. Without(s, out) = Picked(s, I)
  <2>1. Without(s, out) = TheOne({Picked(s, I)})
    BY DEF Without, Selected
  <2> HIDE DEF I
  <2> QED  BY <2>1 DEF TheOne
<1>2. {s[i] : i \in I} = ToSet(s) \ out
  BY DEF ToSet
<1>3. I \in SUBSET DOMAIN s
  OBVIOUS
<1> HIDE DEF I
<1> QED  BY <1>1, <1>2, <1>3, PickedIs

\* A part of a sequence without repetition has none.
LEMMA PartInjective ==
    ASSUME NEW T, NEW s \in Seq(T), NEW r \in Seq(T), IsPart(r, s), IsInjective(s)
    PROVE  IsInjective(r)
<1>1. PICK g \in [DOMAIN r -> DOMAIN s] :
         /\ \A i, j \in DOMAIN r : i < j => g[i] < g[j]
         /\ \A i \in DOMAIN r : r[i] = s[g[i]]
  BY DEF IsPart
<1>2. DOMAIN r = 1..Len(r) /\ Len(r) \in Nat /\ DOMAIN s = 1..Len(s) /\ Len(s) \in Nat
  OBVIOUS
<1>3. ASSUME NEW i \in DOMAIN r, NEW j \in DOMAIN r, r[i] = r[j] PROVE i = j
  <2>1. g[i] = g[j] /\ g[i] \in Int /\ i \in Int /\ j \in Int
    BY <1>1, <1>2, <1>3 DEF IsInjective
  <2>2. ~(i < j) /\ ~(j < i)
    BY <1>1, <2>1
  <2> QED  BY <2>1, <2>2
<1> QED  BY <1>3 DEF IsInjective
=============================================================================
