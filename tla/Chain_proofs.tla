---------------------------- MODULE Chain_proofs ----------------------------
(***************************************************************************)
(* Proofs about the chain: BlockChain, for any tree of blocks,             *)
(* difficulties, threads that read and bounds; PendingBlock, for any       *)
(* transactions, capacity, forks, generations and length of the chain;     *)
(* BlockSync, for any chains, number of peers and moves; and BlockQueue,   *)
(* for any number of verifiers, blocks and batches.                        *)
(*                                                                         *)
(* What they need of the tree of blocks, and of parts of sequences, is in  *)
(* BlockTree_proofs.                                                       *)
(*                                                                         *)
(* The loops of the block queue over sequences and sets are folds, for     *)
(* which instances of FoldFacts say what holds from turn to turn.          *)
(***************************************************************************)
EXTENDS BlockChain, PendingBlock, BlockSync, BlockQueue, BlockTree_proofs
-----------------------------------------------------------------------------
(***************************************************************************)
(* BlockChain: imports, what is cached, and the index of the canonical     *)
(* chain. First, blocks and their common parents.                          *)
(***************************************************************************)
\* Every number up to a block's is the number of a block.
LEMMA NumbersBelow ==
    ASSUME NEW b \in Tree, NEW n \in 1..Number(b)
    PROVE  n \in Numbers
<1>1. Number(b) \in Nat
  BY BlockFacts
<1>2. PICK c \in Branch(b) : Number(c) = n
  BY <1>1, BranchComplete
<1>3. c \in Tree /\ c # Genesis
  BY <1>1, <1>2, BranchIn, BlockFacts
<1> QED  BY <1>2, <1>3, BlockFacts DEF Numbers

LEMMA NumbersAreNaturals == Numbers \subseteq Nat
BY BlockAssumption DEF Numbers

\* Two branches meet: from the numbers of the blocks they share, all at most
\* that of the first block, the greatest one.
LEMMA CommonFacts ==
    ASSUME NEW a \in Tree, NEW b \in Tree
    PROVE  Common(a, b) \in Branch(a) /\ Common(a, b) \in Branch(b)
<1> DEFINE Shared == Branch(a) \cap Branch(b)
           T == {Number(a) - Number(c) : c \in Shared}
<1>1. Number(a) \in Nat /\ \A c \in Shared : Number(c) \in Nat /\ Number(c) <= Number(a)
  BY BranchIn, BranchFalls, BlockFacts
<1>2. T \subseteq Nat
  BY <1>1
<1>3. Genesis \in Shared
  BY BranchToGenesis
<1>4. T # {}
  BY <1>3
<1> HIDE DEF T
<1>5. PICK n \in T : \A m \in T : n <= m
  BY <1>2, <1>4, HasLeast
<1>6. PICK c \in Shared : n = Number(a) - Number(c)
  BY <1>5 DEF T
<1>7. \A d \in Shared : Number(a) - Number(c) <= Number(a) - Number(d)
  BY <1>5, <1>6 DEF T
<1>8. \A d \in Shared : Number(d) <= Number(c)
  BY <1>1, <1>7
<1> QED  BY <1>8 DEF Common

\* What a new best block takes to the index: its branch above the common block.
LEMMA CanonisedFacts ==
    ASSUME NEW a \in Tree, NEW b \in Block, NEW m, m = Common(a, Parent(b))
    PROVE  /\ m \in Branch(a) /\ m \in Branch(b) /\ m \in Tree
           /\ Number(m) \in Nat /\ Number(m) <= Number(a) /\ Number(m) < Number(b)
           /\ Canonised(b, m) \subseteq Branch(b) /\ b \in Canonised(b, m)
           /\ \A c \in Canonised(b, m) : Number(c) \in Nat /\ Number(m) < Number(c)
           /\ \A n \in Number(m) + 1..Number(b) : Ancestor(b, n) \in Canonised(b, m)
<1>1. /\ b \in Tree /\ Parent(b) \in Tree /\ Number(b) = Number(Parent(b)) + 1
      /\ Number(a) \in Nat /\ Number(b) \in Nat /\ Number(Parent(b)) \in Nat
  BY BlockFacts
<1>2. m \in Branch(a) /\ m \in Branch(Parent(b))
  BY <1>1, CommonFacts
<1>3. m \in Branch(b) /\ m \in Tree /\ Number(m) \in Nat
  BY <1>1, <1>2, BranchOfParent, BranchIn, BlockFacts
<1>4. Number(m) <= Number(a) /\ Number(m) < Number(b)
  BY <1>1, <1>2, <1>3, BranchFalls
<1>5. ASSUME NEW c \in Canonised(b, m)
      PROVE  c \in Branch(b) /\ Number(c) \in Nat /\ Number(m) < Number(c)
  <2>1. c \in Branch(b) /\ c \notin Branch(m)
    BY <1>5 DEF Canonised
  <2>2. c \in Tree /\ Number(c) \in Nat
    BY <1>1, <2>1, BranchIn, BlockFacts
  <2>3. ~ (Number(c) <= Number(m))
    BY <1>1, <1>3, <2>1, BranchOrdered
  <2> QED  BY <1>3, <2>1, <2>2, <2>3
<1>6. ASSUME NEW n \in Number(m) + 1..Number(b)
      PROVE  Ancestor(b, n) \in Canonised(b, m)
  <2>1. n \in 0..Number(b) /\ n > Number(m)
    BY <1>1, <1>3
  <2>2. Ancestor(b, n) \in Branch(b) /\ Number(Ancestor(b, n)) = n
    BY <1>1, <2>1, AncestorIs
  <2>3. Ancestor(b, n) \notin Branch(m)
    BY <1>3, <2>1, <2>2, BranchFalls
  <2> QED  BY <2>2, <2>3 DEF Canonised
<1>7. b \in Canonised(b, m)
  <2>1. b \in Branch(b)
    BY <1>1, BranchIn
  <2>2. b \notin Branch(m)
    BY <1>1, <1>3, <1>4, BranchFalls
  <2> QED  BY <2>1, <2>2 DEF Canonised
<1> QED  BY <1>2, <1>3, <1>4, <1>5, <1>6, <1>7
-----------------------------------------------------------------------------
(***************************************************************************)
(* What is stored.                                                         *)
(***************************************************************************)
ReadingTypes == [number : Numbers, hash : Tree, late : BOOLEAN]

Types ==
    /\ blocksDB \subseteq Block /\ details \subseteq Tree
    /\ index \in [Numbers -> Tree \cup {NoHash}] /\ hashes \in [Numbers -> Tree \cup {NoHash}]
    /\ last \in Tree /\ best = last
    /\ importing = NoHash \/ importing \in ImportRecord
    /\ \A r \in Reader : reading[r] = NoHash \/ reading[r] \in ReadingTypes

\* The details go down to the genesis block, and the block under them is stored.
Grounded ==
    /\ Genesis \in details /\ last \in details
    /\ \A b \in details : Branch(b) \subseteq details /\ (b # Genesis => b \in blocksDB)
    /\ importing # NoHash =>
        /\ Parent(importing.block) \in details
        /\ importing.at # "blocks" => importing.block \in blocksDB
        /\ importing.at = "best" => importing.block \in details

\* A hash kept for a number is that of a block of the number, with details.
Hash(n, h) == h \in details /\ Number(h) = n

Named ==
    /\ \A n \in Numbers : index[n] # NoHash => Hash(n, index[n])
    /\ \A n \in Numbers : hashes[n] # NoHash => Hash(n, hashes[n])
    /\ \A r \in Reader : reading[r] # NoHash => Hash(reading[r].number, reading[r].hash)

\* The index is full up to the head, and will be up to the block that is to
\* become the head.
Complete ==
    /\ \A n \in 1..Number(last) : index[n] # NoHash
    /\ importing # NoHash => importing.canon \subseteq Branch(importing.block)
    /\ importing # NoHash /\ (importing.best \/ importing.at = "best") =>
        \A n \in 1..Number(importing.block) :
            \/ index[n] # NoHash
            \/ importing.at # "best" /\ \E c \in importing.canon : Number(c) = n

StoredInv == Types /\ Grounded /\ Named /\ Complete

\* An import starts as one of two records.
NewImport(b) == [block |-> b, at |-> "blocks", best |-> FALSE, canon |-> {}]
Leading(b) == [block |-> b, at |-> "blocks", best |-> TRUE,
               canon |-> Canonised(b, Common(last, Parent(b)))]

LEMMA ImportCases ==
    ASSUME NEW b \in Block, ImportBegin(b) \/ InsertBegin(b)
    PROVE  /\ importing = NoHash /\ IsStored(Parent(b))
           /\ UNCHANGED <<stored, last, torn>>
           /\ \A n \in Numbers \ overtaken' : hashes'[n] # NoHash => n \notin overtaken
           /\ \/ importing' = NewImport(b) /\ hashes' = hashes /\ reading' = reading
              \/ /\ importing' = Leading(b)
                 /\ hashes' = IF Common(last, Parent(b)) # last
                              THEN Reverted(Number(Common(last, Parent(b))) + 1) ELSE hashes
                 /\ reading' = Overtake(Number(Common(last, Parent(b))) + 1)
<1>1. CASE InsertBegin(b)
  BY <1>1 DEF InsertBegin, NewImport
<1>2. CASE ImportBegin(b)
  <2> DEFINE m == Common(last, Parent(b))
  <2>1. /\ importing = NoHash /\ IsStored(Parent(b))
        /\ UNCHANGED <<stored, last, torn>>
        /\ \A n \in Numbers \ overtaken' : hashes'[n] # NoHash => n \notin overtaken
    BY <1>2 DEF ImportBegin, StillCached
  <2>2. /\ importing' = [block |-> b, at |-> "blocks", best |-> Heavier(b, last),
                         canon |-> IF Heavier(b, last) THEN Canonised(b, m) ELSE {}]
        /\ hashes' = IF Heavier(b, last) /\ m # last THEN Reverted(Number(m) + 1) ELSE hashes
        /\ reading' = IF Heavier(b, last) THEN Overtake(Number(m) + 1) ELSE reading
    BY <1>2 DEF ImportBegin
  <2>3. CASE Heavier(b, last)
    <3>1. Heavier(b, last) = TRUE
      BY <2>3, Zenon DEF Heavier
    <3> HIDE DEF m
    <3>2. importing' = [block |-> b, at |-> "blocks", best |-> TRUE, canon |-> Canonised(b, m)]
      BY <2>2, <3>1
    <3>3. /\ hashes' = IF m # last THEN Reverted(Number(m) + 1) ELSE hashes
          /\ reading' = Overtake(Number(m) + 1)
      BY <2>2, <3>1
    <3> QED  BY <2>1, <3>2, <3>3 DEF Leading, m
  <2>4. CASE ~Heavier(b, last)
    <3>1. Heavier(b, last) = FALSE
      BY <2>4, Zenon DEF Heavier
    <3> HIDE DEF m
    <3>2. importing' = [block |-> b, at |-> "blocks", best |-> FALSE, canon |-> {}]
      BY <2>2, <3>1
    <3>3. hashes' = hashes /\ reading' = reading
      BY <2>2, <3>1
    <3> QED  BY <2>1, <3>2, <3>3 DEF NewImport
  <2> QED  BY <2>3, <2>4
<1> QED  BY <1>1, <1>2

\* A reader that is overtaken reads what it read.
LEMMA OvertakeFacts ==
    ASSUME NEW r \in Reader, NEW first, reading[r] = NoHash \/ reading[r] \in ReadingTypes
    PROVE  LET o == Overtake(first)[r]
           IN  \/ o = reading[r] /\ (reading[r] # NoHash => ~ (reading[r].number >= first))
              \/ /\ reading[r] # NoHash /\ o \in ReadingTypes /\ o.late
                 /\ o.number = reading[r].number /\ o.hash = reading[r].hash
<1> DEFINE o == Overtake(first)[r]
<1>1. o = IF reading[r] # NoHash /\ reading[r].number >= first
          THEN [reading[r] EXCEPT !.late = TRUE] ELSE reading[r]
  BY DEF Overtake
<1> HIDE DEF o
<1>2. CASE reading[r] # NoHash /\ reading[r].number >= first
  <2>1. o = [reading[r] EXCEPT !.late = TRUE] /\ reading[r] \in ReadingTypes
    BY <1>1, <1>2
  <2>2. /\ o \in ReadingTypes /\ o.late = TRUE
        /\ o.number = reading[r].number /\ o.hash = reading[r].hash
    BY <2>1 DEF ReadingTypes
  <2> QED  BY <1>2, <2>2 DEF o
<1>3. CASE ~ (reading[r] # NoHash /\ reading[r].number >= first)
  BY <1>1, <1>3 DEF o
<1> QED  BY <1>2, <1>3

\* Both records are imports.
LEMMA ImportTypes ==
    ASSUME NEW b \in Block, last \in Tree
    PROVE  /\ NewImport(b) \in ImportRecord /\ NewImport(b).block = b /\ NewImport(b).at = "blocks"
           /\ Leading(b) \in ImportRecord /\ Leading(b).block = b /\ Leading(b).at = "blocks"
<1>1. NewImport(b) \in ImportRecord /\ NewImport(b).block = b /\ NewImport(b).at = "blocks"
  BY DEF NewImport, ImportRecord
<1>2. Canonised(b, Common(last, Parent(b))) \subseteq Tree
  <2>1. Canonised(b, Common(last, Parent(b))) \subseteq Branch(b) /\ b \in Tree
    BY CanonisedFacts, BlockFacts
  <2> QED  BY <2>1, BranchIn
<1> QED  BY <1>1, <1>2 DEF Leading, ImportRecord

LEMMA ImportFields ==
    ASSUME NEW i \in ImportRecord
    PROVE  /\ i.block \in Block /\ i.at \in {"blocks", "extras", "best"} /\ i.canon \subseteq Tree
           /\ i.best = TRUE \/ i.best = FALSE
           /\ i # NoHash
           /\ \A a \in {"blocks", "extras", "best"} :
                /\ [i EXCEPT !.at = a] \in ImportRecord /\ [i EXCEPT !.at = a].at = a
                /\ [i EXCEPT !.at = a].block = i.block /\ [i EXCEPT !.at = a].best = i.best
                /\ [i EXCEPT !.at = a].canon = i.canon
BY ChainAssumption DEF ImportRecord

LEMMA StoredMeansDetails ==
    ASSUME StoredInv, NEW b \in Tree
    PROVE  IsStored(b) <=> b \in details
BY DEF StoredInv, Grounded, IsStored

\* With its parent's, the details of a block go down to the genesis block.
LEMMA BranchStored ==
    ASSUME StoredInv, importing # NoHash
    PROVE  Branch(importing.block) \subseteq details \cup {importing.block}
<1>1. importing.block \in Block
  BY ImportFields DEF StoredInv, Types
<1>2. Branch(Parent(importing.block)) \subseteq details
  BY DEF StoredInv, Grounded
<1> QED  BY <1>1, <1>2, BranchOfParent

LEMMA StoredStart == ChainInit => StoredInv
<1> SUFFICES ASSUME ChainInit PROVE StoredInv
  OBVIOUS
<1> USE DEF ChainInit
<1>1. Types
  BY BlockFacts, Zenon DEF Types, NoIndex
<1>2. Grounded
  BY BranchOfGenesis DEF Grounded
<1>3. Named
  BY DEF Named, NoIndex
<1>4. Complete
  BY BlockFacts DEF Complete
<1> QED  BY <1>1, <1>2, <1>3, <1>4 DEF StoredInv

\* The same lookups are under way, if some are overtaken.
ReadsAsBefore ==
    \A r \in Reader :
        \/ reading'[r] = reading[r]
        \/ /\ reading[r] # NoHash /\ reading'[r] \in ReadingTypes
           /\ reading'[r].number = reading[r].number /\ reading'[r].hash = reading[r].hash

LEMMA OvertakenRead ==
    ASSUME StoredInv, NEW first, reading' = reading \/ reading' = Overtake(first)
    PROVE  ReadsAsBefore
<1>1. CASE reading' = reading
  BY <1>1 DEF ReadsAsBefore
<1>2. CASE reading' = Overtake(first)
  <2> SUFFICES ASSUME NEW r \in Reader
               PROVE  \/ reading'[r] = reading[r]
                      \/ /\ reading[r] # NoHash /\ reading'[r] \in ReadingTypes
                         /\ reading'[r].number = reading[r].number /\ reading'[r].hash = reading[r].hash
    BY DEF ReadsAsBefore
  <2>1. reading[r] = NoHash \/ reading[r] \in ReadingTypes
    BY DEF StoredInv, Types
  <2> QED  BY <1>2, <2>1, OvertakeFacts
<1> QED  BY <1>1, <1>2

\* Starting an import: the branch above the common block is to be indexed, and
\* the index is full below it.
LEMMA StoredStarts ==
    ASSUME StoredInv, NEW b \in Block, ImportBegin(b) \/ InsertBegin(b)
    PROVE  StoredInv'
<1> DEFINE m == Common(last, Parent(b))
<1>1. /\ importing = NoHash /\ IsStored(Parent(b))
      /\ UNCHANGED <<blocksDB, details, index, best, last>>
      /\ \/ importing' = NewImport(b) /\ hashes' = hashes /\ reading' = reading
         \/ /\ importing' = Leading(b)
            /\ hashes' = IF m # last THEN Reverted(Number(m) + 1) ELSE hashes
            /\ reading' = Overtake(Number(m) + 1)
  BY ImportCases DEF stored
<1>2. last \in Tree /\ b \in Tree /\ Parent(b) \in Tree
  BY BlockFacts DEF StoredInv, Types
<1>3. /\ NewImport(b) \in ImportRecord /\ NewImport(b).block = b /\ NewImport(b).at = "blocks"
      /\ Leading(b) \in ImportRecord /\ Leading(b).block = b /\ Leading(b).at = "blocks"
  BY <1>2, ImportTypes
<1>4. /\ hashes' \in [Numbers -> Tree \cup {NoHash}]
      /\ \A n \in Numbers : hashes'[n] \in {NoHash, hashes[n]}
  <2>1. hashes \in [Numbers -> Tree \cup {NoHash}]
    BY DEF StoredInv, Types
  <2> HIDE DEF m
  <2>2. hashes' = hashes \/ hashes' = Reverted(Number(m) + 1)
    BY <1>1
  <2>3. CASE hashes' = hashes
    BY <2>1, <2>3
  <2>4. CASE hashes' = Reverted(Number(m) + 1)
    BY <2>1, <2>4 DEF Reverted
  <2> QED  BY <2>2, <2>3, <2>4
<1>5. importing' \in ImportRecord /\ importing'.block = b /\ importing'.at = "blocks"
  <2> HIDE DEF m
  <2> QED  BY <1>1, <1>3
<1>6. ReadsAsBefore
  <2> HIDE DEF m
  <2>1. reading' = reading \/ reading' = Overtake(Number(m) + 1)
    BY <1>1
  <2> QED  BY <2>1, OvertakenRead
<1>7. Types'
  BY <1>1, <1>4, <1>5, <1>6, Zenon DEF StoredInv, Types, ReadsAsBefore
<1>8. Grounded'
  <2>1. Parent(b) \in details
    BY <1>1, <1>2, StoredMeansDetails
  <2> QED  BY <1>1, <1>5, <2>1 DEF StoredInv, Grounded
<1>9. Named'
  BY <1>1, <1>4, <1>6 DEF StoredInv, Named, Hash, ReadsAsBefore
<1>10. Complete'
  <2>1. \A n \in 1..Number(last) : index[n] # NoHash
    BY DEF StoredInv, Complete
  <2>2. CASE importing' = NewImport(b)
    <3>1. importing'.canon = {} /\ importing'.best = FALSE
      BY <2>2 DEF NewImport
    <3> QED  BY <1>1, <1>5, <2>1, <3>1 DEF Complete
  <2>3. CASE importing' = Leading(b)
    <3> HIDE DEF m
    <3>1. importing'.canon = Canonised(b, m) /\ importing'.block = b
      BY <2>3 DEF Leading, m
    <3>2. /\ Number(m) \in Nat /\ Number(m) <= Number(last)
          /\ Canonised(b, m) \subseteq Branch(b)
          /\ \A n \in Number(m) + 1..Number(b) : Ancestor(b, n) \in Canonised(b, m)
      BY <1>2, CanonisedFacts DEF m
    <3>3. ASSUME NEW n \in 1..Number(b)
          PROVE  index[n] # NoHash \/ \E c \in Canonised(b, m) : Number(c) = n
      <4>1. Number(b) \in Nat /\ Number(last) \in Nat
        BY <1>2, BlockFacts
      <4>2. CASE n <= Number(m)
        BY <2>1, <3>2, <4>1, <4>2
      <4>3. CASE ~ (n <= Number(m))
        <5>1. n \in Number(m) + 1..Number(b) /\ n \in 0..Number(b)
          BY <3>2, <4>1, <4>3
        <5>2. Number(Ancestor(b, n)) = n
          BY <1>2, <5>1, AncestorIs
        <5> QED  BY <3>2, <5>1, <5>2
      <4> QED  BY <4>2, <4>3
    <3> QED  BY <1>1, <1>5, <2>1, <3>1, <3>2, <3>3 DEF Complete
  <2> QED  BY <1>1, <2>2, <2>3
<1> QED  BY <1>7, <1>8, <1>9, <1>10 DEF StoredInv

LEMMA StoredBlocks ==
    ASSUME StoredInv, CommitBlocks
    PROVE  StoredInv'
<1>1. /\ importing # NoHash /\ importing.at = "blocks" /\ importing \in ImportRecord
      /\ blocksDB' = blocksDB \cup {importing.block}
      /\ importing' = [importing EXCEPT !.at = "extras"]
      /\ UNCHANGED <<details, index, best, last, hashes, reading>>
  BY DEF CommitBlocks, StoredInv, Types
<1>2. /\ importing' \in ImportRecord /\ importing.block \in Block
      /\ importing'.at = "extras" /\ importing'.block = importing.block
      /\ importing'.best = importing.best /\ importing'.canon = importing.canon
  BY <1>1, ImportFields
<1>3. Types'
  BY <1>1, <1>2, Zenon DEF StoredInv, Types
<1>4. Grounded'
  BY <1>1, <1>2 DEF StoredInv, Grounded
<1>5. Named'
  BY <1>1 DEF StoredInv, Named, Hash
<1>6. Complete'
  BY <1>1, <1>2 DEF StoredInv, Complete
<1> QED  BY <1>3, <1>4, <1>5, <1>6 DEF StoredInv

\* The commit of the extras: what it puts into the index is on the new block's branch.
LEMMA StoredExtras ==
    ASSUME StoredInv, CommitExtras
    PROVE  StoredInv'
<1> DEFINE b == importing.block
           canonised(n) == \E c \in importing.canon : Number(c) = n
<1>1. /\ importing # NoHash /\ importing.at = "extras" /\ importing \in ImportRecord
      /\ details' = details \cup {b}
      /\ index' = [n \in Numbers |-> IF canonised(n) THEN Ancestor(b, n) ELSE index[n]]
      /\ importing' = IF importing.best THEN [importing EXCEPT !.at = "best"] ELSE NoHash
      /\ UNCHANGED <<blocksDB, best, last, hashes, reading>>
  BY DEF CommitExtras, StoredInv, Types
<1>2. /\ b \in Block /\ b \in Tree /\ importing.canon \subseteq Branch(b)
      /\ b \in blocksDB /\ Branch(b) \subseteq details \cup {b}
  BY <1>1, ImportFields, BranchStored, BlockFacts DEF StoredInv, Complete, Grounded
<1>3. importing' = NoHash \/ /\ importing' \in ImportRecord /\ importing'.at = "best" /\ importing'.block = b
                             /\ importing.best /\ importing'.canon = importing.canon
  BY <1>1, ImportFields
<1>4. \A n \in Numbers : canonised(n) => Ancestor(b, n) \in Branch(b) /\ Number(Ancestor(b, n)) = n
  BY <1>2, AncestorUnique
<1> HIDE DEF b
<1>5. ASSUME NEW n \in Numbers
      PROVE  /\ canonised(n) => index'[n] = Ancestor(b, n)
             /\ ~canonised(n) => index'[n] = index[n]
  BY <1>1
<1>6. ASSUME NEW n \in Numbers, canonised(n)
      PROVE  index'[n] \in Tree /\ index'[n] \in details' /\ Number(index'[n]) = n
  <2>1. Ancestor(b, n) \in Branch(b) /\ Number(Ancestor(b, n)) = n
    BY <1>4, <1>6
  <2> QED  BY <1>1, <1>2, <1>5, <1>6, <2>1, BranchIn
<1> HIDE DEF canonised
<1>7. Types'
  <2>1. index' \in [Numbers -> Tree \cup {NoHash}]
    <3>1. \A n \in Numbers : index'[n] \in Tree \cup {NoHash}
      BY <1>5, <1>6 DEF StoredInv, Types
    <3>2. index' = [n \in Numbers |-> index'[n]]
      BY <1>1
    <3> QED  BY <3>1, <3>2
  <2>2. details' \subseteq Tree
    BY <1>1, <1>2 DEF StoredInv, Types
  <2>3. importing' = NoHash \/ importing' \in ImportRecord
    BY <1>3
  <2> QED  BY <1>1, <2>1, <2>2, <2>3, Zenon DEF StoredInv, Types
<1>8. Grounded'
  <2>1. \A c \in details' : Branch(c) \subseteq details' /\ (c # Genesis => c \in blocksDB')
    BY <1>1, <1>2 DEF StoredInv, Grounded
  <2>2. importing' # NoHash => Parent(b) \in details'
    BY <1>1 DEF StoredInv, Grounded, b
  <2> QED  BY <1>1, <1>2, <1>3, <2>1, <2>2 DEF StoredInv, Grounded
<1>9. Named'
  <2>1. \A n \in Numbers : index'[n] # NoHash => index'[n] \in details' /\ Number(index'[n]) = n
    BY <1>1, <1>5, <1>6 DEF StoredInv, Named, Hash
  <2>2. /\ \A n \in Numbers : hashes'[n] # NoHash => hashes'[n] \in details' /\ Number(hashes'[n]) = n
        /\ \A r \in Reader : reading'[r] # NoHash =>
             reading'[r].hash \in details' /\ Number(reading'[r].hash) = reading'[r].number
    BY <1>1 DEF StoredInv, Named, Hash
  <2> QED  BY <2>1, <2>2 DEF Named, Hash
<1>10. Complete'
  <2>1. ASSUME NEW n \in Numbers, index[n] # NoHash \/ canonised(n)
        PROVE  index'[n] # NoHash
    BY <1>5, <1>6, <2>1, ChainAssumption
  <2>2. \A n \in 1..Number(last') : index'[n] # NoHash
    <3>1. last \in Tree /\ last' = last
      BY <1>1 DEF StoredInv, Types
    <3> QED  BY <2>1, <3>1, NumbersBelow DEF StoredInv, Complete
  <2>3. ASSUME importing' # NoHash
        PROVE  \A n \in 1..Number(importing'.block) : index'[n] # NoHash
    <3>1. importing.best /\ importing'.block = b
      BY <1>3, <2>3
    <3>2. \A n \in 1..Number(b) : index[n] # NoHash \/ canonised(n)
      BY <1>1, <3>1 DEF StoredInv, Complete, canonised, b
    <3> QED  BY <1>2, <2>1, <3>1, <3>2, NumbersBelow
  <2> QED  BY <1>2, <1>3, <2>2, <2>3 DEF Complete
<1> QED  BY <1>7, <1>8, <1>9, <1>10 DEF StoredInv

LEMMA StoredBest ==
    ASSUME StoredInv, CommitBest
    PROVE  StoredInv'
<1>1. /\ importing # NoHash /\ importing.at = "best" /\ importing \in ImportRecord
      /\ last' = importing.block /\ best' = importing.block /\ importing' = NoHash
      /\ UNCHANGED <<blocksDB, details, index, hashes, reading>>
  BY DEF CommitBest, StoredInv, Types
<1>2. importing.block \in Tree /\ importing.block \in details
  BY <1>1, ImportFields, BlockFacts DEF StoredInv, Grounded
<1>3. Types'
  BY <1>1, <1>2, Zenon DEF StoredInv, Types
<1>4. Grounded'
  BY <1>1, <1>2 DEF StoredInv, Grounded
<1>5. Named'
  BY <1>1 DEF StoredInv, Named, Hash
<1>6. Complete'
  BY <1>1 DEF StoredInv, Complete
<1> QED  BY <1>3, <1>4, <1>5, <1>6 DEF StoredInv

\* The hash that is looked up below the head is that of a block of the number.
LEMMA CachedHashFacts ==
    ASSUME StoredInv, NEW n \in Numbers \cup {0}, n < Number(last)
    PROVE  /\ n \in Nat /\ n \in 0..Number(last) /\ (n # 0 => n \in Numbers)
           /\ CachedHash(n) \in details /\ CachedHash(n) \in Tree /\ Number(CachedHash(n)) = n
<1>1. n \in Nat /\ Number(last) \in Nat /\ (n # 0 => n \in Numbers)
  BY NumbersAreNaturals, BlockFacts DEF StoredInv, Types
<1>2. CASE n = 0
  BY <1>1, <1>2, BlockFacts DEF CachedHash, StoredInv, Grounded
<1>3. CASE n # 0
  <2>1. n \in 1..Number(last)
    BY <1>1, <1>3
  <2>2. index[n] # NoHash
    BY <2>1 DEF StoredInv, Complete
  <2>3. Hash(n, index[n]) /\ (hashes[n] # NoHash => Hash(n, hashes[n]))
    BY <1>1, <1>3, <2>2 DEF StoredInv, Named
  <2>4. CachedHash(n) \in details /\ Number(CachedHash(n)) = n
    BY <1>3, <2>3 DEF CachedHash, Hash
  <2> QED  BY <1>1, <2>1, <2>4 DEF StoredInv, Types
<1> QED  BY <1>2, <1>3

LEMMA StoredRewind ==
    ASSUME StoredInv, NEW n \in Numbers \cup {0}, Rewind(n)
    PROVE  StoredInv'
<1> DEFINE h == CachedHash(n)
           cleared == Reverted(n + 1)
<1>1. /\ importing = NoHash /\ n < Number(last)
      /\ last' = h /\ best' = h
      /\ hashes' = IF n = 0 THEN cleared ELSE [cleared EXCEPT ![n] = h]
      /\ reading' = Overtake(n + 1)
      /\ UNCHANGED <<blocksDB, details, index, importing>>
  BY DEF Rewind
<1>2. /\ n \in Nat /\ n \in 0..Number(last) /\ (n # 0 => n \in Numbers)
      /\ h \in details /\ h \in Tree /\ Number(h) = n
  BY <1>1, CachedHashFacts
<1>3. /\ cleared \in [Numbers -> Tree \cup {NoHash}]
      /\ \A i \in Numbers : cleared[i] \in {NoHash, hashes[i]}
  BY DEF Reverted, StoredInv, Types
<1> HIDE DEF h, cleared
<1>4. /\ hashes' \in [Numbers -> Tree \cup {NoHash}]
      /\ \A i \in Numbers : hashes'[i] \in {NoHash, hashes[i]} \/ (i = n /\ hashes'[i] = h)
  <2>1. CASE n = 0
    BY <1>1, <1>3, <2>1
  <2>2. CASE n # 0
    <3>1. hashes' = [cleared EXCEPT ![n] = h]
      BY <1>1, <2>2
    <3>2. \A i \in Numbers : hashes'[i] = IF i = n THEN h ELSE cleared[i]
      BY <1>3, <3>1
    <3> QED  BY <1>2, <1>3, <3>1, <3>2
  <2> QED  BY <2>1, <2>2
<1>5. ReadsAsBefore
  BY <1>1, OvertakenRead
<1>6. Types'
  BY <1>1, <1>2, <1>4, <1>5, Zenon DEF StoredInv, Types, ReadsAsBefore
<1>7. Grounded'
  BY <1>1, <1>2 DEF StoredInv, Grounded
<1>8. Named'
  <2>1. \A i \in Numbers : hashes'[i] # NoHash => hashes'[i] \in details /\ Number(hashes'[i]) = i
    BY <1>2, <1>4 DEF StoredInv, Named, Hash
  <2> QED  BY <1>1, <1>5, <2>1 DEF StoredInv, Named, Hash, ReadsAsBefore
<1>9. Complete'
  <2>1. \A i \in 1..n : index[i] # NoHash
    <3>1. Number(last) \in Nat
      BY BlockFacts DEF StoredInv, Types
    <3> QED  BY <1>1, <1>2, <3>1 DEF StoredInv, Complete
  <2> QED  BY <1>1, <1>2, <2>1 DEF Complete
<1> QED  BY <1>6, <1>7, <1>8, <1>9 DEF StoredInv

LEMMA StoredReadBegin ==
    ASSUME StoredInv, NEW r \in Reader, NEW n \in Numbers, ReadBegin(r, n)
    PROVE  StoredInv'
<1> DEFINE x == [number |-> n, hash |-> index[n], late |-> Unsettled(n)]
<1>1. /\ index[n] # NoHash /\ reading' = [reading EXCEPT ![r] = x]
      /\ UNCHANGED <<blocksDB, details, index, best, last, hashes, importing>>
  BY DEF ReadBegin, stored
<1>2. /\ x \in ReadingTypes /\ x.number = n /\ x.hash = index[n]
      /\ index[n] \in details /\ Number(index[n]) = n
  <2>1. Unsettled(n) \in BOOLEAN
    BY Zenon DEF Unsettled
  <2> QED  BY <1>1, <2>1 DEF ReadingTypes, StoredInv, Types, Named, Hash
<1> HIDE DEF x
<1>3. \A s \in Reader : reading'[s] = reading[s] \/ reading'[s] = x
  BY <1>1
<1>4. Types'
  BY <1>1, <1>2, <1>3, Zenon DEF StoredInv, Types
<1>5. Grounded'
  BY <1>1 DEF StoredInv, Grounded
<1>6. Named'
  <2>1. \A s \in Reader : reading'[s] # NoHash =>
             reading'[s].hash \in details /\ Number(reading'[s].hash) = reading'[s].number
    BY <1>2, <1>3 DEF StoredInv, Named, Hash
  <2> QED  BY <1>1, <2>1 DEF StoredInv, Named, Hash
<1>7. Complete'
  BY <1>1 DEF StoredInv, Complete
<1> QED  BY <1>4, <1>5, <1>6, <1>7 DEF StoredInv

LEMMA StoredReadEnd ==
    ASSUME StoredInv, NEW r \in Reader, ReadEnd(r)
    PROVE  StoredInv'
<1> DEFINE n == reading[r].number
           h == reading[r].hash
<1>1. /\ reading[r] # NoHash /\ reading' = [reading EXCEPT ![r] = NoHash]
      /\ hashes' = IF hashes[n] = NoHash THEN [hashes EXCEPT ![n] = h] ELSE hashes
      /\ UNCHANGED <<blocksDB, details, index, best, last, importing>>
  BY DEF ReadEnd, stored
<1>2. n \in Numbers /\ h \in Tree /\ h \in details /\ Number(h) = n
  BY <1>1 DEF ReadingTypes, StoredInv, Types, Named, Hash
<1> HIDE DEF n, h
<1>3. /\ hashes' \in [Numbers -> Tree \cup {NoHash}]
      /\ \A i \in Numbers : hashes'[i] = hashes[i] \/ (i = n /\ hashes'[i] = h)
  <2>1. hashes \in [Numbers -> Tree \cup {NoHash}]
    BY DEF StoredInv, Types
  <2> QED  BY <1>1, <1>2, <2>1
<1>4. \A s \in Reader : reading'[s] = reading[s] \/ reading'[s] = NoHash
  BY <1>1
<1>5. Types'
  BY <1>1, <1>2, <1>3, <1>4, Zenon DEF StoredInv, Types
<1>6. Grounded'
  BY <1>1 DEF StoredInv, Grounded
<1>7. Named'
  <2>1. \A i \in Numbers : hashes'[i] # NoHash => hashes'[i] \in details /\ Number(hashes'[i]) = i
    BY <1>2, <1>3 DEF StoredInv, Named, Hash
  <2>2. \A s \in Reader : reading'[s] # NoHash =>
             reading'[s].hash \in details /\ Number(reading'[s].hash) = reading'[s].number
    BY <1>4 DEF StoredInv, Named, Hash
  <2> QED  BY <1>1, <2>1, <2>2 DEF StoredInv, Named, Hash
<1>8. Complete'
  BY <1>1 DEF StoredInv, Complete
<1> QED  BY <1>5, <1>6, <1>7, <1>8 DEF StoredInv

LEMMA StoredCrash ==
    ASSUME StoredInv, Crash
    PROVE  StoredInv'
<1>1. /\ last' = best /\ best = last /\ hashes' = NoIndex /\ importing' = NoHash
      /\ reading' = [r \in Reader |-> NoHash]
      /\ UNCHANGED <<blocksDB, details, index, best>>
  BY DEF Crash, stored, StoredInv, Types
<1>2. hashes' \in [Numbers -> Tree \cup {NoHash}] /\ \A n \in Numbers : hashes'[n] = NoHash
  BY <1>1 DEF NoIndex
<1>3. \A r \in Reader : reading'[r] = NoHash
  BY <1>1
<1>4. Types'
  BY <1>1, <1>2, <1>3, Zenon DEF StoredInv, Types
<1>5. Grounded'
  BY <1>1 DEF StoredInv, Grounded
<1>6. Named'
  BY <1>1, <1>2, <1>3 DEF StoredInv, Named, Hash
<1>7. Complete'
  BY <1>1 DEF StoredInv, Complete
<1> QED  BY <1>4, <1>5, <1>6, <1>7 DEF StoredInv

LEMMA StoredStep ==
    ASSUME StoredInv, [ChainNext]_chainVars
    PROVE  StoredInv'
<1>1. CASE UNCHANGED chainVars
  BY <1>1 DEF chainVars, stored, StoredInv, Types, Grounded, Named, Complete, Hash
<1>2. CASE ChainNext
  BY <1>2, StoredStarts, StoredBlocks, StoredExtras, StoredBest, StoredRewind,
     StoredReadBegin, StoredReadEnd, StoredCrash DEF ChainNext
<1> QED  BY <1>1, <1>2

LEMMA StoredAlways == ChainSpec => []StoredInv
BY StoredStart, StoredStep, PTL DEF ChainSpec

\* Wherever the process dies, the best block is stored with all it rests on:
\* insertBlockAndExtras writes the blocks, then the extras, then "best".
THEOREM BestStaysStored == ChainSpec => []BestIsStored
<1>1. ASSUME StoredInv
      PROVE  BestIsStored
  BY <1>1, BlockFacts DEF StoredInv, Types, Grounded, BestIsStored, IsStored
<1> QED  BY <1>1, StoredAlways, PTL
-----------------------------------------------------------------------------
(***************************************************************************)
(* What numberHash() has cached, read by any number of threads at any      *)
(* time. A cached hash, and one a reader is about to cache, is what the    *)
(* index says and of a number that no import under way changes, but for    *)
(* what late readers brought. An import finds the numbers it is to         *)
(* canonise clear, or makes their readers late.                            *)
(***************************************************************************)
IsIndexed(n, h) == h = index[n] /\ ~Unsettled(n)

Cached ==
    /\ \A n \in Numbers \ overtaken : hashes[n] # NoHash => IsIndexed(n, hashes[n])
    /\ \A r \in Reader :
        reading[r] # NoHash /\ ~reading[r].late => IsIndexed(reading[r].number, reading[r].hash)
    /\ importing # NoHash /\ (importing.best \/ importing.at = "best") =>
        importing.block \in importing.canon

CachedInv == StoredInv /\ Cached

LEMMA CachedStart == ChainInit => CachedInv
<1> SUFFICES ASSUME ChainInit PROVE Cached
  BY StoredStart DEF CachedInv
<1> QED  BY DEF ChainInit, Cached, NoIndex

\* When an import or a rewind is to change the numbers from one on, only late
\* readers of them are left.
LEMMA OvertakenLeave ==
    ASSUME CachedInv, NEW first \in Nat, reading' = Overtake(first),
           NEW r \in Reader, reading'[r] # NoHash, ~reading'[r].late
    PROVE  /\ reading'[r] = reading[r] /\ reading[r].number \in Nat /\ reading[r].number < first
           /\ IsIndexed(reading[r].number, reading[r].hash)
<1>1. reading[r] = NoHash \/ reading[r] \in ReadingTypes
  BY DEF CachedInv, StoredInv, Types
<1>2. reading'[r] = reading[r] /\ reading[r] # NoHash /\ ~ (reading[r].number >= first)
  BY <1>1, OvertakeFacts
<1>3. reading[r].number \in Nat
  BY <1>1, <1>2, NumbersAreNaturals DEF ReadingTypes
<1> QED  BY <1>2, <1>3 DEF CachedInv, Cached

LEMMA CachedStarts ==
    ASSUME CachedInv, NEW b \in Block, ImportBegin(b) \/ InsertBegin(b)
    PROVE  Cached'
<1> DEFINE m == Common(last, Parent(b))
<1>1. /\ importing = NoHash /\ UNCHANGED <<index, last>>
      /\ \/ importing' = NewImport(b) /\ hashes' = hashes /\ reading' = reading
         \/ /\ importing' = Leading(b)
            /\ hashes' = IF m # last THEN Reverted(Number(m) + 1) ELSE hashes
            /\ reading' = Overtake(Number(m) + 1)
  BY ImportCases DEF stored
<1>2. last \in Tree /\ b \in Tree /\ Number(last) \in Nat /\ Number(b) \in Nat /\ Numbers \subseteq Nat
  BY BlockFacts, NumbersAreNaturals DEF CachedInv, StoredInv, Types
<1>3. \A n \in Numbers \ overtaken' : hashes'[n] # NoHash => n \notin overtaken
  BY ImportCases
<1>4. ASSUME NEW n \in Numbers \ overtaken, hashes[n] # NoHash
      PROVE  n \in Nat /\ n <= Number(last) /\ hashes[n] = index[n]
  BY <1>2, <1>4 DEF CachedInv, Cached, IsIndexed, Unsettled
<1>5. CASE importing' = NewImport(b) /\ hashes' = hashes /\ reading' = reading
  <2>1. importing'.canon = {} /\ importing'.best = FALSE /\ importing'.at = "blocks"
    BY <1>5 DEF NewImport
  <2>2. \A n : Unsettled(n)' => Unsettled(n)
    BY <1>1, <2>1 DEF Unsettled
  <2>3. \A n, h : IsIndexed(n, h) => IsIndexed(n, h)'
    BY <1>1, <2>2 DEF IsIndexed
  <2> QED  BY <1>3, <1>5, <2>1, <2>3 DEF CachedInv, Cached
<1>6. CASE /\ importing' = Leading(b)
           /\ hashes' = IF m # last THEN Reverted(Number(m) + 1) ELSE hashes
           /\ reading' = Overtake(Number(m) + 1)
  <2>1. /\ m \in Branch(b) /\ m \in Tree /\ b \in Canonised(b, m)
        /\ Number(m) \in Nat /\ Number(m) <= Number(last) /\ Number(m) < Number(b)
        /\ \A c \in Canonised(b, m) : Number(c) \in Nat /\ Number(m) < Number(c)
    BY <1>2, CanonisedFacts
  <2> HIDE DEF m
  <2>2. importing'.canon = Canonised(b, m) /\ importing'.at = "blocks" /\ importing'.block = b
    BY <1>6 DEF Leading, m
  <2>3. ASSUME NEW n \in Nat, n <= Number(m)
        PROVE  ~Unsettled(n)'
    BY <1>1, <1>2, <2>1, <2>2, <2>3 DEF Unsettled
  <2>4. ASSUME NEW n \in Numbers \ overtaken', hashes'[n] # NoHash
        PROVE  n \in Nat /\ n <= Number(m) /\ hashes'[n] = index[n]
    <3>1. n \notin overtaken
      BY <1>3, <2>4
    <3>2. CASE m # last
      <4>1. hashes'[n] = IF n \in Number(m) + 1..Number(last) THEN NoHash ELSE hashes[n]
        BY <1>6, <3>2 DEF Reverted
      <4>2. hashes'[n] = hashes[n] /\ n \notin Number(m) + 1..Number(last)
        BY <2>4, <4>1
      <4>3. n \in Nat /\ n <= Number(last) /\ hashes[n] = index[n]
        BY <1>4, <2>4, <3>1, <4>2
      <4> QED  BY <1>2, <2>1, <4>2, <4>3
    <3>3. CASE m = last
      BY <1>4, <1>6, <2>4, <3>1, <3>3
    <3> QED  BY <3>2, <3>3
  <2>5. \A n \in Numbers \ overtaken' : hashes'[n] # NoHash => IsIndexed(n, hashes[n])'
    BY <1>1, <2>3, <2>4 DEF IsIndexed
  <2>6. ASSUME NEW r \in Reader, reading'[r] # NoHash, ~reading'[r].late
        PROVE  IsIndexed(reading[r].number, reading[r].hash)'
    <3>1. /\ reading'[r] = reading[r] /\ reading[r].number \in Nat
          /\ reading[r].number < Number(m) + 1 /\ reading[r].hash = index[reading[r].number]
      BY <1>6, <2>1, <2>6, OvertakenLeave DEF IsIndexed
    <3> QED  BY <1>1, <2>1, <2>3, <3>1 DEF IsIndexed
  <2> QED  BY <2>1, <2>2, <2>5, <2>6 DEF Cached
<1> QED  BY <1>1, <1>5, <1>6

LEMMA CachedBlocks ==
    ASSUME CachedInv, CommitBlocks
    PROVE  Cached'
<1>1. /\ importing # NoHash /\ importing.at = "blocks" /\ importing \in ImportRecord
      /\ importing' = [importing EXCEPT !.at = "extras"]
      /\ UNCHANGED <<index, last, hashes, reading, overtaken>>
  BY DEF CommitBlocks, CachedInv, StoredInv, Types
<1>2. /\ importing'.at = "extras" /\ importing'.block = importing.block
      /\ importing'.best = importing.best /\ importing'.canon = importing.canon
  BY <1>1, ImportFields
<1>3. \A n, h : IsIndexed(n, h) => IsIndexed(n, h)'
  BY <1>1, <1>2 DEF IsIndexed, Unsettled
<1> QED  BY <1>1, <1>2, <1>3 DEF CachedInv, Cached

\* The numbers the extras change are not cached.
LEMMA CachedExtras ==
    ASSUME CachedInv, CommitExtras
    PROVE  Cached'
<1> DEFINE b == importing.block
           canonised(n) == \E c \in importing.canon : Number(c) = n
<1>1. /\ importing # NoHash /\ importing.at = "extras" /\ importing \in ImportRecord
      /\ index' = [n \in Numbers |-> IF canonised(n) THEN Ancestor(b, n) ELSE index[n]]
      /\ importing' = IF importing.best THEN [importing EXCEPT !.at = "best"] ELSE NoHash
      /\ UNCHANGED <<last, hashes, reading, overtaken>>
  BY DEF CommitExtras, CachedInv, StoredInv, Types
<1>2. importing' = NoHash \/ /\ importing'.block = b /\ importing.best
                             /\ importing'.canon = importing.canon
  BY <1>1, ImportFields
<1>3. ASSUME NEW n \in Numbers, NEW h, IsIndexed(n, h)
      PROVE  IsIndexed(n, h)'
  <2>1. n \in Nat
    BY NumbersAreNaturals
  <2>2. ~canonised(n)
    BY <1>1, <1>3, <2>1 DEF IsIndexed, Unsettled
  <2> HIDE DEF canonised
  <2>3. index'[n] = index[n]
    BY <1>1, <2>2
  <2>4. ~Unsettled(n)'
    BY <1>1, <1>2, <1>3 DEF IsIndexed, Unsettled
  <2> QED  BY <1>3, <2>3, <2>4 DEF IsIndexed
<1>4. \A n \in Numbers \ overtaken' : hashes'[n] # NoHash => IsIndexed(n, hashes[n])'
  BY <1>1, <1>3 DEF CachedInv, Cached
<1>5. \A r \in Reader : reading[r] # NoHash => reading[r].number \in Numbers
  BY DEF CachedInv, StoredInv, Types, ReadingTypes
<1>6. \A r \in Reader : reading'[r] # NoHash /\ ~reading'[r].late =>
                            IsIndexed(reading[r].number, reading[r].hash)'
  BY <1>1, <1>3, <1>5 DEF CachedInv, Cached
<1>7. importing' # NoHash => importing'.block \in importing'.canon
  BY <1>1, <1>2 DEF CachedInv, Cached
<1> QED  BY <1>4, <1>6, <1>7 DEF Cached

LEMMA CachedBest ==
    ASSUME CachedInv, CommitBest
    PROVE  Cached'
<1>1. /\ importing # NoHash /\ importing.at = "best"
      /\ last' = importing.block /\ importing' = NoHash
      /\ UNCHANGED <<index, hashes, reading, overtaken>>
  BY DEF CommitBest
<1>2. importing.block \in importing.canon /\ Number(importing.block) \in Nat
  BY <1>1, ImportFields, BlockFacts DEF CachedInv, Cached, StoredInv, Types
<1>3. ASSUME NEW n \in Numbers, NEW h, IsIndexed(n, h)
      PROVE  IsIndexed(n, h)'
  <2>1. n \in Nat /\ ~ (Number(importing.block) <= n)
    BY <1>1, <1>2, <1>3, NumbersAreNaturals DEF IsIndexed, Unsettled
  <2>2. ~Unsettled(n)'
    BY <1>1, <1>2, <2>1 DEF Unsettled
  <2> QED  BY <1>1, <1>3, <2>2 DEF IsIndexed
<1>4. \A r \in Reader : reading[r] # NoHash => reading[r].number \in Numbers
  BY DEF CachedInv, StoredInv, Types, ReadingTypes
<1> QED  BY <1>1, <1>3, <1>4 DEF CachedInv, Cached

LEMMA CachedRewind ==
    ASSUME CachedInv, NEW n \in Numbers \cup {0}, Rewind(n)
    PROVE  Cached'
<1> DEFINE h == CachedHash(n)
           cleared == Reverted(n + 1)
<1>1. /\ importing = NoHash /\ n < Number(last)
      /\ last' = h
      /\ hashes' = IF n = 0 THEN cleared ELSE [cleared EXCEPT ![n] = h]
      /\ reading' = Overtake(n + 1)
      /\ UNCHANGED <<index, importing>>
      /\ \A i \in Numbers \ overtaken' : hashes'[i] # NoHash => i \notin overtaken
  BY DEF Rewind, StillCached
<1>2. n \in Nat /\ Number(h) = n /\ Number(last) \in Nat /\ Numbers \subseteq Nat
  BY <1>1, CachedHashFacts, BlockFacts, NumbersAreNaturals DEF CachedInv, StoredInv, Types
<1>3. n # 0 /\ n \notin overtaken => h = index[n]
  BY <1>1 DEF CachedInv, Cached, IsIndexed, CachedHash
<1>4. ASSUME NEW i \in Numbers \ overtaken, cleared[i] # NoHash
      PROVE  i <= n /\ cleared[i] = index[i]
  <2>1. cleared[i] = IF i \in n + 1..Number(last) THEN NoHash ELSE hashes[i]
    BY DEF Reverted
  <2>2. cleared[i] = hashes[i] /\ i \notin n + 1..Number(last)
    BY <1>4, <2>1
  <2> HIDE DEF cleared
  <2>3. i \in Nat /\ i <= Number(last) /\ hashes[i] = index[i]
    BY <1>2, <1>4, <2>2 DEF CachedInv, Cached, IsIndexed, Unsettled
  <2> QED  BY <1>2, <2>2, <2>3
<1>5. cleared = [i \in Numbers |-> cleared[i]]
  BY DEF Reverted
<1> HIDE DEF h, cleared
<1>6. ASSUME NEW i \in Nat, i <= n
      PROVE  ~Unsettled(i)'
  BY <1>1, <1>2, <1>6 DEF Unsettled
<1>7. ASSUME NEW i \in Numbers \ overtaken', hashes'[i] # NoHash
      PROVE  i <= n /\ hashes'[i] = index[i]
  <2>1. i \notin overtaken
    BY <1>1, <1>7
  <2>2. CASE n = 0
    BY <1>1, <1>4, <1>7, <2>1, <2>2
  <2>3. CASE n # 0
    <3>1. hashes'[i] = IF i = n THEN h ELSE cleared[i]
      BY <1>1, <1>5, <2>3
    <3> QED  BY <1>2, <1>3, <1>4, <1>7, <2>1, <2>3, <3>1
  <2> QED  BY <2>2, <2>3
<1>8. \A i \in Numbers \ overtaken' : hashes'[i] # NoHash => IsIndexed(i, hashes[i])'
  BY <1>1, <1>2, <1>6, <1>7 DEF IsIndexed
<1>9. ASSUME NEW r \in Reader, reading'[r] # NoHash, ~reading'[r].late
      PROVE  IsIndexed(reading[r].number, reading[r].hash)'
  <2>1. /\ reading'[r] = reading[r] /\ reading[r].number \in Nat
        /\ reading[r].number < n + 1 /\ reading[r].hash = index[reading[r].number]
    BY <1>1, <1>2, <1>9, OvertakenLeave DEF IsIndexed
  <2> QED  BY <1>1, <1>2, <1>6, <2>1 DEF IsIndexed
<1> QED  BY <1>1, <1>8, <1>9 DEF Cached

\* A reader of what is to change is late from the start.
LEMMA CachedReadBegin ==
    ASSUME CachedInv, NEW r \in Reader, NEW n \in Numbers, ReadBegin(r, n)
    PROVE  Cached'
<1> DEFINE x == [number |-> n, hash |-> index[n], late |-> Unsettled(n)]
<1>1. /\ reading' = [reading EXCEPT ![r] = x]
      /\ UNCHANGED <<index, last, hashes, importing, overtaken>>
  BY DEF ReadBegin, stored
<1>2. x.number = n /\ x.hash = index[n] /\ x.late = Unsettled(n)
  OBVIOUS
<1>3. ~x.late => IsIndexed(x.number, x.hash)
  BY <1>2, Zenon DEF IsIndexed
<1> HIDE DEF x
<1>4. \A s \in Reader : reading'[s] = reading[s] \/ reading'[s] = x
  BY <1>1
<1>5. \A i, h : IsIndexed(i, h) => IsIndexed(i, h)'
  BY <1>1 DEF IsIndexed, Unsettled
<1>6. ASSUME NEW s \in Reader, reading'[s] # NoHash, ~reading'[s].late
      PROVE  IsIndexed(reading[s].number, reading[s].hash)'
  <2>1. CASE reading'[s] = reading[s]
    BY <1>5, <1>6, <2>1 DEF CachedInv, Cached
  <2>2. CASE reading'[s] = x
    BY <1>3, <1>5, <1>6, <2>2
  <2> QED  BY <1>4, <2>1, <2>2
<1> QED  BY <1>1, <1>5, <1>6 DEF CachedInv, Cached

LEMMA CachedReadEnd ==
    ASSUME CachedInv, NEW r \in Reader, ReadEnd(r)
    PROVE  Cached'
<1> DEFINE n == reading[r].number
           h == reading[r].hash
<1>1. /\ reading[r] # NoHash /\ reading' = [reading EXCEPT ![r] = NoHash]
      /\ hashes[n] # NoHash => UNCHANGED <<hashes, overtaken>>
      /\ hashes[n] = NoHash =>
            /\ hashes' = [hashes EXCEPT ![n] = h]
            /\ overtaken' = IF reading[r].late THEN overtaken \cup {n} ELSE overtaken
      /\ UNCHANGED <<index, last, importing>>
  BY DEF ReadEnd, stored
<1>2. n \in Numbers /\ (~reading[r].late => IsIndexed(n, h))
  BY <1>1 DEF CachedInv, Cached, StoredInv, Types, ReadingTypes
<1> HIDE DEF n, h
<1>3. /\ overtaken \subseteq overtaken'
      /\ \A i \in Numbers \ overtaken' :
            hashes'[i] = hashes[i] \/ (i = n /\ hashes'[i] = h /\ ~reading[r].late)
  <2>1. CASE hashes[n] # NoHash
    BY <1>1, <2>1
  <2>2. CASE hashes[n] = NoHash
    <3>1. hashes \in [Numbers -> Tree \cup {NoHash}]
      BY DEF CachedInv, StoredInv, Types
    <3> QED  BY <1>1, <1>2, <2>2, <3>1
  <2> QED  BY <2>1, <2>2
<1>4. \A s \in Reader : reading'[s] = reading[s] \/ reading'[s] = NoHash
  BY <1>1
<1>5. \A i, g : IsIndexed(i, g) => IsIndexed(i, g)'
  BY <1>1 DEF IsIndexed, Unsettled
<1>6. \A i \in Numbers \ overtaken' : hashes'[i] # NoHash => IsIndexed(i, hashes[i])'
  BY <1>2, <1>3, <1>5 DEF CachedInv, Cached
<1>7. \A s \in Reader : reading'[s] # NoHash /\ ~reading'[s].late =>
                            IsIndexed(reading[s].number, reading[s].hash)'
  BY <1>4, <1>5 DEF CachedInv, Cached
<1> QED  BY <1>1, <1>6, <1>7 DEF CachedInv, Cached

LEMMA CachedCrash ==
    ASSUME Crash
    PROVE  Cached'
<1>1. hashes' = NoIndex /\ importing' = NoHash /\ reading' = [r \in Reader |-> NoHash]
  BY DEF Crash
<1> QED  BY <1>1 DEF Cached, NoIndex

LEMMA CachedStep ==
    ASSUME CachedInv, [ChainNext]_chainVars
    PROVE  CachedInv'
<1>1. StoredInv'
  BY StoredStep DEF CachedInv
<1>2. CASE UNCHANGED chainVars
  BY <1>1, <1>2 DEF chainVars, stored, CachedInv, Cached, IsIndexed, Unsettled
<1>3. CASE ChainNext
  <2>1. Cached'
    BY <1>3, CachedStarts, CachedBlocks, CachedExtras, CachedBest, CachedRewind,
       CachedReadBegin, CachedReadEnd, CachedCrash DEF ChainNext
  <2> QED  BY <1>1, <2>1 DEF CachedInv
<1> QED  BY <1>2, <1>3

\* Whatever threads call numberHash() while blocks are imported or reverted: up
\* to the head it has cached what the index says, but for what readers brought
\* that began above the head or were overtaken.
THEOREM CacheStaysTrue == ChainSpec => []CacheFollowsIndex
<1>1. ASSUME CachedInv
      PROVE  CacheFollowsIndex
  <2>1. \A n \in 1..Number(last) : n \in Numbers
    BY <1>1, NumbersBelow DEF CachedInv, StoredInv, Types
  <2> QED  BY <1>1, <2>1 DEF CachedInv, Cached, IsIndexed, CacheFollowsIndex
<1>2. ChainSpec => []CachedInv
  BY CachedStart, CachedStep, PTL DEF ChainSpec
<1> QED  BY <1>1, <1>2, PTL
-----------------------------------------------------------------------------
(***************************************************************************)
(* Which block each number leads to. The commit of the extras turns the    *)
(* index to the new branch, the write of "best" follows; a crash between   *)
(* the two leaves the index off the head's branch, and so does rewind(),   *)
(* which reads through the cache, when a late reader was there before.     *)
(***************************************************************************)
Following(b) == \A n \in 1..Number(b) : index[n] = Ancestor(b, n)

Turning ==
    ~torn =>
        /\ importing = NoHash \/ importing.at # "best" => Following(last)
        /\ importing # NoHash /\ importing.at = "best" => Following(importing.block)
        /\ importing # NoHash /\ importing.best /\ importing.at # "best" =>
            \A n \in 1..Number(importing.block) :
                \/ \E c \in importing.canon : Number(c) = n
                \/ n <= Number(last) /\ Ancestor(last, n) = Ancestor(importing.block, n)
        /\ importing # NoHash /\ ~importing.best => importing.at # "best" /\ importing.canon = {}

TurningInv == CachedInv /\ Turning

LEMMA TurningStart == ChainInit => TurningInv
<1> SUFFICES ASSUME ChainInit PROVE Turning
  BY CachedStart DEF TurningInv
<1>1. Number(last) = 0 /\ importing = NoHash
  BY BlockFacts DEF ChainInit
<1> QED  BY <1>1 DEF Turning, Following

\* Two blocks with a common one below them have its branch in common.
LEMMA AncestorShared ==
    ASSUME NEW a \in Tree, NEW b \in Tree, NEW m, m \in Branch(a), m \in Branch(b),
           NEW n \in Nat, n <= Number(m)
    PROVE  Ancestor(a, n) = Ancestor(b, n)
<1>1. m \in Tree /\ n \in 0..Number(m)
  BY BranchIn, BlockFacts
<1> QED  BY <1>1, AncestorNested

LEMMA TurningStarts ==
    ASSUME TurningInv, NEW b \in Block, ImportBegin(b) \/ InsertBegin(b)
    PROVE  Turning'
<1> DEFINE m == Common(last, Parent(b))
<1>1. /\ importing = NoHash
      /\ UNCHANGED <<index, last, torn>>
      /\ importing' = NewImport(b) \/ importing' = Leading(b)
  BY ImportCases DEF stored
<1>2. last \in Tree /\ b \in Tree /\ Number(last) \in Nat /\ Number(b) \in Nat
  BY BlockFacts DEF TurningInv, CachedInv, StoredInv, Types
<1> SUFFICES ASSUME ~torn PROVE Turning'
  BY <1>1 DEF Turning
<1>3. Following(last) /\ Following(last)'
  BY <1>1 DEF TurningInv, Turning, Following
<1>4. CASE importing' = NewImport(b)
  <2>1. importing'.canon = {} /\ importing'.best = FALSE /\ importing'.at = "blocks"
    BY <1>4 DEF NewImport
  <2> QED  BY <1>3, <2>1 DEF Turning
<1>5. CASE importing' = Leading(b)
  <2>1. /\ m \in Branch(last) /\ m \in Branch(b)
        /\ Number(m) \in Nat /\ Number(m) <= Number(last)
        /\ \A n \in Number(m) + 1..Number(b) : Ancestor(b, n) \in Canonised(b, m)
    BY <1>2, CanonisedFacts
  <2> HIDE DEF m
  <2>2. /\ importing'.canon = Canonised(b, m) /\ importing'.at = "blocks"
        /\ importing'.block = b /\ importing'.best = TRUE
    BY <1>5 DEF Leading, m
  <2>3. ASSUME NEW n \in 1..Number(b)
        PROVE  \/ \E c \in Canonised(b, m) : Number(c) = n
               \/ n <= Number(last) /\ Ancestor(last, n) = Ancestor(b, n)
    <3>1. CASE n <= Number(m)
      BY <1>2, <2>1, <3>1, AncestorShared
    <3>2. CASE ~ (n <= Number(m))
      <4>1. n \in Number(m) + 1..Number(b) /\ n \in 0..Number(b)
        BY <1>2, <2>1, <3>2
      <4>2. Number(Ancestor(b, n)) = n
        BY <1>2, <4>1, AncestorIs
      <4> QED  BY <2>1, <4>1, <4>2
    <3> QED  BY <3>1, <3>2
  <2> QED  BY <1>1, <1>3, <2>2, <2>3 DEF Turning
<1> QED  BY <1>1, <1>4, <1>5

LEMMA TurningBlocks ==
    ASSUME TurningInv, CommitBlocks
    PROVE  Turning'
<1>1. /\ importing # NoHash /\ importing.at = "blocks" /\ importing \in ImportRecord
      /\ importing' = [importing EXCEPT !.at = "extras"]
      /\ UNCHANGED <<index, last, torn>>
  BY DEF CommitBlocks, TurningInv, CachedInv, StoredInv, Types
<1>2. /\ importing'.at = "extras" /\ importing'.block = importing.block
      /\ importing'.best = importing.best /\ importing'.canon = importing.canon
  BY <1>1, ImportFields
<1> QED  BY <1>1, <1>2 DEF TurningInv, Turning, Following

LEMMA TurningExtras ==
    ASSUME TurningInv, CommitExtras
    PROVE  Turning'
<1> DEFINE b == importing.block
           canonised(n) == \E c \in importing.canon : Number(c) = n
<1>1. /\ importing # NoHash /\ importing.at = "extras" /\ importing \in ImportRecord
      /\ index' = [n \in Numbers |-> IF canonised(n) THEN Ancestor(b, n) ELSE index[n]]
      /\ importing' = IF importing.best THEN [importing EXCEPT !.at = "best"] ELSE NoHash
      /\ UNCHANGED <<last, torn>>
  BY DEF CommitExtras, TurningInv, CachedInv, StoredInv, Types
<1>2. b \in Tree /\ last \in Tree
  BY <1>1, ImportFields, BlockFacts DEF TurningInv, CachedInv, StoredInv, Types
<1> SUFFICES ASSUME ~torn PROVE Turning'
  BY <1>1 DEF Turning
<1>3. Following(last)
  BY <1>1 DEF TurningInv, Turning
<1>4. CASE importing.best
  <2>1. importing' # NoHash /\ importing'.at = "best" /\ importing'.block = b /\ importing'.best
    <3> DEFINE i == [importing EXCEPT !.at = "best"]
    <3>1. importing' = i
      BY <1>1, <1>4
    <3>2. i \in ImportRecord /\ i.at = "best" /\ i.block = b /\ i.best = importing.best
      BY <1>1, ImportFields
    <3> HIDE DEF i
    <3>3. i # NoHash
      BY <3>2, ImportFields
    <3> QED  BY <1>4, <3>1, <3>2, <3>3
  <2>2. ASSUME NEW n \in 1..Number(b)
        PROVE  index'[n] = Ancestor(b, n)
    <3>1. n \in Numbers
      BY <1>2, NumbersBelow
    <3>2. \/ canonised(n)
          \/ n <= Number(last) /\ Ancestor(last, n) = Ancestor(b, n)
      BY <1>1, <1>4 DEF TurningInv, Turning
    <3>3. Number(last) \in Nat /\ Number(b) \in Nat
      BY <1>2, BlockFacts
    <3>4. n <= Number(last) => index[n] = Ancestor(last, n)
      BY <1>3, <3>3 DEF Following
    <3> HIDE DEF canonised, b
    <3> QED  BY <1>1, <3>1, <3>2, <3>4
  <2> HIDE DEF b
  <2> QED  BY <2>1, <2>2 DEF Turning, Following
<1>5. CASE ~importing.best
  <2>1. importing' = NoHash
    BY <1>1, <1>5
  <2>2. importing.canon = {}
    BY <1>1, <1>5 DEF TurningInv, Turning
  <2>3. \A n \in Numbers : index'[n] = index[n]
    BY <1>1, <2>2
  <2> QED  BY <1>1, <1>2, <1>3, <2>1, <2>3, NumbersBelow DEF Turning, Following
<1> QED  BY <1>4, <1>5

LEMMA TurningBest ==
    ASSUME TurningInv, CommitBest
    PROVE  Turning'
BY DEF CommitBest, TurningInv, Turning, Following

LEMMA TurningRewind ==
    ASSUME TurningInv, NEW n \in Numbers \cup {0}, Rewind(n)
    PROVE  Turning'
<1> DEFINE h == CachedHash(n)
<1>1. /\ importing = NoHash /\ n < Number(last) /\ last' = h /\ UNCHANGED <<index, importing>>
      /\ torn' = (torn \/ n \in overtaken)
  BY DEF Rewind
<1>2. /\ n \in Nat /\ n \in 0..Number(last) /\ (n # 0 => n \in Numbers)
      /\ h \in Tree /\ Number(h) = n /\ last \in Tree /\ Number(last) \in Nat
  BY <1>1, CachedHashFacts, BlockFacts DEF TurningInv, CachedInv, StoredInv, Types
<1> SUFFICES ASSUME ~torn, n \notin overtaken PROVE Following(last)'
  BY <1>1 DEF Turning
<1>3. Following(last)
  BY <1>1 DEF TurningInv, Turning
<1>4. h = Ancestor(last, n)
  <2>1. CASE n = 0
    <3>1. h = Genesis /\ Genesis \in Branch(last)
      BY <1>2, <2>1, BranchToGenesis DEF CachedHash
    <3> QED  BY <1>2, <2>1, <3>1, AncestorUnique, BlockFacts
  <2>2. CASE n # 0
    <3>1. h = index[n]
      BY <1>2, <2>2 DEF TurningInv, CachedInv, Cached, IsIndexed, CachedHash
    <3> QED  BY <1>2, <1>3, <2>2, <3>1 DEF Following
  <2> QED  BY <2>1, <2>2
<1>5. h \in Branch(last)
  BY <1>2, <1>4, AncestorIs
<1> HIDE DEF h
<1>6. ASSUME NEW i \in 1..n
      PROVE  index[i] = Ancestor(h, i)
  <2>1. i \in 0..Number(h) /\ i \in 1..Number(last)
    BY <1>2
  <2>2. Ancestor(h, i) = Ancestor(last, i)
    BY <1>2, <1>5, <2>1, AncestorNested
  <2> QED  BY <1>3, <2>1, <2>2 DEF Following
<1> QED  BY <1>1, <1>2, <1>6 DEF Following

LEMMA TurningCrash ==
    ASSUME TurningInv, Crash
    PROVE  Turning'
<1>1. /\ last' = last /\ importing' = NoHash /\ UNCHANGED index
      /\ torn' = (torn \/ (importing # NoHash /\ importing.at = "best"))
  BY DEF Crash, stored, TurningInv, CachedInv, StoredInv, Types
<1> SUFFICES ASSUME ~torn' PROVE Following(last)'
  BY <1>1 DEF Turning
<1>2. ~torn /\ (importing = NoHash \/ importing.at # "best")
  BY <1>1
<1> QED  BY <1>1, <1>2 DEF TurningInv, Turning, Following

LEMMA TurningStep ==
    ASSUME TurningInv, [ChainNext]_chainVars
    PROVE  TurningInv'
<1>1. CachedInv'
  BY CachedStep DEF TurningInv
<1>2. CASE UNCHANGED chainVars
  BY <1>1, <1>2 DEF chainVars, stored, TurningInv, Turning, Following
<1>3. ASSUME NEW r \in Reader, ReadEnd(r) \/ \E n \in Numbers : ReadBegin(r, n)
      PROVE  Turning'
  BY <1>3 DEF ReadBegin, ReadEnd, stored, TurningInv, Turning, Following
<1>4. CASE ChainNext
  <2>1. Turning'
    BY <1>3, <1>4, TurningStarts, TurningBlocks, TurningExtras, TurningBest, TurningRewind,
       TurningCrash DEF ChainNext
  <2> QED  BY <1>1, <2>1 DEF TurningInv
<1> QED  BY <1>2, <1>4

\* Between imports the index leads from every number up to the head to the
\* block of the head's branch, after any reorganisation, rewind or crash, but for
\* a crash that has torn the index from "best" and a rewind() to a number whose
\* hash was cached by a reader that was overtaken.
THEOREM IndexStaysOnBranch == ChainSpec => []IndexFollowsHead
<1>1. ASSUME TurningInv
      PROVE  IndexFollowsHead
  BY <1>1 DEF TurningInv, Turning, Following, IndexFollowsHead
<1>2. ChainSpec => []TurningInv
  BY TurningStart, TurningStep, PTL DEF ChainSpec
<1> QED  BY <1>1, <1>2, PTL
-----------------------------------------------------------------------------
(***************************************************************************)
(* PendingBlock: what is sealed, and what is imported.                     *)
(*                                                                         *)
(* The chain only grows, and what the invariant says of a block is about   *)
(* known blocks, so that importing changes none of it (GrownIs,            *)
(* SealableIsKept, RightIsKept): this is why what was committed to seal    *)
(* stays importable however long sealing takes. Ancestors are a recursive  *)
(* function of the number of generations; what holds of one is shown by    *)
(* induction on that number, from the well-foundedness of < (Upwards).     *)
(* That an uncle commitToSeal() chooses passes the check of enact() is     *)
(* arithmetic on the numbers of ancestors (Ancestors, UnclesAre); that     *)
(* there are two at most, that of a strict total order only two have fewer *)
(* than two before them (FirstTwo).                                        *)
(***************************************************************************)
\* What a root is made of, and what headers are.
Applicable == Pending \cup [uncles: SUBSET Nat]
Author == Makers \cup {Own, Nobody}
Header == [parent: Nat, number: Nat, txs: Seq(Pending), uncles: SUBSET Nat,
           root: Seq(Applicable), author: Author]
KnownBlocks == {0} \cup InChain

\* What a Block holds.
BlockRecord == [previous: KnownBlocks, current: Header, txs: Seq(Pending), root: Seq(Applicable),
                precommit: Seq(Applicable), committed: BOOLEAN, sealed: BOOLEAN,
                body: [txs: Seq(Pending), uncles: SUBSET Nat]]

\* A header is one above a known block, as each block is.
Stands(h) == h.parent \in KnownBlocks /\ h.number = HeaderOf(h.parent).number + 1
TreeInv == \A b \in InChain : Stands(blocks[b])

\* Unless roots may be repeated, each block's is right.
RootIsRight(h) == h.root = RightRoot(h)
RootsInv == ~SameRoot => \A b \in InChain : RootIsRight(blocks[b])

\* What holds of the chain.
ChainInv == blocks \in Seq(Header) /\ tip \in KnownBlocks /\ TreeInv /\ RootsInv

\* The state of b without rewards.
Plain(b) == Started(b.previous) \o b.txs

\* What is committed to seal.
Committed(b) ==
    /\ b.precommit = Plain(b)
    /\ b.current.parent = b.previous
    /\ b.current.txs = b.txs /\ b.body.txs = b.txs
    /\ b.current.uncles = b.body.uncles /\ b.body.uncles \subseteq InChain
    /\ b.current.root = Append(Plain(b), Reward(b.body.uncles))
    /\ Sealable(b.current)

\* What holds of a block that is put together.
Right(b) ==
    /\ b \in BlockRecord
    /\ b.root = IF b.committed /\ ~b.sealed
                THEN Append(Plain(b), Reward(b.current.uncles)) ELSE Plain(b)
    /\ Len(b.txs) <= Capacity /\ Executes(Started(b.previous), b.txs)
    /\ b.current.number = HeaderOf(b.previous).number + 1
    /\ b.sealed => b.committed
    /\ b.committed => Committed(b)

\* The inductive invariant.
PInv == ChainInv /\ Right(block)
-----------------------------------------------------------------------------
\* Known blocks are numbers, and all but the genesis block have a place in the chain.
LEMMA KnownAre ==
    ASSUME blocks \in Seq(Header)
    PROVE  /\ Len(blocks) \in Nat
           /\ KnownBlocks \subseteq Nat
           /\ \A b \in InChain : blocks[b] \in Header
           /\ \A b \in KnownBlocks : b # 0 => b \in InChain
           /\ 0 \notin InChain
<1>1. Len(blocks) \in Nat
  BY LenProperties
<1>2. \A b \in InChain : blocks[b] \in Header
  BY ElementOfSeq DEF InChain
<1> QED  BY <1>1, <1>2 DEF KnownBlocks, InChain

\* Known blocks have headers.
LEMMA HeadersAre ==
    ASSUME blocks \in Seq(Header), NEW b \in KnownBlocks
    PROVE  HeaderOf(b) \in Header
<1>1. CASE b = 0
  <2>1. <<>> \in Seq(Pending) /\ <<>> \in Seq(Applicable)
    BY EmptySeq
  <2> QED  BY <1>1, <2>1 DEF HeaderOf, GenesisHeader, Header, Author
<1>2. CASE b # 0
  BY <1>2, KnownAre DEF HeaderOf
<1> QED  BY <1>1, <1>2

\* What a block starts from is a state.
LEMMA StartedIs ==
    ASSUME blocks \in Seq(Header), NEW b \in KnownBlocks
    PROVE  Started(b) \in Seq(Applicable)
<1>1. HeaderOf(b).root \in Seq(Applicable)
  BY HeadersAre DEF Header
<1>2. Fork \in Applicable
  BY DEF Fork, Applicable
<1>3. <<Fork>> \in Seq(Applicable) /\ <<>> \in Seq(Applicable)
  BY <1>2, EmptySeq
<1> QED  BY <1>1, <1>3, ConcatProperties DEF Started

\* The chain only grows.
Grows == /\ blocks \in Seq(Header) /\ blocks' \in Seq(Header)
         /\ \/ blocks' = blocks
            \/ \E h \in Header : blocks' = Append(blocks, h)

\* Known blocks stay as they are when the chain grows.
LEMMA GrownIs ==
    ASSUME Grows
    PROVE  /\ KnownBlocks \subseteq KnownBlocks' /\ InChain \subseteq InChain'
           /\ \A b \in InChain : blocks'[b] = blocks[b]
           /\ \A b \in KnownBlocks : HeaderOf(b)' = HeaderOf(b)
           /\ \A b \in KnownBlocks : Started(b)' = Started(b)
<1>1. CASE blocks' = blocks
  BY <1>1 DEF KnownBlocks, InChain, HeaderOf, Started, GenesisHeader
<1>2. CASE \E h \in Header : blocks' = Append(blocks, h)
  <2>1. PICK h \in Header : blocks' = Append(blocks, h)
    BY <1>2
  <2>2. /\ Len(blocks) \in Nat /\ Len(blocks') = Len(blocks) + 1
        /\ \A b \in InChain : blocks'[b] = blocks[b]
    BY <2>1, AppendProperties DEF Grows, InChain
  <2>3. InChain \subseteq InChain'
    BY <2>2 DEF InChain
  <2>4. \A b \in KnownBlocks : HeaderOf(b)' = HeaderOf(b)
    BY <2>2 DEF KnownBlocks, HeaderOf, GenesisHeader
  <2> QED  BY <2>2, <2>3, <2>4 DEF KnownBlocks, Started
<1> QED  BY <1>1, <1>2 DEF Grows
-----------------------------------------------------------------------------
(* Ancestors. *)

\* f takes each i up to n to the i-th ancestor of b.
Climbing(f, b, n) == f = [i \in 0..n |-> IF i = 0 THEN b ELSE HeaderOf(f[i - 1]).parent]

\* Up is the end of such a climb.
LEMMA UpIs == \A b, n : Up(b, n) = (CHOOSE f : Climbing(f, b, n))[n]
BY DEF Up, Climbing

\* Induction, with a set for the property.
LEMMA Upwards ==
    ASSUME NEW T, 0 \in T, \A n \in Nat : n \in T => n + 1 \in T
    PROVE  Nat \subseteq T
<1> SUFFICES ASSUME Nat \ T # {} PROVE FALSE
  OBVIOUS
<1>1. PICK n \in Nat \ T : \A m \in Nat \ T : n <= m
  BY HasLeast
<1>2. n # 0
  OBVIOUS
<1>3. n - 1 \in Nat /\ n - 1 \in T
  BY <1>1, <1>2
<1>4. (n - 1) + 1 \in T
  BY <1>3
<1> QED  BY <1>4, <1>1

\* A climb can go on.
LEMMA ClimbStep ==
    ASSUME NEW b, NEW n \in Nat, NEW g, Climbing(g, b, n)
    PROVE  LET f == [i \in 0..(n + 1) |-> IF i = n + 1 THEN HeaderOf(g[n]).parent ELSE g[i]]
           IN  Climbing(f, b, n + 1)
<1> DEFINE f == [i \in 0..(n + 1) |-> IF i = n + 1 THEN HeaderOf(g[n]).parent ELSE g[i]]
<1>1. \A i \in 0..(n + 1) : f[i] = IF i = 0 THEN b ELSE HeaderOf(f[i - 1]).parent
  <2> TAKE i \in 0..(n + 1)
  <2>1. CASE i = n + 1
    <3>1. i # 0 /\ i - 1 = n /\ n \in 0..(n + 1) /\ n # n + 1
      BY <2>1
    <3>2. f[i - 1] = g[n] /\ f[i] = HeaderOf(g[n]).parent
      BY <2>1, <3>1
    <3> QED  BY <3>1, <3>2
  <2>2. CASE i # n + 1
    <3>1. i \in 0..n /\ (i # 0 => i - 1 \in 0..n /\ i - 1 \in 0..(n + 1) /\ i - 1 # n + 1)
      BY <2>2
    <3>2. f[i] = g[i] /\ (i # 0 => f[i - 1] = g[i - 1])
      BY <2>2, <3>1
    <3>3. g[i] = IF i = 0 THEN b ELSE HeaderOf(g[i - 1]).parent
      BY <3>1 DEF Climbing
    <3> QED  BY <3>2, <3>3
  <2> QED  BY <2>1, <2>2
<1>2. f = [i \in 0..(n + 1) |-> f[i]]
  OBVIOUS
<1> HIDE DEF f
<1>3. Climbing(f, b, n + 1)
  BY <1>1, <1>2 DEF Climbing
<1> QED  BY <1>3 DEF f

\* There is a climb of every height.
LEMMA ClimbExists == \A b : \A n \in Nat : \E f : Climbing(f, b, n)
<1> TAKE b
<1> DEFINE T == {n \in Nat : \E f : Climbing(f, b, n)}
<1>1. 0 \in T
  <2> DEFINE f == [i \in 0..0 |-> b]
  <2>1. Climbing(f, b, 0)
    BY DEF Climbing
  <2> QED  BY <2>1
<1>2. ASSUME NEW n \in Nat, n \in T PROVE n + 1 \in T
  <2>1. PICK g : Climbing(g, b, n)
    BY <1>2
  <2>2. \E f : Climbing(f, b, n + 1)
    BY <2>1, ClimbStep
  <2> QED  BY <2>2
<1> HIDE DEF T
<1>3. Nat \subseteq T
  BY <1>1, <1>2, Upwards
<1> QED  BY <1>3 DEF T

\* Two climbs from the same block go the same way as far as both go.
LEMMA ClimbIsOne ==
    ASSUME NEW b, NEW n \in Nat, NEW m \in Nat, n <= m, NEW f, NEW g,
           Climbing(f, b, n), Climbing(g, b, m)
    PROVE  \A i \in 0..n : f[i] = g[i]
<1>1. \A i \in 0..n : f[i] = IF i = 0 THEN b ELSE HeaderOf(f[i - 1]).parent
  BY DEF Climbing
<1>2. \A i \in 0..m : g[i] = IF i = 0 THEN b ELSE HeaderOf(g[i - 1]).parent
  BY DEF Climbing
<1> DEFINE T == {i \in Nat : i <= n => f[i] = g[i]}
<1>3. 0 \in T
  BY <1>1, <1>2
<1>4. ASSUME NEW i \in Nat, i \in T PROVE i + 1 \in T
  <2> SUFFICES ASSUME i + 1 <= n PROVE f[i + 1] = g[i + 1]
    OBVIOUS
  <2>1. i + 1 \in 0..n /\ i + 1 \in 0..m /\ i + 1 # 0 /\ (i + 1) - 1 = i /\ f[i] = g[i]
    BY <1>4
  <2>2. f[i + 1] = HeaderOf(f[i]).parent /\ g[i + 1] = HeaderOf(g[i]).parent
    BY <1>1, <1>2, <2>1
  <2> QED  BY <2>1, <2>2
<1> HIDE DEF T
<1>5. Nat \subseteq T
  BY <1>3, <1>4, Upwards
<1> QED  BY <1>5 DEF T

\* The next ancestor is the parent of the last one.
LEMMA UpStep ==
    \A b : Up(b, 0) = b /\ \A n \in Nat : Up(b, n + 1) = HeaderOf(Up(b, n)).parent
<1> TAKE b
<1>1. ASSUME NEW n \in Nat PROVE \E f : Climbing(f, b, n) /\ Up(b, n) = f[n]
  BY ClimbExists, UpIs
<1>2. Up(b, 0) = b
  <2>1. PICK f : Climbing(f, b, 0) /\ Up(b, 0) = f[0]
    BY <1>1
  <2> QED  BY <2>1 DEF Climbing
<1>3. ASSUME NEW n \in Nat PROVE Up(b, n + 1) = HeaderOf(Up(b, n)).parent
  <2>1. PICK f : Climbing(f, b, n) /\ Up(b, n) = f[n]
    BY <1>1
  <2>2. PICK g : Climbing(g, b, n + 1) /\ Up(b, n + 1) = g[n + 1]
    BY <1>1
  <2>3. f[n] = g[n]
    BY <2>1, <2>2, ClimbIsOne
  <2>4. g[n + 1] = HeaderOf(g[n]).parent
    <3>1. n + 1 \in 0..(n + 1) /\ n + 1 # 0 /\ (n + 1) - 1 = n
      OBVIOUS
    <3> QED  BY <2>2, <3>1 DEF Climbing
  <2> QED  BY <2>1, <2>2, <2>3, <2>4
<1> QED  BY <1>2, <1>3

\* Ancestors are known, and while they are not the genesis block each is one below.
LEMMA Ancestors ==
    ASSUME blocks \in Seq(Header), TreeInv, NEW b \in KnownBlocks
    PROVE  \A n \in Nat : /\ Up(b, n) \in KnownBlocks
                          /\ Up(b, n) # 0 => HeaderOf(Up(b, n)).number = HeaderOf(b).number - n
<1> DEFINE T == {n \in Nat : /\ Up(b, n) \in KnownBlocks
                             /\ Up(b, n) # 0 => HeaderOf(Up(b, n)).number = HeaderOf(b).number - n}
<1>0. \A c \in KnownBlocks : HeaderOf(c).number \in Nat
  BY HeadersAre DEF Header
<1>1. 0 \in T
  BY <1>0, UpStep
<1>2. ASSUME NEW n \in Nat, n \in T PROVE n + 1 \in T
  <2> DEFINE c == Up(b, n)
             d == Up(b, n + 1)
  <2>1. c \in KnownBlocks /\ d = HeaderOf(c).parent
    BY <1>2, UpStep
  <2>2. CASE c = 0
    <3>1. d = 0
      BY <2>1, <2>2 DEF HeaderOf, GenesisHeader
    <3> QED  BY <3>1 DEF KnownBlocks
  <2>3. CASE c # 0
    <3>1. c \in InChain /\ HeaderOf(c) = blocks[c]
      BY <2>1, <2>3, KnownAre DEF HeaderOf
    <3>2. d \in KnownBlocks /\ HeaderOf(c).number = HeaderOf(d).number + 1
      BY <2>1, <3>1 DEF TreeInv, Stands
    <3>3. HeaderOf(c).number = HeaderOf(b).number - n
      BY <1>2, <2>3
    <3> QED  BY <1>0, <2>1, <3>2, <3>3
  <2> QED  BY <2>2, <2>3
<1> HIDE DEF T
<1>3. Nat \subseteq T
  BY <1>1, <1>2, Upwards
<1> QED  BY <1>3 DEF T

\* All ancestors, as a function.
Ups(b) == [n \in Nat |-> Up(b, n)]

\* Each is the parent of the one before.
UpsClimb ==
    \A b : Ups(b)[0] = b /\ \A n \in Nat : Ups(b)[n + 1] = HeaderOf(Ups(b)[n]).parent

\* So they are, in every state.
LEMMA UpsAre == UpsClimb
BY UpStep DEF Ups, UpsClimb

\* A longer chain has the same ancestors.
LEMMA UpsAreKept ==
    ASSUME Grows, TreeInv, NEW b \in KnownBlocks
    PROVE  \A n \in Nat : Ups(b)'[n] = Ups(b)[n]
<1>1. PICK v : v = Ups(b)
  OBVIOUS
<1>2. PICK w : w = Ups(b)'
  OBVIOUS
<1> DEFINE T == {n \in Nat : w[n] = v[n]}
<1>3. \A n \in Nat : v[n] \in KnownBlocks
  BY <1>1, Ancestors DEF Grows, Ups
<1>4. v[0] = b /\ \A n \in Nat : v[n + 1] = HeaderOf(v[n]).parent
  BY <1>1, UpsAre DEF UpsClimb
<1>5. w[0] = b /\ \A n \in Nat : w[n + 1] = HeaderOf(w[n])'.parent
  <2>1. UpsClimb'
    BY UpsAre, PTL
  <2> QED  BY <1>2, <2>1 DEF UpsClimb
<1>6. \A n \in Nat : HeaderOf(v[n])' = HeaderOf(v[n])
  BY <1>3, GrownIs
<1>7. 0 \in T
  BY <1>4, <1>5
<1>8. ASSUME NEW n \in Nat, n \in T PROVE n + 1 \in T
  BY <1>4, <1>5, <1>6, <1>8
<1> HIDE DEF T
<1>9. Nat \subseteq T
  BY <1>7, <1>8, Upwards
<1> QED  BY <1>1, <1>2, <1>9 DEF T

\* What is around a known block stays as it is.
LEMMA KinIsKept ==
    ASSUME Grows, TreeInv, NEW b \in KnownBlocks
    PROVE  /\ Line(b) \subseteq InChain /\ Line(b)' = Line(b) /\ Kin(b)' = Kin(b)
           /\ \A n \in 1..Generations : Up(b, n)' = Up(b, n)
<1>1. \A i \in 0..(Generations - 1) : i \in Nat
  BY PendingAssumption
<1>2. Line(b) = {Ups(b)[i] : i \in 0..(Generations - 1)} \ {0}
  BY <1>1 DEF Line, Ups
<1>3. Line(b)' = {Ups(b)'[i] : i \in 0..(Generations - 1)} \ {0}
  BY <1>1 DEF Line, Ups
<1>4. Line(b)' = Line(b)
  BY <1>1, <1>2, <1>3, UpsAreKept
<1>5. Line(b) \subseteq KnownBlocks /\ 0 \notin Line(b)
  BY <1>1, Ancestors DEF Grows, Line
<1>6. Line(b) \subseteq InChain
  BY <1>5, KnownAre DEF Grows
<1>7. \A a \in Line(b) : HeaderOf(a)' = HeaderOf(a)
  BY <1>5, GrownIs
<1>8. Kin(b)' = Kin(b)
  BY <1>4, <1>7 DEF Kin
<1>9. ASSUME NEW n \in 1..Generations PROVE Up(b, n)' = Up(b, n)
  <2>1. n \in Nat
    BY PendingAssumption
  <2> QED  BY <2>1, UpsAreKept DEF Ups
<1> QED  BY <1>4, <1>6, <1>8, <1>9

\* How far below h its uncle u is, and what u then stands on.
Depth(h, u) == h.number - HeaderOf(u).number
UncleFits(h, u) == Depth(h, u) \in 1..Generations /\ HeaderOf(u).parent = Up(h.parent, Depth(h, u))

\* The check of a header's uncles, uncle by uncle.
LEMMA SealableIs ==
    ASSUME NEW h
    PROVE  Sealable(h) <=> /\ Cardinality(h.uncles) <= 2 /\ h.uncles \cap Kin(h.parent) = {}
                           /\ \A u \in h.uncles : UncleFits(h, u)
BY DEF Sealable, UncleFits, Depth

\* A block that may be sealed may still be when the chain has grown.
LEMMA SealableIsKept ==
    ASSUME Grows, TreeInv, NEW h \in Header, h.parent \in KnownBlocks, h.uncles \subseteq InChain,
           Sealable(h)
    PROVE  Sealable(h)'
<1>1. Kin(h.parent)' = Kin(h.parent)
  BY KinIsKept
<1>2. ASSUME NEW u \in h.uncles PROVE UncleFits(h, u)'
  <2>1. HeaderOf(u)' = HeaderOf(u)
    BY GrownIs DEF KnownBlocks
  <2>2. PICK depth : depth = Depth(h, u)
    OBVIOUS
  <2>3. Depth(h, u)' = depth
    BY <2>1, <2>2 DEF Depth
  <2>4. depth \in 1..Generations /\ HeaderOf(u).parent = Up(h.parent, depth)
    BY <2>2, SealableIs DEF UncleFits
  <2>5. Up(h.parent, depth)' = Up(h.parent, depth)
    BY <2>4, KinIsKept
  <2> QED  BY <2>1, <2>3, <2>4, <2>5 DEF UncleFits
<1>3. Cardinality(h.uncles) <= 2 /\ h.uncles \cap Kin(h.parent) = {}
  BY SealableIs
<1> QED  BY <1>1, <1>2, <1>3 DEF Sealable, UncleFits, Depth
-----------------------------------------------------------------------------
(* Uncles. *)

\* A finite set with two members does not have fewer than two.
LEMMA PairOrMore ==
    ASSUME NEW S, IsFiniteSet(S), NEW p \in S, NEW q \in S, p # q
    PROVE  Cardinality(S) \in Nat /\ ~(Cardinality(S) < 2)
<1>1. IsFiniteSet({p}) /\ Cardinality({p}) = 1
  BY FS_Singleton
<1>2. IsFiniteSet({p} \cup {q}) /\ Cardinality({p} \cup {q}) = 2
  <2>1. q \notin {p}
    OBVIOUS
  <2> DEFINE one == {p}
  <2>2. IsFiniteSet(one) /\ Cardinality(one) = 1 /\ q \notin one
    BY <1>1, <2>1
  <2> HIDE DEF one
  <2>3. IsFiniteSet(one \cup {q}) /\ Cardinality(one \cup {q}) = 1 + 1
    BY <2>2, FS_AddElement
  <2> QED  BY <2>3 DEF one
<1>3. {p} \cup {q} \subseteq S
  OBVIOUS
<1> QED  BY <1>2, <1>3, FS_Subset, FS_CardinalityType

\* A finite set with more than two members has three different ones.
LEMMA ThreeOf ==
    ASSUME NEW S, IsFiniteSet(S), ~(Cardinality(S) <= 2)
    PROVE  \E x, y, z \in S : x # y /\ x # z /\ y # z
<1>1. Cardinality(S) \in Nat /\ Cardinality(S) > 2
  BY FS_CardinalityType
<1>2. PICK x : x \in S
  BY <1>1, FS_EmptySet
<1>3. IsFiniteSet(S \ {x}) /\ Cardinality(S \ {x}) = Cardinality(S) - 1
  BY <1>2, FS_RemoveElement
<1>4. PICK y : y \in S \ {x}
  BY <1>1, <1>3, FS_EmptySet
<1>5. /\ IsFiniteSet((S \ {x}) \ {y})
      /\ Cardinality((S \ {x}) \ {y}) = Cardinality(S \ {x}) - 1
  BY <1>3, <1>4, FS_RemoveElement
<1>6. PICK z : z \in (S \ {x}) \ {y}
  BY <1>1, <1>3, <1>5, FS_EmptySet
<1> QED  BY <1>2, <1>4, <1>6

\* Those with fewer than two before them.
Foremost(C, R) == {u \in C : Cardinality({v \in C : <<v, u>> \in R}) < 2}

\* No more than two have fewer than two before them, in a strict total order.
LEMMA FirstTwo ==
    ASSUME NEW C, IsFiniteSet(C), NEW R,
           \A x, y \in C : x = y \/ <<x, y>> \in R \/ <<y, x>> \in R,
           \A x, y, z \in C : <<x, y>> \in R /\ <<y, z>> \in R => <<x, z>> \in R
    PROVE  Cardinality(Foremost(C, R)) <= 2
<1> DEFINE S == Foremost(C, R)
<1>1. IsFiniteSet(S)
  BY FS_Subset DEF Foremost
<1>2. ASSUME NEW p \in S, NEW q \in S, NEW w \in S, p # q, <<p, w>> \in R, <<q, w>> \in R
      PROVE  FALSE
  <2> DEFINE B == {v \in C : <<v, w>> \in R}
  <2>1. IsFiniteSet(B)
    BY FS_Subset
  <2>2. p \in B /\ q \in B
    BY <1>2 DEF Foremost
  <2>3. Cardinality(B) < 2
    BY DEF Foremost
  <2> HIDE DEF B
  <2> QED  BY <1>2, <2>1, <2>2, <2>3, PairOrMore
<1>3. S \subseteq C
  BY DEF Foremost
<1> HIDE DEF S
<1>4. SUFFICES ASSUME ~(Cardinality(S) <= 2) PROVE FALSE
  BY DEF S
<1>5. PICK x, y, z \in S : x # y /\ x # z /\ y # z
  BY <1>1, <1>4, ThreeOf
<1> QED  BY <1>2, <1>3, <1>5

\* The uncles that commitToSeal() chooses for a block on b pass the check.
LEMMA UnclesAre ==
    ASSUME blocks \in Seq(Header), TreeInv, NEW b \in KnownBlocks
    PROVE  /\ Uncles(b) \subseteq InChain
           /\ \A h : h.parent = b /\ h.number = HeaderOf(b).number + 1 /\ h.uncles = Uncles(b)
                        => Sealable(h)
<1> DEFINE C == {u \in InChain \ Kin(b) : HeaderOf(u).parent \in Line(HeaderOf(b).parent)}
           R == {p \in InChain \X InChain :
                    \/ HeaderOf(p[1]).number > HeaderOf(p[2]).number
                    \/ HeaderOf(p[1]).number = HeaderOf(p[2]).number /\ p[1] < p[2]}
<1>1. Len(blocks) \in Nat /\ KnownBlocks \subseteq Nat /\ InChain \subseteq KnownBlocks
  BY KnownAre DEF KnownBlocks
<1>2. \A c \in KnownBlocks : HeaderOf(c).number \in Nat
  BY HeadersAre DEF Header
<1>3. IsFiniteSet(C)
  <2>1. IsFiniteSet(InChain)
    BY <1>1, FS_Interval DEF InChain
  <2> QED  BY <2>1, FS_Subset
<1>4. Uncles(b) = Foremost(C, R)
  <2>1. ASSUME NEW u \in C, NEW v \in C
        PROVE  (<<v, u>> \in R) <=> \/ HeaderOf(v).number > HeaderOf(u).number
                                    \/ HeaderOf(v).number = HeaderOf(u).number /\ v < u
    OBVIOUS
  <2>2. \A u \in C :
            {v \in C : <<v, u>> \in R}
            = {v \in C : \/ HeaderOf(v).number > HeaderOf(u).number
                         \/ HeaderOf(v).number = HeaderOf(u).number /\ v < u}
    BY <2>1
  <2> HIDE DEF R
  <2> QED  BY <2>2 DEF Uncles, Foremost
<1>5. \A x, y \in C : x = y \/ <<x, y>> \in R \/ <<y, x>> \in R
  BY <1>1, <1>2
<1>6. \A x, y, z \in C : <<x, y>> \in R /\ <<y, z>> \in R => <<x, z>> \in R
  BY <1>1, <1>2
<1> HIDE DEF R
<1>7. Cardinality(Uncles(b)) <= 2
  <2> HIDE DEF C
  <2>1. Cardinality(Foremost(C, R)) <= 2
    BY <1>3, <1>5, <1>6, FirstTwo
  <2> QED  BY <1>4, <2>1
<1>8. Uncles(b) \subseteq C
  BY <1>4 DEF Foremost
<1>9. ASSUME NEW u \in C
      PROVE  LET depth == HeaderOf(b).number + 1 - HeaderOf(u).number
             IN  depth \in 1..Generations /\ HeaderOf(u).parent = Up(b, depth)
  <2> DEFINE p == HeaderOf(b).parent
             a == HeaderOf(u).parent
  <2>1. b # 0 /\ p \in KnownBlocks
    <3>1. p = 0 => Line(p) = {}
      <4>1. SUFFICES ASSUME p = 0, NEW i \in Nat PROVE Up(p, i) = 0
        BY PendingAssumption DEF Line
      <4> DEFINE T == {n \in Nat : Up(0, n) = 0}
      <4>2. 0 \in T /\ \A n \in Nat : n \in T => n + 1 \in T
        BY UpStep DEF HeaderOf, GenesisHeader
      <4> HIDE DEF T
      <4>3. Nat \subseteq T
        BY <4>2, Upwards
      <4> QED  BY <4>1, <4>3 DEF T
    <3>2. b = 0 => p = 0
      BY DEF HeaderOf, GenesisHeader
    <3>3. b # 0
      BY <3>1, <3>2
    <3> QED  BY <3>3, KnownAre DEF HeaderOf, TreeInv, Stands
  <2>2. PICK i \in 0..(Generations - 1) : a = Up(p, i) /\ a # 0
    BY DEF Line
  <2>3. i \in Nat /\ i + 1 \in 1..Generations
    BY PendingAssumption
  <2>4. a = Up(b, i + 1)
    <3> DEFINE T == {n \in Nat : Up(b, n + 1) = Up(p, n)}
    <3>1. 0 \in T
      <4>1. Up(b, 0 + 1) = HeaderOf(Up(b, 0)).parent
        BY UpStep
      <4> QED  BY <4>1, UpStep
    <3>2. ASSUME NEW n \in Nat, n \in T PROVE n + 1 \in T
      <4>1. Up(b, (n + 1) + 1) = HeaderOf(Up(b, n + 1)).parent
        BY UpStep
      <4>2. Up(p, n + 1) = HeaderOf(Up(p, n)).parent
        BY UpStep
      <4> QED  BY <3>2, <4>1, <4>2
    <3> HIDE DEF T
    <3>3. Nat \subseteq T
      BY <3>1, <3>2, Upwards
    <3> QED  BY <2>2, <2>3, <3>3 DEF T
  <2>5. HeaderOf(a).number = HeaderOf(b).number - (i + 1)
    BY <2>2, <2>3, <2>4, Ancestors
  <2>6. u \in InChain /\ u # 0 /\ HeaderOf(u).number = HeaderOf(a).number + 1
    BY KnownAre DEF TreeInv, Stands, HeaderOf
  <2>7. HeaderOf(b).number + 1 - HeaderOf(u).number = i + 1
    BY <1>1, <1>2, <2>3, <2>5, <2>6
  <2> QED  BY <2>3, <2>4, <2>7
<1>10. ASSUME NEW h, h.parent = b, h.number = HeaderOf(b).number + 1, h.uncles = Uncles(b)
       PROVE  Sealable(h)
  <2>1. h.uncles \cap Kin(h.parent) = {}
    BY <1>8, <1>10
  <2>2. ASSUME NEW u \in h.uncles PROVE UncleFits(h, u)
    <3>1. u \in C /\ u \in KnownBlocks
      BY <1>1, <1>8, <1>10
    <3> HIDE DEF C
    <3>2. Depth(h, u) = HeaderOf(b).number + 1 - HeaderOf(u).number
      BY <1>2, <1>10, <3>1 DEF Depth
    <3> QED  BY <1>9, <1>10, <3>1, <3>2 DEF UncleFits
  <2> QED  BY <1>7, <1>10, <2>1, <2>2, SealableIs
<1> QED  BY <1>8, <1>10
-----------------------------------------------------------------------------
(* The pending block. *)

\* The fields of a block are what they should be.
LEMMA FieldsAre ==
    ASSUME blocks \in Seq(Header), NEW b \in BlockRecord
    PROVE  /\ b.previous \in KnownBlocks /\ b.current \in Header /\ b.txs \in Seq(Pending)
           /\ b.txs \in Seq(Applicable)
           /\ Started(b.previous) \in Seq(Applicable) /\ Plain(b) \in Seq(Applicable)
<1>1. b.previous \in KnownBlocks /\ b.current \in Header /\ b.txs \in Seq(Pending)
  BY DEF BlockRecord
<1>2. Pending \subseteq Applicable
  BY DEF Applicable
<1>3. b.txs \in Seq(Applicable)
  BY <1>1, <1>2, SeqMonotonic
<1>4. Started(b.previous) \in Seq(Applicable)
  BY <1>1, StartedIs
<1> QED  BY <1>1, <1>3, <1>4, ConcatProperties DEF Plain

\* A block that is right is so on a longer chain.
LEMMA RightIsKept ==
    ASSUME Grows, TreeInv, NEW b, Right(b)
    PROVE  Right(b)'
<1>1. b \in BlockRecord /\ b.previous \in KnownBlocks /\ b.current \in Header
  BY FieldsAre DEF Right, Grows
<1>2. /\ HeaderOf(b.previous)' = HeaderOf(b.previous)
      /\ Started(b.previous)' = Started(b.previous)
      /\ KnownBlocks \subseteq KnownBlocks' /\ InChain \subseteq InChain'
  BY <1>1, GrownIs
<1>3. b \in BlockRecord'
  BY <1>1, <1>2 DEF BlockRecord
<1>4. ASSUME b.committed PROVE Sealable(b.current)'
  BY <1>1, <1>4, SealableIsKept DEF Right, Committed
<1> HIDE DEF KnownBlocks, InChain
<1> QED  BY <1>2, <1>3, <1>4 DEF Right, Committed, Plain

\* A step that gives the pending block a right value keeps the invariant.
LEMMA RightNext ==
    ASSUME ChainInv, UNCHANGED <<blocks, tip>>, NEW b, block' = b, Right(b)
    PROVE  PInv'
<1>1. Grows
  BY DEF Grows, ChainInv
<1>2. Right(b)'
  BY <1>1, RightIsKept DEF ChainInv
<1>3. Right(block)'
  BY <1>2 DEF Right, Committed, Plain
<1>4. ChainInv'
  BY DEF ChainInv, TreeInv, RootsInv, Stands, RootIsRight, RightRoot, Started, HeaderOf, KnownBlocks, InChain, GenesisHeader
<1> QED  BY <1>3, <1>4 DEF PInv

\* resetCurrent makes a right block.
LEMMA RightReset == ASSUME ChainInv, NEW b \in KnownBlocks PROVE Right(Reset(b))
<1>1. HeaderOf(b) \in Header /\ Started(b) \in Seq(Applicable)
  BY HeadersAre, StartedIs DEF ChainInv
<1>2. <<>> \in Seq(Pending) /\ <<>> \in Seq(Applicable) /\ Len(<<>>) = 0
  BY EmptySeq
<1>3. b \in Nat
  BY KnownAre DEF ChainInv
<1>4. Reset(b).current \in Header
  BY <1>1, <1>2, <1>3 DEF Reset, Header, Author
<1>5. Reset(b) \in BlockRecord
  BY <1>1, <1>2, <1>4 DEF Reset, BlockRecord, Header
<1>6. Plain(Reset(b)) = Started(b)
  BY <1>1, ConcatEmptySeq DEF Plain, Reset
<1>7. Executes(Started(b), <<>>) /\ 0 <= Capacity
  BY <1>2, PendingAssumption DEF Executes
<1> QED  BY <1>2, <1>5, <1>6, <1>7 DEF Right, Reset

\* uncommitToSeal leaves a right block, without the rewards.
LEMMA RightUncommitted ==
    ASSUME ChainInv, Right(block), ~block.sealed
    PROVE  LET b == Uncommitted
           IN  /\ Right(b) /\ ~b.committed /\ ~b.sealed /\ b.root = Plain(b)
               /\ b.txs = block.txs /\ b.previous = block.previous /\ b.current = block.current
<1> DEFINE b == Uncommitted
<1>1. CASE block.committed
  <2>1. b = [block EXCEPT !.root = block.precommit, !.committed = FALSE]
    BY <1>1 DEF Uncommitted
  <2>2. block \in BlockRecord /\ block.precommit = Plain(block)
    BY <1>1 DEF Right, Committed
  <2>3. /\ b.txs = block.txs /\ b.previous = block.previous /\ b.current = block.current
        /\ b.root = Plain(block) /\ ~b.committed /\ ~b.sealed /\ b \in BlockRecord
    BY <2>1, <2>2 DEF BlockRecord
  <2> HIDE DEF b
  <2>4. Plain(b) = Plain(block)
    BY <2>3 DEF Plain
  <2>5. Right(b)
    BY <2>3, <2>4 DEF Right
  <2> QED  BY <2>3, <2>4, <2>5 DEF b
<1>2. CASE ~block.committed
  BY <1>2 DEF Uncommitted, Right
<1> QED  BY <1>1, <1>2

\* What comes before an appended element stays.
LEMMA Fronts ==
    ASSUME NEW S, NEW s \in Seq(S), NEW e \in S
    PROVE  /\ Append(s, e) \in Seq(S) /\ Len(Append(s, e)) = Len(s) + 1 /\ Len(s) \in Nat
           /\ SubSeq(Append(s, e), 1, Len(s)) = s
           /\ \A i \in 1..Len(s) : /\ Append(s, e)[i] = s[i]
                                   /\ SubSeq(Append(s, e), 1, i - 1) = SubSeq(s, 1, i - 1)
           /\ Append(s, e)[Len(s) + 1] = e
<1>1. /\ Append(s, e) \in Seq(S) /\ Len(Append(s, e)) = Len(s) + 1 /\ Len(s) \in Nat
      /\ \A i \in 1..Len(s) : Append(s, e)[i] = s[i]
      /\ Append(s, e)[Len(s) + 1] = e
  BY AppendProperties, LenProperties
<1>2. ASSUME NEW n \in 0..Len(s) PROVE SubSeq(Append(s, e), 1, n) = SubSeq(s, 1, n)
  <2>1. \A i \in 1..n : s[i] \in S /\ Append(s, e)[i] = s[i]
    BY <1>1, ElementOfSeq
  <2>2. /\ SubSeq(s, 1, n) \in Seq(S) /\ Len(SubSeq(s, 1, n)) = n
        /\ \A i \in 1..n : SubSeq(s, 1, n)[i] = s[i]
    BY <2>1, SubSeqProperties
  <2>3. /\ SubSeq(Append(s, e), 1, n) \in Seq(S) /\ Len(SubSeq(Append(s, e), 1, n)) = n
        /\ \A i \in 1..n : SubSeq(Append(s, e), 1, n)[i] = s[i]
    BY <2>1, SubSeqProperties
  <2> QED  BY <2>2, <2>3, SeqEqual
<1>3. SubSeq(s, 1, Len(s)) = s
  BY SubSeqFull
<1>4. Len(s) \in 0..Len(s) /\ \A i \in 1..Len(s) : i - 1 \in 0..Len(s)
  BY <1>1
<1> QED  BY <1>1, <1>2, <1>3, <1>4

\* Appending to the second of two sequences is appending to both.
LEMMA AppendToConcat ==
    ASSUME NEW S, NEW s \in Seq(S), NEW u \in Seq(S), NEW e \in S
    PROVE  s \o Append(u, e) = Append(s \o u, e)
<1> DEFINE one == <<e>>
<1>1. one \in Seq(S) /\ Append(u, e) = u \o one
  BY AppendIsConcat
<1>2. s \o u \in Seq(S)
  BY ConcatProperties
<1>3. Append(s \o u, e) = (s \o u) \o one
  BY <1>2, AppendIsConcat
<1> HIDE DEF one
<1>4. (s \o u) \o one = s \o (u \o one)
  BY <1>1, ConcatAssociative
<1> QED  BY <1>1, <1>3, <1>4

\* execute adds a transaction to the list and to the state.
LEMMA RightExecuted ==
    ASSUME ChainInv, NEW b, Right(b), ~b.committed, ~b.sealed,
           NEW t \in Pending, Executable(t, b.root), ~(Len(b.txs) >= Capacity)
    PROVE  Right([b EXCEPT !.root = Append(b.root, t), !.txs = Append(b.txs, t)])
<1> DEFINE d == [b EXCEPT !.root = Append(b.root, t), !.txs = Append(b.txs, t)]
           start == Started(b.previous)
<1>1. b \in BlockRecord /\ b.root = Plain(b) /\ Plain(b) = start \o b.txs
  BY DEF Right, Plain
<1>2. /\ b.txs \in Seq(Pending) /\ b.txs \in Seq(Applicable) /\ start \in Seq(Applicable)
      /\ Plain(b) \in Seq(Applicable) /\ t \in Applicable
  BY <1>1, FieldsAre DEF ChainInv, Applicable
<1>3. /\ Append(b.txs, t) \in Seq(Pending) /\ Append(b.root, t) \in Seq(Applicable)
      /\ Len(Append(b.txs, t)) = Len(b.txs) + 1 /\ Len(b.txs) \in Nat
  BY <1>1, <1>2, Fronts
<1>4. /\ d \in BlockRecord /\ d.previous = b.previous /\ d.txs = Append(b.txs, t)
      /\ d.root = Append(b.root, t) /\ ~d.committed /\ ~d.sealed /\ d.current = b.current
  BY <1>1, <1>3 DEF BlockRecord
<1> HIDE DEF d
<1>5. Plain(d) = Append(b.root, t)
  <2>1. \A s, u \in Seq(Applicable) : \A e \in Applicable : s \o Append(u, e) = Append(s \o u, e)
    BY AppendToConcat
  <2> HIDE DEF start
  <2>2. start \o Append(b.txs, t) = Append(start \o b.txs, t)
    BY <1>2, <2>1, Zenon
  <2> USE DEF start
  <2> QED  BY <1>1, <1>4, <2>2 DEF Plain
<1>6. Executes(start, Append(b.txs, t))
  <2>1. SUFFICES ASSUME NEW i \in 1..(Len(b.txs) + 1)
                 PROVE  Executable(Append(b.txs, t)[i], start \o SubSeq(Append(b.txs, t), 1, i - 1))
    BY <1>3 DEF Executes
  <2>2. CASE i \in 1..Len(b.txs)
    <3>1. Executable(b.txs[i], start \o SubSeq(b.txs, 1, i - 1))
      BY <2>2 DEF Right, Executes
    <3>2. /\ Append(b.txs, t)[i] = b.txs[i]
          /\ SubSeq(Append(b.txs, t), 1, i - 1) = SubSeq(b.txs, 1, i - 1)
      BY <1>2, <2>2, Fronts
    <3> QED  BY <3>1, <3>2
  <2>3. CASE i = Len(b.txs) + 1
    <3>1. i - 1 = Len(b.txs)
      BY <1>3, <2>3
    <3>2. SubSeq(Append(b.txs, t), 1, i - 1) = b.txs /\ Append(b.txs, t)[i] = t
      BY <1>2, <2>3, <3>1, Fronts
    <3> QED  BY <1>1, <3>2
  <2> QED  BY <1>3, <2>2, <2>3
<1>7. Len(d.txs) <= Capacity
  BY <1>3, <1>4, PendingAssumption
<1>8. Right(d)
  BY <1>4, <1>5, <1>6, <1>7 DEF Right
<1> QED  BY <1>8 DEF d

\* commitToSeal adds the rewards and makes a header that can be enacted.
LEMMA CommitIsRight ==
    ASSUME ChainInv, Right(block), CommitToSeal
    PROVE  PInv'
<1> DEFINE base == Uncommitted.root
           uncles == Uncles(block.previous)
           body == [txs |-> block.txs, uncles |-> uncles]
           root == Append(base, Reward(uncles))
           header == [block.current EXCEPT !.parent = block.previous, !.txs = block.txs,
                                           !.uncles = uncles, !.root = root, !.author = Own]
           b == [block EXCEPT !.precommit = base, !.root = root, !.committed = TRUE, !.body = body,
                              !.current = header]
<1>1. ~block.sealed /\ block' = b /\ UNCHANGED <<blocks, tip>>
  BY DEF CommitToSeal
<1>2. base = Plain(block)
  BY <1>1, RightUncommitted DEF Plain
<1>3. block \in BlockRecord /\ block.current.number = HeaderOf(block.previous).number + 1
  BY DEF Right
<1>4. /\ block.previous \in KnownBlocks /\ block.current \in Header /\ block.txs \in Seq(Pending)
      /\ base \in Seq(Applicable)
  BY <1>2, <1>3, FieldsAre DEF ChainInv
<1>5. /\ uncles \subseteq InChain
      /\ \A h : h.parent = block.previous /\ h.number = HeaderOf(block.previous).number + 1
                   /\ h.uncles = uncles => Sealable(h)
  BY <1>4, UnclesAre DEF ChainInv
<1>6. uncles \in SUBSET Nat /\ block.previous \in Nat
  BY <1>4, <1>5, KnownAre DEF ChainInv, KnownBlocks
<1> HIDE DEF base, uncles
<1>7. Reward(uncles) \in Applicable
  BY <1>6 DEF Reward, Applicable
<1>8. root \in Seq(Applicable)
  BY <1>4, <1>7, AppendProperties
<1> HIDE DEF root
<1>9. /\ header \in Header
      /\ header.parent = block.previous /\ header.txs = block.txs /\ header.uncles = uncles
      /\ header.root = root /\ header.number = block.current.number
  BY <1>4, <1>6, <1>8 DEF Header, Author
<1> HIDE DEF header
<1>10. Sealable(header)
  BY <1>3, <1>5, <1>9
<1>11. /\ b \in BlockRecord
       /\ b.previous = block.previous /\ b.txs = block.txs /\ b.precommit = base /\ b.root = root
       /\ b.committed /\ b.sealed = block.sealed /\ b.body.txs = block.txs
       /\ b.body.uncles = uncles /\ b.current = header
  BY <1>3, <1>4, <1>6, <1>8, <1>9 DEF BlockRecord
<1> HIDE DEF b
<1>12. Plain(b) = base
  BY <1>2, <1>11 DEF Plain
<1>13. Right(b)
  <2>1. Committed(b)
    BY <1>5, <1>9, <1>10, <1>11, <1>12 DEF Committed, root
  <2>2. Len(b.txs) <= Capacity /\ Executes(Started(b.previous), b.txs)
    BY <1>11 DEF Right
  <2>3. b.root = Append(Plain(b), Reward(b.current.uncles))
    BY <1>9, <1>11, <1>12 DEF root
  <2>4. b.current.number = HeaderOf(b.previous).number + 1
    BY <1>3, <1>9, <1>11
  <2> QED  BY <1>1, <1>11, <2>1, <2>2, <2>3, <2>4 DEF Right
<1> QED  BY <1>1, <1>13, RightNext

\* sealBlock takes the rewards off the state.
LEMMA SealIsRight ==
    ASSUME ChainInv, Right(block), SealBlock
    PROVE  PInv'
<1> DEFINE b == [block EXCEPT !.sealed = TRUE, !.current = block.current,
                              !.root = block.precommit]
<1>1. block.committed /\ block' = b /\ UNCHANGED <<blocks, tip>>
  BY DEF SealBlock
<1>2. block \in BlockRecord /\ Committed(block)
  BY <1>1 DEF Right
<1>3. /\ b \in BlockRecord
      /\ b.previous = block.previous /\ b.txs = block.txs /\ b.precommit = block.precommit
      /\ b.committed = block.committed /\ b.sealed /\ b.body = block.body
      /\ b.current = block.current /\ b.root = block.precommit
  BY <1>2 DEF BlockRecord
<1> HIDE DEF b
<1>4. Plain(b) = Plain(block)
  BY <1>3 DEF Plain
<1>5. Committed(b)
  BY <1>2, <1>3, <1>4 DEF Committed
<1>6. b.root = Plain(b)
  BY <1>2, <1>3, <1>4 DEF Committed
<1>7. Right(b)
  BY <1>1, <1>3, <1>5, <1>6 DEF Right
<1> QED  BY <1>1, <1>7, RightNext

\* The copy of a block that is not committed to seal is right.
LEMMA CopyIsRight ==
    ASSUME ~CopyCommitted, ChainInv, Right(block), Copy
    PROVE  PInv'
<1> DEFINE b == [block EXCEPT !.precommit = block.root, !.committed = FALSE]
<1>1. ~block.committed /\ block' = b /\ UNCHANGED <<blocks, tip>>
  BY DEF Copy
<1>2. block \in BlockRecord /\ ~block.sealed
  BY <1>1 DEF Right
<1>3. /\ b \in BlockRecord
      /\ b.previous = block.previous /\ b.txs = block.txs /\ b.root = block.root
      /\ ~b.committed /\ ~b.sealed /\ b.current = block.current
  BY <1>2 DEF BlockRecord
<1> HIDE DEF b
<1>4. Plain(b) = Plain(block)
  BY <1>3 DEF Plain
<1>5. Right(b)
  BY <1>1, <1>3, <1>4 DEF Right
<1> QED  BY <1>1, <1>5, RightNext

\* A transaction from the queue is executed, or the block only uncommitted.
LEMMA ExecuteIsRight ==
    ASSUME ChainInv, Right(block), NEW t \in Pending, ExecuteTx(t)
    PROVE  PInv'
<1>1. PICK b : b = Uncommitted
  OBVIOUS
<1>2. /\ Right(b) /\ ~b.committed /\ ~b.sealed /\ b.txs = block.txs
  BY <1>1, RightUncommitted DEF ExecuteTx
<1>3. UNCHANGED <<blocks, tip>>
  BY DEF ExecuteTx
<1>4. CASE Executable(t, b.root) /\ ~Full
  <2> DEFINE d == [b EXCEPT !.root = Append(b.root, t), !.txs = Append(b.txs, t)]
  <2>1. block' = d
    BY <1>1, <1>4 DEF ExecuteTx
  <2>2. Right(d)
    BY <1>2, <1>4, RightExecuted DEF Full
  <2> HIDE DEF d
  <2> QED  BY <1>3, <2>1, <2>2, RightNext
<1>5. CASE ~(Executable(t, b.root) /\ ~Full)
  <2>1. block' = b
    BY <1>1, <1>5 DEF ExecuteTx
  <2> QED  BY <1>2, <1>3, <2>1, RightNext
<1> QED  BY <1>4, <1>5
-----------------------------------------------------------------------------
(* Importing. *)

\* What is committed to seal can be enacted.
LEMMA CommittedEnacts ==
    ASSUME ChainInv, Right(block), block.committed
    PROVE  Enacts(block.current) /\ block.current.root = RightRoot(block.current)
<1> DEFINE h == block.current
           reward == Reward(block.body.uncles)
<1>1. block \in BlockRecord /\ Committed(block)
  BY DEF Right
<1>2. block.previous \in KnownBlocks /\ Plain(block) \in Seq(Applicable) /\ block.body.uncles \in SUBSET Nat
  BY <1>1, FieldsAre DEF ChainInv, BlockRecord
<1>3. reward \in Applicable
  BY <1>2 DEF Reward, Applicable
<1>4. Append(Plain(block), reward) = Plain(block) \o <<reward>>
  BY <1>2, <1>3, AppendIsConcat
<1>5. h.root = RightRoot(h)
  BY <1>1, <1>4 DEF Committed, RightRoot, Plain
<1>6. Len(h.txs) <= Capacity /\ Executes(Started(h.parent), h.txs) /\ Sealable(h)
  BY <1>1 DEF Right, Committed
<1> QED  BY <1>5, <1>6 DEF Enacts

\* A block on a known one with a root that is right leaves the chain and what is
\* pending as they should be.
LEMMA JoinsKeeps ==
    ASSUME ChainInv, Right(block), NEW h \in Header, h.parent \in KnownBlocks,
           h.number = HeaderOf(h.parent).number + 1, ~SameRoot => h.root = RightRoot(h),
           Joins(h), UNCHANGED block
    PROVE  PInv'
<1>1. /\ blocks' = Append(blocks, h) /\ blocks \in Seq(Header)
      /\ tip' \in {tip, Len(blocks) + 1}
  BY DEF Joins, ChainInv
<1>2. /\ blocks' \in Seq(Header) /\ Len(blocks') = Len(blocks) + 1 /\ Len(blocks) \in Nat
      /\ blocks'[Len(blocks) + 1] = h
  BY <1>1, AppendProperties, LenProperties
<1>3. Grows
  BY <1>1, <1>2 DEF Grows
<1>4. /\ KnownBlocks \subseteq KnownBlocks' /\ InChain \subseteq InChain'
      /\ \A b \in InChain : blocks'[b] = blocks[b]
      /\ \A b \in KnownBlocks : HeaderOf(b)' = HeaderOf(b)
      /\ \A b \in KnownBlocks : Started(b)' = Started(b)
  BY <1>3, GrownIs
<1>5. \A b \in InChain' : b \in InChain \/ b = Len(blocks) + 1
  BY <1>2 DEF InChain
<1>6. tip' \in KnownBlocks'
  <2>1. Len(blocks) + 1 \in KnownBlocks'
    BY <1>2 DEF KnownBlocks, InChain
  <2> QED  BY <1>1, <1>4, <2>1 DEF ChainInv
<1>7. ASSUME NEW g, Stands(g) PROVE Stands(g)' /\ (RootIsRight(g) => RootIsRight(g)')
  <2>1. g.parent \in KnownBlocks
    BY <1>7 DEF Stands
  <2>2. HeaderOf(g.parent)' = HeaderOf(g.parent) /\ Started(g.parent)' = Started(g.parent)
    BY <1>4, <2>1
  <2> QED  BY <1>4, <1>7, <2>1, <2>2 DEF Stands, RootIsRight, RightRoot
<1>8. ASSUME NEW b \in InChain'
      PROVE  Stands(blocks[b])' /\ (~SameRoot => RootIsRight(blocks[b])')
  <2>1. PICK g : g = blocks'[b]
    OBVIOUS
  <2>2. Stands(g) /\ (~SameRoot => RootIsRight(g))
    <3>1. CASE b \in InChain
      <4>1. g = blocks[b]
        BY <1>4, <2>1, <3>1
      <4> QED  BY <3>1, <4>1 DEF ChainInv, TreeInv, RootsInv
    <3>2. CASE b = Len(blocks) + 1
      BY <1>2, <2>1, <3>2 DEF Stands, RootIsRight
    <3> QED  BY <1>5, <3>1, <3>2
  <2>3. Stands(g)' /\ (~SameRoot => RootIsRight(g)')
    BY <1>7, <2>2
  <2> QED  BY <2>1, <2>3 DEF Stands, RootIsRight, RightRoot
<1>9. Right(block)'
  <2>1. PICK b : b = block
    OBVIOUS
  <2>2. Right(b)'
    BY <1>3, <2>1, RightIsKept DEF ChainInv
  <2>3. block' = b
    BY <2>1
  <2> QED  BY <2>2, <2>3 DEF Right, Committed, Plain
<1> QED  BY <1>2, <1>6, <1>8, <1>9 DEF PInv, ChainInv, TreeInv, RootsInv

\* A block that others made keeps the invariant.
LEMMA ImportOtherIsRight ==
    ASSUME ChainInv, Right(block), NEW b \in {0} \cup InChain, NEW h \in Made(b), ImportOther(h)
    PROVE  PInv'
<1> DEFINE Bodies == {<<>>} \cup {<<t>> : t \in Pending}
           Cited == {u \in SUBSET (InChain \ {b}) : Cardinality(u) <= 2}
           Roots(txs, uncles) == {Started(b) \o txs \o <<Reward(uncles)>>}
                                 \cup (IF SameRoot THEN {HeaderOf(b).root} ELSE {})
           Of(txs, uncles, maker) ==
               {[parent |-> b, number |-> HeaderOf(b).number + 1, txs |-> txs, uncles |-> uncles,
                 root |-> root, author |-> maker] : root \in Roots(txs, uncles)}
<1>0. Made(b) = UNION {Of(txs, uncles, maker) : txs \in Bodies, uncles \in Cited, maker \in Makers}
  BY DEF Made
<1>1. PICK txs \in Bodies, uncles \in Cited, maker \in Makers : h \in Of(txs, uncles, maker)
  <2> HIDE DEF Of, Bodies, Cited
  <2> QED  BY <1>0
<1>2. b \in KnownBlocks /\ b \in Nat /\ HeaderOf(b) \in Header /\ Started(b) \in Seq(Applicable)
  BY HeadersAre, StartedIs, KnownAre DEF ChainInv, KnownBlocks
<1>3. txs \in Seq(Pending) /\ txs \in Seq(Applicable)
  <2>1. txs \in Seq(Pending)
    <3>1. CASE txs = <<>>
      BY <3>1, EmptySeq
    <3>2. CASE txs \in {<<t>> : t \in Pending}
      <4>1. PICK t \in Pending : txs = <<t>>
        BY <3>2
      <4> QED  BY <4>1
    <3> QED  BY <3>1, <3>2
  <2> QED  BY <2>1, SeqMonotonic DEF Applicable
<1>4. uncles \in SUBSET Nat
  BY KnownAre DEF ChainInv, KnownBlocks
<1>5. Reward(uncles) \in Applicable
  BY <1>4 DEF Reward, Applicable
<1>6. <<Reward(uncles)>> \in Seq(Applicable)
  BY <1>5
<1>7. Started(b) \o txs \o <<Reward(uncles)>> \in Seq(Applicable)
  BY <1>2, <1>3, <1>6, ConcatProperties
<1>8. PICK root \in Roots(txs, uncles) :
           h = [parent |-> b, number |-> HeaderOf(b).number + 1, txs |-> txs, uncles |-> uncles,
                root |-> root, author |-> maker]
  <2> HIDE DEF Roots
  <2> QED  BY <1>1
<1> HIDE DEF Bodies, Cited, Of
<1>10. root \in Seq(Applicable) /\ (~SameRoot => root = Started(b) \o txs \o <<Reward(uncles)>>)
  <2> DEFINE own == Started(b) \o txs \o <<Reward(uncles)>>
  <2>1. root = own \/ (SameRoot /\ root = HeaderOf(b).root)
    BY <1>8
  <2> HIDE DEF own, Roots
  <2>2. HeaderOf(b).root \in Seq(Applicable)
    BY <1>2 DEF Header
  <2>3. own \in Seq(Applicable)
    BY <1>7 DEF own
  <2>4. root \in Seq(Applicable) /\ (~SameRoot => root = own)
    BY <2>1, <2>2, <2>3
  <2> QED  BY <2>4 DEF own
<1> HIDE DEF Roots
<1>9. /\ h \in Header /\ h.parent \in KnownBlocks /\ h.number = HeaderOf(h.parent).number + 1
  <2>1. HeaderOf(b).number \in Nat
    BY <1>2 DEF Header
  <2> QED  BY <1>2, <1>3, <1>4, <1>8, <1>10, <2>1 DEF Header, Author
<1>11. ~SameRoot => h.root = RightRoot(h)
  <2>1. h.parent = b /\ h.txs = txs /\ h.uncles = uncles /\ h.root = root
    BY <1>8
  <2> QED  BY <1>10, <2>1 DEF RightRoot
<1> QED  BY <1>9, <1>11, JoinsKeeps DEF ImportOther

\* The block that was sealed here keeps the invariant.
LEMMA ImportSealedIsRight ==
    ASSUME ChainInv, Right(block), ImportSealed
    PROVE  PInv'
<1> DEFINE h == block.current
<1>1. block.committed /\ block \in BlockRecord /\ Committed(block)
  BY DEF ImportSealed, Right
<1>2. h \in Header /\ h.parent \in KnownBlocks /\ h.number = HeaderOf(h.parent).number + 1
  BY <1>1, FieldsAre DEF ChainInv, Right, Committed
<1>3. [h EXCEPT !.txs = block.body.txs, !.uncles = block.body.uncles] = h
  BY <1>1, <1>2 DEF Committed, Header
<1>4. Joins(h) /\ UNCHANGED block
  BY <1>3 DEF ImportSealed
<1>5. h.root = RightRoot(h)
  BY <1>1, CommittedEnacts
<1> QED  BY <1>2, <1>4, <1>5, JoinsKeeps
-----------------------------------------------------------------------------
(* The invariant and the theorems. *)

\* The invariant holds at first.
LEMMA PInvInit == ASSUME PendingInit PROVE PInv
<1>1. blocks = <<>> /\ tip = 0 /\ block = Reset(0)
  BY DEF PendingInit
<1>2. blocks \in Seq(Header) /\ Len(blocks) = 0
  BY <1>1, EmptySeq
<1>3. InChain = {}
  BY <1>2 DEF InChain
<1>4. ChainInv
  BY <1>1, <1>2, <1>3 DEF ChainInv, KnownBlocks, TreeInv, RootsInv
<1>5. Right(Reset(0))
  BY <1>4, RightReset DEF KnownBlocks
<1> QED  BY <1>1, <1>4, <1>5 DEF PInv

\* Every step keeps it, if no block is copied that is committed to seal.
LEMMA PInvNext == ASSUME ~CopyCommitted, PInv, [PendingNext]_pendingVars PROVE PInv'
<1>0. ChainInv /\ Right(block) /\ block.previous \in KnownBlocks /\ tip \in KnownBlocks
  BY FieldsAre DEF PInv, ChainInv, Right
<1>1. ASSUME NEW b \in {0} \cup InChain, NEW h \in Made(b), ImportOther(h) PROVE PInv'
  BY <1>0, <1>1, ImportOtherIsRight
<1>2. CASE ImportSealed
  BY <1>0, <1>2, ImportSealedIsRight
<1>3. ASSUME UNCHANGED <<blocks, tip, block>> PROVE PInv'
  BY <1>0, <1>3, RightNext
<1>4. ASSUME NEW t \in Pending, Offer(t) PROVE PInv'
  BY <1>3, <1>4 DEF Offer
<1>5. ASSUME NEW t \in Pending, ExecuteTx(t) PROVE PInv'
  BY <1>0, <1>5, ExecuteIsRight
<1>6. CASE SyncChain
  BY <1>0, <1>6, RightReset, RightNext DEF SyncChain
<1>7. CASE ResetCurrent
  BY <1>0, <1>7, RightReset, RightNext DEF ResetCurrent
<1>8. CASE Copy
  BY <1>0, <1>8, CopyIsRight
<1>9. CASE Simulate
  BY <1>0, <1>9, RightUncommitted, RightNext DEF Simulate
<1>10. CASE CommitToSeal
  BY <1>0, <1>10, CommitIsRight
<1>11. CASE AskSeal
  BY <1>3, <1>11 DEF AskSeal
<1>12. CASE SealBlock
  BY <1>0, <1>12, SealIsRight
<1>13. CASE UNCHANGED pendingVars
  BY <1>3, <1>13 DEF pendingVars
<1> QED
  BY <1>1, <1>2, <1>4, <1>5, <1>6, <1>7, <1>8, <1>9, <1>10, <1>11, <1>12, <1>13 DEF PendingNext

\* It always holds.
LEMMA PInvAlways == ASSUME ~CopyCommitted PROVE PendingSpec => []PInv
<1>1. PInv /\ [PendingNext]_pendingVars => PInv'
  BY PInvNext
<1>2. PendingInit => PInv
  BY PInvInit
<1> QED  BY <1>1, <1>2, PTL DEF PendingSpec

\* The state of the pending block is that of its parent with its transactions, and
\* the rewards once while it is committed to seal; the root of each stored block is
\* that of its parent's state with all it has (resetCurrent, execute,
\* commitToSeal, uncommitToSeal, sealBlock, enactOn).
THEOREM StatesFollow ==
    (~CopyCommitted /\ ~SameRoot) => (PendingSpec => []StateFollowsTransactions)
<1> SUFFICES ASSUME ~CopyCommitted, ~SameRoot PROVE PendingSpec => []StateFollowsTransactions
  OBVIOUS
<1>1. ASSUME PInv PROVE StateFollowsTransactions
  <2>1. \A b \in InChain : blocks[b].root = RightRoot(blocks[b])
    BY <1>1 DEF PInv, ChainInv, RootsInv, RootIsRight
  <2>2. Right(block)
    BY <1>1 DEF PInv
  <2> QED  BY <2>1, <2>2 DEF StateFollowsTransactions, Right, Committed, Plain
<1>2. PInv => StateFollowsTransactions
  BY <1>1
<1>3. PendingSpec => []PInv
  BY PInvAlways
<1> QED  BY <1>2, <1>3, PTL

\* Whatever was imported between commitToSeal() and the seal, the sealed block's body
\* is that of its header and enact() accepts it: transactions, uncles and root.
\* Other blocks' roots need not be right for it.
THEOREM SealedIsImported == ~CopyCommitted => (PendingSpec => []SealedIsEnactable)
<1> SUFFICES ASSUME ~CopyCommitted PROVE PendingSpec => []SealedIsEnactable
  OBVIOUS
<1>1. ASSUME PInv PROVE SealedIsEnactable
  BY <1>1, CommittedEnacts DEF PInv, SealedIsEnactable, Right, Committed
<1>2. PInv => SealedIsEnactable
  BY <1>1
<1>3. PendingSpec => []PInv
  BY PInvAlways
<1> QED  BY <1>2, <1>3, PTL
-----------------------------------------------------------------------------
(***************************************************************************)
(* BlockSync: what is marked as being downloaded is asked of a peer.       *)
(*                                                                         *)
(* The property is about marked numbers and peers that are asked; what is  *)
(* kept is that it goes by what is noted for each peer (Marked, Noted).    *)
(* Each handler is a chain of the functions below on the same record, and  *)
(* in the midst of one a peer is no longer asked while numbers are still   *)
(* noted for it (NotedBut): clearPeerDownload() makes that right.          *)
(***************************************************************************)
\* What is kept of a peer, and of all of them.
PeerShaped(peer) ==
    /\ {"on", "status", "asking"} \subseteq DOMAIN peer
    /\ peer.asking = NoAsk \/ peer.asking.kind \in {"headers", "bodies", "tip"}
PeersShaped(n) == Peer \subseteq DOMAIN n.peers /\ \A p \in Peer : PeerShaped(n.peers[p])

\* What the sync has is such as resetSync() leaves it.
Shaped(n) ==
    /\ {"fetching", "from", "peers", "headers"} \subseteq DOMAIN n
    /\ {"headers", "bodies"} \subseteq DOMAIN n.fetching /\ {"headers", "bodies"} \subseteq DOMAIN n.from
    /\ Peer \subseteq DOMAIN n.from.headers /\ Peer \subseteq DOMAIN n.from.bodies
    /\ PeersShaped(n)

\* Numbers that are marked are noted for a peer.
Marked(n) ==
    /\ \A k \in n.fetching.headers : \E q \in Peer : k \in n.from.headers[q]
    /\ \A k \in n.fetching.bodies : \E q \in Peer : k \in n.from.bodies[q]

\* Numbers are noted only for a peer that is there and asked: for any peer, and
\* for any but p.
Noted(n) ==
    \A q \in Peer :
        n.from.headers[q] # {} \/ n.from.bodies[q] # {} => n.peers[q].on /\ n.peers[q].asking # NoAsk
NotedBut(n, p) ==
    \A q \in Peer \ {p} :
        n.from.headers[q] # {} \/ n.from.bodies[q] # {} => n.peers[q].on /\ n.peers[q].asking # NoAsk

\* Only so many headers are held: they are collected one by one.
HeadersFinite(n) == IsFiniteSet(DOMAIN n.headers)

\* What is kept.
Good(n) == Shaped(n) /\ HeadersFinite(n) /\ Marked(n) /\ Noted(n)

\* The second has the marks, or fewer, and all that is noted of the first.
SameMarks(n, m) ==
    /\ {"fetching", "from", "peers", "headers"} \subseteq DOMAIN m
    /\ m.from = n.from /\ m.peers = n.peers
    /\ {"headers", "bodies"} \subseteq DOMAIN m.fetching
    /\ m.fetching.headers \subseteq n.fetching.headers /\ m.fetching.bodies \subseteq n.fetching.bodies

\* Functions that only take marks away keep it.
LEMMA SameMarksGood ==
    ASSUME NEW n, NEW m, Good(n), SameMarks(n, m), HeadersFinite(m)
    PROVE  Good(m)
<1>1. Shaped(m)
  BY DEF Good, Shaped, PeersShaped, SameMarks
<1>2. Marked(m)
  BY DEF Good, Marked, SameMarks
<1>3. Noted(m)
  BY DEF Good, Noted, SameMarks
<1> QED  BY <1>1, <1>2, <1>3 DEF Good

\* clearPeerDownload() takes the numbers of a peer out of both records.
LEMMA ClearIs ==
    ASSUME NEW n, NEW p \in Peer, Shaped(n)
    PROVE  LET m == ClearPeerDownload(n, p)
           IN  /\ DOMAIN m = DOMAIN n /\ Shaped(m) /\ m.headers = n.headers /\ m.peers = n.peers
               /\ m.fetching.headers = n.fetching.headers \ n.from.headers[p]
               /\ m.fetching.bodies = n.fetching.bodies \ n.from.bodies[p]
               /\ m.from.headers[p] = {} /\ m.from.bodies[p] = {}
               /\ \A q \in Peer \ {p} : m.from.headers[q] = n.from.headers[q] /\ m.from.bodies[q] = n.from.bodies[q]
<1> DEFINE m == ClearPeerDownload(n, p)
<1>1. /\ DOMAIN m = DOMAIN n /\ m.headers = n.headers /\ m.peers = n.peers
  BY DEF ClearPeerDownload, Shaped
<1>2. /\ m.fetching = [n.fetching EXCEPT !.headers = @ \ n.from.headers[p], !.bodies = @ \ n.from.bodies[p]]
      /\ m.from = [n.from EXCEPT !.headers[p] = {}, !.bodies[p] = {}]
  BY DEF ClearPeerDownload, Shaped
<1> HIDE DEF m
<1>3. /\ {"headers", "bodies"} \subseteq DOMAIN n.fetching /\ {"headers", "bodies"} \subseteq DOMAIN n.from
      /\ Peer \subseteq DOMAIN n.from.headers /\ Peer \subseteq DOMAIN n.from.bodies
  BY DEF Shaped, PeersShaped
<1>4. /\ {"headers", "bodies"} \subseteq DOMAIN m.fetching
      /\ m.fetching.headers = n.fetching.headers \ n.from.headers[p]
      /\ m.fetching.bodies = n.fetching.bodies \ n.from.bodies[p]
  BY <1>2, <1>3
<1>5. /\ {"headers", "bodies"} \subseteq DOMAIN m.from
      /\ m.from.headers = [n.from.headers EXCEPT ![p] = {}]
      /\ m.from.bodies = [n.from.bodies EXCEPT ![p] = {}]
  BY <1>2, <1>3
<1>6. /\ Peer \subseteq DOMAIN m.from.headers /\ Peer \subseteq DOMAIN m.from.bodies
      /\ m.from.headers[p] = {} /\ m.from.bodies[p] = {}
      /\ \A q \in Peer \ {p} : m.from.headers[q] = n.from.headers[q] /\ m.from.bodies[q] = n.from.bodies[q]
  BY <1>3, <1>5
<1>7. Shaped(m)
  BY <1>1, <1>4, <1>5, <1>6 DEF Shaped, PeersShaped
<1> QED  BY <1>1, <1>4, <1>6, <1>7 DEF m

\* It leaves all right once p is not asked any more.
LEMMA ClearGood ==
    ASSUME NEW n, NEW p \in Peer, Shaped(n), HeadersFinite(n), Marked(n), NotedBut(n, p)
    PROVE  LET m == ClearPeerDownload(n, p)
           IN  /\ Good(m) /\ m.peers = n.peers /\ m.from.headers[p] = {} /\ m.from.bodies[p] = {}
<1> DEFINE m == ClearPeerDownload(n, p)
<1>1. /\ DOMAIN m = DOMAIN n /\ Shaped(m) /\ m.headers = n.headers /\ m.peers = n.peers
      /\ m.fetching.headers = n.fetching.headers \ n.from.headers[p]
      /\ m.fetching.bodies = n.fetching.bodies \ n.from.bodies[p]
      /\ m.from.headers[p] = {} /\ m.from.bodies[p] = {}
      /\ \A q \in Peer \ {p} : m.from.headers[q] = n.from.headers[q] /\ m.from.bodies[q] = n.from.bodies[q]
  BY ClearIs
<1> HIDE DEF m
<1>2. Marked(m)
  <2>1. ASSUME NEW k \in m.fetching.headers PROVE \E q \in Peer : k \in m.from.headers[q]
    <3>1. k \in n.fetching.headers /\ k \notin n.from.headers[p]
      BY <1>1
    <3>2. PICK q \in Peer : k \in n.from.headers[q]
      BY <3>1 DEF Marked
    <3> QED  BY <1>1, <3>1, <3>2
  <2>2. ASSUME NEW k \in m.fetching.bodies PROVE \E q \in Peer : k \in m.from.bodies[q]
    <3>1. k \in n.fetching.bodies /\ k \notin n.from.bodies[p]
      BY <1>1
    <3>2. PICK q \in Peer : k \in n.from.bodies[q]
      BY <3>1 DEF Marked
    <3> QED  BY <1>1, <3>1, <3>2
  <2> QED  BY <2>1, <2>2 DEF Marked
<1>3. Noted(m)
  BY <1>1 DEF Noted, NotedBut
<1>4. HeadersFinite(m)
  BY <1>1 DEF HeadersFinite
<1> QED  BY <1>1, <1>2, <1>3, <1>4 DEF Good, m

\* m is n with the peer p asked for something.
Asked(n, m, p) ==
    /\ Shaped(m) /\ m.fetching = n.fetching /\ m.from = n.from /\ m.headers = n.headers
    /\ m.peers[p].asking # NoAsk /\ m.peers[p].on = n.peers[p].on
    /\ \A q \in Peer \ {p} : m.peers[q] = n.peers[q]

\* A peer is asked for something.
LEMMA AskIs ==
    ASSUME NEW n, NEW p \in Peer, Shaped(n), NEW kind \in {"headers", "bodies", "tip"}, NEW of
    PROVE  Asked(n, Ask(n, p, kind, of), p)
<1> DEFINE m == Ask(n, p, kind, of)
           ask == [kind |-> kind, of |-> of]
<1>1. ask # NoAsk
  <2>1. ask.kind # NoAsk.kind
    BY DEF NoAsk
  <2> QED  BY <2>1
<1> HIDE DEF ask
<1>2. {"fetching", "from", "peers", "headers"} \subseteq DOMAIN n /\ Peer \subseteq DOMAIN n.peers
  BY DEF Shaped, PeersShaped, PeerShaped
<1>3. /\ DOMAIN m = DOMAIN n /\ m.fetching = n.fetching /\ m.from = n.from /\ m.headers = n.headers
      /\ m.peers = [n.peers EXCEPT ![p].asking = ask]
  BY <1>2 DEF Ask, ask
<1> HIDE DEF m
<1>4. /\ DOMAIN m.peers = DOMAIN n.peers
      /\ m.peers[p] = [n.peers[p] EXCEPT !.asking = ask]
      /\ \A q \in Peer \ {p} : m.peers[q] = n.peers[q]
  BY <1>2, <1>3
<1>5. {"on", "status", "asking"} \subseteq DOMAIN n.peers[p]
  BY DEF Shaped, PeersShaped, PeerShaped
<1>6. m.peers[p].asking = ask /\ m.peers[p].on = n.peers[p].on /\ DOMAIN m.peers[p] = DOMAIN n.peers[p]
  BY <1>4, <1>5
<1>7. m.peers[p].asking.kind \in {"headers", "bodies", "tip"}
  BY <1>6 DEF ask
<1>8. Shaped(m)
  BY <1>3, <1>4, <1>6, <1>7 DEF Shaped, PeersShaped, PeerShaped
<1> QED  BY <1>1, <1>3, <1>4, <1>6, <1>8 DEF m, Asked

\* Whatever it is asked for.
LEMMA AskGood ==
    ASSUME NEW n, NEW p \in Peer, NEW kind \in {"headers", "bodies", "tip"}, NEW of,
           Shaped(n), HeadersFinite(n), Marked(n), NotedBut(n, p), n.peers[p].on
    PROVE  Good(Ask(n, p, kind, of))
<1> DEFINE m == Ask(n, p, kind, of)
<1>1. Asked(n, m, p)
  BY AskIs
<1> HIDE DEF m
<1>2. Marked(m) /\ HeadersFinite(m)
  BY <1>1 DEF Asked, Marked, HeadersFinite
<1>3. Noted(m)
  BY <1>1 DEF Asked, Noted, NotedBut
<1> QED  BY <1>1, <1>2, <1>3 DEF Asked, Good, m

\* The chunks of a request are noted for a peer that then is asked.
LEMMA RequestHeadersGood ==
    ASSUME NEW n, NEW p \in Peer, Good(n), n.peers[p].on, n.from.headers[p] = {}
    PROVE  Good(RequestHeaders(n, p))
<1>1. CASE RequestHeaders(n, p) = n
  BY <1>1
<1>2. ASSUME NEW N, NEW of
      PROVE  Good(Ask([n EXCEPT !.from.headers[p] = N, !.fetching.headers = @ \cup N], p, "headers", of))
  <2> DEFINE m == [n EXCEPT !.from.headers[p] = N, !.fetching.headers = @ \cup N]
  <2>1. /\ {"fetching", "from", "peers", "headers"} \subseteq DOMAIN n
        /\ {"headers", "bodies"} \subseteq DOMAIN n.fetching /\ {"headers", "bodies"} \subseteq DOMAIN n.from
        /\ Peer \subseteq DOMAIN n.from.headers /\ Peer \subseteq DOMAIN n.from.bodies
    BY DEF Good, Shaped, PeersShaped
  <2>2. /\ DOMAIN m = DOMAIN n /\ m.headers = n.headers /\ m.peers = n.peers
        /\ m.from = [n.from EXCEPT !.headers[p] = N] /\ m.fetching = [n.fetching EXCEPT !.headers = @ \cup N]
    BY <2>1
  <2> HIDE DEF m
  <2>3. /\ DOMAIN m.from = DOMAIN n.from /\ m.from.bodies = n.from.bodies
        /\ m.from.headers = [n.from.headers EXCEPT ![p] = N]
    BY <2>1, <2>2
  <2>4. /\ DOMAIN m.fetching = DOMAIN n.fetching /\ m.fetching.bodies = n.fetching.bodies
        /\ m.fetching.headers = n.fetching.headers \cup N
    BY <2>1, <2>2
  <2>5. /\ Peer \subseteq DOMAIN m.from.headers /\ m.from.headers[p] = N
        /\ \A q \in Peer \ {p} : m.from.headers[q] = n.from.headers[q]
    BY <2>1, <2>3
  <2>6. Shaped(m)
    BY <2>2, <2>3, <2>4, <2>5 DEF Good, Shaped, PeersShaped
  <2>7. Marked(m)
    <3>1. ASSUME NEW k \in m.fetching.headers PROVE \E q \in Peer : k \in m.from.headers[q]
      <4>1. CASE k \in N
        BY <2>5, <4>1
      <4>2. CASE k \notin N
        <5>1. PICK q \in Peer : k \in n.from.headers[q]
          BY <2>4, <4>2 DEF Good, Marked
        <5> QED  BY <2>5, <5>1
      <4> QED  BY <4>1, <4>2
    <3> QED  BY <2>3, <2>4, <3>1 DEF Good, Marked
  <2>8. NotedBut(m, p) /\ HeadersFinite(m) /\ m.peers[p].on
    BY <2>2, <2>3, <2>5 DEF Good, Noted, NotedBut, HeadersFinite
  <2> QED  BY <2>6, <2>7, <2>8, AskGood DEF m
<1> QED  BY <1>1, <1>2, Zenon DEF RequestHeaders

\* So are bodies.
LEMMA RequestBodiesGood ==
    ASSUME NEW n, NEW p \in Peer, Good(n), n.peers[p].on, n.from.bodies[p] = {}, NEW N, NEW of
    PROVE  Good(Ask([n EXCEPT !.from.bodies[p] = N, !.fetching.bodies = @ \cup N], p, "bodies", of))
<1> DEFINE m == [n EXCEPT !.from.bodies[p] = N, !.fetching.bodies = @ \cup N]
<1>1. /\ {"fetching", "from", "peers", "headers"} \subseteq DOMAIN n
      /\ {"headers", "bodies"} \subseteq DOMAIN n.fetching /\ {"headers", "bodies"} \subseteq DOMAIN n.from
      /\ Peer \subseteq DOMAIN n.from.headers /\ Peer \subseteq DOMAIN n.from.bodies
  BY DEF Good, Shaped, PeersShaped
<1>2. /\ DOMAIN m = DOMAIN n /\ m.headers = n.headers /\ m.peers = n.peers
      /\ m.from = [n.from EXCEPT !.bodies[p] = N] /\ m.fetching = [n.fetching EXCEPT !.bodies = @ \cup N]
  BY <1>1
<1> HIDE DEF m
<1>3. /\ DOMAIN m.from = DOMAIN n.from /\ m.from.headers = n.from.headers
      /\ m.from.bodies = [n.from.bodies EXCEPT ![p] = N]
  BY <1>1, <1>2
<1>4. /\ DOMAIN m.fetching = DOMAIN n.fetching /\ m.fetching.headers = n.fetching.headers
      /\ m.fetching.bodies = n.fetching.bodies \cup N
  BY <1>1, <1>2
<1>5. /\ Peer \subseteq DOMAIN m.from.bodies /\ m.from.bodies[p] = N
      /\ \A q \in Peer \ {p} : m.from.bodies[q] = n.from.bodies[q]
  BY <1>1, <1>3
<1>6. Shaped(m)
  BY <1>2, <1>3, <1>4, <1>5 DEF Good, Shaped, PeersShaped
<1>7. Marked(m)
  <2>1. ASSUME NEW k \in m.fetching.bodies PROVE \E q \in Peer : k \in m.from.bodies[q]
    <3>1. CASE k \in N
      BY <1>5, <3>1
    <3>2. CASE k \notin N
      <4>1. PICK q \in Peer : k \in n.from.bodies[q]
        BY <1>4, <3>2 DEF Good, Marked
      <4> QED  BY <1>5, <4>1
    <3> QED  BY <3>1, <3>2
  <2> QED  BY <1>3, <1>4, <2>1 DEF Good, Marked
<1>8. NotedBut(m, p) /\ HeadersFinite(m) /\ m.peers[p].on
  BY <1>2, <1>3, <1>5 DEF Good, Noted, NotedBut, HeadersFinite
<1> QED  BY <1>6, <1>7, <1>8, AskGood DEF m

\* Good, and not one peer for the other.
LEMMA GoodBut == \A n, p : Good(n) => Shaped(n) /\ HeadersFinite(n) /\ Marked(n) /\ NotedBut(n, p)
BY DEF Good, Noted, NotedBut

\* requestBlocks() first clears what the peer was asked for.
LEMMA RequestBlocksGood ==
    ASSUME NEW n, NEW p \in Peer, Good(n), n.peers[p].on
    PROVE  Good(RequestBlocks(n, p))
<1> DEFINE m == ClearPeerDownload(n, p)
           needed == NeededBodies(m)
           start == IF NoneOf(m.headers) \/ m.last < First(m.headers) THEN m.last ELSE First(m.headers) - 1
           back == [m EXCEPT !.last = start, !.lastHash = NumberHash(m, start), !.common = start <= 1]
           waiting == [m EXCEPT !.state = "Waiting"]
           with(N) == [m EXCEPT !.from.bodies[p] = N, !.fetching.bodies = @ \cup N]
<1>1. Good(m) /\ m.peers[p].on /\ m.from.headers[p] = {} /\ m.from.bodies[p] = {}
  BY GoodBut, ClearGood
<1> HIDE DEF m
<1>2. Good(back) /\ back.peers[p].on /\ back.from.headers[p] = {}
  <2>1. {"fetching", "from", "peers", "headers"} \subseteq DOMAIN m /\ {"headers", "bodies"} \subseteq DOMAIN m.fetching
    BY <1>1 DEF Good, Shaped
  <2>2. SameMarks(m, back) /\ HeadersFinite(back) /\ back.peers = m.peers /\ back.from = m.from
    BY <1>1, <2>1 DEF SameMarks, HeadersFinite, Good
  <2> HIDE DEF back
  <2> QED  BY <1>1, <2>2, SameMarksGood
<1>3. Good(waiting)
  <2>1. {"fetching", "from", "peers", "headers"} \subseteq DOMAIN m /\ {"headers", "bodies"} \subseteq DOMAIN m.fetching
    BY <1>1 DEF Good, Shaped
  <2>2. SameMarks(m, waiting) /\ HeadersFinite(waiting)
    BY <1>1, <2>1 DEF SameMarks, HeadersFinite, Good
  <2> HIDE DEF waiting
  <2> QED  BY <1>1, <2>2, SameMarksGood
<1> HIDE DEF back, waiting, start, needed, with
<1>4. Good(RequestHeaders(m, p)) /\ Good(RequestHeaders(back, p))
  BY <1>1, <1>2, RequestHeadersGood
<1>5. \A of : Good(Ask(back, p, "headers", of))
  BY <1>2, GoodBut, AskGood
<1>6. \A N, of : Good(Ask(with(N), p, "bodies", of))
  BY <1>1, RequestBodiesGood DEF with
<1>7. \/ RequestBlocks(n, p) \in {waiting, RequestHeaders(m, p), RequestHeaders(back, p)}
      \/ \E of : RequestBlocks(n, p) = Ask(back, p, "headers", of)
      \/ \E N, of : RequestBlocks(n, p) = Ask(with(N), p, "bodies", of)
  BY Zenon DEF RequestBlocks, m, needed, start, back, waiting, with
<1> QED  BY <1>3, <1>4, <1>5, <1>6, <1>7

\* Whatever is asked of a peer that is there.
LEMMA SyncPeerGood ==
    ASSUME NEW n, NEW p \in Peer, Good(n), n.peers[p].on, NEW force
    PROVE  Good(SyncPeer(n, p, force))
<1>1. Good(RequestBlocks(n, p))
  BY RequestBlocksGood
<1> DEFINE with(td, state) == [n EXCEPT !.td = td, !.state = state]
<1>2. ASSUME NEW td, NEW state, NEW of PROVE Good(Ask(with(td, state), p, "tip", of))
  <2> DEFINE m == [n EXCEPT !.td = td, !.state = state]
  <2>1. {"fetching", "from", "peers", "headers"} \subseteq DOMAIN n /\ {"headers", "bodies"} \subseteq DOMAIN n.fetching
    BY DEF Good, Shaped
  <2>2. SameMarks(n, m) /\ HeadersFinite(m) /\ m.peers = n.peers
    BY <2>1 DEF SameMarks, HeadersFinite, Good
  <2> HIDE DEF m
  <2>3. Good(m)
    BY <2>2, SameMarksGood
  <2> QED  BY <2>2, <2>3, GoodBut, AskGood DEF m
<1>3. \/ SyncPeer(n, p, force) \in {n, RequestBlocks(n, p)}
      \/ \E td, state, of : SyncPeer(n, p, force) = Ask(with(td, state), p, "tip", of)
  BY Zenon DEF SyncPeer
<1> HIDE DEF with
<1> QED  BY <1>1, <1>2, <1>3

\* resetSync() leaves no marks.
LEMMA ResetGood ==
    ASSUME NEW n, {"fetching", "from", "peers", "headers"} \subseteq DOMAIN n, PeersShaped(n)
    PROVE  Good(ResetSync(n)) /\ DOMAIN ResetSync(n) = DOMAIN n
<1> DEFINE m == ResetSync(n)
<1>1. {"fetching", "from", "peers", "headers"} \subseteq DOMAIN n
  OBVIOUS
<1>2. /\ DOMAIN m = DOMAIN n /\ m.peers = n.peers /\ m.headers = <<>>
      /\ m.fetching = [headers |-> {}, bodies |-> {}]
      /\ m.from = [headers |-> [p \in Peer |-> {}], bodies |-> [p \in Peer |-> {}]]
  BY <1>1 DEF ResetSync
<1> HIDE DEF m
<1>3. /\ {"headers", "bodies"} \subseteq DOMAIN m.fetching /\ {"headers", "bodies"} \subseteq DOMAIN m.from
      /\ m.fetching.headers = {} /\ m.fetching.bodies = {}
      /\ m.from.headers = [p \in Peer |-> {}] /\ m.from.bodies = [p \in Peer |-> {}]
  BY <1>2
<1>4. Shaped(m)
  BY <1>2, <1>3 DEF Shaped, PeersShaped
<1>5. Marked(m) /\ Noted(m)
  BY <1>3 DEF Marked, Noted
<1>6. DOMAIN m.headers = {}
  BY <1>2
<1>7. HeadersFinite(m)
  BY <1>6, FS_EmptySet DEF HeadersFinite
<1> QED  BY <1>2, <1>4, <1>5, <1>7 DEF Good, m

\* What is changed besides the records.
LEMMA Besides ==
    ASSUME NEW n, NEW m, Good(n), DOMAIN m = DOMAIN n,
           m.fetching = n.fetching, m.from = n.from, m.peers = n.peers, m.headers = n.headers
    PROVE  Good(m)
<1>1. SameMarks(n, m) /\ HeadersFinite(m)
  BY DEF SameMarks, HeadersFinite, Good, Shaped
<1> QED  BY <1>1, SameMarksGood

\* The fields that are looked at are there.
LEMMA SyncFields ==
    \A n : Good(n) => /\ {"fetching", "from", "peers", "headers"} \subseteq DOMAIN n
                      /\ {"headers", "bodies"} \subseteq DOMAIN n.fetching
                      /\ IsFiniteSet(DOMAIN n.headers)
BY DEF Good, Shaped, HeadersFinite

\* completeSync(), restartSync() and resetSync() before a common header is looked for.
LEMMA RestartGood ==
    ASSUME NEW n, Good(n)
    PROVE  /\ Good(CompleteSync(n)) /\ Good(RestartSync(n))
           /\ Good([ResetSync(n) EXCEPT !.common = FALSE])
<1> DEFINE r == ResetSync(n)
<1>1. Good(r)
  BY ResetGood DEF Good, Shaped
<1>2. {"fetching", "from", "peers", "headers"} \subseteq DOMAIN r
  BY <1>1, SyncFields
<1>3. Good(CompleteSync(n))
  <2> DEFINE m == CompleteSync(n)
  <2>1. DOMAIN m = DOMAIN r /\ m.fetching = r.fetching /\ m.from = r.from /\ m.peers = r.peers /\ m.headers = r.headers
    <3>1. m = [r EXCEPT !.state = "Idle"]
      BY DEF CompleteSync
    <3> HIDE DEF m, r
    <3> QED  BY <1>2, <3>1
  <2> HIDE DEF m, r
  <2> QED  BY <1>1, <2>1, Besides DEF m
<1>4. Good(RestartSync(n))
  <2> DEFINE m == RestartSync(n)
  <2>1. DOMAIN m = DOMAIN r /\ m.fetching = r.fetching /\ m.from = r.from /\ m.peers = r.peers /\ m.headers = r.headers
    <3>1. m = [r EXCEPT !.common = FALSE, !.last = Number(n.head), !.lastHash = {n.head},
                       !.ready = {}, !.draining = {}, !.unknown = {}, !.difficulty = 0]
      BY DEF RestartSync
    <3> HIDE DEF m, r
    <3> QED  BY <1>2, <3>1
  <2> HIDE DEF m, r
  <2> QED  BY <1>1, <2>1, Besides DEF m
<1>5. Good([r EXCEPT !.common = FALSE])
  <2> DEFINE m == [r EXCEPT !.common = FALSE]
  <2> HIDE DEF r
  <2>1. DOMAIN m = DOMAIN r /\ m.fetching = r.fetching /\ m.from = r.from /\ m.peers = r.peers /\ m.headers = r.headers
    BY <1>2
  <2> HIDE DEF m
  <2>2. Good(m)
    BY <1>1, <2>1, Besides
  <2> QED  BY <2>2 DEF m
<1> QED  BY <1>3, <1>4, <1>5

\* Erasing numbers, and putting one, leaves finitely many.
LEMMA EraseFinite ==
    ASSUME NEW f, IsFiniteSet(DOMAIN f)
    PROVE  /\ \A N : IsFiniteSet(DOMAIN Erase(f, N)) /\ DOMAIN Erase(f, N) \subseteq DOMAIN f
           /\ \A k : IsFiniteSet(DOMAIN RemoveFrom(f, k)) /\ IsFiniteSet(DOMAIN RemoveItem(f, k))
           /\ \A k, v : IsFiniteSet(DOMAIN Put(f, k, v))
<1>1. ASSUME NEW N PROVE IsFiniteSet(DOMAIN Erase(f, N)) /\ DOMAIN Erase(f, N) \subseteq DOMAIN f
  <2>1. DOMAIN Erase(f, N) \in SUBSET DOMAIN f
    BY DEF Erase
  <2> QED  BY <2>1, FS_Subset
<1>2. \A k, v : DOMAIN Put(f, k, v) = DOMAIN f \cup {k}
  BY DEF Put
<1>3. \A k : IsFiniteSet(DOMAIN f \cup {k})
  BY FS_AddElement
<1>4. \A k, v : IsFiniteSet(DOMAIN Put(f, k, v))
  BY <1>2, <1>3
<1>5. \A k : IsFiniteSet(DOMAIN RemoveFrom(f, k)) /\ IsFiniteSet(DOMAIN RemoveItem(f, k))
  BY <1>1 DEF RemoveFrom, RemoveItem
<1> QED  BY <1>1, <1>4, <1>5

\* A header is put in.
LEMMA WithHeaderGood ==
    ASSUME NEW n, Good(n), NEW b
    PROVE  Good(WithHeader(n, b))
<1> DEFINE m == WithHeader(n, b)
<1>1. {"fetching", "from", "peers", "headers"} \subseteq DOMAIN n /\ {"headers", "bodies"} \subseteq DOMAIN n.fetching
      /\ IsFiniteSet(DOMAIN n.headers)
  BY SyncFields
<1>2. /\ DOMAIN m = DOMAIN n /\ m.fetching = n.fetching /\ m.from = n.from /\ m.peers = n.peers
      /\ m.headers = Put(n.headers, Number(b), b)
  BY <1>1 DEF WithHeader
<1> HIDE DEF m
<1>3. HeadersFinite(m)
  BY <1>1, <1>2, EraseFinite DEF HeadersFinite
<1>4. SameMarks(n, m)
  BY <1>1, <1>2 DEF SameMarks
<1> QED  BY <1>3, <1>4, SameMarksGood DEF m

\* Those that follow on another are taken out.
LEMMA WithoutFollowingGood ==
    ASSUME NEW n, Good(n), NEW b
    PROVE  Good(WithoutFollowing(n, b))
<1> DEFINE m == WithoutFollowing(n, b)
<1>1. {"fetching", "from", "peers", "headers"} \subseteq DOMAIN n /\ {"headers", "bodies"} \subseteq DOMAIN n.fetching
      /\ IsFiniteSet(DOMAIN n.headers)
  BY SyncFields
<1>2. CASE m = n
  BY <1>2
<1>3. CASE m # n
  <2> DEFINE k == Number(b) + 1
             R == RunFrom(n.headers, k)
  <2>1. m = [n EXCEPT !.ids = Erase(@, {Body(b)}), !.headers = RemoveFrom(@, k), !.bodies = RemoveFrom(@, k),
                      !.fetching.headers = @ \ R, !.fetching.bodies = @ \ R]
    BY <1>3 DEF WithoutFollowing
  <2> HIDE DEF m, k, R
  <2>2. /\ DOMAIN m = DOMAIN n /\ m.from = n.from /\ m.peers = n.peers
        /\ m.headers = RemoveFrom(n.headers, k)
        /\ m.fetching = [n.fetching EXCEPT !.headers = @ \ R, !.bodies = @ \ R]
    BY <1>1, <2>1
  <2>3. /\ {"headers", "bodies"} \subseteq DOMAIN m.fetching
        /\ m.fetching.headers \subseteq n.fetching.headers /\ m.fetching.bodies \subseteq n.fetching.bodies
    BY <1>1, <2>2
  <2>4. HeadersFinite(m)
    BY <1>1, <2>2, EraseFinite DEF HeadersFinite
  <2>5. SameMarks(n, m)
    BY <1>1, <2>2, <2>3 DEF SameMarks
  <2> QED  BY <2>4, <2>5, SameMarksGood DEF m
<1> QED  BY <1>2, <1>3

\* A header is taken.
LEMMA TakeHeaderGood ==
    ASSUME NEW r, Good(r.to), NEW b
    PROVE  Good(TakeHeader(r, b).to)
<1> DEFINE n == r.to
           found == [n EXCEPT !.common = TRUE, !.last = Number(b), !.lastHash = {b}]
<1>1. Good(found)
  <2>1. {"fetching", "from", "peers", "headers"} \subseteq DOMAIN n
    BY SyncFields
  <2> HIDE DEF n
  <2>2. DOMAIN found = DOMAIN n /\ found.fetching = n.fetching /\ found.from = n.from /\ found.peers = n.peers /\ found.headers = n.headers
    BY <2>1
  <2> HIDE DEF found
  <2>3. Good(n)
    BY DEF n
  <2> QED  BY <2>2, <2>3, Besides
<1>2. Good(n)
  OBVIOUS
<1> HIDE DEF n, found
<1>3. Good(RestartSync(n)) /\ Good(RestartSync(found))
  BY <1>1, <1>2, RestartGood
<1>4. Good(WithHeader(n, b)) /\ Good(WithHeader(WithoutFollowing(n, b), b))
  BY <1>2, WithHeaderGood, WithoutFollowingGood
<1>5. TakeHeader(r, b).to \in {n, found, RestartSync(n), RestartSync(found), WithHeader(n, b),
                               WithHeader(WithoutFollowing(n, b), b)}
  BY DEF TakeHeader, n, found
<1> QED  BY <1>1, <1>2, <1>3, <1>4, <1>5

\* What the queue says of a block changes only its own sets.
LEMMA QueueWithGood ==
    ASSUME NEW n, Good(n), NEW b, NEW result
    PROVE  Good(QueueWith(n, b, result)) /\ QueueWith(n, b, result).peers = n.peers
<1> DEFINE m == QueueWith(n, b, result)
<1>1. {"fetching", "from", "peers", "headers"} \subseteq DOMAIN n
  BY SyncFields
<1>2. DOMAIN m = DOMAIN n /\ m.fetching = n.fetching /\ m.from = n.from /\ m.peers = n.peers /\ m.headers = n.headers
  BY <1>1 DEF QueueWith
<1> HIDE DEF m
<1>3. Good(m)
  BY <1>2, Besides
<1> QED  BY <1>2, <1>3 DEF m

\* A block is collected.
LEMMA CollectGood ==
    ASSUME NEW r, Good(r.to), NEW k
    PROVE  Good(Collect(r, k).to)
<1> DEFINE n == r.to
           result == ImportResult(n, n.headers[k], n.bodies[k])
           m == QueueWith(n, n.headers[k], result)
           later == [m EXCEPT !.last = k, !.lastHash = {m.headers[k]}]
<1>1. Good(n)
  OBVIOUS
<1> HIDE DEF n
<1>2. Good(m)
  BY <1>1, QueueWithGood
<1> HIDE DEF m
<1>3. Good(later)
  <2>1. {"fetching", "from", "peers", "headers"} \subseteq DOMAIN m
    BY <1>2, SyncFields
  <2>2. DOMAIN later = DOMAIN m /\ later.fetching = m.fetching /\ later.from = m.from /\ later.peers = m.peers /\ later.headers = m.headers
    BY <2>1
  <2> HIDE DEF later
  <2> QED  BY <1>2, <2>2, Besides
<1>4. Good(RestartSync(m)) /\ Good([ResetSync(m) EXCEPT !.common = FALSE])
  BY <1>2, RestartGood
<1>5. result \in {"Malformed", "BadChain", "AlreadyInChain", "Success", "AlreadyKnown", "UnknownParent"}
  BY DEF ImportResult
<1>6. Collect(r, k).to \in {n, RestartSync(m), m, later, [ResetSync(m) EXCEPT !.common = FALSE]}
  BY <1>5 DEF Collect, n, m, later
<1> QED  BY <1>1, <1>2, <1>3, <1>4, <1>6

\* What continueSync() does for each peer, and onPeerBlockBodies() for each body.
SyncTurn(n, p) == IF n.peers[p].on THEN SyncPeer(n, p, FALSE) ELSE n
Fill(n, b) == TakeBody(n, Body(b))

\* The four loops of the handlers, as folds that keep Good.
Syncing == INSTANCE FoldFacts WITH op <- SyncTurn, val <- LAMBDA p, x : x, Holds <- LAMBDA p, n, k : Good(n)
Taking == INSTANCE FoldFacts WITH op <- TakeHeader, val <- LAMBDA p, x : x, Holds <- LAMBDA p, r, k : Good(r.to)
Collecting == INSTANCE FoldFacts WITH op <- Collect, val <- LAMBDA p, x : x, Holds <- LAMBDA p, r, k : Good(r.to)
Filling == INSTANCE FoldFacts WITH op <- Fill, val <- LAMBDA p, x : x, Holds <- LAMBDA p, n, k : Good(n)

\* A body is filled in.
LEMMA FillGood ==
    ASSUME NEW n, Good(n), NEW b
    PROVE  Good(Fill(n, b))
<1> DEFINE k == n.ids[Body(b)]
           m == [n EXCEPT !.ids = Erase(@, {Body(b)}), !.bodies = Put(@, k, Body(b))]
<1>1. {"fetching", "from", "peers", "headers"} \subseteq DOMAIN n
  BY SyncFields
<1>2. Fill(n, b) \in {n, m}
  BY DEF Fill, TakeBody
<1>3. DOMAIN m = DOMAIN n /\ m.fetching = n.fetching /\ m.from = n.from /\ m.peers = n.peers /\ m.headers = n.headers
  BY <1>1
<1> HIDE DEF m, k
<1> QED  BY <1>2, <1>3, Besides

\* continueSync() asks each peer in turn.
LEMMA ContinueGood ==
    ASSUME NEW n, Good(n), NEW order \in Orders
    PROVE  Good(ContinueSync(n, order))
<1>1. /\ Cardinality(Peer) \in Nat /\ DOMAIN order = 1..Cardinality(Peer)
      /\ \A i \in 1..Cardinality(Peer) : order[i] \in Peer
  BY SyncAssumption, FS_CardinalityType DEF Orders
<1>2. ContinueSync(n, order) = Syncing!LeftFold(n, order)
  BY DEF ContinueSync, FoldLeft, MapThenFoldSet, Max, Syncing!LeftFold, Syncing!Turns, Syncing!Highest, SyncTurn
<1>3. ASSUME NEW k \in Nat, NEW m, k < Cardinality(Peer), Good(m)
      PROVE  Good(SyncTurn(m, order[k + 1]))
  <2>1. order[k + 1] \in Peer
    BY <1>1, <1>3
  <2> QED  BY <1>3, <2>1, SyncPeerGood DEF SyncTurn
<1>4. Good(Syncing!LeftFold(n, order))
  BY <1>1, <1>3, Syncing!LeftFoldHolds
<1> QED  BY <1>2, <1>4

\* How many a finite set has.
LEMMA InOrderIs ==
    ASSUME NEW S, IsFiniteSet(S)
    PROVE  Cardinality(S) \in Nat /\ DOMAIN ByNumber(S) = 1..Cardinality(S) /\ DOMAIN InOrder(S, <) = 1..Cardinality(S)
BY FS_CardinalityType DEF ByNumber, InOrder

\* collectBlocks() hands over the blocks that have both parts.
LEMMA CollectBlocksGood ==
    ASSUME NEW n, Good(n)
    PROVE  Good(CollectBlocks(n))
<1> DEFINE both == Run(n.headers) \cap Run(n.bodies)
           base == [to |-> n, over |-> FALSE]
           r == FoldLeft(Collect, base, InOrder(both, <))
           m == [r.to EXCEPT !.headers = Erase(@, both), !.bodies = Erase(@, both)]
<1>1. IsFiniteSet(both)
  <2>1. both \in SUBSET DOMAIN n.headers
    BY DEF Run, RunFrom
  <2> QED  BY <2>1, SyncFields, FS_Subset
<1>2. Good(base.to)
  OBVIOUS
<1> HIDE DEF both, base
<1>3. r = Collecting!LeftFold(base, InOrder(both, <))
  BY DEF FoldLeft, MapThenFoldSet, Max, Collecting!LeftFold, Collecting!Turns, Collecting!Highest
<1>4. Good(Collecting!LeftFold(base, InOrder(both, <)).to)
  <2>1. Cardinality(both) \in Nat /\ DOMAIN InOrder(both, <) = 1..Cardinality(both)
    BY <1>1, InOrderIs
  <2> QED  BY <1>2, <2>1, CollectGood, Collecting!LeftFoldHolds
<1>5. Good(r.to)
  BY <1>3, <1>4
<1> HIDE DEF r
<1>6. Good(m)
  <2>1. {"fetching", "from", "peers", "headers"} \subseteq DOMAIN r.to /\ {"headers", "bodies"} \subseteq DOMAIN r.to.fetching
        /\ IsFiniteSet(DOMAIN r.to.headers)
    BY <1>5, SyncFields
  <2>2. /\ DOMAIN m = DOMAIN r.to /\ m.fetching = r.to.fetching /\ m.from = r.to.from /\ m.peers = r.to.peers
        /\ m.headers = Erase(r.to.headers, both)
    BY <2>1
  <2> HIDE DEF m
  <2>3. HeadersFinite(m)
    BY <2>1, <2>2, EraseFinite DEF HeadersFinite
  <2>4. SameMarks(r.to, m)
    BY <2>1, <2>2 DEF SameMarks
  <2> QED  BY <1>5, <2>3, <2>4, SameMarksGood
<1> HIDE DEF m
<1>7. Good(CompleteSync(m))
  BY <1>6, RestartGood
<1>8. CollectBlocks(n) \in {n, r.to, CompleteSync(m), m}
  BY Zenon DEF CollectBlocks, both, base, r, m
<1> QED  BY <1>5, <1>6, <1>7, <1>8

\* Headers that a peer sends, or none, or late.
LEMMA OnHeadersGood ==
    ASSUME NEW n, NEW p \in Peer, Shaped(n), HeadersFinite(n), Marked(n), NotedBut(n, p),
           NEW S, IsFiniteSet(S), NEW order \in Orders
    PROVE  Good(OnHeaders(n, p, S, order))
<1> DEFINE m == ClearPeerDownload(n, p)
           base == [to |-> m, over |-> FALSE]
           r == FoldLeft(TakeHeader, base, ByNumber(S))
<1>1. Good(m)
  BY ClearGood
<1> HIDE DEF m
<1>2. Good(base.to)
  BY <1>1
<1> HIDE DEF base
<1>3. r = Taking!LeftFold(base, ByNumber(S))
  BY DEF FoldLeft, MapThenFoldSet, Max, Taking!LeftFold, Taking!Turns, Taking!Highest
<1>4. Good(Taking!LeftFold(base, ByNumber(S)).to)
  BY <1>2, InOrderIs, TakeHeaderGood, Taking!LeftFoldHolds
<1>5. Good(r.to)
  BY <1>3, <1>4
<1> HIDE DEF r
<1>6. Good(ContinueSync(CollectBlocks(r.to), order))
  BY <1>5, CollectBlocksGood, ContinueGood
<1>7. OnHeaders(n, p, S, order) \in {m, r.to, ContinueSync(CollectBlocks(r.to), order)}
  BY Zenon DEF OnHeaders, m, base, r
<1> QED  BY <1>1, <1>5, <1>6, <1>7

\* Bodies that a peer sends, or none, or late.
LEMMA OnBodiesGood ==
    ASSUME NEW n, NEW p \in Peer, Shaped(n), HeadersFinite(n), Marked(n), NotedBut(n, p),
           NEW S, IsFiniteSet(S), NEW order \in Orders
    PROVE  Good(OnBodies(n, p, S, order))
<1> DEFINE m == ClearPeerDownload(n, p)
           r == FoldLeft(LAMBDA x, b : TakeBody(x, Body(b)), m, ByNumber(S))
<1>1. Good(m)
  BY ClearGood
<1> HIDE DEF m
<1>2. r = Filling!LeftFold(m, ByNumber(S))
  BY DEF FoldLeft, MapThenFoldSet, Max, Filling!LeftFold, Filling!Turns, Filling!Highest, Fill
<1>3. Good(Filling!LeftFold(m, ByNumber(S)))
  BY <1>1, InOrderIs, FillGood, Filling!LeftFoldHolds
<1> HIDE DEF r
<1>4. Good(ContinueSync(CollectBlocks(r), order))
  BY <1>2, <1>3, CollectBlocksGood, ContinueGood
<1>5. OnBodies(n, p, S, order) \in {m, ContinueSync(CollectBlocks(r), order)}
  BY Zenon DEF OnBodies, m, r
<1> QED  BY <1>1, <1>4, <1>5

\* What is kept of one peer changes.
LEMMA PeerChanges ==
    ASSUME NEW n, Good(n), NEW p \in Peer, NEW peer, PeerShaped(peer)
    PROVE  LET m == [n EXCEPT !.peers[p] = peer]
           IN  /\ Shaped(m) /\ HeadersFinite(m) /\ Marked(m) /\ NotedBut(m, p)
               /\ m.peers[p] = peer /\ m.from = n.from
<1> DEFINE m == [n EXCEPT !.peers[p] = peer]
<1>1. {"fetching", "from", "peers", "headers"} \subseteq DOMAIN n /\ Peer \subseteq DOMAIN n.peers
  BY DEF Good, Shaped, PeersShaped
<1>2. /\ DOMAIN m = DOMAIN n /\ m.fetching = n.fetching /\ m.from = n.from /\ m.headers = n.headers
      /\ m.peers = [n.peers EXCEPT ![p] = peer]
  BY <1>1
<1> HIDE DEF m
<1>3. DOMAIN m.peers = DOMAIN n.peers /\ m.peers[p] = peer /\ \A q \in Peer \ {p} : m.peers[q] = n.peers[q]
  BY <1>1, <1>2
<1>4. Shaped(m)
  BY <1>2, <1>3 DEF Good, Shaped, PeersShaped
<1>5. HeadersFinite(m) /\ Marked(m) /\ NotedBut(m, p)
  BY <1>2, <1>3 DEF Good, HeadersFinite, Marked, Noted, NotedBut
<1> QED  BY <1>2, <1>3, <1>4, <1>5 DEF m

\* n with what is kept of p changed to peer,
WithPeer(n, p, peer) == [n EXCEPT !.peers[p] = peer]

\* which is asked as much as before:
AskedAlike(peer, other) == peer.on = other.on /\ peer.asking = other.asking

\* that does no harm.
LEMMA PeerTells ==
    ASSUME NEW n, Good(n), NEW p \in Peer, NEW peer, PeerShaped(peer), AskedAlike(peer, n.peers[p])
    PROVE  Good(WithPeer(n, p, peer)) /\ WithPeer(n, p, peer).peers[p] = peer
<1> DEFINE m == WithPeer(n, p, peer)
<1>1. /\ Shaped(m) /\ HeadersFinite(m) /\ Marked(m) /\ NotedBut(m, p)
      /\ m.peers[p] = peer /\ m.from = n.from
  BY PeerChanges DEF WithPeer
<1> HIDE DEF m
<1>2. Noted(m)
  BY <1>1 DEF Good, Noted, NotedBut, AskedAlike
<1> QED  BY <1>1, <1>2 DEF Good, m

\* A block that a peer tells of.
LEMMA OnNewBlockGood ==
    ASSUME NEW n, Good(n), NEW p \in Peer, n.peers[p].on, NEW b
    PROVE  Good(OnNewBlock(n, p, b)) /\ Good(OnNewHash(n, p, b))
<1> DEFINE k == Number(b)
           result == ImportResult(n, b, Body(b))
           m == QueueWith(n, b, result)
           done == [m EXCEPT !.last = IF k > @ THEN k ELSE @, !.lastHash = IF k > m.last THEN {b} ELSE @,
                             !.fetching.headers = @ \ {k}, !.fetching.bodies = @ \ {k},
                             !.headers = RemoveItem(@, k), !.bodies = RemoveItem(@, k)]
           peer == [n.peers[p] EXCEPT !.latest = b]
           told == WithPeer(n, p, peer)
<1>1. Good(m) /\ m.peers[p].on
  BY QueueWithGood
<1>2. Good(told) /\ told.peers[p].on
  <2>1. PeerShaped(n.peers[p])
    BY DEF Good, Shaped, PeersShaped
  <2>2. PeerShaped(peer) /\ AskedAlike(peer, n.peers[p]) /\ peer.on = n.peers[p].on
    BY <2>1 DEF PeerShaped, AskedAlike
  <2> HIDE DEF peer
  <2>3. Good(told) /\ told.peers[p] = peer
    BY <2>2, PeerTells
  <2> HIDE DEF told
  <2> QED  BY <2>2, <2>3
<1>3. told = [n EXCEPT !.peers[p].latest = b]
  <2>1. {"fetching", "from", "peers", "headers"} \subseteq DOMAIN n /\ Peer \subseteq DOMAIN n.peers
    BY DEF Good, Shaped, PeersShaped
  <2> QED  BY <2>1 DEF WithPeer
<1> HIDE DEF m, result, told, peer
<1>4. Good(done)
  <2>1. {"fetching", "from", "peers", "headers"} \subseteq DOMAIN m /\ {"headers", "bodies"} \subseteq DOMAIN m.fetching
        /\ IsFiniteSet(DOMAIN m.headers)
    BY <1>1, SyncFields
  <2>2. /\ DOMAIN done = DOMAIN m /\ done.from = m.from /\ done.peers = m.peers
        /\ done.headers = RemoveItem(m.headers, k)
        /\ done.fetching = [m.fetching EXCEPT !.headers = @ \ {k}, !.bodies = @ \ {k}]
    BY <2>1
  <2> HIDE DEF done, k
  <2>3. /\ {"headers", "bodies"} \subseteq DOMAIN done.fetching
        /\ done.fetching.headers \subseteq m.fetching.headers /\ done.fetching.bodies \subseteq m.fetching.bodies
    BY <2>1, <2>2
  <2>4. HeadersFinite(done)
    BY <2>1, <2>2, EraseFinite DEF HeadersFinite
  <2>5. SameMarks(m, done)
    BY <2>1, <2>2, <2>3 DEF SameMarks
  <2> QED  BY <1>1, <2>4, <2>5, SameMarksGood
<1> HIDE DEF done
<1>5. Good(SyncPeer(told, p, TRUE)) /\ Good(SyncPeer(m, p, TRUE)) /\ Good(CompleteSync(done))
  BY <1>1, <1>2, <1>4, SyncPeerGood, RestartGood
<1>6. OnNewBlock(n, p, b) \in {SyncPeer(told, p, TRUE), CompleteSync(done), done, SyncPeer(m, p, TRUE), m}
  BY <1>3, Zenon DEF OnNewBlock, k, result, m, done
<1>7. OnNewHash(n, p, b) \in {n, SyncPeer(told, p, TRUE)}
  BY <1>3, Zenon DEF OnNewHash
<1> QED  BY <1>1, <1>4, <1>5, <1>6, <1>7
-----------------------------------------------------------------------------
\* The invariant.
SyncInv == Good(sync) /\ theirs \in [Peer -> Tree]

\* It holds at first: nothing is marked.
LEMMA SyncStart == SyncInit => SyncInv
<1> SUFFICES ASSUME SyncInit PROVE SyncInv
  OBVIOUS
<1>1. theirs \in [Peer -> Tree]
  BY SyncAssumption DEF SyncInit
<1>2. PICK b \in Owned : sync = ResetSync([state |-> "Idle", td |-> 0, common |-> FALSE,
        last |-> Number(b), lastHash |-> {b}, headers |-> <<>>, bodies |-> <<>>, ids |-> <<>>,
        fetching |-> {}, from |-> {}, peers |-> [p \in Peer |-> Offline],
        ready |-> {}, draining |-> {}, unknown |-> {}, bad |-> {}, difficulty |-> 0,
        importing |-> {}, resume |-> FALSE, known |-> Branch(b), head |-> b])
  BY DEF SyncInit
<1> DEFINE n == [state |-> "Idle", td |-> 0, common |-> FALSE,
        last |-> Number(b), lastHash |-> {b}, headers |-> <<>>, bodies |-> <<>>, ids |-> <<>>,
        fetching |-> {}, from |-> {}, peers |-> [p \in Peer |-> Offline],
        ready |-> {}, draining |-> {}, unknown |-> {}, bad |-> {}, difficulty |-> 0,
        importing |-> {}, resume |-> FALSE, known |-> Branch(b), head |-> b]
<1>3. {"fetching", "from", "peers", "headers"} \subseteq DOMAIN n /\ n.peers = [p \in Peer |-> Offline]
  OBVIOUS
<1>4. sync = ResetSync(n)
  BY <1>2
<1> HIDE DEF n
<1>5. PeerShaped(Offline)
  BY DEF PeerShaped, Offline
<1>6. PeersShaped(n)
  BY <1>3, <1>5 DEF PeersShaped
<1>7. Good(sync)
  BY <1>3, <1>4, <1>6, ResetGood
<1> QED  BY <1>1, <1>7 DEF SyncInv

\* Nothing is noted for a peer that was not there, so that it may be there unasked.
LEMMA ConnectGood ==
    ASSUME SyncInv, NEW p \in Peer, Connect(p)
    PROVE  Good(sync')
<1> DEFINE peer == [Offline EXCEPT !.on = TRUE]
<1>1. PeerShaped(peer)
  BY DEF PeerShaped, Offline
<1>2. ~sync.peers[p].on /\ sync' = [sync EXCEPT !.peers[p] = peer] /\ Good(sync)
  BY DEF Connect, On, SyncInv
<1>3. sync.from.headers[p] = {} /\ sync.from.bodies[p] = {}
  BY <1>2 DEF Good, Noted
<1> HIDE DEF peer
<1>4. PICK n : n = [sync EXCEPT !.peers[p] = peer]
  OBVIOUS
<1>5. Shaped(n) /\ HeadersFinite(n) /\ Marked(n) /\ NotedBut(n, p) /\ n.from = sync.from
  BY <1>1, <1>2, <1>4, PeerChanges
<1>6. Noted(n)
  BY <1>3, <1>5 DEF Noted, NotedBut
<1>7. Good(n)
  BY <1>5, <1>6 DEF Good
<1> QED  BY <1>2, <1>4, <1>7

\* A status changes what is known of the peer, which then is asked at once, or is not.
LEMMA StatusGood ==
    ASSUME SyncInv, NEW p \in Peer, Status(p)
    PROVE  Good(sync')
<1> DEFINE peer == [sync.peers[p] EXCEPT !.status = TRUE, !.td = Total(Branch(theirs[p])), !.latest = theirs[p]]
           n == WithPeer(sync, p, peer)
<1>1. Good(sync) /\ sync.peers[p].on
  BY DEF Status, On, SyncInv
<1>2. PeerShaped(peer) /\ AskedAlike(peer, sync.peers[p]) /\ peer.on = sync.peers[p].on
  <2>1. PeerShaped(sync.peers[p])
    BY <1>1 DEF Good, Shaped, PeersShaped
  <2> QED  BY <2>1 DEF PeerShaped, AskedAlike
<1>3. n = [sync EXCEPT !.peers[p].status = TRUE, !.peers[p].td = Total(Branch(theirs[p])),
                       !.peers[p].latest = theirs[p]]
  <2>1. {"fetching", "from", "peers", "headers"} \subseteq DOMAIN sync /\ Peer \subseteq DOMAIN sync.peers
    BY <1>1 DEF Good, Shaped, PeersShaped
  <2> QED  BY <2>1 DEF WithPeer
<1> HIDE DEF peer
<1>4. Good(n) /\ n.peers[p] = peer
  BY <1>1, <1>2, PeerTells
<1>5. n.peers[p].on
  BY <1>1, <1>2, <1>4
<1>6. sync' = SyncPeer(n, p, FALSE)
  BY <1>3 DEF Status
<1> HIDE DEF n
<1>7. Good(SyncPeer(n, p, FALSE))
  BY <1>4, <1>5, SyncPeerGood
<1> QED  BY <1>6, <1>7

\* An answer, or none in time: the peer is not asked any more, and what was noted for
\* it is cleared.
LEMMA AnswerGood ==
    ASSUME SyncInv, NEW p \in Peer, Answer(p)
    PROVE  Good(sync')
<1> DEFINE n == Answered(p)
           peer == [sync.peers[p] EXCEPT !.asking = NoAsk]
<1>1. Good(sync) /\ AskedFor(p) # NoAsk
  BY DEF Answer, SyncInv
<1>2. PeerShaped(sync.peers[p])
  BY <1>1 DEF Good, Shaped, PeersShaped
<1>3. PeerShaped(peer)
  BY <1>2 DEF PeerShaped
<1>4. n = [sync EXCEPT !.peers[p] = peer]
  <2>1. {"fetching", "from", "peers", "headers"} \subseteq DOMAIN sync /\ Peer \subseteq DOMAIN sync.peers
    BY <1>1 DEF Good, Shaped, PeersShaped
  <2> QED  BY <2>1 DEF Answered
<1> HIDE DEF n, peer
<1>5. Shaped(n) /\ HeadersFinite(n) /\ Marked(n) /\ NotedBut(n, p)
  BY <1>1, <1>3, <1>4, PeerChanges
<1>6. \A S \in SUBSET Held(p) : IsFiniteSet(S)
  <2>1. AskedFor(p).kind \in {"headers", "bodies", "tip"}
    BY <1>1, <1>2 DEF PeerShaped, AskedFor
  <2>2. Held(p) \in SUBSET Branch(theirs[p])
    BY <2>1 DEF Held
  <2>3. IsFiniteSet(Branch(theirs[p]))
    BY BranchFinite DEF SyncInv
  <2> QED  BY <2>2, <2>3, FS_Subset
<1>7. PICK S \in SUBSET Held(p), order \in Orders :
        sync' = IF AskedFor(p).kind = "bodies" THEN OnBodies(n, p, S, order) ELSE OnHeaders(n, p, S, order)
  BY Zenon DEF Answer, n
<1>8. Good(OnBodies(n, p, S, order)) /\ Good(OnHeaders(n, p, S, order))
  BY <1>5, <1>6, OnBodiesGood, OnHeadersGood
<1> QED  BY <1>7, <1>8

\* So is what was noted for a peer that leaves.
LEMMA DisconnectGood ==
    ASSUME SyncInv, NEW p \in Peer, Disconnect(p)
    PROVE  Good(sync')
<1> DEFINE n == [sync EXCEPT !.peers[p] = Offline]
<1>1. PeerShaped(Offline)
  BY DEF PeerShaped, Offline
<1>2. Shaped(n) /\ HeadersFinite(n) /\ Marked(n) /\ NotedBut(n, p)
  BY <1>1, PeerChanges DEF SyncInv
<1>3. PICK order \in Orders : sync' = ContinueSync(ClearPeerDownload(n, p), order)
  BY DEF Disconnect
<1> HIDE DEF n
<1>4. Good(ClearPeerDownload(n, p))
  BY <1>2, ClearGood
<1> QED  BY <1>3, <1>4, ContinueGood

\* A peer imports a block, and tells of it or does not.
LEMMA PeerMovesGood ==
    ASSUME SyncInv, NEW p \in Peer, PeerMoves(p)
    PROVE  Good(sync') /\ theirs' \in [Peer -> Tree]
<1>1. PICK b \in Block : /\ theirs' = [theirs EXCEPT ![p] = b]
                         /\ \/ UNCHANGED sync
                            \/ On(p) /\ sync' \in {OnNewBlock(sync, p, b), OnNewHash(sync, p, b)}
  BY DEF PeerMoves
<1>2. theirs' \in [Peer -> Tree]
  BY <1>1 DEF SyncInv, Tree
<1>3. CASE UNCHANGED sync
  BY <1>2, <1>3 DEF SyncInv
<1>4. CASE On(p) /\ sync' \in {OnNewBlock(sync, p, b), OnNewHash(sync, p, b)}
  <2>1. Good(OnNewBlock(sync, p, b)) /\ Good(OnNewHash(sync, p, b))
    BY <1>4, OnNewBlockGood DEF On, SyncInv
  <2> QED  BY <1>2, <1>4, <2>1
<1> QED  BY <1>1, <1>3, <1>4

\* The client moves the queue: nothing that is noted changes, but a sync that waited
\* goes on.
LEMMA QueueGood ==
    ASSUME SyncInv, (\E b \in Block : DrainOne(b) \/ ImportOne(b)) \/ Resume
    PROVE  Good(sync')
<1>1. /\ Good(sync) /\ {"fetching", "from", "peers", "headers"} \subseteq DOMAIN sync
  BY SyncFields DEF SyncInv
<1>2. ASSUME NEW b \in Block, DrainOne(b) PROVE Good(sync')
  <2> DEFINE m == [sync EXCEPT !.ready = @ \ {b}, !.draining = {b}, !.importing = {b}]
             more == [m EXCEPT !.resume = @ \/ (m.state = "Waiting" /\ ~KnownFull(m))]
  <2>1. sync' = more
    BY <1>2 DEF DrainOne
  <2>2. /\ DOMAIN more = DOMAIN sync /\ more.fetching = sync.fetching /\ more.from = sync.from
        /\ more.peers = sync.peers /\ more.headers = sync.headers
    BY <1>1
  <2> HIDE DEF more
  <2>3. Good(more)
    BY <1>1, <2>2, Besides
  <2> QED  BY <2>1, <2>3
<1>3. ASSUME NEW b \in Block, ImportOne(b) PROVE Good(sync')
  <2> DEFINE Alike(n, m) == /\ DOMAIN n = DOMAIN m /\ n.fetching = m.fetching /\ n.from = m.from
                            /\ n.peers = m.peers /\ n.headers = m.headers
  <2>1. PICK m : /\ Alike(m, sync)
                 /\ \/ \E bad, ready, unknown :
                        sync' = [m EXCEPT !.bad = bad, !.ready = ready, !.unknown = unknown]
                    \/ \E known, head, at, hash :
                        sync' = [m EXCEPT !.known = known, !.head = head, !.last = at, !.lastHash = hash]
    <3> DEFINE m == [sync EXCEPT !.importing = {}, !.draining = {},
                            !.difficulty = IF b \in sync.draining THEN @ - Difficulty(b) ELSE @]
    <3>1. Alike(m, sync)
      BY <1>1
    <3>2. \/ \E bad, ready, unknown :
                sync' = [m EXCEPT !.bad = bad, !.ready = ready, !.unknown = unknown]
          \/ \E known, head, at, hash :
                sync' = [m EXCEPT !.known = known, !.head = head, !.last = at, !.lastHash = hash]
      BY <1>3, Zenon DEF ImportOne
    <3> HIDE DEF m, Alike
    <3> QED  BY <3>1, <3>2
  <2>2. PICK n : n = sync' /\ Alike(n, sync)
    <3>1. Alike(sync', m)
      BY <1>1, <2>1
    <3> QED  BY <2>1, <3>1
  <2>3. Good(n)
    BY <1>1, <2>2, Besides
  <2> QED  BY <2>2, <2>3
<1>4. CASE Resume
  <2> DEFINE m == [sync EXCEPT !.resume = FALSE, !.state = "Blocks"]
  <2>1. PICK order \in Orders : sync' = ContinueSync(m, order)
    BY <1>4 DEF Resume
  <2>2. /\ DOMAIN m = DOMAIN sync /\ m.fetching = sync.fetching /\ m.from = sync.from
        /\ m.peers = sync.peers /\ m.headers = sync.headers
    BY <1>1
  <2> HIDE DEF m
  <2>3. Good(ContinueSync(m, order))
    BY <1>1, <2>2, Besides, ContinueGood
  <2> QED  BY <2>1, <2>3
<1> QED  BY <1>2, <1>3, <1>4

\* Every step keeps the invariant.
LEMMA SyncStep == SyncInv /\ [SyncNext]_peerVars => SyncInv'
<1> SUFFICES ASSUME SyncInv, [SyncNext]_peerVars PROVE SyncInv'
  OBVIOUS
<1>1. ASSUME NEW p \in Peer, Connect(p) \/ Status(p) \/ Answer(p) \/ Disconnect(p) PROVE SyncInv'
  <2>1. Good(sync')
    BY <1>1, ConnectGood, StatusGood, AnswerGood, DisconnectGood
  <2>2. theirs' = theirs
    BY <1>1 DEF Connect, Status, Answer, Disconnect
  <2> QED  BY <2>1, <2>2 DEF SyncInv
<1>2. ASSUME NEW p \in Peer, PeerMoves(p) PROVE SyncInv'
  BY <1>2, PeerMovesGood DEF SyncInv
<1>3. CASE (\E b \in Block : DrainOne(b) \/ ImportOne(b)) \/ Resume
  <2>1. theirs' = theirs
    BY <1>3 DEF DrainOne, ImportOne, Resume
  <2> QED  BY <1>3, <2>1, QueueGood DEF SyncInv
<1>4. CASE UNCHANGED peerVars
  BY <1>4 DEF peerVars, SyncInv
<1> QED  BY <1>1, <1>2, <1>3, <1>4 DEF SyncNext

\* It implies the property: a marked number is noted for a peer, and that one is asked.
LEMMA SyncMeans == SyncInv => DownloadsAreAsked
<1> SUFFICES ASSUME SyncInv, NEW what \in {"headers", "bodies"}, NEW k \in sync.fetching[what]
             PROVE  \E p \in Peer : k \in sync.from[what][p] /\ On(p) /\ AskedFor(p) # NoAsk
  BY DEF DownloadsAreAsked
<1>1. PICK p \in Peer : k \in sync.from[what][p]
  BY DEF SyncInv, Good, Marked
<1>2. On(p) /\ AskedFor(p) # NoAsk
  BY <1>1 DEF SyncInv, Good, Noted, On, AskedFor
<1> QED  BY <1>1, <1>2

\* What is marked as being downloaded is asked of a peer that is there, for any
\* chains, any number of peers and of moves.
THEOREM DownloadsAsked == SyncSpec => []DownloadsAreAsked
BY SyncStart, SyncStep, SyncMeans, PTL DEF SyncSpec
-----------------------------------------------------------------------------
(***************************************************************************)
(* BlockQueue: what is ready is queued, each block once, and every block   *)
(* behind its parent.                                                      *)
(***************************************************************************)

\* No block comes before its parent, if that is there at all and not one of those
\* sync() has lost sight of.
Rising(s, lost) == \A i, j \in DOMAIN s : Parent(s[i]) = s[j] => j < i \/ s[j] \in lost

\* The blocks of m_verifying.
Entry == [block : Block, done : BOOLEAN]
Names(s) == [i \in DOMAIN s |-> s[i].block]

\* Every block is there once, behind its parent.
InLine(s, lost) == s \in Seq(Block) /\ IsInjective(s) /\ Rising(s, lost)

LEMMA InLineStill ==
    ASSUME NEW lost, NEW more, lost \subseteq more, NEW s, InLine(s, lost)
    PROVE  InLine(s, more)
BY DEF InLine, Rising

LEMMA PartInLine ==
    ASSUME NEW lost, NEW s, InLine(s, lost), NEW r \in Seq(Block), IsPart(r, s)
    PROVE  InLine(r, lost) /\ ToSet(r) \subseteq ToSet(s)
<1>1. PICK g \in [DOMAIN r -> DOMAIN s] :
         /\ \A i, j \in DOMAIN r : i < j => g[i] < g[j]
         /\ \A i \in DOMAIN r : r[i] = s[g[i]]
  BY DEF IsPart
<1>2. s \in Seq(Block)
  BY DEF InLine
<1>3. DOMAIN r = 1..Len(r) /\ Len(r) \in Nat /\ DOMAIN s = 1..Len(s) /\ Len(s) \in Nat
  BY <1>2
<1>4. IsInjective(r)
  BY <1>2, PartInjective DEF InLine
<1>5. ASSUME NEW i \in DOMAIN r, NEW j \in DOMAIN r, Parent(r[i]) = r[j], r[j] \notin lost PROVE j < i
  <2>1. g[j] < g[i] /\ g[i] \in Int /\ g[j] \in Int /\ i \in Int /\ j \in Int
    BY <1>1, <1>3, <1>5 DEF InLine, Rising
  <2>2. ~(i < j) /\ i # j
    BY <1>1, <2>1
  <2> QED  BY <2>1, <2>2
<1>6. ToSet(r) \subseteq ToSet(s)
  BY <1>1 DEF ToSet
<1> QED  BY <1>4, <1>5, <1>6 DEF InLine, Rising

\* A line goes on with another, in which there is no parent of what is in the first.
LEMMA LinesJoined ==
    ASSUME NEW lost, NEW a, InLine(a, lost), NEW b, InLine(b, lost), ToSet(a) \cap ToSet(b) = {},
           \A x \in ToSet(a) : Parent(x) \notin ToSet(b) \ lost
    PROVE  InLine(a \o b, lost) /\ ToSet(a \o b) = ToSet(a) \cup ToSet(b)
<1> DEFINE n == Len(a)
           m == Len(b)
           c == a \o b
<1>1. a \in Seq(Block) /\ b \in Seq(Block) /\ n \in Nat /\ m \in Nat /\ DOMAIN a = 1..n /\ DOMAIN b = 1..m
  BY DEF InLine
<1>2. /\ c \in Seq(Block) /\ Len(c) = n + m
      /\ \A i \in 1..(n + m) : c[i] = IF i <= n THEN a[i] ELSE b[i - n]
  BY <1>1, ConcatProperties
<1> HIDE DEF c, n, m
<1>3. DOMAIN c = 1..(n + m)
  BY <1>2
<1>4. \A i \in 1..(n + m) : \/ i \in 1..n /\ c[i] = a[i] /\ a[i] \in ToSet(a)
                            \/ i > n /\ i - n \in 1..m /\ c[i] = b[i - n] /\ b[i - n] \in ToSet(b)
  <2> SUFFICES ASSUME NEW i \in 1..(n + m)
               PROVE  \/ i \in 1..n /\ c[i] = a[i] /\ a[i] \in ToSet(a)
                      \/ i > n /\ i - n \in 1..m /\ c[i] = b[i - n] /\ b[i - n] \in ToSet(b)
    OBVIOUS
  <2>1. (i <= n => i \in 1..n) /\ (~(i <= n) => i > n /\ i - n \in 1..m)
    BY <1>1
  <2>2. c[i] = IF i <= n THEN a[i] ELSE b[i - n]
    BY <1>2
  <2>3. (\A k \in 1..n : a[k] \in ToSet(a)) /\ \A k \in 1..m : b[k] \in ToSet(b)
    BY <1>1 DEF ToSet
  <2> QED  BY <2>1, <2>2, <2>3
<1>5. ASSUME NEW i \in 1..(n + m), NEW j \in 1..(n + m), c[i] = c[j] PROVE i = j
  <2>1. CASE i <= n
    <3>1. i \in 1..n /\ j \in 1..n /\ a[i] = a[j]
      BY <1>1, <1>4, <1>5, <2>1
    <3> QED  BY <1>1, <3>1 DEF InLine, IsInjective
  <2>2. CASE i > n
    <3>1. i - n \in 1..m /\ j - n \in 1..m /\ b[i - n] = b[j - n]
      BY <1>1, <1>4, <1>5, <2>2
    <3>2. i - n = j - n
      BY <1>1, <3>1 DEF InLine, IsInjective
    <3> QED  BY <1>1, <3>2
  <2> QED  BY <1>1, <2>1, <2>2
<1>6. ASSUME NEW i \in 1..(n + m), NEW j \in 1..(n + m), Parent(c[i]) = c[j], c[j] \notin lost
      PROVE  j < i
  <2>1. CASE i <= n
    <3>1. i \in 1..n /\ j \in 1..n /\ Parent(a[i]) = a[j] /\ a[j] \notin lost
      BY <1>1, <1>4, <1>6, <2>1
    <3> QED  BY <1>1, <3>1 DEF InLine, Rising
  <2>2. CASE i > n /\ j <= n
    BY <1>1, <2>2
  <2>3. CASE i > n /\ j > n
    <3>1. i - n \in 1..m /\ j - n \in 1..m /\ Parent(b[i - n]) = b[j - n] /\ b[j - n] \notin lost
      BY <1>1, <1>4, <1>6, <2>3
    <3>2. j - n < i - n
      BY <1>1, <3>1 DEF InLine, Rising
    <3> QED  BY <1>1, <3>2
  <2> QED  BY <1>1, <2>1, <2>2, <2>3
<1>7. ToSet(c) \subseteq ToSet(a) \cup ToSet(b)
  BY <1>3, <1>4 DEF ToSet
<1>8. ToSet(a) \subseteq ToSet(c)
  <2> SUFFICES ASSUME NEW i \in 1..n PROVE a[i] \in ToSet(c)
    BY <1>1 DEF ToSet
  <2>1. i \in 1..(n + m) /\ c[i] = a[i]
    BY <1>1, <1>2
  <2> QED  BY <1>3, <2>1 DEF ToSet
<1>9. ToSet(b) \subseteq ToSet(c)
  <2> SUFFICES ASSUME NEW i \in 1..m PROVE b[i] \in ToSet(c)
    BY <1>1 DEF ToSet
  <2>1. n + i \in 1..(n + m) /\ ~(n + i <= n) /\ (n + i) - n = i
    BY <1>1
  <2>2. c[n + i] = b[i]
    BY <1>2, <2>1
  <2> QED  BY <1>3, <2>1, <2>2 DEF ToSet
<1>10. InLine(c, lost)
  BY <1>2, <1>3, <1>5, <1>6 DEF InLine, IsInjective, Rising
<1> QED  BY <1>7, <1>8, <1>9, <1>10 DEF c

LEMMA LineOfOne ==
    ASSUME NEW lost, NEW b \in Block
    PROVE  InLine(<<b>>, lost) /\ ToSet(<<b>>) = {b}
<1>1. Parent(b) # b
  <2>1. Parent(b) = b => Number(b) = Number(b) + 1
    BY BlockAssumption
  <2> QED  BY <2>1, BlockAssumption
<1>2. <<b>> \in Seq(Block) /\ DOMAIN <<b>> = {1} /\ <<b>>[1] = b
  BY SMT
<1> QED  BY <1>1, <1>2 DEF InLine, IsInjective, Rising, ToSet

\* The front and the rest of a line.
LEMMA LineParted ==
    ASSUME NEW lost, NEW s, InLine(s, lost), NEW n \in 0..Len(s)
    PROVE  LET a == SubSeq(s, 1, n)
               b == SubSeq(s, n + 1, Len(s))
           IN  /\ InLine(a, lost) /\ InLine(b, lost) /\ Len(a) = n
               /\ ToSet(s) = ToSet(a) \cup ToSet(b) /\ ToSet(a) \cap ToSet(b) = {}
               /\ \A x \in ToSet(a) : Parent(x) \notin ToSet(b) \ lost
<1> DEFINE k == Len(s)
           l == n + 1
           a == SubSeq(s, 1, n)
           b == SubSeq(s, l, k)
<1>1. s \in Seq(Block) /\ k \in Nat /\ DOMAIN s = 1..k /\ n \in Nat /\ n <= k /\ l = n + 1 /\ l \in Nat
  BY DEF InLine
<1> HIDE DEF k, l
<1>2. a \in Seq(Block) /\ Len(a) = n /\ \A i \in 1..n : a[i] = s[i]
  <2>1. 1 \in Int /\ n \in Int /\ (\A i \in 1..n : s[i] \in Block) /\ n - 1 + 1 = n /\ (1 <= n \/ n = 0)
    BY <1>1
  <2>2. \A i \in 1..n : 1 + i - 1 = i
    BY <1>1
  <2>3. /\ a \in Seq(Block) /\ Len(a) = IF 1 <= n THEN n - 1 + 1 ELSE 0
        /\ \A i \in 1..(n - 1 + 1) : a[i] = s[1 + i - 1]
    BY <2>1, SubSeqProperties
  <2> HIDE DEF a
  <2>4. Len(a) = n
    BY <1>1, <2>3
  <2>5. \A i \in 1..n : a[i] = s[i]
    BY <2>1, <2>2, <2>3
  <2> QED  BY <2>3, <2>4, <2>5
<1>3. b \in Seq(Block) /\ Len(b) = k - n /\ \A i \in 1..(k - n) : b[i] = s[n + i]
  <2>1. l \in Int /\ k \in Int /\ (\A i \in l..k : s[i] \in Block) /\ k - l + 1 = k - n /\ (l <= k \/ k - n = 0)
    BY <1>1
  <2>2. \A i \in 1..(k - n) : l + i - 1 = n + i
    BY <1>1
  <2>3. /\ b \in Seq(Block) /\ Len(b) = IF l <= k THEN k - l + 1 ELSE 0
        /\ \A i \in 1..(k - l + 1) : b[i] = s[l + i - 1]
    BY <2>1, SubSeqProperties
  <2> HIDE DEF b
  <2>4. Len(b) = k - n
    BY <1>1, <2>1, <2>3
  <2>5. \A i \in 1..(k - n) : b[i] = s[n + i]
    BY <2>1, <2>2, <2>3
  <2> QED  BY <2>3, <2>4, <2>5
<1> HIDE DEF a, b
<1>4. DOMAIN a = 1..n /\ DOMAIN b = 1..(k - n)
  BY <1>1, <1>2, <1>3
<1>5. IsPart(a, s)
  <2> DEFINE g == [i \in 1..n |-> i]
  <2>1. g \in [DOMAIN a -> DOMAIN s] /\ \A i \in 1..n : g[i] = i
    BY <1>1, <1>4
  <2> HIDE DEF g
  <2>2. (\A i, j \in DOMAIN a : i < j => g[i] < g[j]) /\ \A i \in DOMAIN a : a[i] = s[g[i]]
    BY <1>2, <1>4, <2>1
  <2> QED  BY <2>1, <2>2 DEF IsPart
<1>6. IsPart(b, s)
  <2> DEFINE g == [i \in 1..(k - n) |-> n + i]
  <2>1. \A i \in 1..(k - n) : n + i \in 1..k
    BY <1>1
  <2>2. g \in [DOMAIN b -> DOMAIN s] /\ \A i \in 1..(k - n) : g[i] = n + i
    BY <1>1, <1>4, <2>1
  <2> HIDE DEF g
  <2>3. \A i, j \in DOMAIN b : i < j => g[i] < g[j]
    BY <1>1, <1>4, <2>2
  <2>4. \A i \in DOMAIN b : b[i] = s[g[i]]
    BY <1>3, <1>4, <2>2
  <2> QED  BY <2>2, <2>3, <2>4 DEF IsPart
<1>7. InLine(a, lost) /\ InLine(b, lost) /\ ToSet(a) \subseteq ToSet(s) /\ ToSet(b) \subseteq ToSet(s)
  BY <1>2, <1>3, <1>5, <1>6, PartInLine
<1>8. ToSet(s) \subseteq ToSet(a) \cup ToSet(b)
  <2> SUFFICES ASSUME NEW i \in 1..k PROVE s[i] \in ToSet(a) \cup ToSet(b)
    BY <1>1 DEF ToSet
  <2>1. CASE i <= n
    <3>1. i \in 1..n /\ a[i] = s[i]
      BY <1>1, <1>2, <2>1
    <3> QED  BY <1>4, <3>1 DEF ToSet
  <2>2. CASE i > n
    <3>1. i - n \in 1..(k - n) /\ n + (i - n) = i
      BY <1>1, <2>2
    <3>2. b[i - n] = s[i]
      BY <1>3, <3>1
    <3> QED  BY <1>4, <3>1, <3>2 DEF ToSet
  <2> QED  BY <1>1, <2>1, <2>2
<1>9. ASSUME NEW i \in 1..n, NEW j \in 1..(k - n)
      PROVE  a[i] # b[j] /\ (Parent(a[i]) = b[j] => b[j] \in lost)
  <2>1. i \in 1..k /\ n + j \in 1..k /\ i # n + j /\ ~(n + j < i)
    BY <1>1
  <2>2. s[i] # s[n + j] /\ (Parent(s[i]) = s[n + j] => s[n + j] \in lost)
    BY <1>1, <2>1 DEF InLine, IsInjective, Rising
  <2> QED  BY <1>2, <1>3, <2>2
<1>10. ToSet(a) \cap ToSet(b) = {} /\ \A x \in ToSet(a) : Parent(x) \notin ToSet(b) \ lost
  BY <1>4, <1>9 DEF ToSet
<1> QED  BY <1>1, <1>2, <1>7, <1>8, <1>10 DEF a, b, k, l

\* The first of a line and the others.
Heads(s, x, r, lost) ==
    /\ x \in Block /\ ToSet(s) = {x} \cup ToSet(r) /\ x \notin ToSet(r)
    /\ InLine(r, lost) /\ Parent(x) \notin ToSet(s) \ lost

LEMMA HeadOfLine ==
    ASSUME NEW lost, NEW s, InLine(s, lost), s # <<>>
    PROVE  Heads(s, Head(s), Tail(s), lost)
<1> DEFINE a == SubSeq(s, 1, 1)
           b == SubSeq(s, 1 + 1, Len(s))
<1>1. s \in Seq(Block) /\ 1 \in 0..Len(s)
  BY DEF InLine
<1>2. /\ InLine(a, lost) /\ InLine(b, lost) /\ Len(a) = 1
      /\ ToSet(s) = ToSet(a) \cup ToSet(b) /\ ToSet(a) \cap ToSet(b) = {}
      /\ \A x \in ToSet(a) : Parent(x) \notin ToSet(b) \ lost
  BY <1>1, LineParted
<1>3. Head(s) = s[1] /\ Tail(s) = b /\ s[1] \in Block
  BY <1>1
<1>4. a = <<s[1]>>
  <2>1. Len(a) = 1 /\ a \in Seq(Block) /\ a[1] = s[1]
    BY <1>1, <1>2
  <2> HIDE DEF a
  <2> QED  BY <2>1
<1> HIDE DEF a, b
<1>5. ToSet(a) = {s[1]} /\ Parent(s[1]) # s[1]
  BY <1>2, <1>3, <1>4, LineOfOne DEF InLine, Rising
<1> QED  BY <1>2, <1>3, <1>5 DEF Heads

\* Different blocks of one number are a line: none is the parent of another.
LEMMA OneNumber ==
    ASSUME NEW lost, NEW s \in Seq(Block), IsInjective(s), NEW n, \A x \in ToSet(s) : Number(x) = n
    PROVE  InLine(s, lost)
<1>1. \A i \in DOMAIN s : s[i] \in Block /\ s[i] \in ToSet(s)
  BY DEF ToSet
<1>2. ASSUME NEW i \in DOMAIN s, NEW j \in DOMAIN s, Parent(s[i]) = s[j] PROVE FALSE
  <2>1. Number(s[i]) = Number(s[j]) + 1 /\ Number(s[j]) \in Nat
    BY <1>1, <1>2, BlockAssumption
  <2>2. Number(s[i]) = Number(s[j])
    BY <1>1
  <2> QED  BY <2>1, <2>2
<1> QED  BY <1>2 DEF InLine, Rising

LEMMA ChildrenAre ==
    ASSUME NEW s \in Seq(Block), IsInjective(s), NEW p \in Block
    PROVE  InLine(Children(s, p), {}) /\ ToSet(Children(s, p)) = {u \in ToSet(s) : Parent(u) = p}
<1> DEFINE I == {i \in DOMAIN s : Parent(s[i]) = p}
           c == Picked(s, I)
<1>1. Children(s, p) = c
  <2>1. Children(s, p) = TheOne({Picked(s, I)})
    BY DEF Children, Selected
  <2> HIDE DEF I
  <2> QED  BY <2>1 DEF TheOne
<1>2. {s[i] : i \in I} = {u \in ToSet(s) : Parent(u) = p}
  BY DEF ToSet
<1>3. I \in SUBSET DOMAIN s
  OBVIOUS
<1> HIDE DEF I
<1>4. c \in Seq(Block) /\ ToSet(c) = {u \in ToSet(s) : Parent(u) = p} /\ IsPart(c, s)
  BY <1>2, <1>3, PickedIs
<1> HIDE DEF c
<1>5. IsInjective(c)
  BY <1>4, PartInjective
<1>6. \A x \in ToSet(s) : x \in Block
  BY DEF ToSet
<1>7. \A x \in ToSet(c) : Number(x) = Number(p) + 1
  BY <1>4, <1>6, BlockAssumption
<1>8. InLine(c, {})
  BY <1>4, <1>5, <1>7, OneNumber
<1> QED  BY <1>1, <1>4, <1>8

\* The children of the blocks of one level.
HasFound(s, f, k) ==
    InLine(f, {}) /\ ToSet(f) = {u \in ToSet(queue.unknown) : \E i \in 1..k : Parent(u) = s[i]}
Finding == INSTANCE FoldFacts WITH op <- FindWaiting, val <- LAMBDA p, x : x, Holds <- HasFound

UnknownIs == queue.unknown \in Seq(Block) /\ IsInjective(queue.unknown)

LEMMA FoundIs ==
    ASSUME UnknownIs, NEW s \in Seq(Block), IsInjective(s), NEW n, \A x \in ToSet(s) : Number(x) = n
    PROVE  /\ InLine(FoldLeft(FindWaiting, <<>>, s), {})
           /\ ToSet(FoldLeft(FindWaiting, <<>>, s)) = {u \in ToSet(queue.unknown) : Parent(u) \in ToSet(s)}
<1> DEFINE f == Finding!LeftFold(<<>>, s)
           m == Len(s)
<1>1. FoldLeft(FindWaiting, <<>>, s) = f
  BY DEF FoldLeft, MapThenFoldSet, Max, Finding!LeftFold, Finding!Turns, Finding!Highest
<1>2. m \in Nat /\ DOMAIN s = 1..m /\ (\A i \in 1..m : s[i] \in Block) /\ \A i \in 1..m : s[i] \in ToSet(s)
  BY DEF ToSet
<1>3. HasFound(s, <<>>, 0)
  <2>1. <<>> \in Seq(Block) /\ DOMAIN <<>> = {} /\ 1..0 = {}
    OBVIOUS
  <2> QED  BY <2>1 DEF HasFound, InLine, IsInjective, Rising, ToSet
<1> HIDE DEF m
<1>4. ASSUME NEW k \in Nat, NEW x, k < m, HasFound(s, x, k) PROVE HasFound(s, FindWaiting(x, s[k + 1]), k + 1)
  <2> DEFINE c == Children(queue.unknown, s[k + 1])
  <2>1. k + 1 \in 1..m /\ 1..(k + 1) = (1..k) \cup {k + 1} /\ \A i \in 1..k : i \in 1..m /\ i # k + 1
    BY <1>2, <1>4
  <2>2. InLine(c, {}) /\ ToSet(c) = {u \in ToSet(queue.unknown) : Parent(u) = s[k + 1]}
    BY <1>2, <2>1, ChildrenAre DEF UnknownIs
  <2>3. InLine(x, {}) /\ ToSet(x) = {u \in ToSet(queue.unknown) : \E i \in 1..k : Parent(u) = s[i]}
    BY <1>4 DEF HasFound
  <2> HIDE DEF c
  <2>4. ToSet(x) \cap ToSet(c) = {}
    <3>1. \A i \in 1..k : s[i] # s[k + 1]
      BY <1>2, <2>1 DEF IsInjective
    <3> QED  BY <2>2, <2>3, <3>1
  <2>5. ASSUME NEW u \in ToSet(x) PROVE Parent(u) \notin ToSet(c)
    <3>1. \A w \in ToSet(queue.unknown) : w \in Block
      BY DEF UnknownIs, ToSet
    <3>2. \A w \in ToSet(c) : w \in Block /\ Number(Parent(w)) = n
      BY <1>2, <2>1, <2>2, <3>1
    <3>3. u \in Block /\ Number(Parent(u)) = n
      BY <1>2, <2>1, <2>3, <3>1
    <3>4. \A w \in ToSet(c) : Number(w) = n + 1
      BY <3>2, BlockAssumption
    <3>5. n \in Nat
      BY <1>2, <2>1, BlockAssumption
    <3> QED  BY <3>3, <3>4, <3>5
  <2>6. InLine(x \o c, {}) /\ ToSet(x \o c) = ToSet(x) \cup ToSet(c)
    BY <2>2, <2>3, <2>4, <2>5, LinesJoined
  <2>7. FindWaiting(x, s[k + 1]) = x \o c
    BY DEF FindWaiting, c
  <2>8. ToSet(x) \cup ToSet(c) = {u \in ToSet(queue.unknown) : \E i \in 1..(k + 1) : Parent(u) = s[i]}
    BY <2>1, <2>2, <2>3
  <2> QED  BY <2>6, <2>7, <2>8 DEF HasFound
<1>5. HasFound(s, f, m)
  <2>1. \A k \in Nat : \A x : k < m /\ HasFound(s, x, k) => HasFound(s, FindWaiting(x, s[k + 1]), k + 1)
    BY <1>4
  <2> HIDE DEF HasFound
  <2> QED  BY <1>2, <1>3, <2>1, Finding!LeftFoldHolds
<1> HIDE DEF f
<1>6. ToSet(f) = {u \in ToSet(queue.unknown) : Parent(u) \in ToSet(s)}
  BY <1>2, <1>5 DEF HasFound, ToSet
<1> QED  BY <1>1, <1>5, <1>6 DEF HasFound

\* The levels below a block, and all of them so far.
Level(b, r, k) ==
    /\ r = [last |-> r.last, all |-> r.all]
    /\ InLine(r.last, {}) /\ InLine(r.all, {})
    /\ \A x \in ToSet(r.last) : x \in {b} \cup ToSet(r.all) /\ Number(x) = Number(b) + k
    /\ \A x \in ToSet(r.all) : /\ x \in ToSet(queue.unknown) /\ Parent(x) \in {b} \cup ToSet(r.all)
                               /\ Number(b) < Number(x) /\ Number(x) <= Number(b) + k
Descending == INSTANCE FoldFacts WITH op <- NextWaiting, val <- LAMBDA p, x : x, Holds <- Level

\* A block and what waits for it are a line, in which all but the block are behind
\* their parents.
WaitLine(b, f) ==
    /\ InLine(f, {}) /\ b \in ToSet(f)
    /\ \A x \in ToSet(f) : x = b \/ (x \in ToSet(queue.unknown) /\ Parent(x) \in ToSet(f))

LEMMA WaitingIs ==
    ASSUME UnknownIs, NEW b \in Block
    PROVE  WaitLine(b, <<b>> \o WaitingFor(b))
<1> DEFINE base == [last |-> <<b>>, all |-> <<>>]
           f == Descending!LeftFold(base, queue.unknown)
           m == Len(queue.unknown)
           N == Number(b)
<1>1. WaitingFor(b) = f.all
  BY DEF WaitingFor, FoldLeft, MapThenFoldSet, Max, Descending!LeftFold, Descending!Turns, Descending!Highest
<1>2. m \in Nat /\ DOMAIN queue.unknown = 1..m /\ N \in Nat /\ \A x \in ToSet(queue.unknown) : x \in Block
  BY BlockAssumption DEF UnknownIs, ToSet
<1>3. Level(b, base, 0)
  <2>1. <<>> \in Seq(Block) /\ DOMAIN <<>> = {}
    OBVIOUS
  <2>2. InLine(<<>>, {}) /\ ToSet(<<>>) = {}
    BY <2>1 DEF InLine, IsInjective, Rising, ToSet
  <2>3. N = N + 0
    BY <1>2
  <2> QED  BY <2>2, <2>3, LineOfOne DEF Level
<1> HIDE DEF m, N, base
<1>4. ASSUME NEW k \in Nat, NEW r, k < m, Level(b, r, k), NEW i PROVE Level(b, NextWaiting(r, i), k + 1)
  <2> DEFINE next == FoldLeft(FindWaiting, <<>>, r.last)
  <2>1. /\ InLine(r.last, {}) /\ InLine(r.all, {})
        /\ \A x \in ToSet(r.last) : x \in {b} \cup ToSet(r.all) /\ Number(x) = N + k
        /\ \A x \in ToSet(r.all) : /\ x \in ToSet(queue.unknown) /\ Parent(x) \in {b} \cup ToSet(r.all)
                                   /\ N < Number(x) /\ Number(x) <= N + k
    BY <1>4 DEF Level, N
  <2>2. InLine(next, {}) /\ ToSet(next) = {u \in ToSet(queue.unknown) : Parent(u) \in ToSet(r.last)}
    BY <2>1, FoundIs DEF InLine
  <2>3. NextWaiting(r, i) = [last |-> next, all |-> r.all \o next]
    BY DEF NextWaiting
  <2> HIDE DEF next
  <2>4. \A u \in ToSet(next) : u \in Block /\ Number(u) = N + k + 1
    BY <1>2, <2>1, <2>2, BlockAssumption
  <2>5. ASSUME NEW x \in ToSet(r.all) PROVE x \notin ToSet(next) /\ Parent(x) \notin ToSet(next)
    <3>1. x \in Block /\ Number(x) \in Nat /\ Number(x) <= N + k /\ Number(x) = Number(Parent(x)) + 1
      BY <1>2, <2>1, BlockAssumption
    <3>2. x \notin ToSet(next)
      BY <1>2, <2>4, <3>1
    <3>3. ASSUME Parent(x) \in ToSet(next) PROVE FALSE
      BY <1>2, <2>4, <3>1, <3>3
    <3> QED  BY <3>2, <3>3
  <2>6. InLine(r.all \o next, {}) /\ ToSet(r.all \o next) = ToSet(r.all) \cup ToSet(next)
    BY <2>1, <2>2, <2>5, LinesJoined
  <2> DEFINE all == r.all \o next
  <2> HIDE DEF all
  <2>7. InLine(all, {}) /\ ToSet(all) = ToSet(r.all) \cup ToSet(next) /\ NextWaiting(r, i) = [last |-> next, all |-> all]
    BY <2>3, <2>6 DEF all
  <2>8. \A x \in ToSet(next) : x \in {b} \cup ToSet(all) /\ Number(x) = N + (k + 1)
    BY <1>2, <2>4, <2>7
  <2>9. \A x \in ToSet(all) : x \in ToSet(queue.unknown) /\ Parent(x) \in {b} \cup ToSet(all)
    BY <2>1, <2>2, <2>7
  <2>10. \A x \in ToSet(all) : N < Number(x) /\ Number(x) <= N + (k + 1)
    <3>1. \A x \in ToSet(next) : N < Number(x) /\ Number(x) <= N + (k + 1)
      BY <1>2, <2>4
    <3>2. ASSUME NEW x \in ToSet(r.all) PROVE N < Number(x) /\ Number(x) <= N + (k + 1)
      <4>1. Number(x) \in Nat /\ N < Number(x) /\ Number(x) <= N + k
        BY <1>2, <2>1, BlockAssumption
      <4> QED  BY <1>2, <4>1
    <3> QED  BY <2>7, <3>1, <3>2
  <2> QED  BY <2>2, <2>7, <2>8, <2>9, <2>10 DEF Level, N
<1>5. Level(b, f, m)
  <2>1. \A k \in Nat : \A x : k < m /\ Level(b, x, k) => Level(b, NextWaiting(x, queue.unknown[k + 1]), k + 1)
    BY <1>4
  <2> HIDE DEF Level
  <2> QED  BY <1>2, <1>3, <2>1, Descending!LeftFoldHolds
<1> HIDE DEF f
<1> DEFINE w == f.all
<1>6. InLine(w, {}) /\ \A x \in ToSet(w) : /\ x \in ToSet(queue.unknown) /\ Parent(x) \in {b} \cup ToSet(w)
                                       /\ N < Number(x)
  BY <1>5 DEF Level, N
<1> HIDE DEF w
<1>7. Number(Parent(b)) < N
  BY BlockAssumption DEF N, Tree
<1>8. b \notin ToSet(w) /\ Parent(b) \notin ToSet(w)
  <2>1. \A x \in ToSet(w) : Number(x) \in Nat
    BY <1>2, <1>6, BlockAssumption
  <2>2. Number(Parent(b)) \in Nat
    BY BlockAssumption DEF Tree
  <2> QED  BY <1>2, <1>6, <1>7, <2>1, <2>2 DEF N
<1>9. InLine(<<b>>, {}) /\ ToSet(<<b>>) = {b}
  BY LineOfOne
<1>10. InLine(<<b>> \o w, {}) /\ ToSet(<<b>> \o w) = {b} \cup ToSet(w)
  BY <1>6, <1>8, <1>9, LinesJoined
<1> QED  BY <1>1, <1>6, <1>10 DEF WaitLine, w
-----------------------------------------------------------------------------
(* The queues of ready blocks. *)
BlockQueueType ==
    [ready : SUBSET Block, knownBad : SUBSET Block, unknown : Seq(Block),
     unverified : Seq(Block), verifying : Seq(Entry), verified : Seq(Block)]

\* What is in B is behind what is in A, but for what sync() has lost sight of.
Behind(A, B, lost) == A \cap B = {} /\ \A x \in A : Parent(x) \notin B \ lost

\* The three queues are one line.
ThreeLines(v, y, u, lost) ==
    /\ InLine(v, lost) /\ InLine(u, lost) /\ y \in Seq(Entry) /\ InLine(Names(y), lost)
    /\ Behind(ToSet(v), Blocks(y), lost) /\ Behind(ToSet(v), ToSet(u), lost) /\ Behind(Blocks(y), ToSet(u), lost)

\* What is ready is in the line, nothing is both ready and waiting for its parent,
\* and none of it is known to be bad, unless it is lost.
Sound(s, lost) ==
    /\ s \in BlockQueueType
    /\ ThreeLines(s.verified, s.verifying, s.unverified, lost) /\ IsInjective(s.unknown)
    /\ s.ready = Queued(s)
    /\ ToSet(s.unknown) \cap s.ready = {}
    /\ s.knownBad \cap (s.ready \cup ToSet(s.unknown)) \subseteq lost

\* Blocks that have been handed on are not ready again, unless they are lost, and a
\* parent of a ready block is one of them, known to be bad, or ready.
Attached(s, past, lost) ==
    /\ past \cap (s.ready \cup ToSet(s.unknown)) \subseteq lost
    /\ \A x \in s.ready : Parent(x) \in past \cup s.knownBad \cup s.ready \cup lost

\* Nothing bad is handed on.
Unspoiled(s, lost) == \A x \in ToSet(s.verified) : ~Spoiled(x, s.knownBad \ lost)

Orderly(s, past, lost) == Sound(s, lost) /\ Attached(s, past, lost) /\ Unspoiled(s, lost)

\* Bad, and in no queue: import() lets none of it in again.
Gone(s, c) == c \in s.knownBad /\ c \notin s.ready \cup ToSet(s.unknown)

\* What a verifier is at keeps its place, but in D, or is gone.
Keeps(s, r, D) ==
    /\ s.knownBad \subseteq r.knownBad
    /\ \A c \in Block : Gone(s, c) => Gone(r, c)
    /\ \A c \in Block \ D : Placeholder(c) \in ToSet(s.verifying) =>
           Placeholder(c) \in ToSet(r.verifying) \/ Gone(r, c)

LEMMA KeepsBoth ==
    ASSUME NEW s, NEW r, NEW w, NEW D, Keeps(s, r, D), Keeps(r, w, {})
    PROVE  Keeps(s, w, D)
BY DEF Keeps

\* Only what was waiting still waits.
Shrinks(s, r) == Keeps(s, r, {}) /\ r.ready \subseteq s.ready /\ ToSet(r.unknown) \subseteq ToSet(s.unknown)

LEMMA ShrinksOn ==
    ASSUME NEW s, NEW r, NEW w, Shrinks(s, r), Shrinks(r, w)
    PROVE  Shrinks(s, w)
BY KeepsBoth DEF Shrinks

LEMMA ShrinksNot == \A s : Shrinks(s, s)
BY DEF Shrinks, Keeps

\* The blocks of m_verifying and their names.
LEMMA NamesAre ==
    ASSUME NEW y \in Seq(Entry)
    PROVE  /\ Names(y) \in Seq(Block) /\ Len(Names(y)) = Len(y) /\ ToSet(Names(y)) = Blocks(y)
           /\ DOMAIN Names(y) = DOMAIN y /\ \A i \in DOMAIN y : Names(y)[i] = y[i].block
           /\ Blocks(y) = {e.block : e \in ToSet(y)}
<1>1. Len(y) \in Nat /\ DOMAIN y = 1..Len(y) /\ \A i \in 1..Len(y) : y[i] \in Entry /\ y[i].block \in Block
  <2>1. Len(y) \in Nat /\ DOMAIN y = 1..Len(y) /\ \A i \in 1..Len(y) : y[i] \in Entry
    OBVIOUS
  <2>2. \A e \in Entry : e.block \in Block
    BY DEF Entry
  <2> QED  BY <2>1, <2>2
<1>2. Names(y) = [i \in 1..Len(y) |-> y[i].block]
  BY <1>1 DEF Names
<1>3. Names(y) \in Seq(Block) /\ Len(Names(y)) = Len(y) /\ DOMAIN Names(y) = DOMAIN y
  BY <1>1, <1>2
<1>4. \A i \in DOMAIN y : Names(y)[i] = y[i].block
  BY <1>1, <1>2
<1>5. ToSet(Names(y)) = Blocks(y)
  BY <1>3, <1>4 DEF ToSet, Blocks
<1>6. Blocks(y) = {e.block : e \in ToSet(y)}
  BY DEF ToSet, Blocks
<1> QED  BY <1>3, <1>4, <1>5, <1>6

\* An entry is known by its block.
LEMMA EntryOfBlock ==
    ASSUME NEW lost, NEW y \in Seq(Entry), InLine(Names(y), lost), NEW e \in ToSet(y), NEW d \in ToSet(y), e.block = d.block
    PROVE  e = d
<1>1. PICK i \in DOMAIN y : y[i] = e
  BY DEF ToSet
<1>2. PICK j \in DOMAIN y : y[j] = d
  BY DEF ToSet
<1>3. Names(y)[i] = Names(y)[j] /\ i \in DOMAIN Names(y) /\ j \in DOMAIN Names(y)
  BY <1>1, <1>2, NamesAre
<1>4. i = j
  BY <1>3 DEF InLine, IsInjective
<1> QED  BY <1>1, <1>2, <1>4

\* Some entries are left.
LEMMA EntriesLeft ==
    ASSUME NEW lost, NEW y \in Seq(Entry), InLine(Names(y), lost), NEW r \in Seq(Entry), IsPart(r, y)
    PROVE  InLine(Names(r), lost) /\ Blocks(r) \subseteq Blocks(y)
<1>1. PICK g \in [DOMAIN r -> DOMAIN y] :
         /\ \A i, j \in DOMAIN r : i < j => g[i] < g[j]
         /\ \A i \in DOMAIN r : r[i] = y[g[i]]
  BY DEF IsPart
<1>2. /\ DOMAIN Names(r) = DOMAIN r /\ DOMAIN Names(y) = DOMAIN y /\ Names(r) \in Seq(Block)
      /\ (\A i \in DOMAIN r : Names(r)[i] = r[i].block) /\ \A i \in DOMAIN y : Names(y)[i] = y[i].block
  BY NamesAre
<1>3. IsPart(Names(r), Names(y))
  <2>1. g \in [DOMAIN Names(r) -> DOMAIN Names(y)]
    BY <1>2
  <2>2. \A i, j \in DOMAIN Names(r) : i < j => g[i] < g[j]
    BY <1>1, <1>2
  <2>3. \A i \in DOMAIN r : g[i] \in DOMAIN y /\ r[i] = y[g[i]]
    BY <1>1
  <2>4. \A i \in DOMAIN r : r[i].block = y[g[i]].block
    BY <2>3
  <2>5. \A i \in DOMAIN Names(r) : Names(r)[i] = Names(y)[g[i]]
    BY <1>2, <2>3, <2>4
  <2> QED  BY <2>1, <2>2, <2>5 DEF IsPart
<1> QED  BY <1>2, <1>3, PartInLine, NamesAre

\* The first entry and the others.
LEMMA FirstEntry ==
    ASSUME NEW lost, NEW y \in Seq(Entry), InLine(Names(y), lost), y # <<>>
    PROVE  /\ Tail(y) \in Seq(Entry) /\ ToSet(y) = {Head(y)} \cup ToSet(Tail(y)) /\ Head(y) \in Entry
           /\ Heads(Names(y), Head(y).block, Names(Tail(y)), lost)
<1>1. Len(y) \in Nat /\ Len(y) > 0 /\ DOMAIN y = 1..Len(y) /\ Head(y) = y[1] /\ y[1] \in Entry
  BY SMT
<1>2. /\ Tail(y) \in Seq(Entry) /\ Len(Tail(y)) = Len(y) - 1 /\ DOMAIN Tail(y) = 1..(Len(y) - 1)
      /\ \A i \in 1..(Len(y) - 1) : Tail(y)[i] = y[i + 1]
  BY <1>1
<1>3. /\ Names(y) \in Seq(Block) /\ Len(Names(y)) = Len(y) /\ DOMAIN Names(y) = DOMAIN y
      /\ \A i \in DOMAIN y : Names(y)[i] = y[i].block
  BY NamesAre
<1>4. /\ Names(Tail(y)) \in Seq(Block) /\ Len(Names(Tail(y))) = Len(y) - 1
      /\ \A i \in 1..(Len(y) - 1) : Names(Tail(y))[i] = Tail(y)[i].block
  BY <1>2, NamesAre
<1> DEFINE n == Names(y)
           w == Names(Tail(y))
<1> HIDE DEF n, w
<1>5. n # <<>> /\ Head(n) = y[1].block /\ Tail(n) = w
  <2>1. n \in Seq(Block) /\ Len(n) = Len(y) /\ \A i \in 1..Len(y) : n[i] = y[i].block
    BY <1>1, <1>3 DEF n
  <2>2. w \in Seq(Block) /\ Len(w) = Len(y) - 1 /\ \A i \in 1..(Len(y) - 1) : w[i] = Tail(y)[i].block
    BY <1>4 DEF w
  <2>3. n # <<>> /\ Head(n) = n[1] /\ 1 \in 1..Len(y)
    BY <1>1, <2>1
  <2>4. Tail(n) \in Seq(Block) /\ Len(Tail(n)) = Len(w) /\ \A i \in 1..Len(w) : Tail(n)[i] = n[i + 1]
    BY <1>1, <2>1, <2>2, <2>3
  <2>5. \A i \in 1..Len(w) : Tail(n)[i] = w[i]
    BY <1>1, <1>2, <2>1, <2>2, <2>4
  <2>6. Tail(n) = w
    BY <2>2, <2>4, <2>5
  <2> QED  BY <2>1, <2>3, <2>6
<1>6. Heads(n, Head(n), Tail(n), lost)
  BY <1>5, HeadOfLine DEF n
<1>7. ToSet(y) = {Head(y)} \cup ToSet(Tail(y))
  <2>1. ToSet(y) = {y[i] : i \in 1..Len(y)} /\ ToSet(Tail(y)) = {Tail(y)[i] : i \in 1..(Len(y) - 1)}
    BY <1>1, <1>2 DEF ToSet
  <2>2. \A i \in 1..Len(y) : i = 1 \/ (i - 1 \in 1..(Len(y) - 1) /\ (i - 1) + 1 = i)
    BY <1>1
  <2>3. \A i \in 1..(Len(y) - 1) : i + 1 \in 1..Len(y)
    BY <1>1
  <2>4. {y[i] : i \in 1..Len(y)} \subseteq {Head(y)} \cup {Tail(y)[i] : i \in 1..(Len(y) - 1)}
    <3> SUFFICES ASSUME NEW i \in 1..Len(y), i # 1
                 PROVE  \E j \in 1..(Len(y) - 1) : y[i] = Tail(y)[j]
      BY <1>1
    <3>1. i - 1 \in 1..(Len(y) - 1) /\ (i - 1) + 1 = i
      BY <2>2
    <3>2. Tail(y)[i - 1] = y[i]
      BY <1>2, <3>1
    <3> QED  BY <3>1, <3>2
  <2>5. {Tail(y)[i] : i \in 1..(Len(y) - 1)} \subseteq {y[i] : i \in 1..Len(y)}
    BY <1>2, <2>3
  <2>6. Head(y) \in {y[i] : i \in 1..Len(y)}
    BY <1>1
  <2> QED  BY <2>1, <2>4, <2>5, <2>6
<1> QED  BY <1>1, <1>2, <1>5, <1>6, <1>7 DEF n, w

\* Why a block is bad: it is the one that came, it was waiting, or it is in a queue.
Because(u, b, s, bad) ==
    \/ u = b \/ u \in ToSet(s.unknown) \cup ToSet(s.verified) \cup ToSet(s.unverified)
    \/ \E e \in ToSet(s.verifying) : e.block = u /\ SpoiledEntry(e, bad)

\* With a bad block goes no more than it must.
LEMMA BadIs ==
    ASSUME NEW s \in BlockQueueType, NEW b \in Block
    PROVE  /\ b \in BadWith(b, s) /\ BadWith(b, s) \subseteq Block /\ NoMoreBad(BadWith(b, s), s)
           /\ \A u \in BadWith(b, s) : Because(u, b, s, BadWith(b, s) \cup s.knownBad)
<1> DEFINE found == BadWith(b, s)
           bad == found \cup s.knownBad
           Closed(B) == B \in SUBSET Block /\ b \in B /\ NoMoreBad(B, s)
<1>1. found = {u \in Block : \A B \in SUBSET Block : b \in B /\ NoMoreBad(B, s) => u \in B}
  BY DEF BadWith
<1>2. /\ \A u \in ToSet(s.unknown) \cup ToSet(s.verified) \cup ToSet(s.unverified) : u \in Block
      /\ \A e \in ToSet(s.verifying) : e.block \in Block
  <2>1. s.unknown \in Seq(Block) /\ s.verified \in Seq(Block) /\ s.unverified \in Seq(Block) /\ s.verifying \in Seq(Entry)
    BY DEF BlockQueueType
  <2>2. /\ \A i \in DOMAIN s.unknown : s.unknown[i] \in Block
        /\ \A i \in DOMAIN s.verified : s.verified[i] \in Block
        /\ \A i \in DOMAIN s.unverified : s.unverified[i] \in Block
        /\ \A i \in DOMAIN s.verifying : s.verifying[i] \in Entry
    BY <2>1
  <2> QED  BY <2>2 DEF ToSet, Entry
<1> HIDE DEF found
<1>3. b \in found /\ found \subseteq Block
  BY <1>1
<1>4. \A B : Closed(B) => found \subseteq B
  BY <1>1
<1>5. ASSUME NEW u \in Block, \A B : Closed(B) => u \in B PROVE u \in found
  BY <1>1, <1>5
<1>6. \A u \in ToSet(s.unknown) : Parent(u) \in found => u \in found
  <2> SUFFICES ASSUME NEW u \in ToSet(s.unknown), Parent(u) \in found PROVE u \in found
    OBVIOUS
  <2>1. \A B : Closed(B) => u \in B
    BY <1>4 DEF NoMoreBad
  <2> QED  BY <1>2, <1>5, <2>1
<1>7. \A u \in ToSet(s.verified) \cup ToSet(s.unverified) : Spoiled(u, bad) => u \in found
  <2> SUFFICES ASSUME NEW u \in ToSet(s.verified) \cup ToSet(s.unverified), Spoiled(u, bad) PROVE u \in found
    OBVIOUS
  <2>1. ASSUME NEW B, Closed(B) PROVE u \in B
    <3>1. Spoiled(u, B \cup s.knownBad)
      BY <1>4, <2>1 DEF Spoiled
    <3> QED  BY <2>1, <3>1 DEF NoMoreBad
  <2> QED  BY <1>2, <1>5, <2>1
<1>8. \A e \in ToSet(s.verifying) : SpoiledEntry(e, bad) => e.block \in found
  <2> SUFFICES ASSUME NEW e \in ToSet(s.verifying), SpoiledEntry(e, bad) PROVE e.block \in found
    OBVIOUS
  <2>1. ASSUME NEW B, Closed(B) PROVE e.block \in B
    <3>1. SpoiledEntry(e, B \cup s.knownBad)
      BY <1>4, <2>1 DEF SpoiledEntry
    <3> QED  BY <2>1, <3>1 DEF NoMoreBad
  <2> QED  BY <1>2, <1>5, <2>1
<1>9. NoMoreBad(found, s)
  BY <1>6, <1>7, <1>8 DEF NoMoreBad
<1> DEFINE C == {u \in found : Because(u, b, s, bad)}
<1>10. Closed(C)
  <2>1. C \in SUBSET Block /\ b \in C
    BY <1>3 DEF Because
  <2>2. \A u \in ToSet(s.unknown) : Parent(u) \in C => u \in C
    BY <1>6 DEF Because
  <2>3. ASSUME NEW u \in ToSet(s.verified) \cup ToSet(s.unverified), Spoiled(u, C \cup s.knownBad) PROVE u \in C
    <3>1. Spoiled(u, bad)
      BY <2>3 DEF Spoiled
    <3> QED  BY <1>7, <3>1 DEF Because
  <2>4. ASSUME NEW e \in ToSet(s.verifying), SpoiledEntry(e, C \cup s.knownBad) PROVE e.block \in C
    <3>1. SpoiledEntry(e, bad)
      BY <2>4 DEF SpoiledEntry
    <3> QED  BY <1>8, <3>1 DEF Because
  <2> HIDE DEF C
  <2> QED  BY <2>1, <2>2, <2>3, <2>4 DEF NoMoreBad
<1>11. found \subseteq C
  <2> HIDE DEF C
  <2> QED  BY <1>4, <1>10
<1> QED  BY <1>3, <1>9, <1>11 DEF found

\* The blocks of a queue that are not spoiled.
LEMMA UnspoiledLeft ==
    ASSUME NEW lost, NEW s, InLine(s, lost), NEW bad
    PROVE  LET r == Selected(s, LAMBDA u : ~Spoiled(u, bad))
           IN  InLine(r, lost) /\ ToSet(r) = {u \in ToSet(s) : ~Spoiled(u, bad)}
<1> DEFINE I == {i \in DOMAIN s : ~Spoiled(s[i], bad)}
           c == Picked(s, I)
<1>1. Selected(s, LAMBDA u : ~Spoiled(u, bad)) = c
  <2>1. Selected(s, LAMBDA u : ~Spoiled(u, bad)) = TheOne({Picked(s, I)})
    BY DEF Selected
  <2> HIDE DEF I
  <2> QED  BY <2>1 DEF TheOne
<1>2. {s[i] : i \in I} = {u \in ToSet(s) : ~Spoiled(u, bad)}
  BY DEF ToSet
<1>3. I \in SUBSET DOMAIN s /\ s \in Seq(Block)
  BY DEF InLine
<1> HIDE DEF I
<1>4. c \in Seq(Block) /\ ToSet(c) = {u \in ToSet(s) : ~Spoiled(u, bad)} /\ IsPart(c, s)
  BY <1>2, <1>3, PickedIs
<1> HIDE DEF c
<1>5. InLine(c, lost)
  BY <1>4, PartInLine
<1> QED  BY <1>1, <1>4, <1>5

\* The entries that are not spoiled.
LEMMA UnspoiledEntries ==
    ASSUME NEW lost, NEW s \in Seq(Entry), InLine(Names(s), lost), NEW bad
    PROVE  LET r == Selected(s, LAMBDA e : ~SpoiledEntry(e, bad))
           IN  /\ r \in Seq(Entry) /\ InLine(Names(r), lost) /\ Blocks(r) \subseteq Blocks(s)
               /\ ToSet(r) = {e \in ToSet(s) : ~SpoiledEntry(e, bad)}
<1> DEFINE I == {i \in DOMAIN s : ~SpoiledEntry(s[i], bad)}
           c == Picked(s, I)
<1>1. Selected(s, LAMBDA e : ~SpoiledEntry(e, bad)) = c
  <2>1. Selected(s, LAMBDA e : ~SpoiledEntry(e, bad)) = TheOne({Picked(s, I)})
    BY DEF Selected
  <2> HIDE DEF I
  <2> QED  BY <2>1 DEF TheOne
<1>2. {s[i] : i \in I} = {e \in ToSet(s) : ~SpoiledEntry(e, bad)}
  BY DEF ToSet
<1>3. I \in SUBSET DOMAIN s
  OBVIOUS
<1> HIDE DEF I
<1>4. c \in Seq(Entry) /\ ToSet(c) = {e \in ToSet(s) : ~SpoiledEntry(e, bad)} /\ IsPart(c, s)
  BY <1>2, <1>3, PickedIs
<1> HIDE DEF c
<1>5. InLine(Names(c), lost) /\ Blocks(c) \subseteq Blocks(s)
  BY <1>4, EntriesLeft
<1> QED  BY <1>1, <1>4, <1>5

\* The entries but one.
LEMMA EntriesBut ==
    ASSUME NEW s \in Seq(Entry), NEW d
    PROVE  LET r == Selected(s, LAMBDA e : e # d)
           IN  r \in Seq(Entry) /\ IsPart(r, s) /\ ToSet(r) = {e \in ToSet(s) : e # d}
<1> DEFINE I == {i \in DOMAIN s : s[i] # d}
           c == Picked(s, I)
<1>1. Selected(s, LAMBDA e : e # d) = c
  <2>1. Selected(s, LAMBDA e : e # d) = TheOne({Picked(s, I)})
    BY DEF Selected
  <2> HIDE DEF I
  <2> QED  BY <2>1 DEF TheOne
<1>2. {s[i] : i \in I} = {e \in ToSet(s) : e # d}
  BY DEF ToSet
<1>3. I \in SUBSET DOMAIN s
  OBVIOUS
<1> HIDE DEF I
<1>4. c \in Seq(Entry) /\ ToSet(c) = {e \in ToSet(s) : e # d} /\ IsPart(c, s)
  BY <1>2, <1>3, PickedIs
<1> QED  BY <1>1, <1>4

\* What a bad block takes with it leaves the queues in order.
Worse(s, b, past, r, lost) == Orderly(r, past, lost) /\ Shrinks(s, r) /\ b \in r.knownBad

LEMMA BadUpdated ==
    ASSUME NEW lost, NEW s, NEW past, Sound(s, lost), Attached(s, past, lost),
           NEW b \in Block, b \in s.ready \cup ToSet(s.unknown) => b \in lost
    PROVE  Worse(s, b, past, UpdateBad(b, s), lost)
<1> DEFINE found == BadWith(b, s)
           bad == found \cup s.knownBad
           v == Selected(s.verified, LAMBDA u : ~Spoiled(u, bad))
           w == Selected(s.unverified, LAMBDA u : ~Spoiled(u, bad))
           y == Selected(s.verifying, LAMBDA e : ~SpoiledEntry(e, bad))
           n == Without(s.unknown, found \ {b})
           left == [s EXCEPT !.knownBad = bad, !.unknown = n, !.verified = v, !.unverified = w, !.verifying = y]
           r == UpdateBad(b, s)
<1>1. /\ s \in BlockQueueType /\ s.unknown \in Seq(Block) /\ s.ready \subseteq Block /\ s.knownBad \subseteq Block
      /\ InLine(s.verified, lost) /\ InLine(s.unverified, lost) /\ s.verifying \in Seq(Entry) /\ InLine(Names(s.verifying), lost)
      /\ s.ready = Queued(s)
  BY DEF Sound, ThreeLines, BlockQueueType
<1>2. r = [left EXCEPT !.ready = @ \ (Queued(s) \ Queued(left))]
  BY DEF UpdateBad
<1>3. /\ r \in [ready : SUBSET s.ready, knownBad : {bad}, unknown : {n}, unverified : {w}, verifying : {y}, verified : {v}]
      /\ Queued(left) = ToSet(v) \cup ToSet(w) \cup Blocks(y)
      /\ r.ready = s.ready \ (Queued(s) \ Queued(left))
  <2> HIDE DEF bad, v, w, y, n, r
  <2> QED  BY <1>1, <1>2 DEF BlockQueueType, Queued
<1>4. b \in found /\ found \subseteq Block /\ NoMoreBad(found, s) /\ \A u \in found : Because(u, b, s, bad)
  BY <1>1, BadIs
<1> HIDE DEF found, r
<1>5. InLine(v, lost) /\ ToSet(v) = {u \in ToSet(s.verified) : ~Spoiled(u, bad)}
  BY <1>1, UnspoiledLeft
<1>6. InLine(w, lost) /\ ToSet(w) = {u \in ToSet(s.unverified) : ~Spoiled(u, bad)}
  BY <1>1, UnspoiledLeft
<1>7. /\ y \in Seq(Entry) /\ InLine(Names(y), lost) /\ Blocks(y) \subseteq Blocks(s.verifying)
      /\ ToSet(y) = {e \in ToSet(s.verifying) : ~SpoiledEntry(e, bad)}
  BY <1>1, UnspoiledEntries
<1>8. n \in Seq(Block) /\ ToSet(n) = ToSet(s.unknown) \ (found \ {b}) /\ IsInjective(n)
  <2>1. n \in Seq(Block) /\ ToSet(n) = ToSet(s.unknown) \ (found \ {b}) /\ IsPart(n, s.unknown)
    BY <1>1, WithoutIs
  <2>2. IsInjective(s.unknown)
    BY DEF Sound
  <2> HIDE DEF n
  <2> QED  BY <1>1, <2>1, <2>2, PartInjective
<1> HIDE DEF v, w, y, n, left
<1>9. r.ready = ToSet(v) \cup ToSet(w) \cup Blocks(y)
  <2>1. Queued(left) \subseteq Queued(s)
    BY <1>3, <1>5, <1>6, <1>7 DEF Queued
  <2> QED  BY <1>1, <1>3, <2>1
<1>10. /\ r.knownBad = bad /\ r.unknown = n /\ r.unverified = w /\ r.verifying = y /\ r.verified = v
       /\ Queued(r) = ToSet(v) \cup ToSet(w) \cup Blocks(y)
       /\ r.ready = Queued(r)
  BY <1>3, <1>9 DEF Queued
<1>11. r \in BlockQueueType
  <2>1. v \in Seq(Block) /\ w \in Seq(Block) /\ bad \in SUBSET Block
    BY <1>1, <1>4, <1>5, <1>6 DEF InLine
  <2>2. {bad} \subseteq SUBSET Block /\ {v} \subseteq Seq(Block) /\ {w} \subseteq Seq(Block) /\ {y} \subseteq Seq(Entry) /\ {n} \subseteq Seq(Block)
        /\ SUBSET s.ready \subseteq SUBSET Block
    BY <1>1, <1>7, <1>8, <2>1
  <2> HIDE DEF bad
  <2> QED  BY <1>3, <2>2 DEF BlockQueueType
<1>12. ThreeLines(v, y, w, lost)
  <2>1. /\ Behind(ToSet(s.verified), Blocks(s.verifying), lost) /\ Behind(ToSet(s.verified), ToSet(s.unverified), lost)
        /\ Behind(Blocks(s.verifying), ToSet(s.unverified), lost)
    BY DEF Sound, ThreeLines
  <2>2. ToSet(v) \subseteq ToSet(s.verified) /\ ToSet(w) \subseteq ToSet(s.unverified) /\ Blocks(y) \subseteq Blocks(s.verifying)
    BY <1>5, <1>6, <1>7
  <2>3. Behind(ToSet(v), Blocks(y), lost) /\ Behind(ToSet(v), ToSet(w), lost) /\ Behind(Blocks(y), ToSet(w), lost)
    BY <2>1, <2>2 DEF Behind
  <2> QED  BY <1>5, <1>6, <1>7, <2>3 DEF ThreeLines
<1>13. Blocks(y) = {e.block : e \in ToSet(y)} /\ Blocks(s.verifying) = {e.block : e \in ToSet(s.verifying)}
  BY <1>1, <1>7, NamesAre
\* An entry that stays is not bad.
<1>14. Blocks(y) \cap bad \subseteq lost
  <2> SUFFICES ASSUME NEW e \in ToSet(y), e.block \in bad, e.block \notin lost PROVE FALSE
    BY <1>13
  <2>1. e \in ToSet(s.verifying) /\ ~SpoiledEntry(e, bad) /\ e.block \in s.ready
    BY <1>1, <1>7, <1>13 DEF Queued
  <2>2. e.block \notin s.knownBad
    BY <2>1 DEF Sound
  <2>3. e.block \in found /\ e.block # b /\ e.block \notin ToSet(s.unknown)
    BY <2>1, <2>2 DEF Sound
  <2>4. e.block \notin ToSet(s.verified) \cup ToSet(s.unverified)
    BY <1>13, <2>1 DEF Sound, ThreeLines, Behind
  <2>5. PICK d \in ToSet(s.verifying) : d.block = e.block /\ SpoiledEntry(d, bad)
    BY <1>4, <2>3, <2>4 DEF Because
  <2>6. d = e
    BY <1>1, <2>1, <2>5, EntryOfBlock
  <2> QED  BY <2>1, <2>5, <2>6
<1>15. r.ready \cap bad \subseteq lost
  BY <1>5, <1>6, <1>9, <1>14 DEF Spoiled
<1>16. ToSet(n) \cap bad \subseteq lost
  BY <1>8 DEF Sound
<1>17. r.ready \subseteq s.ready /\ ToSet(n) \subseteq ToSet(s.unknown)
  BY <1>3, <1>8
<1>18. Sound(r, lost)
  <2>1. ToSet(n) \cap r.ready = {}
    BY <1>17 DEF Sound
  <2>2. bad \cap (r.ready \cup ToSet(n)) \subseteq lost
    BY <1>15, <1>16
  <2> HIDE DEF bad
  <2> QED  BY <1>8, <1>10, <1>11, <1>12, <2>1, <2>2 DEF Sound
\* What is taken out is bad.
<1>19. \A x \in s.ready : x \in r.ready \/ x \in bad
  <2> SUFFICES ASSUME NEW x \in s.ready, x \notin r.ready PROVE x \in bad
    OBVIOUS
  <2>1. CASE x \in ToSet(s.verified) \cup ToSet(s.unverified)
    <3>1. Spoiled(x, bad)
      BY <1>5, <1>6, <1>9, <2>1
    <3> QED  BY <1>4, <2>1, <3>1 DEF NoMoreBad
  <2>2. CASE x \in Blocks(s.verifying)
    <3>1. PICK e \in ToSet(s.verifying) : e.block = x
      BY <1>13, <2>2
    <3>2. SpoiledEntry(e, bad)
      BY <1>7, <1>9, <1>13, <3>1
    <3> QED  BY <1>4, <3>1, <3>2 DEF NoMoreBad
  <2> QED  BY <1>1, <2>1, <2>2 DEF Queued
<1>20. Attached(r, past, lost)
  <2>1. past \cap (r.ready \cup ToSet(n)) \subseteq lost
    BY <1>17 DEF Attached
  <2>2. \A x \in r.ready : Parent(x) \in past \cup bad \cup r.ready \cup lost
    BY <1>17, <1>19 DEF Attached
  <2> HIDE DEF bad
  <2> QED  BY <1>10, <2>1, <2>2 DEF Attached
<1>21. Unspoiled(r, lost)
  <2> HIDE DEF bad
  <2> QED  BY <1>5, <1>10 DEF Unspoiled, Spoiled
<1>22. Shrinks(s, r)
  <2>1. ASSUME NEW c \in Block, Placeholder(c) \in ToSet(s.verifying), Placeholder(c) \notin ToSet(y)
        PROVE  c \in bad /\ c \notin r.ready \cup ToSet(n)
    <3>1. Placeholder(c).block = c
      BY DEF Placeholder
    <3>2. SpoiledEntry(Placeholder(c), bad)
      BY <1>7, <2>1
    <3>3. c \in found
      BY <1>4, <2>1, <3>1, <3>2 DEF NoMoreBad
    <3>4. c \in s.ready /\ c \in Blocks(s.verifying)
      BY <1>1, <1>13, <2>1, <3>1 DEF Queued
    <3>5. c \notin Blocks(y)
      <4> SUFFICES ASSUME NEW e \in ToSet(y), e.block = c PROVE FALSE
        BY <1>13
      <4>1. e = Placeholder(c)
        BY <1>1, <1>7, <2>1, <3>1, EntryOfBlock
      <4> QED  BY <2>1, <4>1
    <3>6. c \notin ToSet(s.verified) \cup ToSet(s.unverified) \cup ToSet(s.unknown)
      BY <3>4 DEF Sound, ThreeLines, Behind
    <3> QED  BY <1>5, <1>6, <1>9, <1>17, <3>3, <3>5, <3>6
  <2>2. \A c \in Block : Gone(s, c) => Gone(r, c)
    <3>1. s.knownBad \subseteq bad
      OBVIOUS
    <3> HIDE DEF bad
    <3> QED  BY <1>10, <1>17, <3>1 DEF Gone
  <2>3. s.knownBad \subseteq bad
    OBVIOUS
  <2>4. \A c \in Block : Placeholder(c) \in ToSet(s.verifying) => Placeholder(c) \in ToSet(r.verifying) \/ Gone(r, c)
    <3> HIDE DEF bad
    <3> QED  BY <1>10, <2>1 DEF Gone
  <2> HIDE DEF bad
  <2> QED  BY <1>10, <1>17, <2>2, <2>3, <2>4 DEF Shrinks, Keeps
<1> QED  BY <1>4, <1>10, <1>18, <1>20, <1>21, <1>22 DEF Worse, Orderly, r

\* What a state of the queues is known by.
LEMMA OrderlyIs ==
    ASSUME NEW lost, NEW s, NEW past, Orderly(s, past, lost)
    PROVE  /\ s \in BlockQueueType /\ s.ready \subseteq Block /\ s.knownBad \subseteq Block /\ s.unknown \in Seq(Block)
           /\ InLine(s.verified, lost) /\ InLine(s.unverified, lost) /\ s.verifying \in Seq(Entry) /\ InLine(Names(s.verifying), lost)
           /\ s.verified \in Seq(Block) /\ s.unverified \in Seq(Block)
           /\ s.ready = ToSet(s.verified) \cup ToSet(s.unverified) \cup Blocks(s.verifying)
           /\ Behind(ToSet(s.verified), Blocks(s.verifying), lost) /\ Behind(ToSet(s.verified), ToSet(s.unverified), lost)
           /\ Behind(Blocks(s.verifying), ToSet(s.unverified), lost)
           /\ IsInjective(s.unknown) /\ ToSet(s.unknown) \cap s.ready = {}
           /\ s.knownBad \cap (s.ready \cup ToSet(s.unknown)) \subseteq lost
           /\ past \cap (s.ready \cup ToSet(s.unknown)) \subseteq lost
           /\ \A x \in s.ready : Parent(x) \in past \cup s.knownBad \cup s.ready \cup lost
           /\ \A x \in ToSet(s.verified) : x \notin s.knownBad \ lost /\ Parent(x) \notin s.knownBad \ lost
BY DEF Orderly, Sound, ThreeLines, Attached, Unspoiled, Spoiled, BlockQueueType, Queued

\* The same from its parts.
LEMMA OrderlyFrom ==
    ASSUME NEW lost, NEW past, NEW ready \in SUBSET Block, NEW bad \in SUBSET Block, NEW n \in Seq(Block),
           NEW v, NEW y \in Seq(Entry), NEW u,
           InLine(v, lost), InLine(u, lost), InLine(Names(y), lost),
           ready = ToSet(v) \cup ToSet(u) \cup Blocks(y),
           Behind(ToSet(v), Blocks(y), lost), Behind(ToSet(v), ToSet(u), lost), Behind(Blocks(y), ToSet(u), lost),
           IsInjective(n), ToSet(n) \cap ready = {}, bad \cap (ready \cup ToSet(n)) \subseteq lost,
           past \cap (ready \cup ToSet(n)) \subseteq lost,
           \A x \in ready : Parent(x) \in past \cup bad \cup ready \cup lost,
           \A x \in ToSet(v) : Parent(x) \notin bad \ lost
    PROVE  \A s : s = [ready |-> ready, knownBad |-> bad, unknown |-> n, unverified |-> u, verifying |-> y, verified |-> v]
                      => Orderly(s, past, lost)
<1> SUFFICES ASSUME NEW s,
             s = [ready |-> ready, knownBad |-> bad, unknown |-> n, unverified |-> u, verifying |-> y, verified |-> v]
             PROVE Orderly(s, past, lost)
  OBVIOUS
<1>1. v \in Seq(Block) /\ u \in Seq(Block)
  BY DEF InLine
<1>2. s \in BlockQueueType
  BY <1>1 DEF BlockQueueType
<1>3. /\ s.ready = ready /\ s.knownBad = bad /\ s.unknown = n /\ s.unverified = u /\ s.verifying = y /\ s.verified = v
      /\ Queued(s) = ToSet(v) \cup ToSet(u) \cup Blocks(y)
  BY DEF Queued
<1>4. Sound(s, lost)
  BY <1>2, <1>3 DEF Sound, ThreeLines
<1>5. Attached(s, past, lost)
  BY <1>3 DEF Attached
<1>6. \A x \in ToSet(v) : x \notin bad \ lost
  OBVIOUS
<1>7. Unspoiled(s, lost)
  BY <1>3, <1>6 DEF Unspoiled, Spoiled
<1> QED  BY <1>4, <1>5, <1>7 DEF Orderly

\* A finished block at the front goes on, or with its parent.
Drains(s, past, r, lost) == Orderly(r, past, lost) /\ Shrinks(s, r)

LEMMA HandsOn ==
    ASSUME NEW lost, NEW s, NEW past, Orderly(s, past, lost), NEW e
    PROVE  Drains(s, past, HandOn(s, e), lost)
<1> DEFINE y == s.verifying
           x == e.block
           r == HandOn(s, e)
<1>0. /\ s \in BlockQueueType /\ s.unknown \in Seq(Block) /\ IsInjective(s.unknown) /\ y \in Seq(Entry)
      /\ InLine(s.verified, lost) /\ InLine(s.unverified, lost) /\ s.verified \in Seq(Block)
      /\ Behind(ToSet(s.verified), ToSet(s.unverified), lost) /\ Behind(ToSet(s.verified), Blocks(y), lost)
      /\ s.ready \subseteq Block /\ s.knownBad \subseteq Block
  BY OrderlyIs
<1>1. CASE y = <<>> \/ Head(y) # e \/ ~e.done
  <2>1. r = s
    BY <1>1 DEF HandOn
  <2> QED  BY <2>1, ShrinksNot DEF Drains
<1>2. CASE y # <<>> /\ Head(y) = e /\ e.done
  <2>1. /\ Tail(y) \in Seq(Entry) /\ ToSet(y) = {e} \cup ToSet(Tail(y)) /\ e \in Entry
        /\ Heads(Names(y), x, Names(Tail(y)), lost)
    BY <1>2, OrderlyIs, FirstEntry
  <2>2. ToSet(Names(y)) = Blocks(y) /\ ToSet(Names(Tail(y))) = Blocks(Tail(y))
    BY <2>1, OrderlyIs, NamesAre
  <2>3. /\ x \in Block /\ Blocks(y) = {x} \cup Blocks(Tail(y)) /\ x \notin Blocks(Tail(y))
        /\ InLine(Names(Tail(y)), lost) /\ Parent(x) \notin Blocks(y) \ lost
    BY <2>1, <2>2 DEF Heads
  <2>4. \A c : Placeholder(c) \in ToSet(y) => Placeholder(c) \in ToSet(Tail(y))
    BY <1>2, <2>1 DEF Placeholder
  <2>5. s.ready = ToSet(s.verified) \cup ToSet(s.unverified) \cup Blocks(y)
    BY OrderlyIs
  <2>6. x \in s.ready /\ x \notin ToSet(s.verified) \cup ToSet(s.unverified)
    BY <2>3, <2>5, OrderlyIs DEF Behind
  <2>7. Behind(Blocks(Tail(y)), ToSet(s.unverified), lost)
    BY <2>3, OrderlyIs DEF Behind
  <2>8. CASE Parent(x) \in s.knownBad
    <3> DEFINE ready == s.ready \ {x}
               bad == s.knownBad \cup {x}
    <3>1. r = [ready |-> ready, knownBad |-> bad, unknown |-> s.unknown, unverified |-> s.unverified,
               verifying |-> Tail(y), verified |-> s.verified]
      <4>1. r = [s EXCEPT !.verifying = Tail(y), !.ready = ready, !.knownBad = bad]
        BY <1>2, <2>8 DEF HandOn
      <4> DEFINE t == Tail(y)
      <4> HIDE DEF ready, bad, t, r
      <4> QED  BY <1>0, <4>1 DEF BlockQueueType, t
    <3>2. ready \in SUBSET Block /\ bad \in SUBSET Block
      BY <2>3, OrderlyIs
    <3>3. ready = ToSet(s.verified) \cup ToSet(s.unverified) \cup Blocks(Tail(y))
      BY <2>3, <2>5, <2>6
    <3>4. Behind(ToSet(s.verified), Blocks(Tail(y)), lost)
      BY <2>3, OrderlyIs DEF Behind
    <3>5. /\ ToSet(s.unknown) \cap ready = {} /\ bad \cap (ready \cup ToSet(s.unknown)) \subseteq lost
          /\ past \cap (ready \cup ToSet(s.unknown)) \subseteq lost
      BY <2>6, OrderlyIs
    <3>6. \A z \in ready : Parent(z) \in past \cup bad \cup ready \cup lost
      BY OrderlyIs
    <3>7. \A z \in ToSet(s.verified) : Parent(z) \notin bad \ lost
      BY <2>3, OrderlyIs DEF Behind
    <3>8. r.verifying = Tail(y) /\ r.knownBad = bad /\ r.ready = ready /\ r.unknown = s.unknown
      BY <3>1
    <3> HIDE DEF r, ready, bad
    <3>9. Orderly(r, past, lost)
      BY <1>0, <2>1, <2>3, <2>7, <3>1, <3>2, <3>3, <3>4, <3>5, <3>6, <3>7, OrderlyFrom
    <3>10. Shrinks(s, r)
      BY <2>4, <3>8 DEF Shrinks, Keeps, Gone, ready, bad
    <3> QED  BY <3>9, <3>10 DEF Drains, r
  <2>9. CASE Parent(x) \notin s.knownBad
    <3> DEFINE v == s.verified \o <<x>>
    <3>1. r = [ready |-> s.ready, knownBad |-> s.knownBad, unknown |-> s.unknown, unverified |-> s.unverified,
               verifying |-> Tail(y), verified |-> v]
      <4>1. Append(s.verified, x) = v
        BY <1>0, <2>3
      <4>2. r = [s EXCEPT !.verifying = Tail(y), !.verified = v]
        BY <1>2, <2>9, <4>1 DEF HandOn
      <4> DEFINE t == Tail(y)
      <4> HIDE DEF v, t, r
      <4> QED  BY <1>0, <4>2 DEF BlockQueueType, t
    <3>2. InLine(<<x>>, lost) /\ ToSet(<<x>>) = {x}
      BY <2>3, LineOfOne
    <3>3. ToSet(s.verified) \cap ToSet(<<x>>) = {} /\ \A z \in ToSet(s.verified) : Parent(z) \notin ToSet(<<x>>) \ lost
      BY <2>3, <2>6, <3>2, OrderlyIs DEF Behind
    <3>4. InLine(v, lost) /\ ToSet(v) = ToSet(s.verified) \cup {x}
      BY <3>2, <3>3, OrderlyIs, LinesJoined
    <3> HIDE DEF v
    <3>5. s.ready = ToSet(v) \cup ToSet(s.unverified) \cup Blocks(Tail(y))
      BY <2>3, <2>5, <3>4
    <3>6. Behind(ToSet(v), Blocks(Tail(y)), lost) /\ Behind(ToSet(v), ToSet(s.unverified), lost)
      <4>1. ToSet(v) \cap Blocks(Tail(y)) = {} /\ \A z \in ToSet(v) : Parent(z) \notin Blocks(Tail(y)) \ lost
        BY <1>0, <2>3, <3>4 DEF Behind
      <4>2. x \notin ToSet(s.unverified) /\ Parent(x) \notin ToSet(s.unverified) \ lost
        <5>1. Behind(Blocks(y), ToSet(s.unverified), lost)
          BY OrderlyIs
        <5> QED  BY <2>3, <5>1 DEF Behind
      <4>3. ToSet(v) \cap ToSet(s.unverified) = {} /\ \A z \in ToSet(v) : Parent(z) \notin ToSet(s.unverified) \ lost
        BY <1>0, <3>4, <4>2 DEF Behind
      <4> QED  BY <4>1, <4>3 DEF Behind
    <3>7. \A z \in ToSet(v) : Parent(z) \notin s.knownBad \ lost
      BY <2>9, <3>4, OrderlyIs
    <3>8. r.verifying = Tail(y) /\ r.knownBad = s.knownBad /\ r.ready = s.ready /\ r.unknown = s.unknown
      BY <3>1
    <3> HIDE DEF r
    <3>9. Orderly(r, past, lost)
      <4>1. ToSet(s.unknown) \cap s.ready = {} /\ s.knownBad \cap (s.ready \cup ToSet(s.unknown)) \subseteq lost
            /\ past \cap (s.ready \cup ToSet(s.unknown)) \subseteq lost
            /\ \A z \in s.ready : Parent(z) \in past \cup s.knownBad \cup s.ready \cup lost
        BY OrderlyIs
      <4> QED  BY <1>0, <2>1, <2>3, <2>7, <3>1, <3>4, <3>5, <3>6, <3>7, <4>1, OrderlyFrom
    <3>10. Shrinks(s, r)
      BY <2>4, <3>8 DEF Shrinks, Keeps, Gone
    <3> QED  BY <3>9, <3>10 DEF Drains, r
  <2> QED  BY <2>8, <2>9
<1> QED  BY <1>1, <1>2

\* So do those behind it.
DrainedFrom(p, r, k) == Drains(p[1], p[2], r, p[3])
HandingOn == INSTANCE FoldFacts WITH op <- HandOn, val <- LAMBDA p, x : x, Holds <- DrainedFrom

LEMMA VerifiedDrained ==
    ASSUME NEW lost, NEW s, NEW past, Orderly(s, past, lost)
    PROVE  Drains(s, past, DrainVerified(s), lost)
<1> DEFINE f == HandingOn!LeftFold(s, s.verifying)
           m == Len(s.verifying)
           p == <<s, past, lost>>
<1>1. DrainVerified(s) = f
  BY DEF DrainVerified, FoldLeft, MapThenFoldSet, Max, HandingOn!LeftFold, HandingOn!Turns, HandingOn!Highest
<1>2. m \in Nat /\ DOMAIN s.verifying = 1..m
  BY OrderlyIs
<1>3. p[1] = s /\ p[2] = past /\ p[3] = lost
  OBVIOUS
<1> HIDE DEF m, p
<1>4. DrainedFrom(p, s, 0)
  BY <1>3, ShrinksNot DEF DrainedFrom, Drains
<1>5. ASSUME NEW k \in Nat, NEW r, DrainedFrom(p, r, k), NEW e PROVE DrainedFrom(p, HandOn(r, e), k + 1)
  <2>1. Orderly(r, past, lost) /\ Shrinks(s, r)
    BY <1>3, <1>5 DEF DrainedFrom, Drains
  <2>2. Drains(r, past, HandOn(r, e), lost)
    BY <2>1, HandsOn
  <2>3. Orderly(HandOn(r, e), past, lost) /\ Shrinks(r, HandOn(r, e))
    BY <2>2 DEF Drains
  <2>4. Shrinks(s, HandOn(r, e))
    BY <2>1, <2>3, ShrinksOn
  <2> QED  BY <1>3, <2>3, <2>4 DEF DrainedFrom, Drains
<1>6. DrainedFrom(p, f, m)
  <2>1. \A k \in Nat : \A r : k < m /\ DrainedFrom(p, r, k) => DrainedFrom(p, HandOn(r, s.verifying[k + 1]), k + 1)
    BY <1>5
  <2> HIDE DEF DrainedFrom
  <2> QED  BY <1>2, <1>4, <2>1, HandingOn!LeftFoldHolds
<1> QED  BY <1>1, <1>3, <1>6 DEF DrainedFrom

\* A step of a verifier or of import().
Follows(past, r, D, lost) == Orderly(r, past, lost) /\ Keeps(queue, r, D)

\* A block whose parent is there gets ready, and with it what waits for it.
LEMMA ReadiedIs ==
    ASSUME NEW lost, NEW past, Orderly(queue, past, lost), NEW b, NEW f, WaitLine(b, f),
           b \notin queue.ready \cup ToSet(queue.unknown) \cup queue.knownBad \cup past,
           Parent(b) \in past \cup queue.ready
    PROVE  Follows(past, Readied(f), {}, lost)
<1> DEFINE s == queue
           r == Readied(f)
           F == ToSet(f)
           u == s.unverified \o f
           n == Without(s.unknown, F)
           ready == s.ready \cup F
<1>1. r = [ready |-> ready, knownBad |-> s.knownBad, unknown |-> n, unverified |-> u,
           verifying |-> s.verifying, verified |-> s.verified]
  <2>1. s \in BlockQueueType
    BY OrderlyIs
  <2>2. r = [s EXCEPT !.ready = ready, !.unverified = u, !.unknown = n]
    BY DEF Readied
  <2> HIDE DEF ready, u, n, r
  <2> QED  BY <2>1, <2>2 DEF BlockQueueType
<1>2. InLine(f, lost) /\ b \in F /\ \A x \in F : x = b \/ (x \in ToSet(s.unknown) /\ Parent(x) \in F)
  <2>1. InLine(f, {}) /\ {} \subseteq lost
    BY DEF WaitLine
  <2>2. InLine(f, lost)
    BY <2>1, InLineStill
  <2> QED  BY <2>2 DEF WaitLine
<1>3. F \subseteq Block
  BY <1>2 DEF InLine, ToSet
<1>4. n \in Seq(Block) /\ ToSet(n) = ToSet(s.unknown) \ F /\ IsInjective(n)
  <2>1. n \in Seq(Block) /\ ToSet(n) = ToSet(s.unknown) \ F /\ IsPart(n, s.unknown)
    BY OrderlyIs, WithoutIs
  <2> HIDE DEF n
  <2> QED  BY <2>1, OrderlyIs, PartInjective
<1> HIDE DEF F, n
<1>5. F \cap s.ready = {} /\ F \cap (s.knownBad \cup past) \subseteq lost
  BY <1>2, OrderlyIs
<1>6. \A x \in s.ready : Parent(x) \notin F \ lost
  BY <1>5, OrderlyIs
<1>7. InLine(u, lost) /\ ToSet(u) = ToSet(s.unverified) \cup F
  <2>1. ToSet(s.unverified) \subseteq s.ready
    BY OrderlyIs
  <2> QED  BY <1>2, <1>5, <1>6, <2>1, OrderlyIs, LinesJoined DEF F
<1> HIDE DEF u
<1>8. ready \in SUBSET Block /\ ready = ToSet(s.verified) \cup ToSet(u) \cup Blocks(s.verifying)
  BY <1>3, <1>7, OrderlyIs
<1>9. Behind(ToSet(s.verified), ToSet(u), lost) /\ Behind(Blocks(s.verifying), ToSet(u), lost)
  <2>1. /\ ToSet(s.verified) \subseteq s.ready /\ Blocks(s.verifying) \subseteq s.ready
        /\ Behind(ToSet(s.verified), ToSet(s.unverified), lost) /\ Behind(Blocks(s.verifying), ToSet(s.unverified), lost)
    BY OrderlyIs
  <2> QED  BY <1>5, <1>6, <1>7, <2>1 DEF Behind
<1>10. /\ ToSet(n) \cap ready = {} /\ s.knownBad \cap (ready \cup ToSet(n)) \subseteq lost
       /\ past \cap (ready \cup ToSet(n)) \subseteq lost
  BY <1>4, <1>5, OrderlyIs
<1>11. \A x \in ready : Parent(x) \in past \cup s.knownBad \cup ready \cup lost
  BY <1>2, OrderlyIs
<1>12. r.verifying = s.verifying /\ r.knownBad = s.knownBad /\ r.ready = ready /\ r.unknown = n
  BY <1>1
<1>14. \A c \in s.knownBad : c \notin s.ready \cup ToSet(s.unknown) => c \notin ready \cup ToSet(n)
  BY <1>2, <1>4
<1> HIDE DEF ready, r
<1>13. Orderly(r, past, lost)
  BY <1>1, <1>4, <1>7, <1>8, <1>9, <1>10, <1>11, OrderlyIs, OrderlyFrom
<1> QED  BY <1>12, <1>13, <1>14 DEF Follows, Keeps, Gone, r

\* A block whose parent is not there waits.
LEMMA WaitsIs ==
    ASSUME NEW lost, NEW past, Orderly(queue, past, lost), NEW b \in Block,
           b \notin queue.ready \cup ToSet(queue.unknown) \cup queue.knownBad \cup past
    PROVE  Follows(past, [queue EXCEPT !.unknown = Append(@, b)], {}, lost)
<1> DEFINE s == queue
           n == Append(s.unknown, b)
           r == [s EXCEPT !.unknown = n]
<1>1. r = [ready |-> s.ready, knownBad |-> s.knownBad, unknown |-> n, unverified |-> s.unverified,
           verifying |-> s.verifying, verified |-> s.verified]
  <2>1. s \in BlockQueueType
    BY OrderlyIs
  <2>2. r = [s EXCEPT !.unknown = n]
    OBVIOUS
  <2> HIDE DEF n, r
  <2> QED  BY <2>1, <2>2 DEF BlockQueueType
<1>2. /\ n \in Seq(Block) /\ Len(s.unknown) \in Nat /\ DOMAIN s.unknown = 1..Len(s.unknown) /\ DOMAIN n = 1..(Len(s.unknown) + 1)
      /\ n[Len(s.unknown) + 1] = b /\ \A i \in 1..Len(s.unknown) : n[i] = s.unknown[i]
  BY OrderlyIs
<1> HIDE DEF n
<1>3. ToSet(n) = ToSet(s.unknown) \cup {b}
  BY <1>2 DEF ToSet
<1>4. \A i \in 1..Len(s.unknown) : s.unknown[i] # b
  BY <1>2 DEF ToSet
<1>5. IsInjective(n)
  <2>1. \A i, j \in 1..Len(s.unknown) : s.unknown[i] = s.unknown[j] => i = j
    BY <1>2, OrderlyIs DEF IsInjective
  <2> SUFFICES ASSUME NEW i \in 1..(Len(s.unknown) + 1), NEW j \in 1..(Len(s.unknown) + 1), n[i] = n[j]
               PROVE  i = j
    BY <1>2 DEF IsInjective
  <2>2. /\ i \in 1..Len(s.unknown) \/ i = Len(s.unknown) + 1
        /\ j \in 1..Len(s.unknown) \/ j = Len(s.unknown) + 1
    BY <1>2
  <2> QED  BY <1>2, <1>4, <2>1, <2>2
<1>6. /\ ToSet(n) \cap s.ready = {} /\ s.knownBad \cap (s.ready \cup ToSet(n)) \subseteq lost
      /\ past \cap (s.ready \cup ToSet(n)) \subseteq lost
  BY <1>3, OrderlyIs
<1>7. r.verifying = s.verifying /\ r.knownBad = s.knownBad /\ r.ready = s.ready /\ r.unknown = n
  BY <1>1
<1> HIDE DEF r
<1>8. Orderly(r, past, lost)
  <2>1. /\ s.ready \in SUBSET Block /\ s.knownBad \in SUBSET Block /\ s.verifying \in Seq(Entry)
        /\ InLine(s.verified, lost) /\ InLine(s.unverified, lost) /\ InLine(Names(s.verifying), lost)
        /\ s.ready = ToSet(s.verified) \cup ToSet(s.unverified) \cup Blocks(s.verifying)
        /\ Behind(ToSet(s.verified), Blocks(s.verifying), lost) /\ Behind(ToSet(s.verified), ToSet(s.unverified), lost)
        /\ Behind(Blocks(s.verifying), ToSet(s.unverified), lost)
    BY OrderlyIs
  <2>2. /\ \A x \in s.ready : Parent(x) \in past \cup s.knownBad \cup s.ready \cup lost
        /\ \A x \in ToSet(s.verified) : Parent(x) \notin s.knownBad \ lost
    BY OrderlyIs
  <2> QED  BY <1>1, <1>2, <1>5, <1>6, <2>1, <2>2, OrderlyFrom
<1>9. Keeps(s, r, {})
  BY <1>3, <1>7 DEF Keeps, Gone
<1> QED  BY <1>8, <1>9 DEF Follows, r, n

\* A verifier takes a block: its place is behind those of the others.
LEMMA TakenIs ==
    ASSUME NEW lost, NEW past, Orderly(queue, past, lost), queue.unverified # <<>>
    PROVE  LET b == Head(queue.unverified)
               r == [queue EXCEPT !.unverified = Tail(@), !.verifying = Append(@, Placeholder(b))]
           IN  /\ Follows(past, r, {}, lost) /\ Placeholder(b) \in ToSet(r.verifying)
               /\ b \in queue.ready /\ b \notin Blocks(queue.verifying)
<1> DEFINE s == queue
           b == Head(s.unverified)
           w == Tail(s.unverified)
           y == Append(s.verifying, Placeholder(b))
           r == [s EXCEPT !.unverified = w, !.verifying = y]
           m == Len(s.verifying)
<1>0. /\ s \in BlockQueueType /\ s.unknown \in Seq(Block) /\ IsInjective(s.unknown) /\ s.verifying \in Seq(Entry)
      /\ InLine(s.verified, lost) /\ InLine(s.unverified, lost) /\ InLine(Names(s.verifying), lost)
      /\ Behind(ToSet(s.verified), ToSet(s.unverified), lost) /\ Behind(ToSet(s.verified), Blocks(s.verifying), lost)
      /\ Behind(Blocks(s.verifying), ToSet(s.unverified), lost)
      /\ s.ready \subseteq Block /\ s.knownBad \subseteq Block
      /\ s.ready = ToSet(s.verified) \cup ToSet(s.unverified) \cup Blocks(s.verifying)
  BY OrderlyIs
<1>1. Heads(s.unverified, b, w, lost)
  BY <1>0, HeadOfLine
<1>2. /\ b \in Block /\ ToSet(s.unverified) = {b} \cup ToSet(w) /\ b \notin ToSet(w) /\ InLine(w, lost)
      /\ Parent(b) \notin ToSet(s.unverified) \ lost
  BY <1>1 DEF Heads
<1>3. r = [ready |-> s.ready, knownBad |-> s.knownBad, unknown |-> s.unknown, unverified |-> w,
           verifying |-> y, verified |-> s.verified]
  <2>1. r = [s EXCEPT !.unverified = w, !.verifying = y]
    OBVIOUS
  <2> HIDE DEF w, y, r
  <2> QED  BY <1>0, <2>1 DEF BlockQueueType
<1> HIDE DEF b, w, r
<1>4. Placeholder(b) \in Entry /\ Placeholder(b).block = b
  BY <1>2 DEF Placeholder, Entry
<1>5. /\ y \in Seq(Entry) /\ m \in Nat /\ DOMAIN s.verifying = 1..m /\ Len(y) = m + 1 /\ DOMAIN y = 1..(m + 1)
      /\ y[m + 1] = Placeholder(b) /\ \A i \in 1..m : y[i] = s.verifying[i]
  BY <1>0, <1>4
<1> HIDE DEF y, m
<1>6. ToSet(y) = ToSet(s.verifying) \cup {Placeholder(b)}
  BY <1>5 DEF ToSet
<1>7. /\ Blocks(y) = {e.block : e \in ToSet(y)} /\ Blocks(s.verifying) = {e.block : e \in ToSet(s.verifying)}
      /\ Names(y) \in Seq(Block) /\ Len(Names(y)) = m + 1 /\ \A i \in 1..(m + 1) : Names(y)[i] = y[i].block
      /\ Names(s.verifying) \in Seq(Block) /\ Len(Names(s.verifying)) = m
      /\ \A i \in 1..m : Names(s.verifying)[i] = s.verifying[i].block
      /\ ToSet(Names(s.verifying)) = Blocks(s.verifying)
  BY <1>0, <1>5, NamesAre DEF m
<1>8. Blocks(y) = Blocks(s.verifying) \cup {b}
  BY <1>4, <1>6, <1>7
<1>9. Names(y) = Names(s.verifying) \o <<b>>
  <2> DEFINE p == Names(y)
             o == Names(s.verifying)
             t == o \o <<b>>
  <2>1. o \in Seq(Block) /\ Len(o) = m /\ <<b>> \in Seq(Block) /\ Len(<<b>>) = 1 /\ <<b>>[1] = b
    BY <1>2, <1>7
  <2> HIDE DEF o
  <2>2. t \in Seq(Block) /\ Len(t) = m + 1 /\ \A i \in 1..(m + 1) : t[i] = IF i <= m THEN o[i] ELSE <<b>>[i - m]
    BY <2>1, ConcatProperties
  <2> HIDE DEF t
  <2>3. ASSUME NEW i \in 1..(m + 1) PROVE p[i] = t[i]
    <3>1. CASE i <= m
      <4>1. i \in 1..m
        BY <1>5, <3>1
      <4> QED  BY <1>5, <1>7, <2>2, <3>1, <4>1 DEF o
    <3>2. CASE i = m + 1
      <4>1. ~(i <= m) /\ i - m = 1
        BY <1>5, <3>2
      <4> QED  BY <1>4, <1>5, <1>7, <2>1, <2>2, <3>2, <4>1
    <3> QED  BY <1>5, <3>1, <3>2
  <2>4. p \in Seq(Block) /\ Len(p) = m + 1
    BY <1>7
  <2> HIDE DEF p
  <2>5. p = t
    BY <2>2, <2>3, <2>4
  <2> QED  BY <2>5 DEF p, o, t
<1>10. b \notin Blocks(s.verifying) /\ \A x \in Blocks(s.verifying) : Parent(x) = b => b \in lost
  BY <1>0, <1>2 DEF Behind
<1>11. InLine(Names(y), lost)
  <2>1. InLine(<<b>>, lost) /\ ToSet(<<b>>) = {b}
    BY <1>2, LineOfOne
  <2>2. InLine(Names(s.verifying) \o <<b>>, lost)
    BY <1>0, <1>7, <1>10, <2>1, LinesJoined
  <2> QED  BY <1>9, <2>2
<1>12. Behind(ToSet(s.verified), Blocks(y), lost) /\ Behind(ToSet(s.verified), ToSet(w), lost) /\ Behind(Blocks(y), ToSet(w), lost)
  BY <1>0, <1>2, <1>8 DEF Behind
<1>13. s.ready = ToSet(s.verified) \cup ToSet(w) \cup Blocks(y)
  BY <1>0, <1>2, <1>8
<1>14. Orderly(r, past, lost)
  <2>1. /\ ToSet(s.unknown) \cap s.ready = {} /\ s.knownBad \cap (s.ready \cup ToSet(s.unknown)) \subseteq lost
        /\ past \cap (s.ready \cup ToSet(s.unknown)) \subseteq lost
        /\ \A x \in s.ready : Parent(x) \in past \cup s.knownBad \cup s.ready \cup lost
        /\ \A x \in ToSet(s.verified) : Parent(x) \notin s.knownBad \ lost
    BY OrderlyIs
  <2> QED  BY <1>0, <1>2, <1>3, <1>5, <1>11, <1>12, <1>13, <2>1, OrderlyFrom
<1>15. r.verifying = y /\ r.knownBad = s.knownBad /\ r.ready = s.ready /\ r.unknown = s.unknown
  BY <1>3
<1>16. b \in s.ready
  BY <1>0, <1>2
<1>17. Follows(past, r, {}, lost)
  BY <1>6, <1>14, <1>15 DEF Follows, Keeps, Gone
<1> QED  BY <1>6, <1>10, <1>15, <1>16, <1>17 DEF r, y, w, b

\* What is said of a block changes, its place does not.
LEMMA SameNames ==
    ASSUME NEW lost, NEW past, Orderly(queue, past, lost), NEW b, NEW y \in Seq(Entry), Len(y) = Len(queue.verifying),
           \A i \in 1..Len(y) : /\ y[i].block = queue.verifying[i].block
                                /\ queue.verifying[i].block # b => y[i] = queue.verifying[i]
    PROVE  Follows(past, [queue EXCEPT !.verifying = y], {b}, lost)
<1> DEFINE s == queue
           r == [s EXCEPT !.verifying = y]
           m == Len(y)
<1>0. /\ s \in BlockQueueType /\ s.unknown \in Seq(Block) /\ IsInjective(s.unknown) /\ s.verifying \in Seq(Entry)
      /\ InLine(s.verified, lost) /\ InLine(s.unverified, lost) /\ InLine(Names(s.verifying), lost)
      /\ Behind(ToSet(s.verified), ToSet(s.unverified), lost) /\ Behind(ToSet(s.verified), Blocks(s.verifying), lost)
      /\ Behind(Blocks(s.verifying), ToSet(s.unverified), lost)
      /\ s.ready \subseteq Block /\ s.knownBad \subseteq Block
      /\ s.ready = ToSet(s.verified) \cup ToSet(s.unverified) \cup Blocks(s.verifying)
  BY OrderlyIs
<1>1. r = [ready |-> s.ready, knownBad |-> s.knownBad, unknown |-> s.unknown, unverified |-> s.unverified,
           verifying |-> y, verified |-> s.verified]
  <2>1. r = [s EXCEPT !.verifying = y]
    OBVIOUS
  <2> HIDE DEF r
  <2> QED  BY <1>0, <2>1 DEF BlockQueueType
<1> HIDE DEF r
<1>2. m \in Nat /\ Len(s.verifying) = m /\ DOMAIN y = 1..m /\ DOMAIN s.verifying = 1..m
  BY <1>0
<1>3. Names(y) = Names(s.verifying)
  BY <1>2 DEF Names
<1>4. Blocks(y) = Blocks(s.verifying)
  BY <1>2 DEF Blocks
<1>5. Orderly(r, past, lost)
  <2>1. /\ ToSet(s.unknown) \cap s.ready = {} /\ s.knownBad \cap (s.ready \cup ToSet(s.unknown)) \subseteq lost
        /\ past \cap (s.ready \cup ToSet(s.unknown)) \subseteq lost
        /\ \A x \in s.ready : Parent(x) \in past \cup s.knownBad \cup s.ready \cup lost
        /\ \A x \in ToSet(s.verified) : Parent(x) \notin s.knownBad \ lost
    BY OrderlyIs
  <2> QED  BY <1>0, <1>1, <1>3, <1>4, <2>1, OrderlyFrom
<1>6. ASSUME NEW c \in Block \ {b}, Placeholder(c) \in ToSet(s.verifying) PROVE Placeholder(c) \in ToSet(y)
  <2>1. PICK i \in 1..m : s.verifying[i] = Placeholder(c)
    BY <1>2, <1>6 DEF ToSet
  <2>2. s.verifying[i].block # b
    BY <2>1 DEF Placeholder
  <2>3. y[i] = Placeholder(c)
    BY <2>1, <2>2
  <2> QED  BY <1>2, <2>3 DEF ToSet
<1>7. r.verifying = y /\ r.knownBad = s.knownBad /\ r.ready = s.ready /\ r.unknown = s.unknown
  BY <1>1
<1> QED  BY <1>5, <1>6, <1>7 DEF Follows, Keeps, Gone, r

\* A step of a verifier and what is handed on after it.
LEMMA GoesOn ==
    ASSUME NEW lost, NEW past, NEW r, NEW D, Follows(past, r, D, lost)
    PROVE  Follows(past, DrainVerified(r), D, lost)
<1>1. Orderly(r, past, lost) /\ Keeps(queue, r, D)
  BY DEF Follows
<1>2. Orderly(DrainVerified(r), past, lost) /\ Shrinks(r, DrainVerified(r))
  BY <1>1, VerifiedDrained DEF Drains
<1> QED  BY <1>1, <1>2, KeepsBoth DEF Follows, Shrinks

\* A block is verified.
LEMMA PassedIs ==
    ASSUME NEW lost, NEW past, Orderly(queue, past, lost), NEW b \in Block
    PROVE  Follows(past, Passed(b), {b}, lost)
<1> DEFINE y == queue.verifying
           n == Len(y)
           done == [block |-> b, done |-> TRUE]
<1>1. y \in Seq(Entry) /\ n \in Nat /\ DOMAIN y = 1..n /\ (\A i \in 1..n : y[i] \in Entry) /\ queue \in BlockQueueType
  <2>1. y \in Seq(Entry) /\ queue \in BlockQueueType
    BY OrderlyIs
  <2> QED  BY <2>1
<1>2. done \in Entry /\ done.block = b
  BY DEF Entry
<1>3. CASE y # <<>> /\ Head(y) = Placeholder(b)
  <2> DEFINE z == [y EXCEPT ![1].done = TRUE]
             r == [queue EXCEPT !.verifying = z]
  <2>1. [queue EXCEPT !.verifying[1].done = TRUE] = r
    OBVIOUS
  <2>2. 1 \in 1..n /\ y[1] = Placeholder(b)
    BY <1>1, <1>3
  <2>3. z = [i \in 1..n |-> IF i = 1 THEN [y[1] EXCEPT !.done = TRUE] ELSE y[i]]
    BY <1>1, <2>2
  <2>4. [y[1] EXCEPT !.done = TRUE] = done
    <3> DEFINE e == y[1]
    <3>1. e = [block |-> b, done |-> FALSE]
      BY <2>2 DEF Placeholder
    <3> HIDE DEF e
    <3>2. \A x, f, t : [[block |-> x, done |-> f] EXCEPT !.done = t] = [block |-> x, done |-> t]
      OBVIOUS
    <3>3. [e EXCEPT !.done = TRUE] = done
      BY <3>1, <3>2, Zenon
    <3> QED  BY <3>3 DEF e
  <2>5. \A i \in 1..n : z[i] = IF i = 1 THEN done ELSE y[i]
    BY <2>3, <2>4
  <2>6. z \in Seq(Entry) /\ Len(z) = n
    <3>1. z \in [1..n -> Entry]
      BY <1>1, <1>2, <2>3, <2>4
    <3> QED  BY <1>1, <3>1
  <2> HIDE DEF z
  <2>7. y[1].block = b
    BY <2>2 DEF Placeholder
  <2>8. Follows(past, r, {b}, lost)
    <3>1. \A i \in 1..Len(z) : z[i].block = y[i].block /\ (y[i].block # b => z[i] = y[i])
      BY <1>2, <2>5, <2>6, <2>7
    <3> QED  BY <2>6, <3>1, SameNames
  <2>9. Passed(b) = DrainVerified(r)
    BY <1>3, <2>1 DEF Passed
  <2> HIDE DEF r
  <2> QED  BY <2>8, <2>9, GoesOn
<1>4. CASE ~(y # <<>> /\ Head(y) = Placeholder(b))
  <2> DEFINE z == [i \in 1..n |-> IF y[i].block = b THEN done ELSE y[i]]
  <2>1. Passed(b) = [queue EXCEPT !.verifying = z]
    BY <1>1, <1>4 DEF Passed
  <2>2. z \in Seq(Entry) /\ Len(z) = n
    <3>1. z \in [1..n -> Entry]
      BY <1>1, <1>2
    <3> HIDE DEF z, n
    <3> QED  BY <1>1, <3>1
  <2>3. \A i \in 1..n : z[i] = IF y[i].block = b THEN done ELSE y[i]
    OBVIOUS
  <2> HIDE DEF z
  <2>4. Follows(past, [queue EXCEPT !.verifying = z], {b}, lost)
    BY <1>2, <2>2, <2>3, SameNames
  <2> QED  BY <2>1, <2>4
<1> QED  BY <1>3, <1>4

\* A block fails that has its place or is gone.
LEMMA FailedIs ==
    ASSUME NEW lost, NEW past, Orderly(queue, past, lost), NEW b \in Block,
           Placeholder(b) \in ToSet(queue.verifying) \/ Gone(queue, b)
    PROVE  Follows(past, Failed(b), {b}, lost)
<1> DEFINE s == queue
           y == Selected(s.verifying, LAMBDA e : e # Placeholder(b))
           ready == s.ready \ {b}
           bad == s.knownBad \cup {b}
           r == [s EXCEPT !.ready = ready, !.knownBad = bad, !.verifying = y]
<1>0. /\ s \in BlockQueueType /\ s.unknown \in Seq(Block) /\ IsInjective(s.unknown) /\ s.verifying \in Seq(Entry)
      /\ InLine(s.verified, lost) /\ InLine(s.unverified, lost) /\ InLine(Names(s.verifying), lost)
      /\ Behind(ToSet(s.verified), ToSet(s.unverified), lost) /\ Behind(ToSet(s.verified), Blocks(s.verifying), lost)
      /\ Behind(Blocks(s.verifying), ToSet(s.unverified), lost)
      /\ s.ready \subseteq Block /\ s.knownBad \subseteq Block
      /\ s.ready = ToSet(s.verified) \cup ToSet(s.unverified) \cup Blocks(s.verifying)
  BY OrderlyIs
<1>1. Failed(b) = DrainVerified(r)
  BY DEF Failed
<1>2. /\ y \in Seq(Entry) /\ InLine(Names(y), lost) /\ Blocks(y) \subseteq Blocks(s.verifying)
      /\ ToSet(y) = {e \in ToSet(s.verifying) : e # Placeholder(b)}
  <2>1. s.verifying \in Seq(Entry) /\ InLine(Names(s.verifying), lost)
    BY <1>0
  <2>2. y \in Seq(Entry) /\ IsPart(y, s.verifying) /\ ToSet(y) = {e \in ToSet(s.verifying) : e # Placeholder(b)}
    BY <2>1, EntriesBut
  <2> HIDE DEF y, s
  <2> QED  BY <2>1, <2>2, EntriesLeft
<1>3. r = [ready |-> ready, knownBad |-> bad, unknown |-> s.unknown, unverified |-> s.unverified,
           verifying |-> y, verified |-> s.verified]
  <2>1. r = [s EXCEPT !.ready = ready, !.knownBad = bad, !.verifying = y]
    OBVIOUS
  <2> HIDE DEF y, ready, bad, r
  <2> QED  BY <1>0, <2>1 DEF BlockQueueType
<1> HIDE DEF r, y
<1>4. Blocks(y) = {e.block : e \in ToSet(y)} /\ Blocks(s.verifying) = {e.block : e \in ToSet(s.verifying)}
  BY <1>0, <1>2, NamesAre
<1>5. Placeholder(b).block = b
  BY DEF Placeholder
<1>6. /\ ToSet(s.unknown) \cap s.ready = {} /\ s.knownBad \cap (s.ready \cup ToSet(s.unknown)) \subseteq lost
      /\ past \cap (s.ready \cup ToSet(s.unknown)) \subseteq lost
      /\ \A x \in s.ready : Parent(x) \in past \cup s.knownBad \cup s.ready \cup lost
      /\ \A x \in ToSet(s.verified) : Parent(x) \notin s.knownBad \ lost
  BY OrderlyIs
\* It leaves every queue.
<1>7. /\ Blocks(y) = Blocks(s.verifying) \ {b} /\ b \notin ToSet(s.verified) \cup ToSet(s.unverified) \cup ToSet(s.unknown)
      /\ \A x \in ToSet(s.verified) : Parent(x) = b => b \in lost
  <2>1. CASE Placeholder(b) \in ToSet(s.verifying)
    <3>1. b \in Blocks(s.verifying)
      BY <1>4, <1>5, <2>1
    <3>2. \A e \in ToSet(s.verifying) : e.block = b => e = Placeholder(b)
      BY <1>0, <1>5, <2>1, EntryOfBlock
    <3>3. Blocks(y) = Blocks(s.verifying) \ {b}
      BY <1>2, <1>4, <1>5, <3>2
    <3> QED  BY <1>0, <1>6, <3>1, <3>3 DEF Behind
  <2>2. CASE Gone(s, b)
    <3>1. b \in s.knownBad /\ b \notin s.ready /\ b \notin ToSet(s.unknown)
      BY <2>2 DEF Gone
    <3>2. Placeholder(b) \notin ToSet(s.verifying)
      BY <1>0, <1>4, <1>5, <3>1
    <3>3. ToSet(y) = ToSet(s.verifying)
      BY <1>2, <3>2
    <3> QED  BY <1>0, <1>4, <1>6, <3>1, <3>3
  <2> QED  BY <2>1, <2>2
<1>8. Orderly(r, past, lost)
  <2>1. ready \in SUBSET Block /\ bad \in SUBSET Block
    BY <1>0
  <2>2. ready = ToSet(s.verified) \cup ToSet(s.unverified) \cup Blocks(y)
    BY <1>0, <1>7
  <2>3. Behind(ToSet(s.verified), Blocks(y), lost) /\ Behind(Blocks(y), ToSet(s.unverified), lost)
    BY <1>0, <1>7 DEF Behind
  <2>4. /\ ToSet(s.unknown) \cap ready = {} /\ bad \cap (ready \cup ToSet(s.unknown)) \subseteq lost
        /\ past \cap (ready \cup ToSet(s.unknown)) \subseteq lost
    BY <1>6, <1>7
  <2>5. \A x \in ready : Parent(x) \in past \cup bad \cup ready \cup lost
    BY <1>6
  <2>6. \A x \in ToSet(s.verified) : Parent(x) \notin bad \ lost
    BY <1>6, <1>7
  <2> HIDE DEF ready, bad
  <2> QED  BY <1>0, <1>2, <1>3, <2>1, <2>2, <2>3, <2>4, <2>5, <2>6, OrderlyFrom
<1>9. Keeps(s, r, {b})
  <2>1. r.verifying = y /\ r.knownBad = bad /\ r.ready = ready /\ r.unknown = s.unknown
    BY <1>3
  <2>2. \A c \in Block \ {b} : Placeholder(c) # Placeholder(b)
    BY DEF Placeholder
  <2> QED  BY <1>2, <2>1, <2>2 DEF Keeps, Gone
<1>10. Follows(past, r, {b}, lost)
  BY <1>8, <1>9 DEF Follows
<1> QED  BY <1>1, <1>10, GoesOn DEF r

\* import() keeps the queues in order.
LEMMA Accepted ==
    ASSUME NEW lost, Orderly(queue, chain \cup draining, lost), draining \subseteq Block, future \in Seq(Block),
           NEW b \in Block, NEW ours, Accept(b, ours)
    PROVE  /\ Follows(chain \cup draining, queue', {}, lost) /\ future' \in Seq(Block)
           /\ UNCHANGED <<draining, work>>
<1> DEFINE past == chain \cup draining
<1>1. queue.unknown \in Seq(Block) /\ IsInjective(queue.unknown) /\ queue \in BlockQueueType
  BY OrderlyIs
<1>2. UNCHANGED <<draining, work>>
  BY DEF Accept
<1>3. Follows(past, queue, {}, lost)
  BY DEF Follows, Keeps
<1>4. CASE UNCHANGED queue
  <2>1. future' \in Seq(Block)
    BY DEF Accept
  <2> QED  BY <1>2, <1>3, <1>4, <2>1
<1>5. CASE b \notin Known \cup chain /\ UNCHANGED future /\ ~UNCHANGED queue
  <2>1. b \notin queue.ready \cup ToSet(queue.unknown) \cup queue.knownBad \cup past
    BY <1>5 DEF Known
  <2>2. \/ Parent(b) \in queue.knownBad /\ queue' = UpdateBad(b, queue)
        \/ queue' = [queue EXCEPT !.unknown = Append(@, b)]
        \/ Parent(b) \in queue.ready \cup draining \cup chain /\ queue' = Readied(<<b>> \o WaitingFor(b))
    BY <1>5 DEF Accept
  <2>3. CASE queue' = UpdateBad(b, queue)
    <3>1. Worse(queue, b, past, UpdateBad(b, queue), lost)
      BY <2>1, BadUpdated DEF Orderly
    <3> QED  BY <1>2, <1>5, <2>3, <3>1 DEF Worse, Shrinks, Follows
  <2>4. CASE queue' = [queue EXCEPT !.unknown = Append(@, b)]
    <3>1. Follows(past, [queue EXCEPT !.unknown = Append(@, b)], {}, lost)
      BY <2>1, WaitsIs
    <3> QED  BY <1>2, <1>5, <2>4, <3>1
  <2>5. CASE Parent(b) \in queue.ready \cup draining \cup chain /\ queue' = Readied(<<b>> \o WaitingFor(b))
    <3> DEFINE f == <<b>> \o WaitingFor(b)
    <3>1. WaitLine(b, f)
      BY <1>1, WaitingIs DEF UnknownIs
    <3> HIDE DEF f
    <3>2. Follows(past, Readied(f), {}, lost)
      BY <2>1, <2>5, <3>1, ReadiedIs
    <3> QED  BY <1>2, <1>5, <2>5, <3>2 DEF f
  <2> QED  BY <2>2, <2>3, <2>4, <2>5
<1> QED  BY <1>2, <1>4, <1>5 DEF Accept

\* What drain() takes is a line, whose first parents are not in the queues.
TakenFirst(a, D, r, lost) ==
    /\ InLine(a, lost) /\ D \subseteq Block
    /\ Follows(chain \cup D, r, {}, lost) /\ r.knownBad = queue.knownBad
    /\ D \cap (r.ready \cup ToSet(r.unknown)) = {}
    /\ \A x \in D : Parent(x) \in chain \cup queue.knownBad \cup D \cup lost

LEMMA DrainedIs ==
    ASSUME NEW lost, Orderly(queue, chain, lost), NEW n \in 0..Len(queue.verified), NEW D,
           D = ToSet(SubSeq(queue.verified, 1, n))
    PROVE  TakenFirst(SubSeq(queue.verified, 1, n), D,
                      [queue EXCEPT !.ready = @ \ D, !.verified = SubSeq(@, n + 1, Len(@))], lost)
<1> DEFINE s == queue
           a == SubSeq(s.verified, 1, n)
           c == SubSeq(s.verified, n + 1, Len(s.verified))
           ready == s.ready \ D
           r == [s EXCEPT !.ready = ready, !.verified = c]
<1>0. /\ s \in BlockQueueType /\ s.unknown \in Seq(Block) /\ IsInjective(s.unknown) /\ s.verifying \in Seq(Entry)
      /\ InLine(s.verified, lost) /\ InLine(s.unverified, lost) /\ InLine(Names(s.verifying), lost)
      /\ Behind(ToSet(s.verified), ToSet(s.unverified), lost) /\ Behind(ToSet(s.verified), Blocks(s.verifying), lost)
      /\ Behind(Blocks(s.verifying), ToSet(s.unverified), lost)
      /\ s.ready \subseteq Block /\ s.knownBad \subseteq Block
      /\ s.ready = ToSet(s.verified) \cup ToSet(s.unverified) \cup Blocks(s.verifying)
  BY OrderlyIs
<1>1. /\ InLine(a, lost) /\ InLine(c, lost) /\ ToSet(s.verified) = ToSet(a) \cup ToSet(c) /\ ToSet(a) \cap ToSet(c) = {}
      /\ \A x \in ToSet(a) : Parent(x) \notin ToSet(c) \ lost
  BY <1>0, LineParted
<1>2. D = ToSet(a)
  OBVIOUS
<1>3. r = [ready |-> ready, knownBad |-> s.knownBad, unknown |-> s.unknown, unverified |-> s.unverified,
           verifying |-> s.verifying, verified |-> c]
  <2>1. r = [s EXCEPT !.ready = ready, !.verified = c]
    OBVIOUS
  <2> HIDE DEF c, ready, r
  <2> QED  BY <1>0, <2>1 DEF BlockQueueType
<1> HIDE DEF a, c, r
<1>4. /\ ToSet(s.unknown) \cap s.ready = {} /\ s.knownBad \cap (s.ready \cup ToSet(s.unknown)) \subseteq lost
      /\ chain \cap (s.ready \cup ToSet(s.unknown)) \subseteq lost
      /\ \A x \in s.ready : Parent(x) \in chain \cup s.knownBad \cup s.ready \cup lost
      /\ \A x \in ToSet(s.verified) : Parent(x) \notin s.knownBad \ lost
  BY OrderlyIs
<1>5. D \subseteq s.ready /\ D \subseteq Block
  BY <1>0, <1>1, <1>2
<1>6. ready \in SUBSET Block /\ ready = ToSet(c) \cup ToSet(s.unverified) \cup Blocks(s.verifying)
  BY <1>0, <1>1, <1>2 DEF Behind
<1>7. Behind(ToSet(c), ToSet(s.unverified), lost) /\ Behind(ToSet(c), Blocks(s.verifying), lost)
  BY <1>0, <1>1 DEF Behind
<1>8. /\ ToSet(s.unknown) \cap ready = {} /\ s.knownBad \cap (ready \cup ToSet(s.unknown)) \subseteq lost
      /\ (chain \cup D) \cap (ready \cup ToSet(s.unknown)) \subseteq lost /\ D \cap (ready \cup ToSet(s.unknown)) = {}
      /\ \A x \in ready : Parent(x) \in (chain \cup D) \cup s.knownBad \cup ready \cup lost
      /\ \A x \in ToSet(c) : Parent(x) \notin s.knownBad \ lost
  BY <1>1, <1>4, <1>5
<1>9. \A x \in D : Parent(x) \in chain \cup s.knownBad \cup D \cup lost
  <2> SUFFICES ASSUME NEW x \in D PROVE Parent(x) \in chain \cup s.knownBad \cup D \cup lost
    OBVIOUS
  <2>1. x \in s.ready /\ x \in ToSet(s.verified) /\ Parent(x) \notin ToSet(c) \ lost
    BY <1>1, <1>2, <1>5
  <2>2. Parent(x) \notin ToSet(s.unverified) \ lost /\ Parent(x) \notin Blocks(s.verifying) \ lost
    BY <1>0, <2>1 DEF Behind
  <2>3. Parent(x) \in chain \cup s.knownBad \cup s.ready \cup lost
    BY <1>4, <2>1
  <2> QED  BY <1>6, <2>1, <2>2, <2>3
<1>10. Orderly(r, chain \cup D, lost)
  <2> DEFINE past == chain \cup D
  <2> HIDE DEF ready, past
  <2>1. /\ past \cap (ready \cup ToSet(s.unknown)) \subseteq lost
        /\ \A x \in ready : Parent(x) \in past \cup s.knownBad \cup ready \cup lost
    BY <1>8 DEF past
  <2>2. Orderly(r, past, lost)
    BY <1>0, <1>1, <1>3, <1>6, <1>7, <1>8, <2>1, OrderlyFrom
  <2> QED  BY <2>2 DEF past
<1>11. r.verifying = s.verifying /\ r.knownBad = s.knownBad /\ r.ready = ready /\ r.unknown = s.unknown
  BY <1>3
<1>13. Keeps(s, r, {})
  BY <1>11 DEF Keeps, Gone
<1>12. TakenFirst(a, D, r, lost)
  BY <1>1, <1>5, <1>8, <1>9, <1>10, <1>11, <1>13 DEF TakenFirst, Follows
<1> QED  BY <1>12 DEF a, c, r

\* One bad block after the other.
Worsens(p, r, D) ==
    /\ Sound(r, p[4]) /\ Attached(r, p[2], p[4]) /\ Shrinks(p[1], r)
    /\ p[3] = {} \/ D # {} => Unspoiled(r, p[4])
Worsening == INSTANCE FoldFacts WITH op <- UpdateBad, val <- LAMBDA p, x : x, Holds <- Worsens

LEMMA AllUpdated ==
    ASSUME NEW lost, NEW past, Orderly(queue, past, lost), NEW D \in SUBSET Block, IsFiniteSet(D),
           D \cap (queue.ready \cup ToSet(queue.unknown)) \subseteq lost
    PROVE  Follows(past, UpdateAll(queue, D), {}, lost) /\ D \subseteq UpdateAll(queue, D).knownBad
<1> DEFINE base == [queue EXCEPT !.knownBad = @ \cup D]
           p == <<base, past, D, lost>>
           f == Worsening!SetFold(p, base, D)
<1>1. UpdateAll(queue, D) = f
  BY DEF UpdateAll, FoldSet, MapThenFoldSet, Worsening!SetFold, Worsening!SetTurns, Worsening!Chosen
<1>2. p[1] = base /\ p[2] = past /\ p[3] = D /\ p[4] = lost
  OBVIOUS
<1>3. base = [ready |-> queue.ready, knownBad |-> queue.knownBad \cup D, unknown |-> queue.unknown,
              unverified |-> queue.unverified, verifying |-> queue.verifying, verified |-> queue.verified]
  <2> DEFINE bad == queue.knownBad \cup D
  <2>1. queue \in BlockQueueType
    BY OrderlyIs
  <2>2. base = [queue EXCEPT !.knownBad = bad]
    OBVIOUS
  <2> HIDE DEF base, bad
  <2>3. base = [ready |-> queue.ready, knownBad |-> bad, unknown |-> queue.unknown,
                unverified |-> queue.unverified, verifying |-> queue.verifying, verified |-> queue.verified]
    BY <2>1, <2>2 DEF BlockQueueType
  <2> QED  BY <2>3 DEF bad
<1>4. /\ base.ready = queue.ready /\ base.knownBad = queue.knownBad \cup D /\ base.unknown = queue.unknown
      /\ base.unverified = queue.unverified /\ base.verifying = queue.verifying /\ base.verified = queue.verified
  BY <1>3
<1>5. base \in BlockQueueType
  <2>1. queue \in BlockQueueType
    BY OrderlyIs
  <2> HIDE DEF base
  <2> QED  BY <1>3, <2>1 DEF BlockQueueType
<1> HIDE DEF base, p, f
<1>6. Sound(base, lost)
  <2>1. Sound(queue, lost)
    BY DEF Orderly
  <2>2. base.knownBad \cap (base.ready \cup ToSet(base.unknown)) \subseteq lost
    BY <1>4, <2>1 DEF Sound
  <2>3. Queued(base) = Queued(queue)
    BY <1>4 DEF Queued
  <2> QED  BY <1>4, <1>5, <2>1, <2>2, <2>3 DEF Sound
<1>7. Attached(base, past, lost)
  BY <1>4 DEF Orderly, Attached
<1>8. D = {} => Unspoiled(base, lost)
  <2> SUFFICES ASSUME D = {} PROVE Unspoiled(base, lost)
    OBVIOUS
  <2>1. base.knownBad = queue.knownBad
    BY <1>4
  <2> QED  BY <1>4, <2>1 DEF Orderly, Unspoiled
<1>9. Worsens(p, base, {})
  BY <1>2, <1>6, <1>7, <1>8, ShrinksNot DEF Worsens
<1>10. ASSUME NEW E \in SUBSET D, NEW b \in D, NEW r, Worsens(p, r, E) PROVE Worsens(p, UpdateBad(b, r), E \cup {b})
  <2>1. Sound(r, lost) /\ Attached(r, past, lost) /\ Shrinks(base, r)
    BY <1>2, <1>10 DEF Worsens
  <2>2. b \in r.ready \cup ToSet(r.unknown) => b \in lost
    <3>1. r.ready \subseteq queue.ready /\ ToSet(r.unknown) \subseteq ToSet(queue.unknown)
      BY <1>4, <2>1 DEF Shrinks
    <3> QED  BY <3>1
  <2>3. Worse(r, b, past, UpdateBad(b, r), lost)
    BY <2>1, <2>2, BadUpdated
  <2> QED  BY <1>2, <2>1, <2>3, ShrinksOn DEF Worse, Orderly, Worsens
<1>11. Worsens(p, f, D)
  <2>1. \A E \in SUBSET D : \A e \in D : \A x : Worsens(p, x, E) => Worsens(p, UpdateBad(e, x), E \cup {e})
    BY <1>10
  <2>2. Worsening!IsFiniteSet(D)
    BY DEF IsFiniteSet, Worsening!IsFiniteSet
  <2> HIDE DEF Worsens
  <2> QED  BY <1>9, <2>1, <2>2, Worsening!SetFoldHolds DEF f
<1>12. Sound(f, lost) /\ Attached(f, past, lost) /\ Shrinks(base, f) /\ Unspoiled(f, lost)
  BY <1>2, <1>11 DEF Worsens
<1>13. Keeps(queue, base, {}) /\ Keeps(base, f, {})
  BY <1>4, <1>12 DEF Keeps, Gone, Shrinks
<1>14. Keeps(queue, f, {})
  BY <1>13, KeepsBoth
<1> QED  BY <1>1, <1>4, <1>12, <1>14 DEF Follows, Orderly, Shrinks, Keeps
-----------------------------------------------------------------------------
\* What the verifiers are at.
AtWork ==
    /\ work \in [Verifier -> Block \cup {NoBlock}]
    /\ \A v \in Verifier : work[v] # NoBlock =>
           Placeholder(work[v]) \in ToSet(queue.verifying) \/ Gone(queue, work[v])
    /\ \A v, w \in Verifier : v # w /\ work[v] # NoBlock => work[v] # work[w]

\* What sync() has drained is in the chain, has failed, has strayed, or is still to
\* come, in its order.
InSync ==
    /\ draining \subseteq Block /\ failed \subseteq Block /\ strayed \subseteq Block /\ IsFiniteSet(failed)
    /\ InLine(batch, strayed) /\ failed \cup ToSet(batch) \subseteq draining \cup strayed
    /\ draining \subseteq chain \cup failed \cup ToSet(batch) \cup strayed
    /\ \A x \in ToSet(batch) : Parent(x) \in chain \cup queue.knownBad \cup failed \cup ToSet(batch) \cup strayed
    /\ ~syncing => draining = {} /\ failed = {} /\ batch = <<>>

BlockQueueInv ==
    /\ Orderly(queue, chain \cup draining, strayed)
    /\ AtWork /\ InSync
    /\ future \in Seq(Block) /\ todo \in Seq(Block)

LEMMA BlockQueueInitInv == BlockQueueInit => BlockQueueInv
<1> SUFFICES ASSUME BlockQueueInit PROVE BlockQueueInv
  OBVIOUS
<1>1. <<>> \in Seq(Block) /\ <<>> \in Seq(Entry) /\ DOMAIN <<>> = {}
  OBVIOUS
<1>2. InLine(<<>>, strayed) /\ ToSet(<<>>) = {} /\ IsInjective(<<>>)
  BY <1>1 DEF InLine, IsInjective, Rising, ToSet
<1>3. Names(<<>>) = <<>> /\ Blocks(<<>>) = {}
  BY <1>1 DEF Names, Blocks
<1>4. queue = [ready |-> {}, knownBad |-> {}, unknown |-> <<>>, unverified |-> <<>>, verifying |-> <<>>, verified |-> <<>>]
  BY DEF BlockQueueInit, NothingQueued
<1>5. Orderly(queue, chain \cup draining, strayed)
  <2>1. Behind({}, {}, strayed)
    BY DEF Behind
  <2> QED  BY <1>1, <1>2, <1>3, <1>4, <2>1, OrderlyFrom
<1>6. AtWork
  BY DEF BlockQueueInit, AtWork
<1>7. IsFiniteSet({})
  BY FS_EmptySet
<1>8. InSync
  BY <1>2, <1>7 DEF BlockQueueInit, InSync
<1> QED  BY <1>1, <1>5, <1>6, <1>8 DEF BlockQueueInv, BlockQueueInit

\* A step by which nothing that a verifier is at is lost, and nothing it takes is another's.
LEMMA AtWorkStill ==
    ASSUME AtWork, Keeps(queue, queue', {}), UNCHANGED work
    PROVE  AtWork'
<1>1. /\ \A v \in Verifier : work[v] # NoBlock => work[v] \in Block
      /\ work' = work
  BY DEF AtWork
<1>2. \A v \in Verifier : work[v] # NoBlock => Placeholder(work[v]) \in ToSet(queue'.verifying) \/ Gone(queue', work[v])
  BY <1>1 DEF AtWork, Keeps
<1> QED  BY <1>1, <1>2 DEF AtWork, Placeholder

\* A step that leaves the drained blocks alone and forgets no bad one.
LEMMA InSyncStill ==
    ASSUME InSync, queue.knownBad \subseteq queue'.knownBad, UNCHANGED <<draining, syncVars>>
    PROVE  InSync'
<1>1. /\ UNCHANGED <<draining, failed, batch, chain, syncing, strayed>>
      /\ \A x \in ToSet(batch) : Parent(x) \in chain \cup queue'.knownBad \cup failed \cup ToSet(batch) \cup strayed
  BY DEF InSync, syncVars
<1> QED  BY <1>1 DEF InSync

\* sync() loses sight of more.
LEMMA OrderlyStill ==
    ASSUME NEW s, NEW past, NEW lost, Orderly(s, past, lost), NEW more, lost \subseteq more
    PROVE  Orderly(s, past, more)
<1>1. Sound(s, more)
  <2>1. /\ InLine(s.verified, more) /\ InLine(s.unverified, more) /\ InLine(Names(s.verifying), more)
    BY OrderlyIs, InLineStill
  <2>2. /\ Behind(ToSet(s.verified), Blocks(s.verifying), more) /\ Behind(ToSet(s.verified), ToSet(s.unverified), more)
        /\ Behind(Blocks(s.verifying), ToSet(s.unverified), more)
    BY DEF Orderly, Sound, ThreeLines, Behind
  <2>3. ThreeLines(s.verified, s.verifying, s.unverified, more)
    BY <2>1, <2>2 DEF Orderly, Sound, ThreeLines
  <2> QED  BY <2>3 DEF Orderly, Sound
<1>2. Attached(s, past, more)
  BY DEF Orderly, Attached
<1>3. Unspoiled(s, more)
  BY DEF Orderly, Unspoiled, Spoiled
<1> QED  BY <1>1, <1>2, <1>3 DEF Orderly

LEMMA BlockQueueStep == ~ClearBusy /\ BlockQueueInv /\ [BlockQueueNext]_bqVars => BlockQueueInv'
<1> SUFFICES ASSUME ~ClearBusy, BlockQueueInv, [BlockQueueNext]_bqVars PROVE BlockQueueInv'
  OBVIOUS
<1> DEFINE past == chain \cup draining
<1>0. Orderly(queue, past, strayed) /\ AtWork /\ InSync /\ future \in Seq(Block) /\ todo \in Seq(Block) /\ draining \subseteq Block
  BY DEF BlockQueueInv, InSync
\* A step of import().
<1>1. ASSUME NEW b \in Block, NEW ours, Accept(b, ours), UNCHANGED syncVars
      PROVE  Orderly(queue, past, strayed)' /\ AtWork' /\ InSync' /\ future' \in Seq(Block)
  <2>1. Follows(past, queue', {}, strayed) /\ future' \in Seq(Block) /\ UNCHANGED <<draining, work>>
    BY <1>0, <1>1, Accepted
  <2>2. past' = past /\ strayed' = strayed
    BY <1>1, <2>1 DEF syncVars
  <2>3. AtWork'
    BY <1>0, <2>1, AtWorkStill DEF Follows
  <2>4. InSync'
    BY <1>0, <1>1, <2>1, InSyncStill DEF Follows, Keeps
  <2> QED  BY <2>1, <2>2, <2>3, <2>4 DEF Follows
<1>2. ASSUME NEW b \in Block, NEW ours \in BOOLEAN, Import(b, ours) PROVE BlockQueueInv'
  <2>1. Accept(b, ours) /\ UNCHANGED syncVars /\ UNCHANGED todo
    BY <1>2 DEF Import
  <2> QED  BY <1>0, <1>1, <2>1 DEF BlockQueueInv
<1>3. ASSUME TimeComes PROVE BlockQueueInv'
  <2>1. UNCHANGED <<queue, draining, future, work, chain, batch, failed, syncing, strayed, todo>>
    BY <1>3 DEF TimeComes, setVars, syncVars
  <2> QED  BY <1>0, <2>1 DEF BlockQueueInv, AtWork, InSync
<1>4. ASSUME Tick PROVE BlockQueueInv'
  <2>1. UNCHANGED <<queue, draining, work, chain, batch, failed, syncing, strayed>> /\ todo' = future /\ future' = <<>>
    BY <1>4 DEF Tick, syncVars
  <2> QED  BY <1>0, <2>1 DEF BlockQueueInv, AtWork, InSync
<1>5. ASSUME ImportPastFuture PROVE BlockQueueInv'
  <2>1. Head(todo) \in Block /\ Tail(todo) \in Seq(Block)
    BY <1>0, <1>5 DEF ImportPastFuture
  <2>2. Accept(Head(todo), FALSE) /\ UNCHANGED syncVars /\ todo' = Tail(todo)
    BY <1>5 DEF ImportPastFuture
  <2> QED  BY <1>0, <1>1, <2>1, <2>2 DEF BlockQueueInv
<1>6. ASSUME NEW v \in Verifier, Take(v) PROVE BlockQueueInv'
  <2> DEFINE b == Head(queue.unverified)
             r == [queue EXCEPT !.unverified = Tail(@), !.verifying = Append(@, Placeholder(b))]
  <2>1. /\ work[v] = NoBlock /\ queue.unverified # <<>> /\ work' = [work EXCEPT ![v] = b] /\ queue' = r
        /\ UNCHANGED <<draining, future, syncVars, timeVars>>
    BY <1>6 DEF Take
  <2>2. /\ Follows(past, r, {}, strayed) /\ Placeholder(b) \in ToSet(r.verifying)
        /\ b \in queue.ready /\ b \notin Blocks(queue.verifying)
    BY <1>0, <2>1, TakenIs
  <2> HIDE DEF b, r
  <2>3. b \in Block /\ ~Gone(queue, b)
    BY <1>0, <2>2, OrderlyIs DEF Gone
  <2>4. \A c : Placeholder(c) \in ToSet(queue.verifying) => c \in Blocks(queue.verifying)
    BY DEF Placeholder, ToSet, Blocks
  <2>5. AtWork'
    <3>1. \A w \in Verifier : work[w] # NoBlock => work[w] # b
      BY <1>0, <2>2, <2>3, <2>4 DEF AtWork
    <3>2. \A w \in Verifier : work'[w] = IF w = v THEN b ELSE work[w]
      BY <1>0, <2>1 DEF AtWork
    <3>3. work' \in [Verifier -> Block \cup {NoBlock}]
      BY <1>0, <2>1, <2>3 DEF AtWork
    <3>4. \A w \in Verifier : work'[w] # NoBlock =>
             Placeholder(work'[w]) \in ToSet(queue'.verifying) \/ Gone(queue', work'[w])
      BY <1>0, <2>1, <2>2, <3>2 DEF AtWork, Follows, Keeps
    <3>5. \A w, x \in Verifier : w # x /\ work'[w] # NoBlock => work'[w] # work'[x]
      BY <1>0, <2>1, <3>1, <3>2 DEF AtWork
    <3>6. \A c : Placeholder(c)' = Placeholder(c')
      BY DEF Placeholder
    <3> QED  BY <3>3, <3>4, <3>5 DEF AtWork, Placeholder
  <2>6. InSync'
    BY <1>0, <2>1, <2>2, InSyncStill DEF Follows, Keeps
  <2>7. UNCHANGED <<chain, draining, strayed, future, todo>>
    BY <2>1 DEF syncVars, timeVars
  <2> QED  BY <1>0, <2>1, <2>2, <2>5, <2>6, <2>7 DEF BlockQueueInv, Follows
<1>7. ASSUME NEW v \in Verifier, Verify(v) PROVE BlockQueueInv'
  <2> DEFINE b == work[v]
  <2>1. /\ b # NoBlock /\ queue' = (IF b \in Invalid THEN Failed(b) ELSE Passed(b)) /\ work' = [work EXCEPT ![v] = NoBlock]
        /\ UNCHANGED <<draining, future, syncVars, timeVars>>
    BY <1>7 DEF Verify
  <2>2. b \in Block /\ (Placeholder(b) \in ToSet(queue.verifying) \/ Gone(queue, b))
    BY <1>0, <2>1 DEF AtWork
  <2>3. \A w \in Verifier : w # v /\ work[w] # NoBlock => work[w] # b /\ work[w] \in Block
    BY <1>0 DEF AtWork
  <2>4. \A w \in Verifier : work'[w] = IF w = v THEN NoBlock ELSE work[w]
    BY <1>0, <2>1 DEF AtWork
  <2> HIDE DEF b
  <2>5. Follows(past, queue', {b}, strayed)
    BY <1>0, <2>1, <2>2, FailedIs, PassedIs
  <2>6. AtWork'
    <3>1. work' \in [Verifier -> Block \cup {NoBlock}]
      BY <1>0, <2>1 DEF AtWork
    <3>2. \A w \in Verifier : work'[w] # NoBlock =>
             Placeholder(work'[w]) \in ToSet(queue'.verifying) \/ Gone(queue', work'[w])
      BY <1>0, <2>3, <2>4, <2>5 DEF AtWork, Follows, Keeps
    <3>3. \A w, x \in Verifier : w # x /\ work'[w] # NoBlock => work'[w] # work'[x]
      BY <1>0, <2>4 DEF AtWork
    <3> QED  BY <3>1, <3>2, <3>3 DEF AtWork, Placeholder
  <2>7. InSync'
    BY <1>0, <2>1, <2>5, InSyncStill DEF Follows, Keeps
  <2>8. UNCHANGED <<chain, draining, strayed, future, todo>>
    BY <2>1 DEF syncVars, timeVars
  <2> QED  BY <1>0, <2>5, <2>6, <2>7, <2>8 DEF BlockQueueInv, Follows
<1>8. ASSUME Drain PROVE BlockQueueInv'
  <2> DEFINE n == Min({MaxDrain, Len(queue.verified)})
  <2>1. /\ ~syncing /\ n > 0 /\ syncing' = TRUE
        /\ batch' = SubSeq(queue.verified, 1, n)
        /\ draining' = ToSet(batch')
        /\ queue' = [queue EXCEPT !.ready = @ \ draining', !.verified = SubSeq(@, n + 1, Len(@))]
        /\ UNCHANGED <<future, work, chain, failed, strayed, timeVars>>
    BY <1>8 DEF Drain
  <2>2. n \in 0..Len(queue.verified)
    <3>1. Len(queue.verified) \in Nat
      BY <1>0, OrderlyIs
    <3>2. n = CHOOSE x \in {MaxDrain, Len(queue.verified)} : \A y \in {MaxDrain, Len(queue.verified)} : x <= y
      BY DEF Min
    <3> DEFINE l == Len(queue.verified)
    <3>3. MaxDrain \in Nat
      BY BlockQueueAssumption
    <3>4. \E x \in {MaxDrain, l} : \A y \in {MaxDrain, l} : x <= y
      <4> HIDE DEF l
      <4>1. l \in Nat
        BY <3>1 DEF l
      <4> QED  BY <3>3, <4>1
    <3>5. n \in {MaxDrain, l} /\ \A y \in {MaxDrain, l} : n <= y
      BY <3>2, <3>4
    <3> HIDE DEF n, l
    <3> QED  BY <3>1, <3>3, <3>5 DEF l
  <2> HIDE DEF n
  <2>3. draining = {} /\ failed = {} /\ IsFiniteSet(failed)
    BY <1>0, <2>1 DEF InSync
  <2> DEFINE D == draining'
             r == [queue EXCEPT !.ready = @ \ D, !.verified = SubSeq(@, n + 1, Len(@))]
  <2>4. past = chain /\ D = ToSet(SubSeq(queue.verified, 1, n)) /\ queue' = r
    BY <2>1, <2>3
  <2> HIDE DEF D
  <2>5. /\ InLine(batch', strayed) /\ D \subseteq Block /\ Follows(chain \cup D, r, {}, strayed) /\ r.knownBad = queue.knownBad
        /\ \A x \in D : Parent(x) \in chain \cup queue.knownBad \cup D \cup strayed
    <3>1. Orderly(queue, chain, strayed)
      BY <1>0, <2>4
    <3> DEFINE a == SubSeq(queue.verified, 1, n)
    <3>2. batch' = a /\ D = ToSet(a)
      BY <2>1, <2>4
    <3>3. TakenFirst(a, D, r, strayed)
      BY <2>2, <3>1, <3>2, DrainedIs
    <3> HIDE DEF a, r
    <3> QED  BY <3>2, <3>3 DEF TakenFirst
  <2> HIDE DEF r
  <2>6. AtWork'
    BY <1>0, <2>1, <2>4, <2>5, AtWorkStill DEF Follows
  <2>7. InSync'
    <3>1. strayed \subseteq Block
      BY <1>0 DEF InSync
    <3> QED  BY <2>1, <2>3, <2>4, <2>5, <3>1 DEF InSync, D
  <2>8. Orderly(queue, past, strayed)'
    BY <2>1, <2>4, <2>5 DEF Follows, D
  <2> QED  BY <1>0, <2>1, <2>6, <2>7, <2>8 DEF BlockQueueInv, timeVars
<1>9. ASSUME SyncOne PROVE BlockQueueInv'
  <2> DEFINE b == Head(batch)
             t == Tail(batch)
  <2>1. /\ batch # <<>> /\ batch' = t /\ UNCHANGED <<setVars, work, syncing, timeVars>>
        /\ \/ b \in chain /\ UNCHANGED <<chain, failed, strayed>>
           \/ failed' = failed \cup {b} /\ UNCHANGED <<chain, strayed>>
           \/ strayed' = strayed \cup {b} /\ UNCHANGED <<chain, failed>>
           \/ chain' = chain \cup {b} /\ UNCHANGED <<failed, strayed>>
    BY <1>9 DEF SyncOne
  <2>2. Heads(batch, b, t, strayed)
    BY <1>0, <2>1, HeadOfLine DEF InSync
  <2> HIDE DEF b, t
  <2>3. b \in Block /\ ToSet(batch) = {b} \cup ToSet(t) /\ InLine(t, strayed)
    BY <2>2 DEF Heads
  <2>4. /\ b \in chain' \cup failed' \cup strayed'
        /\ chain \subseteq chain' /\ chain' \subseteq chain \cup {b}
        /\ failed \subseteq failed' /\ failed' \subseteq failed \cup {b} /\ IsFiniteSet(failed')
        /\ strayed \subseteq strayed' /\ strayed' \subseteq strayed \cup {b}
    <3>1. IsFiniteSet(failed) /\ IsFiniteSet(failed \cup {b})
      BY <1>0, FS_AddElement DEF InSync
    <3> QED  BY <2>1, <3>1
  <2>5. UNCHANGED <<queue, draining, future, work, syncing, todo>>
    BY <2>1 DEF setVars, timeVars
  <2>6. /\ failed \subseteq Block /\ strayed \subseteq Block /\ failed \cup ToSet(batch) \subseteq draining \cup strayed
        /\ draining \subseteq chain \cup failed \cup ToSet(batch) \cup strayed
        /\ \A x \in ToSet(batch) : Parent(x) \in chain \cup queue.knownBad \cup failed \cup ToSet(batch) \cup strayed
        /\ syncing
    BY <1>0, <2>1 DEF InSync
  <2>7. InSync'
    <3>1. /\ failed' \subseteq Block /\ strayed' \subseteq Block
          /\ failed' \cup ToSet(batch') \subseteq draining' \cup strayed'
          /\ draining' \subseteq chain' \cup failed' \cup ToSet(batch') \cup strayed'
      BY <2>1, <2>3, <2>4, <2>5, <2>6
    <3>2. \A x \in ToSet(batch') : Parent(x) \in chain' \cup queue'.knownBad \cup failed' \cup ToSet(batch') \cup strayed'
      BY <2>1, <2>3, <2>4, <2>5, <2>6
    <3>3. InLine(batch', strayed')
      BY <2>1, <2>3, <2>4, InLineStill
    <3> QED  BY <1>0, <2>4, <2>5, <2>6, <3>1, <3>2, <3>3 DEF InSync
  <2>8. Orderly(queue, past, strayed)'
    <3> DEFINE p == chain' \cup draining
    <3>1. Orderly(queue, past, strayed')
      BY <1>0, <2>4, OrderlyStill
    <3>2. p \cap (queue.ready \cup ToSet(queue.unknown)) \subseteq strayed'
      <4>1. b \in past \cup strayed
        BY <2>3, <2>6
      <4> QED  BY <2>4, <3>1, <4>1 DEF Orderly, Attached
    <3>3. \A x \in queue.ready : Parent(x) \in p \cup queue.knownBad \cup queue.ready \cup strayed'
      BY <2>4, <3>1 DEF Orderly, Attached
    <3>4. Orderly(queue, p, strayed')
      BY <3>1, <3>2, <3>3 DEF Orderly, Attached
    <3> QED  BY <2>5, <3>4
  <2>9. AtWork'
    BY <1>0, <2>5 DEF AtWork
  <2> QED  BY <1>0, <2>5, <2>7, <2>8, <2>9 DEF BlockQueueInv
<1>10. ASSUME DoneDrain PROVE BlockQueueInv'
  <2>1. /\ batch = <<>> /\ draining' = {} /\ failed' = {} /\ queue' = UpdateAll(queue, failed)
        /\ UNCHANGED <<future, work, chain, batch, strayed, timeVars>>
    BY <1>10 DEF DoneDrain
  <2>2. ToSet(batch) = {}
    BY <2>1 DEF ToSet
  <2>3. /\ failed \in SUBSET Block /\ strayed \subseteq Block /\ failed \subseteq draining \cup strayed /\ IsFiniteSet(failed)
        /\ draining \subseteq chain \cup failed \cup strayed /\ InLine(batch, strayed)
    BY <1>0, <2>2 DEF InSync
  <2>4. failed \cap (queue.ready \cup ToSet(queue.unknown)) \subseteq strayed
    <3>1. past \cap (queue.ready \cup ToSet(queue.unknown)) \subseteq strayed
      BY <1>0 DEF Orderly, Attached
    <3> QED  BY <2>3, <3>1
  <2>5. Follows(past, queue', {}, strayed) /\ failed \subseteq queue'.knownBad
    BY <1>0, <2>1, <2>3, <2>4, AllUpdated
  <2>6. Orderly(queue, past, strayed)'
    <3>1. Orderly(queue', past, strayed)
      BY <2>5 DEF Follows
    <3>2. chain \cap (queue'.ready \cup ToSet(queue'.unknown)) \subseteq strayed
      BY <3>1 DEF Orderly, Attached
    <3>3. \A x \in queue'.ready : Parent(x) \in chain \cup queue'.knownBad \cup queue'.ready \cup strayed
      BY <2>3, <2>5, <3>1 DEF Orderly, Attached
    <3>4. past' = chain /\ strayed' = strayed
      BY <2>1
    <3>5. Attached(queue', chain, strayed)
      BY <3>2, <3>3 DEF Attached
    <3>6. Orderly(queue', chain, strayed)
      BY <3>1, <3>5 DEF Orderly
    <3> QED  BY <3>4, <3>6
  <2>7. AtWork'
    BY <1>0, <2>1, <2>5, AtWorkStill DEF Follows
  <2>8. InSync'
    <3>1. IsFiniteSet({})
      BY FS_EmptySet
    <3> QED  BY <2>1, <2>2, <2>3, <3>1 DEF InSync
  <2> QED  BY <1>0, <2>1, <2>6, <2>7, <2>8 DEF BlockQueueInv, timeVars
<1>11. ASSUME Clear PROVE BlockQueueInv'
  <2>1. /\ \A v \in Verifier : work[v] = NoBlock
        /\ queue' = NothingQueued(queue.knownBad) /\ draining' = {} /\ future' = <<>>
        /\ strayed' = strayed \cup ToSet(batch) \cup failed
        /\ UNCHANGED <<work, chain, batch, failed, syncing, timeVars>>
    BY <1>11 DEF Clear
  <2>2. todo' = todo /\ queue.knownBad \in SUBSET Block
    BY <1>0, <2>1, OrderlyIs DEF timeVars
  <2>3. <<>> \in Seq(Block) /\ <<>> \in Seq(Entry) /\ DOMAIN <<>> = {}
    OBVIOUS
  <2>4. (\A C : InLine(<<>>, C)) /\ ToSet(<<>>) = {} /\ IsInjective(<<>>) /\ Names(<<>>) = <<>> /\ Blocks(<<>>) = {}
    BY <2>3 DEF InLine, IsInjective, Rising, ToSet, Names, Blocks
  <2>5. queue' = [ready |-> {}, knownBad |-> queue.knownBad, unknown |-> <<>>, unverified |-> <<>>,
                  verifying |-> <<>>, verified |-> <<>>]
    BY <2>1 DEF NothingQueued
  <2>6. \A C, L : Orderly(queue', C, L)
    <3>1. \A L : Behind({}, {}, L)
      BY DEF Behind
    <3> QED  BY <2>2, <2>3, <2>4, <2>5, <3>1, OrderlyFrom
  <2>7. AtWork'
    BY <1>0, <2>1 DEF AtWork
  <2>8. InSync'
    <3>1. queue'.knownBad = queue.knownBad
      BY <2>5
    <3>2. ToSet(batch) \subseteq Block
      BY <1>0 DEF InSync, InLine, ToSet
    <3>3. InLine(batch, strayed')
      BY <1>0, <2>1, InLineStill DEF InSync
    <3>4. /\ IsFiniteSet(failed) /\ failed \subseteq Block /\ strayed \subseteq Block
          /\ \A x \in ToSet(batch) : Parent(x) \in chain \cup queue.knownBad \cup failed \cup ToSet(batch) \cup strayed
          /\ ~syncing => failed = {} /\ batch = <<>>
      BY <1>0 DEF InSync
    <3> QED  BY <2>1, <3>1, <3>2, <3>3, <3>4 DEF InSync
  <2> QED  BY <1>0, <2>1, <2>2, <2>3, <2>6, <2>7, <2>8 DEF BlockQueueInv
<1>12. CASE UNCHANGED bqVars
  <2>1. UNCHANGED <<queue, draining, future, work, chain, batch, failed, syncing, strayed, todo>>
    BY <1>12 DEF bqVars, setVars, syncVars, timeVars
  <2> QED  BY <1>0, <2>1 DEF BlockQueueInv, AtWork, InSync
<1> QED
  BY <1>2, <1>3, <1>4, <1>5, <1>6, <1>7, <1>8, <1>9, <1>10, <1>11, <1>12 DEF BlockQueueNext

\* A line has as many blocks as places.
LEMMA LineLength ==
    ASSUME NEW s, InLine(s, strayed)
    PROVE  IsFiniteSet(ToSet(s)) /\ Cardinality(ToSet(s)) = Len(s) /\ Len(s) \in Nat
<1>1. s \in Seq(Block) /\ Len(s) \in Nat /\ DOMAIN s = 1..Len(s) /\ IsInjective(s)
  BY DEF InLine
<1> DEFINE f == [i \in 1..Len(s) |-> s[i]]
<1>2. f \in Bijection(1..Len(s), ToSet(s))
  BY <1>1 DEF ToSet, Bijection, Injection, Surjection, IsInjective
<1>3. ExistsBijection(1..Len(s), ToSet(s))
  BY <1>2 DEF ExistsBijection
<1>4. IsFiniteSet(1..Len(s)) /\ Cardinality(1..Len(s)) = Len(s)
  BY <1>1, FS_Interval
<1> QED  BY <1>1, <1>3, <1>4, FS_Bijection

\* What is ready is on its way through the three queues, each block once
\* (BlockQueue::invariants), if clear() waits for the verifiers.
THEOREM ReadyQueued == ~ClearBusy => (BlockQueueSpec => []ReadyIsQueued)
<1>1. BlockQueueInv => ReadyIsQueued
  <2> SUFFICES ASSUME BlockQueueInv PROVE ReadyIsQueued
    OBVIOUS
  <2> DEFINE V == ToSet(queue.verified)
             U == ToSet(queue.unverified)
             Y == Blocks(queue.verifying)
  <2>1. /\ InLine(queue.verified, strayed) /\ InLine(queue.unverified, strayed) /\ queue.verifying \in Seq(Entry)
        /\ InLine(Names(queue.verifying), strayed) /\ queue.ready = V \cup U \cup Y
        /\ V \cap Y = {} /\ V \cap U = {} /\ Y \cap U = {}
    BY OrderlyIs DEF BlockQueueInv, Behind
  <2>2. ToSet(Names(queue.verifying)) = Y /\ Len(Names(queue.verifying)) = Len(queue.verifying)
    BY <2>1, NamesAre
  <2> DEFINE v == Len(queue.verified)
             u == Len(queue.unverified)
             y == Len(queue.verifying)
  <2>3. /\ IsFiniteSet(V) /\ IsFiniteSet(U) /\ IsFiniteSet(Y) /\ v \in Nat /\ u \in Nat /\ y \in Nat
        /\ Cardinality(V) = v /\ Cardinality(U) = u /\ Cardinality(Y) = y
    BY <2>1, <2>2, LineLength
  <2> HIDE DEF V, U, Y, v, u, y
  <2>4. IsFiniteSet(V \cup U) /\ Cardinality(V \cup U) = v + u
    <3>1. IsFiniteSet(V \cup U) /\ Cardinality(V \cup U) = Cardinality(V) + Cardinality(U) - Cardinality(V \cap U)
      BY <2>3, FS_Union
    <3>2. Cardinality(V \cap U) = 0
      BY <2>1, FS_EmptySet
    <3> QED  BY <2>3, <3>1, <3>2
  <2>5. Cardinality((V \cup U) \cup Y) = (v + u) + y
    <3>1. (V \cup U) \cap Y = {}
      BY <2>1
    <3>2. Cardinality((V \cup U) \cup Y) = Cardinality(V \cup U) + Cardinality(Y) - Cardinality((V \cup U) \cap Y)
      BY <2>3, <2>4, FS_Union
    <3> QED  BY <2>3, <2>4, <3>1, <3>2, FS_EmptySet
  <2>6. queue.ready = Queued(queue)
    BY DEF BlockQueueInv, Orderly, Sound
  <2>7. Cardinality(queue.ready) = v + u + y
    BY <2>1, <2>5
  <2> QED  BY <2>6, <2>7 DEF ReadyIsQueued, v, u, y
<1> SUFFICES ASSUME ~ClearBusy PROVE BlockQueueSpec => []ReadyIsQueued
  OBVIOUS
<1>2. BlockQueueInv /\ [BlockQueueNext]_bqVars => BlockQueueInv'
  BY BlockQueueStep
<1> QED  BY <1>1, <1>2, BlockQueueInitInv, PTL DEF BlockQueueSpec

\* "The queue should guarantee everything in the right order" (BlockChain::sync):
\* whatever the verifiers do in whatever order, and if clear() waits for them, though
\* not for sync(), what sync() is handed follows on what is in the chain, on a bad block, or on one that
\* sync() dropped or clear() made the queue forget, and nothing else that is bad waits
\* to be handed on.
THEOREM SyncsInOrder == ~ClearBusy => (BlockQueueSpec => []SyncedInOrder)
<1>1. BlockQueueInv => SyncedInOrder
  <2> SUFFICES ASSUME BlockQueueInv PROVE SyncedInOrder
    OBVIOUS
  <2>1. ASSUME batch # <<>> PROVE Parent(Head(batch)) \in chain \cup queue.knownBad \cup failed \cup strayed
    <3>1. Heads(batch, Head(batch), Tail(batch), strayed)
      BY <2>1, HeadOfLine DEF BlockQueueInv, InSync
    <3>2. Parent(Head(batch)) \notin ToSet(batch) \ strayed /\ Head(batch) \in ToSet(batch)
      BY <3>1 DEF Heads
    <3> QED  BY <3>2 DEF BlockQueueInv, InSync
  <2>2. \A b \in ToSet(queue.verified) : ~Spoiled(b, queue.knownBad \ strayed)
    BY DEF BlockQueueInv, Orderly, Unspoiled
  <2> QED  BY <2>1, <2>2 DEF SyncedInOrder
<1> SUFFICES ASSUME ~ClearBusy PROVE BlockQueueSpec => []SyncedInOrder
  OBVIOUS
<1>2. BlockQueueInv /\ [BlockQueueNext]_bqVars => BlockQueueInv'
  BY BlockQueueStep
<1> QED  BY <1>1, <1>2, BlockQueueInitInv, PTL DEF BlockQueueSpec
=============================================================================
