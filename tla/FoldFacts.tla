------------------------------ MODULE FoldFacts ------------------------------
(***************************************************************************)
(* What holds of the result of a fold: what holds of the base, and is kept *)
(* when an element is folded in.  The operator and the fact are constants, *)
(* so that a module which folds takes an instance of this one for each of  *)
(* its operators.                                                          *)
(***************************************************************************)
EXTENDS FiniteSetTheorems, WellFoundedInduction, TLAPS

CONSTANTS
    op(_, _),       \* in FoldLeft, folds the second into the first; in a set, the first into the second
    val(_, _),      \* given p: what is folded in of a set's element
    Holds(_, _, _)  \* given p: a result so far, and how many, or which, elements are folded in
-----------------------------------------------------------------------------
\* A set of numbers has a least one.
LEMMA HasLeast ==
    ASSUME NEW T, T \subseteq Nat, T # {}
    PROVE  \E n \in T : \A m \in T : n <= m
<1> DEFINE R == OpToRel(<, Nat)
<1>1. IsWellFoundedOn(R, Nat)
  BY NatLessThanWellFounded
<1> HIDE DEF R
<1>2. PICK n \in T : \A m \in T : ~ (<<m, n>> \in R)
  BY <1>1, WFMin
<1>3. \A m \in T : ~ (m < n)
  BY <1>2 DEF R, OpToRel
<1>4. \A m \in T : n <= m
  BY <1>3
<1> QED  BY <1>4

\* A set of numbers with 0 and all that follows has every number.
LEMMA Upwards ==
    ASSUME NEW T, 0 \in T, \A n \in Nat : n \in T => n + 1 \in T
    PROVE  Nat \subseteq T
<1> SUFFICES ASSUME Nat \ T # {} PROVE FALSE
  OBVIOUS
<1>1. PICK n \in Nat \ T : \A m \in Nat \ T : n <= m
  BY HasLeast
<1>2. n # 0
  OBVIOUS
<1>3. n - 1 \in Nat /\ n - 1 \in T
  BY <1>1, <1>2
<1>4. (n - 1) + 1 \in T
  BY <1>3
<1> QED  BY <1>4, <1>1
-----------------------------------------------------------------------------
(* FoldLeft. *)

\* The function that FoldLeft is read from, and what FoldLeft gives: its value at
\* the whole domain.
Highest(D) == CHOOSE x \in D : \A y \in D : x >= y
Turns(it, base, s) ==
    it = [D \in SUBSET DOMAIN s |->
            IF D = {} THEN base ELSE op(it[D \ {Highest(D)}], s[Highest(D)])]
LeftFold(base, s) == (CHOOSE it : Turns(it, base, s))[DOMAIN s]

\* The greatest of numbers up to n + 1 that have n + 1.
LEMMA HighestIs ==
    ASSUME NEW n \in Nat, NEW D \in SUBSET (1..n + 1), n + 1 \in D
    PROVE  Highest(D) = n + 1
<1>1. \A y \in D : y \in Int /\ n + 1 >= y
  OBVIOUS
<1>2. Highest(D) \in D /\ \A y \in D : Highest(D) >= y
  BY <1>1 DEF Highest
<1>3. Highest(D) \in Int /\ Highest(D) >= n + 1 /\ n + 1 >= Highest(D)
  BY <1>1, <1>2
<1> QED  BY <1>3

\* The function for the first n elements.
Is(it, base, s, n) == it = [D \in SUBSET (1..n) |->
                              IF D = {} THEN base ELSE op(it[D \ {Highest(D)}], s[Highest(D)])]

\* There is one, by induction on the length of the sequence.
LEMMA TurnsExist ==
    ASSUME NEW base, NEW s
    PROVE  \A n \in Nat : \E it : Is(it, base, s, n)
<1> DEFINE T == {n \in Nat : \E it : Is(it, base, s, n)}
<1>1. 0 \in T
  <2> DEFINE it == [D \in SUBSET (1..0) |-> base]
  <2>1. \A D \in SUBSET (1..0) : D = {}
    OBVIOUS
  <2>2. Is(it, base, s, 0)
    BY <2>1 DEF Is
  <2> QED  BY <2>2
<1>2. ASSUME NEW n \in Nat, n \in T PROVE n + 1 \in T
  <2>1. PICK g : Is(g, base, s, n)
    BY <1>2
  <2> DEFINE it == [D \in SUBSET (1..n + 1) |->
                      IF n + 1 \in D THEN op(g[D \ {n + 1}], s[n + 1]) ELSE g[D]]
  <2>2. \A D \in SUBSET (1..n + 1) :
           it[D] = IF D = {} THEN base ELSE op(it[D \ {Highest(D)}], s[Highest(D)])
    <3> TAKE D \in SUBSET (1..n + 1)
    <3>1. CASE n + 1 \in D
      <4>1. Highest(D) = n + 1 /\ D \ {n + 1} \in SUBSET (1..n + 1) /\ n + 1 \notin D \ {n + 1}
        BY <3>1, HighestIs
      <4>2. it[D] = op(g[D \ {n + 1}], s[n + 1])
        BY <3>1
      <4>3. it[D \ {n + 1}] = g[D \ {n + 1}]
        BY <4>1
      <4> HIDE DEF it
      <4> QED  BY <3>1, <4>1, <4>2, <4>3
    <3>2. CASE n + 1 \notin D
      <4>1. D \in SUBSET (1..n) /\ it[D] = g[D]
        BY <3>2
      <4>2. g[D] = IF D = {} THEN base ELSE op(g[D \ {Highest(D)}], s[Highest(D)])
        BY <2>1, <4>1 DEF Is
      <4>3. D \ {Highest(D)} \in SUBSET (1..n + 1) /\ n + 1 \notin D \ {Highest(D)}
        BY <3>2
      <4>4. it[D \ {Highest(D)}] = g[D \ {Highest(D)}]
        BY <4>3
      <4> HIDE DEF it
      <4> QED  BY <4>1, <4>2, <4>4
    <3> QED  BY <3>1, <3>2
  <2>3. it = [D \in SUBSET (1..n + 1) |-> it[D]]
    OBVIOUS
  <2> HIDE DEF it
  <2>4. it = [D \in SUBSET (1..n + 1) |->
                IF D = {} THEN base ELSE op(it[D \ {Highest(D)}], s[Highest(D)])]
    BY <2>2, <2>3
  <2>5. Is(it, base, s, n + 1)
    BY <2>4 DEF Is
  <2>6. \E f : Is(f, base, s, n + 1)
    BY <2>5
  <2> QED  BY <2>6
<1>3. Nat \subseteq T
  <2> HIDE DEF T
  <2> QED  BY <1>1, <1>2, Upwards
<1> QED  BY <1>3

\* What holds with nothing folded in, and is kept by each element, holds with all
\* of them folded in.
LEMMA LeftFoldHolds ==
    ASSUME NEW p, NEW base, NEW s, NEW n \in Nat, DOMAIN s = 1..n,
           Holds(p, base, 0),
           \A k \in Nat : \A x : k < n /\ Holds(p, x, k) => Holds(p, op(x, s[k + 1]), k + 1)
    PROVE  Holds(p, LeftFold(base, s), n)
<1> DEFINE it == CHOOSE f : Turns(f, base, s)
           T == {k \in Nat : k <= n => Holds(p, it[1..k], k)}
<1>1. Turns(it, base, s)
  <2>1. \E f : Is(f, base, s, n)
    BY TurnsExist
  <2>2. \A f : Is(f, base, s, n) => Turns(f, base, s)
    BY DEF Turns, Is
  <2> QED  BY <2>1, <2>2
<1>2. LeftFold(base, s) = it[1..n]
  BY DEF LeftFold
<1> HIDE DEF it
<1>3. \A D \in SUBSET (1..n) : it[D] = IF D = {} THEN base ELSE op(it[D \ {Highest(D)}], s[Highest(D)])
  BY <1>1 DEF Turns
<1>4. 0 \in T
  <2>1. 1..0 = {}
    OBVIOUS
  <2>2. it[1..0] = base
    BY <1>3, <2>1
  <2> QED  BY <2>2
<1>5. ASSUME NEW k \in Nat, k \in T PROVE k + 1 \in T
  <2> SUFFICES ASSUME k + 1 <= n PROVE Holds(p, it[1..k + 1], k + 1)
    OBVIOUS
  <2>1. Holds(p, it[1..k], k) /\ k < n
    BY <1>5
  <2>2. 1..k + 1 \in SUBSET (1..n) /\ 1..k + 1 # {} /\ (1..k + 1) \ {k + 1} = 1..k
    <3>1. \A i : i \in 1..k + 1 => i \in 1..n
      OBVIOUS
    <3>2. k + 1 \in 1..k + 1
      OBVIOUS
    <3>3. \A i : i \in 1..k + 1 /\ i # k + 1 <=> i \in 1..k
      OBVIOUS
    <3> QED  BY <3>1, <3>2, <3>3
  <2>3. Highest(1..k + 1) = k + 1
    <3>1. 1..k + 1 \in SUBSET (1..k + 1) /\ k + 1 \in 1..k + 1
      OBVIOUS
    <3> QED  BY <3>1, HighestIs
  <2>4. it[1..k + 1] = op(it[1..k], s[k + 1])
    BY <1>3, <2>2, <2>3
  <2> QED  BY <2>1, <2>4
<1>6. n \in T
  <2> HIDE DEF T
  <2> QED  BY <1>4, <1>5, Upwards
<1> QED  BY <1>2, <1>6
-----------------------------------------------------------------------------
(* Folds over a set. *)

\* The element that is folded in last, and the function the fold is read from.
Chosen(D) == CHOOSE x \in D : TRUE
SetTurns(it, p, base, S) ==
    it = [D \in SUBSET S |->
            IF D = {} THEN base ELSE op(val(p, Chosen(D)), it[D \ {Chosen(D)}])]
SetFold(p, base, S) == (CHOOSE it : SetTurns(it, p, base, S))[S]

\* The function for the subsets of at most n elements.
IsTo(it, p, base, S, n) == it = [D \in {C \in SUBSET S : Cardinality(C) <= n} |->
                               IF D = {} THEN base ELSE op(val(p, Chosen(D)), it[D \ {Chosen(D)}])]

\* There is one for a finite set, by induction on the size.
LEMMA SetTurnsExist ==
    ASSUME NEW p, NEW base, NEW S, IsFiniteSet(S)
    PROVE  \A n \in Nat : \E it : IsTo(it, p, base, S, n)
<1> DEFINE T == {n \in Nat : \E it : IsTo(it, p, base, S, n)}
           Upto(n) == {C \in SUBSET S : Cardinality(C) <= n}
<1>1. \A D \in SUBSET S : /\ Cardinality(D) \in Nat /\ (Cardinality(D) = 0 <=> D = {})
                          /\ D # {} => /\ Chosen(D) \in D
                                       /\ Cardinality(D \ {Chosen(D)}) = Cardinality(D) - 1
  BY FS_Subset, FS_CardinalityType, FS_EmptySet, FS_RemoveElement DEF Chosen
<1>2. 0 \in T
  <2> DEFINE it == [D \in Upto(0) |-> base]
  <2>1. \A D \in Upto(0) : D = {}
    <3> TAKE D \in Upto(0)
    <3>1. D \in SUBSET S /\ Cardinality(D) <= 0
      OBVIOUS
    <3>2. Cardinality(D) \in Nat /\ (Cardinality(D) = 0 => D = {})
      BY <1>1, <3>1
    <3> QED  BY <3>1, <3>2
  <2>2. it = [D \in Upto(0) |-> IF D = {} THEN base ELSE op(val(p, Chosen(D)), it[D \ {Chosen(D)}])]
    BY <2>1
  <2> HIDE DEF it
  <2>3. IsTo(it, p, base, S, 0)
    BY <2>2 DEF IsTo
  <2> QED  BY <2>3
<1>3. ASSUME NEW n \in Nat, n \in T PROVE n + 1 \in T
  <2>1. PICK g : IsTo(g, p, base, S, n)
    BY <1>3
  <2> DEFINE it == [D \in Upto(n + 1) |->
                      IF Cardinality(D) = n + 1 THEN op(val(p, Chosen(D)), g[D \ {Chosen(D)}]) ELSE g[D]]
  <2>2. \A D \in Upto(n + 1) :
           it[D] = IF D = {} THEN base ELSE op(val(p, Chosen(D)), it[D \ {Chosen(D)}])
    <3> TAKE D \in Upto(n + 1)
    <3>1. D \in SUBSET S /\ Cardinality(D) \in Nat /\ Cardinality(D) <= n + 1
      BY <1>1
    <3>2. CASE Cardinality(D) = n + 1
      <4>1. D # {} /\ D \ {Chosen(D)} \in SUBSET S /\ Cardinality(D \ {Chosen(D)}) = n
        BY <1>1, <3>1, <3>2
      <4>2. it[D] = op(val(p, Chosen(D)), g[D \ {Chosen(D)}])
        BY <3>2
      <4>3. D \ {Chosen(D)} \in Upto(n + 1) /\ n # n + 1
        BY <4>1
      <4>4. it[D \ {Chosen(D)}] = g[D \ {Chosen(D)}]
        BY <4>1, <4>3
      <4> HIDE DEF it
      <4> QED  BY <4>1, <4>2, <4>4
    <3>3. CASE Cardinality(D) # n + 1
      <4>1. D \in Upto(n) /\ it[D] = g[D]
        BY <3>1, <3>3
      <4>2. g[D] = IF D = {} THEN base ELSE op(val(p, Chosen(D)), g[D \ {Chosen(D)}])
        BY <2>1, <4>1 DEF IsTo
      <4>3. D # {} => /\ D \ {Chosen(D)} \in Upto(n + 1)
                      /\ Cardinality(D \ {Chosen(D)}) # n + 1
        BY <1>1, <3>1, <3>3
      <4>4. D # {} => it[D \ {Chosen(D)}] = g[D \ {Chosen(D)}]
        BY <4>3
      <4> HIDE DEF it
      <4> QED  BY <4>1, <4>2, <4>4
    <3> QED  BY <3>2, <3>3
  <2>3. it = [D \in Upto(n + 1) |-> it[D]]
    OBVIOUS
  <2> HIDE DEF it
  <2>4. it = [D \in Upto(n + 1) |-> IF D = {} THEN base ELSE op(val(p, Chosen(D)), it[D \ {Chosen(D)}])]
    BY <2>2, <2>3
  <2>5. IsTo(it, p, base, S, n + 1)
    BY <2>4 DEF IsTo
  <2>6. \E f : IsTo(f, p, base, S, n + 1)
    BY <2>5
  <2> QED  BY <2>6
<1>4. Nat \subseteq T
  <2> HIDE DEF T
  <2> QED  BY <1>2, <1>3, Upwards
<1> QED  BY <1>4

\* What such a function does.
Folds(it, p, base, S) ==
    /\ SetFold(p, base, S) = it[S] /\ it[{}] = base
    /\ \A D \in SUBSET S :
         D # {} => Chosen(D) \in D /\ it[D] = op(val(p, Chosen(D)), it[D \ {Chosen(D)}])

\* The fold of a finite set is that of a function that obeys the equation.
LEMMA SetFoldIs ==
    ASSUME NEW p, NEW base, NEW S, IsFiniteSet(S)
    PROVE  \E it : Folds(it, p, base, S)
<1>1. Cardinality(S) \in Nat /\ \A D \in SUBSET S : Cardinality(D) <= Cardinality(S)
  BY FS_CardinalityType, FS_Subset
<1>2. {D \in SUBSET S : Cardinality(D) <= Cardinality(S)} = SUBSET S
  BY <1>1
<1>3. PICK f : IsTo(f, p, base, S, Cardinality(S))
  BY <1>1, SetTurnsExist
<1>4. SetTurns(f, p, base, S)
  BY <1>2, <1>3 DEF IsTo, SetTurns
<1> DEFINE it == CHOOSE g : SetTurns(g, p, base, S)
<1>5. SetTurns(it, p, base, S) /\ SetFold(p, base, S) = it[S]
  BY <1>4 DEF SetFold
<1> HIDE DEF it
<1>6. \A D \in SUBSET S : it[D] = IF D = {} THEN base ELSE op(val(p, Chosen(D)), it[D \ {Chosen(D)}])
  BY <1>5 DEF SetTurns
<1>7. \A D \in SUBSET S : D # {} => Chosen(D) \in D
  BY DEF Chosen
<1>8. it[{}] = base
  BY <1>6
<1>9. Folds(it, p, base, S)
  BY <1>5, <1>6, <1>7, <1>8 DEF Folds
<1> QED  BY <1>9

\* What holds with nothing folded in, and is kept by each element, holds with all
\* of a finite set folded in.
LEMMA SetFoldHolds ==
    ASSUME NEW p, NEW base, NEW S, IsFiniteSet(S), Holds(p, base, {}),
           \A D \in SUBSET S : \A e \in S : \A x :
               Holds(p, x, D) => Holds(p, op(val(p, e), x), D \cup {e})
    PROVE  Holds(p, SetFold(p, base, S), S)
<1>1. PICK it : Folds(it, p, base, S)
  BY SetFoldIs
<1> DEFINE T == {n \in Nat : \A D \in SUBSET S : Cardinality(D) = n => Holds(p, it[D], D)}
<1>2. \A D \in SUBSET S : /\ Cardinality(D) \in Nat /\ (Cardinality(D) = 0 <=> D = {})
                          /\ \A x \in D : Cardinality(D \ {x}) = Cardinality(D) - 1
  BY FS_Subset, FS_CardinalityType, FS_EmptySet, FS_RemoveElement
<1>3. 0 \in T
  BY <1>1, <1>2 DEF Folds
<1>4. ASSUME NEW n \in Nat, n \in T PROVE n + 1 \in T
  <2> SUFFICES ASSUME NEW D \in SUBSET S, Cardinality(D) = n + 1 PROVE Holds(p, it[D], D)
    OBVIOUS
  <2>1. D # {}
    BY <1>2
  <2>2. PICK e \in D : it[D] = op(val(p, e), it[D \ {e}])
    BY <1>1, <2>1 DEF Folds
  <2>3. D \ {e} \in SUBSET S /\ Cardinality(D \ {e}) = n /\ (D \ {e}) \cup {e} = D
    BY <1>2
  <2>4. Holds(p, it[D \ {e}], D \ {e})
    BY <1>4, <2>3
  <2>5. Holds(p, op(val(p, e), it[D \ {e}]), (D \ {e}) \cup {e})
    BY <2>3, <2>4
  <2> QED  BY <2>2, <2>3, <2>5
<1>5. Nat \subseteq T
  <2> HIDE DEF T
  <2> QED  BY <1>3, <1>4, Upwards
<1>6. Cardinality(S) \in Nat /\ S \in SUBSET S
  BY <1>2
<1> QED  BY <1>1, <1>5, <1>6 DEF Folds

\* The fold of a part is the value of the function at the part.
LEMMA SetFoldPart ==
    ASSUME NEW p, NEW base, NEW S, IsFiniteSet(S), NEW f, Folds(f, p, base, S), NEW D \in SUBSET S
    PROVE  SetFold(p, base, D) = f[D]
<1>0. IsFiniteSet(D)
  BY FS_Subset
<1>1. PICK g : Folds(g, p, base, D)
  BY <1>0, SetFoldIs
<1> DEFINE T == {n \in Nat : \A C \in SUBSET D : Cardinality(C) = n => g[C] = f[C]}
<1>2. \A C \in SUBSET D : /\ Cardinality(C) \in Nat /\ (Cardinality(C) = 0 <=> C = {})
                          /\ \A x \in C : Cardinality(C \ {x}) = Cardinality(C) - 1
  BY <1>0, FS_Subset, FS_CardinalityType, FS_EmptySet, FS_RemoveElement
<1>3. 0 \in T
  BY <1>1, <1>2 DEF Folds
<1>4. ASSUME NEW n \in Nat, n \in T PROVE n + 1 \in T
  <2> SUFFICES ASSUME NEW C \in SUBSET D, Cardinality(C) = n + 1 PROVE g[C] = f[C]
    OBVIOUS
  <2>1. C # {} /\ C \in SUBSET S
    BY <1>2
  <2>2. Chosen(C) \in C /\ g[C] = op(val(p, Chosen(C)), g[C \ {Chosen(C)}])
    BY <1>1, <2>1 DEF Folds
  <2>3. f[C] = op(val(p, Chosen(C)), f[C \ {Chosen(C)}])
    BY <2>1 DEF Folds
  <2>4. C \ {Chosen(C)} \in SUBSET D /\ Cardinality(C \ {Chosen(C)}) = n
    BY <1>2, <2>2
  <2>5. g[C \ {Chosen(C)}] = f[C \ {Chosen(C)}]
    BY <1>4, <2>4
  <2> QED  BY <2>2, <2>3, <2>5
<1>5. Nat \subseteq T
  <2> HIDE DEF T
  <2> QED  BY <1>3, <1>4, Upwards
<1>6. Cardinality(D) \in Nat /\ D \in SUBSET D
  BY <1>2
<1>7. g[D] = f[D]
  BY <1>5, <1>6
<1> QED  BY <1>1, <1>7 DEF Folds
-----------------------------------------------------------------------------
(* Sums: folds of numbers with +. *)

Adds == \A x, y \in Int : op(x, y) = x + y
Sum(p, S) == SetFold(p, 0, S)

\* Any element can be taken out.
LEMMA SumSplits ==
    ASSUME Adds, NEW p, NEW S, IsFiniteSet(S), \A x \in S : val(p, x) \in Int
    PROVE  Sum(p, S) \in Int /\ \A a \in S : Sum(p, S) = val(p, a) + Sum(p, S \ {a})
<1>1. PICK f : Folds(f, p, 0, S)
  BY SetFoldIs
<1> DEFINE Right(D) == f[D] \in Int /\ \A a \in D : f[D] = val(p, a) + f[D \ {a}]
           T == {n \in Nat : \A D \in SUBSET S : Cardinality(D) <= n => Right(D)}
<1>2. \A D \in SUBSET S : /\ Cardinality(D) \in Nat /\ (Cardinality(D) = 0 <=> D = {})
                          /\ \A x \in D : Cardinality(D \ {x}) = Cardinality(D) - 1
  BY FS_Subset, FS_CardinalityType, FS_EmptySet, FS_RemoveElement
<1>3. 0 \in T
  <2> SUFFICES ASSUME NEW D \in SUBSET S, Cardinality(D) <= 0 PROVE Right(D)
    OBVIOUS
  <2>1. D = {}
    BY <1>2
  <2> QED  BY <1>1, <2>1 DEF Folds
<1>4. ASSUME NEW n \in Nat, n \in T PROVE n + 1 \in T
  <2> SUFFICES ASSUME NEW D \in SUBSET S, Cardinality(D) <= n + 1 PROVE Right(D)
    OBVIOUS
  <2>1. CASE D = {}
    BY <1>1, <2>1 DEF Folds
  <2>2. CASE D # {}
    <3>1. PICK c \in D : f[D] = op(val(p, c), f[D \ {c}])
      BY <1>1, <2>2 DEF Folds
    <3>2. \A a \in D : D \ {a} \in SUBSET S /\ Cardinality(D \ {a}) <= n
      BY <1>2
    <3>3. \A a \in D : Right(D \ {a})
      BY <1>4, <3>2
    <3> HIDE DEF T
    <3>4. f[D] = val(p, c) + f[D \ {c}] /\ f[D] \in Int
      <4>1. f[D \ {c}] \in Int /\ val(p, c) \in Int
        BY <3>3
      <4>2. op(val(p, c), f[D \ {c}]) = val(p, c) + f[D \ {c}]
        BY <4>1 DEF Adds
      <4> QED  BY <3>1, <4>1, <4>2
    <3>5. ASSUME NEW a \in D, a # c PROVE f[D] = val(p, a) + f[D \ {a}]
      <4>1. (D \ {c}) \ {a} = (D \ {a}) \ {c} /\ a \in D \ {c} /\ c \in D \ {a}
        BY <3>5
      <4>2. f[D \ {c}] = val(p, a) + f[(D \ {c}) \ {a}] /\ f[D \ {a}] = val(p, c) + f[(D \ {a}) \ {c}]
        BY <3>3, <4>1
      <4>3. Cardinality((D \ {c}) \ {a}) <= n /\ (D \ {c}) \ {a} \in SUBSET S
        <5>1. Cardinality((D \ {c}) \ {a}) = Cardinality(D \ {c}) - 1 /\ Cardinality(D \ {c}) \in Nat
          BY <1>2, <4>1
        <5> QED  BY <3>2, <5>1
      <4>4. f[(D \ {c}) \ {a}] \in Int
        BY <1>4, <4>3 DEF T
      <4>5. val(p, a) \in Int /\ val(p, c) \in Int
        OBVIOUS
      <4> DEFINE x == f[(D \ {c}) \ {a}]
                 u == val(p, a)
                 w == val(p, c)
      <4>6. f[D] = w + (u + x) /\ f[D \ {a}] = w + x
        BY <3>4, <4>1, <4>2
      <4>7. x \in Int /\ u \in Int /\ w \in Int
        BY <4>4, <4>5
      <4> HIDE DEF x, u, w
      <4>8. f[D] = u + f[D \ {a}]
        BY <4>6, <4>7
      <4> QED  BY <4>8 DEF u
    <3> QED  BY <3>4, <3>5
  <2> QED  BY <2>1, <2>2
<1>5. Nat \subseteq T
  <2> HIDE DEF T
  <2> QED  BY <1>3, <1>4, Upwards
<1>6. Cardinality(S) \in Nat /\ S \in SUBSET S /\ Cardinality(S) <= Cardinality(S)
  BY <1>2
<1>7. Right(S)
  BY <1>5, <1>6
<1>8. \A D \in SUBSET S : Sum(p, D) = f[D]
  BY <1>1, SetFoldPart DEF Sum
<1> QED  BY <1>7, <1>8

\* The sum of nothing.
LEMMA SumOfNone == \A p : Sum(p, {}) = 0
<1> SUFFICES ASSUME NEW p PROVE Sum(p, {}) = 0
  OBVIOUS
<1>1. PICK f : Folds(f, p, 0, {})
  BY FS_EmptySet, SetFoldIs
<1> QED  BY <1>1 DEF Folds, Sum

\* More of what is not negative is not less.
LEMMA SumGrows ==
    ASSUME Adds, NEW p, NEW T, IsFiniteSet(T), \A x \in T : val(p, x) \in Nat, NEW S \in SUBSET T
    PROVE  Sum(p, S) \in Int /\ Sum(p, T) \in Int /\ Sum(p, S) <= Sum(p, T)
<1> DEFINE N == {n \in Nat : \A D \in SUBSET T : S \subseteq D /\ Cardinality(D) = n => Sum(p, S) <= Sum(p, D)}
<1>1. \A D \in SUBSET T : /\ Cardinality(D) \in Nat /\ (Cardinality(D) = 0 <=> D = {})
                          /\ \A x \in D : Cardinality(D \ {x}) = Cardinality(D) - 1
  BY FS_Subset, FS_CardinalityType, FS_EmptySet, FS_RemoveElement
<1>2. \A D \in SUBSET T : Sum(p, D) \in Int /\ \A a \in D : Sum(p, D) = val(p, a) + Sum(p, D \ {a})
  <2> TAKE D \in SUBSET T
  <2>1. IsFiniteSet(D) /\ \A x \in D : val(p, x) \in Int
    BY FS_Subset
  <2> QED  BY <2>1, SumSplits
<1>3. 0 \in N
  <2> SUFFICES ASSUME NEW D \in SUBSET T, S \subseteq D, Cardinality(D) = 0 PROVE Sum(p, S) <= Sum(p, D)
    OBVIOUS
  <2>1. D = {} /\ S = D
    BY <1>1
  <2> QED  BY <1>2, <2>1
<1>4. ASSUME NEW n \in Nat, n \in N PROVE n + 1 \in N
  <2> SUFFICES ASSUME NEW D \in SUBSET T, S \subseteq D, Cardinality(D) = n + 1 PROVE Sum(p, S) <= Sum(p, D)
    OBVIOUS
  <2>1. CASE S = D
    BY <1>2, <2>1
  <2>2. CASE S # D
    <3>1. PICK a \in D : a \notin S
      BY <2>2
    <3>2. D \ {a} \in SUBSET T /\ S \subseteq D \ {a} /\ Cardinality(D \ {a}) = n
      BY <1>1, <3>1
    <3>3. Sum(p, S) <= Sum(p, D \ {a})
      BY <1>4, <3>2
    <3>4. Sum(p, D) = val(p, a) + Sum(p, D \ {a}) /\ val(p, a) \in Nat
      BY <1>2
    <3> QED  BY <1>2, <3>2, <3>3, <3>4
  <2> QED  BY <2>1, <2>2
<1>5. Nat \subseteq N
  <2> HIDE DEF N
  <2> QED  BY <1>3, <1>4, Upwards
<1>6. Cardinality(T) \in Nat /\ T \in SUBSET T
  BY <1>1
<1> QED  BY <1>2, <1>5, <1>6

\* Sums of smaller numbers are smaller.
LEMMA SumBelow ==
    ASSUME Adds, NEW p, NEW q, NEW S, IsFiniteSet(S), \A x \in S : val(p, x) \in Int /\ val(q, x) \in Int /\ val(q, x) <= val(p, x)
    PROVE  Sum(q, S) <= Sum(p, S)
<1> DEFINE N == {n \in Nat : \A D \in SUBSET S : Cardinality(D) = n => Sum(q, D) <= Sum(p, D)}
<1>1. \A D \in SUBSET S : /\ Cardinality(D) \in Nat /\ (Cardinality(D) = 0 <=> D = {})
                          /\ \A x \in D : Cardinality(D \ {x}) = Cardinality(D) - 1
  BY FS_Subset, FS_CardinalityType, FS_EmptySet, FS_RemoveElement
<1>2. \A D \in SUBSET S : \A a \in D : /\ Sum(p, D) = val(p, a) + Sum(p, D \ {a})
                                       /\ Sum(q, D) = val(q, a) + Sum(q, D \ {a})
                                       /\ Sum(p, D \ {a}) \in Int /\ Sum(q, D \ {a}) \in Int
  <2> TAKE D \in SUBSET S
  <2> TAKE a \in D
  <2>1. IsFiniteSet(D) /\ IsFiniteSet(D \ {a})
    BY FS_Subset
  <2>2. \A x \in D : val(p, x) \in Int /\ val(q, x) \in Int
    OBVIOUS
  <2> QED  BY <2>1, <2>2, SumSplits
<1>3. 0 \in N
  <2>1. \A D \in SUBSET S : Cardinality(D) = 0 => Sum(q, D) = 0 /\ Sum(p, D) = 0
    BY <1>1, SumOfNone
  <2> QED  BY <2>1
<1>4. ASSUME NEW n \in Nat, n \in N PROVE n + 1 \in N
  <2> SUFFICES ASSUME NEW D \in SUBSET S, Cardinality(D) = n + 1 PROVE Sum(q, D) <= Sum(p, D)
    OBVIOUS
  <2>1. PICK a \in D : TRUE
    BY <1>1
  <2>2. D \ {a} \in SUBSET S /\ Cardinality(D \ {a}) = n
    BY <1>1, <2>1
  <2>3. /\ Sum(q, D \ {a}) <= Sum(p, D \ {a}) /\ val(q, a) <= val(p, a)
        /\ val(p, a) \in Int /\ val(q, a) \in Int
    BY <1>4, <2>2
  <2> DEFINE x == Sum(p, D \ {a})
             y == Sum(q, D \ {a})
  <2>4. /\ Sum(p, D) = val(p, a) + x /\ Sum(q, D) = val(q, a) + y
        /\ x \in Int /\ y \in Int /\ y <= x
    BY <1>2, <2>3
  <2> HIDE DEF x, y
  <2> QED  BY <2>3, <2>4
<1>5. Nat \subseteq N
  <2> HIDE DEF N
  <2> QED  BY <1>3, <1>4, Upwards
<1>6. Cardinality(S) \in Nat /\ S \in SUBSET S
  BY <1>1
<1> QED  BY <1>5, <1>6

\* Sums of the same numbers are the same.
LEMMA SumAlike ==
    ASSUME Adds, NEW p, NEW q, NEW S, IsFiniteSet(S), \A x \in S : val(p, x) \in Int /\ val(q, x) = val(p, x)
    PROVE  Sum(q, S) = Sum(p, S)
<1>1. \A x \in S : val(p, x) \in Int /\ val(q, x) \in Int /\ val(p, x) <= val(q, x) /\ val(q, x) <= val(p, x)
  OBVIOUS
<1>2. Sum(q, S) <= Sum(p, S)
  BY <1>1, SumBelow
<1>3. Sum(p, S) <= Sum(q, S)
  BY <1>1, SumBelow
<1>4. Sum(p, S) \in Int /\ Sum(q, S) \in Int
  BY <1>1, SumSplits
<1> QED  BY <1>2, <1>3, <1>4

\* One number changes.
LEMMA SumChanges ==
    ASSUME Adds, NEW p, NEW q, NEW S, IsFiniteSet(S), NEW a \in S, val(p, a) \in Int, val(q, a) \in Int,
           \A x \in S \ {a} : val(p, x) \in Int /\ val(q, x) = val(p, x)
    PROVE  Sum(p, S) \in Int /\ Sum(q, S) = Sum(p, S) - val(p, a) + val(q, a)
<1>1. IsFiniteSet(S \ {a})
  BY FS_RemoveElement
<1>2. Sum(q, S \ {a}) = Sum(p, S \ {a})
  BY <1>1, SumAlike
<1>3. /\ Sum(p, S) \in Int /\ Sum(p, S) = val(p, a) + Sum(p, S \ {a})
      /\ Sum(q, S) \in Int /\ Sum(q, S) = val(q, a) + Sum(q, S \ {a})
  BY SumSplits
<1>4. Sum(p, S \ {a}) \in Int
  BY <1>1, SumSplits
<1> QED  BY <1>2, <1>3, <1>4
=============================================================================
