------------------------ MODULE RangeIterator_proofs ------------------------
(***************************************************************************)
(* Proofs about RangeIterator, for every number of keys, every snapshot,   *)
(* batch size and limit.  The leveldb iterator is never moved while it is  *)
(* off its entries; and an iterator with at most one bound at each end is  *)
(* a Cursor.                                                               *)
(*                                                                         *)
(* ReadMany is a loop: what holds of a read is shown turn by turn, from    *)
(* the library's well-foundedness of < on the naturals.                    *)
(***************************************************************************)
EXTENDS RangeIterator, WellFoundedInduction, TLAPS
-----------------------------------------------------------------------------
\* The options and the snapshot are such as the iteration starts with; they stay.
Fits == options \in OptionSets /\ snapshot \subseteq Keys

\* What marks no key or no answer is not a key.
LEMMA NotNumbers == None \notin Int /\ Undefined \notin Int /\ NoMore \notin Int /\ Nothing \notin Int
BY RangeAssumption

\* The kinds of the options; all keys are numbers.
LEMMA OptionsAre ==
    ASSUME Fits
    PROVE  /\ options.reverse \in BOOLEAN /\ options.limit \in Int
           /\ options.gt \in Bound /\ options.gte \in Bound /\ options.lt \in Bound /\ options.lte \in Bound
           /\ snapshot \subseteq Int /\ Keys \subseteq Nat /\ MaxKey \in Nat
BY RangeAssumption DEF Fits, Options, Keys

\* A set of numbers has a least one.
LEMMA HasLeast ==
    ASSUME NEW T, T \subseteq Nat, T # {}
    PROVE  \E n \in T : \A m \in T : n <= m
<1> DEFINE R == OpToRel(<, Nat)
<1>1. IsWellFoundedOn(R, Nat)
  BY NatLessThanWellFounded
<1> HIDE DEF R
<1>2. PICK n \in T : \A m \in T : ~ (<<m, n>> \in R)
  BY <1>1, WFMin
<1>3. \A m \in T : ~ (m < n)
  BY <1>2 DEF R, OpToRel
<1>4. \A m \in T : n <= m
  BY <1>3
<1> QED  BY <1>4

\* A set with 0 and every successor of its members has every number.
LEMMA Upwards ==
    ASSUME NEW T, 0 \in T, \A n \in Nat : n \in T => n + 1 \in T
    PROVE  Nat \subseteq T
<1> SUFFICES ASSUME Nat \ T # {} PROVE FALSE
  OBVIOUS
<1>1. PICK n \in Nat \ T : \A m \in Nat \ T : n <= m
  BY HasLeast
<1>2. n # 0
  OBVIOUS
<1>3. n - 1 \in Nat /\ n - 1 \in T
  BY <1>1, <1>2
<1>4. (n - 1) + 1 \in T
  BY <1>3
<1> QED  BY <1>4, <1>1

\* Least gives the least member, or None of the empty set.
LEMMA LeastIs ==
    ASSUME NEW S \in SUBSET Keys
    PROVE  \/ S = {} /\ Least(S) = None
           \/ Least(S) \in S /\ \A k \in S : Least(S) <= k
<1>1. S \subseteq Nat
  BY RangeAssumption DEF Keys
<1>2. CASE S # {}
  <2>1. \E k \in S : \A l \in S : k <= l
    BY <1>1, <1>2, HasLeast
  <2> QED  BY <1>2, <2>1 DEF Least
<1> QED  BY <1>2 DEF Least

\* Greatest gives the greatest member, or None of the empty set.
LEMMA GreatestIs ==
    ASSUME NEW S \in SUBSET Keys
    PROVE  \/ S = {} /\ Greatest(S) = None
           \/ Greatest(S) \in S /\ \A k \in S : k <= Greatest(S)
<1>1. \A k \in S : k \in Nat /\ MaxKey - k \in Nat
  BY RangeAssumption DEF Keys
<1>2. CASE S # {}
  <2> DEFINE T == {MaxKey - k : k \in S}
  <2>1. PICK n \in T : \A m \in T : n <= m
    BY <1>1, <1>2, HasLeast
  <2>2. PICK k \in S : n = MaxKey - k
    BY <2>1
  <2>3. \A l \in S : l <= k
    <3> TAKE l \in S
    <3>1. MaxKey - l \in T
      OBVIOUS
    <3> HIDE DEF T
    <3>2. MaxKey - k <= MaxKey - l
      BY <2>1, <2>2, <3>1
    <3> QED  BY <3>2, <1>1, RangeAssumption
  <2> QED  BY <1>2, <2>3 DEF Greatest
<1> QED  BY <1>2 DEF Greatest

\* The keys that are ahead at position p.
AheadOf(p, given) ==
    IF ~Valid(p) THEN {}
    ELSE {k \in snapshot \cap InRange : (k = p /\ ~given) \/ Precedes(p, k)}

\* leveldb's Seek(): the first entry that is not before the target, if there is one.
LEMMA AtOrAfterIs ==
    ASSUME Fits, NEW k \in Keys
    PROVE  \/ AtOrAfter(k) = None /\ \A l \in snapshot : l < k
           \/ /\ AtOrAfter(k) \in snapshot /\ k <= AtOrAfter(k)
              /\ \A l \in snapshot : k <= l => AtOrAfter(k) <= l
<1> DEFINE S == {l \in snapshot : k <= l}
<1>1. S \in SUBSET Keys /\ AtOrAfter(k) = Least(S)
  BY DEF Fits, AtOrAfter
<1>2. \A l \in snapshot : l \in Int /\ k \in Int
  BY OptionsAre
<1>3. \/ S = {} /\ Least(S) = None
      \/ Least(S) \in S /\ \A l \in S : Least(S) <= l
  BY <1>1, LeastIs
<1> QED  BY <1>1, <1>2, <1>3

\* The neighbour of an entry.
LEMMA DbNextIs ==
    ASSUME Fits, NEW p \in snapshot
    PROVE  \/ DbNext(p) = None /\ \A l \in snapshot : l <= p
           \/ /\ DbNext(p) \in snapshot /\ p < DbNext(p)
              /\ \A l \in snapshot : p < l => DbNext(p) <= l
<1> DEFINE S == {l \in snapshot : p < l}
<1>1. S \in SUBSET Keys /\ DbNext(p) = Least(S)
  BY DEF Fits, DbNext
<1>2. \A l \in snapshot : l \in Int /\ p \in Int
  BY OptionsAre
<1>3. \/ S = {} /\ Least(S) = None
      \/ Least(S) \in S /\ \A l \in S : Least(S) <= l
  BY <1>1, LeastIs
<1> QED  BY <1>1, <1>2, <1>3

\* The same to the other side.
LEMMA DbPrevIs ==
    ASSUME Fits, NEW p \in snapshot
    PROVE  \/ DbPrev(p) = None /\ \A l \in snapshot : p <= l
           \/ /\ DbPrev(p) \in snapshot /\ DbPrev(p) < p
              /\ \A l \in snapshot : l < p => l <= DbPrev(p)
<1> DEFINE S == {l \in snapshot : l < p}
<1>1. S \in SUBSET Keys /\ DbPrev(p) = Greatest(S)
  BY DEF Fits, DbPrev
<1>2. \A l \in snapshot : l \in Int /\ p \in Int
  BY OptionsAre
<1>3. \/ S = {} /\ Greatest(S) = None
      \/ Greatest(S) \in S /\ \A l \in S : l <= Greatest(S)
  BY <1>1, GreatestIs
<1> QED  BY <1>1, <1>2, <1>3

\* Next() of BaseIterator goes to the entry behind, in the order of the iteration, if there is one.
LEMMA MovedIs ==
    ASSUME Fits, NEW p \in snapshot
    PROVE  \/ Moved(p) = None /\ \A l \in snapshot : ~Precedes(p, l)
           \/ /\ Moved(p) \in snapshot /\ Precedes(p, Moved(p))
              /\ \A l \in snapshot : Precedes(p, l) => l = Moved(p) \/ Precedes(Moved(p), l)
<1>1. \A l \in snapshot : l \in Int
  BY OptionsAre
<1> QED  BY <1>1, DbNextIs, DbPrevIs DEF Moved, Precedes

\* SeekToFirst and SeekToLast of BaseIterator, and SeekToEnd, which goes off the last entry.
LEMMA EndsAre ==
    ASSUME Fits
    PROVE  /\ snapshot = {} => ToFirst = None /\ ToLast = None
           /\ snapshot # {} =>
                /\ ToFirst \in snapshot /\ \A l \in snapshot : l = ToFirst \/ Precedes(ToFirst, l)
                /\ ToLast \in snapshot /\ ToEnd = None
<1>1. \A l \in snapshot : l \in Int
  BY OptionsAre
<1>2. snapshot \in SUBSET Keys
  BY DEF Fits
<1>3. /\ snapshot = {} => Least(snapshot) = None /\ Greatest(snapshot) = None
      /\ snapshot # {} => /\ Least(snapshot) \in snapshot /\ \A l \in snapshot : Least(snapshot) <= l
                          /\ Greatest(snapshot) \in snapshot /\ \A l \in snapshot : l <= Greatest(snapshot)
  BY <1>2, LeastIs, GreatestIs
<1>4. snapshot # {} => ToLast \in snapshot /\ \A l \in snapshot : l = ToLast \/ Precedes(l, ToLast)
  BY <1>1, <1>3 DEF ToLast, Precedes
<1>5. snapshot # {} => ToEnd = None
  <2> SUFFICES ASSUME snapshot # {} PROVE ToEnd = None
    OBVIOUS
  <2>1. \A l \in snapshot : ~Precedes(ToLast, l)
    BY <1>1, <1>4 DEF Precedes
  <2> QED  BY <1>4, <2>1, MovedIs DEF ToEnd
<1> QED  BY <1>1, <1>3, <1>4, <1>5 DEF ToFirst, ToLast, Precedes

\* The order of the iteration.
LEMMA Order ==
    ASSUME NEW k \in Int, NEW l \in Int
    PROVE  /\ ~Precedes(k, k) /\ (k = l \/ Precedes(k, l) \/ Precedes(l, k))
           /\ Precedes(k, l) => ~Precedes(l, k)
           /\ Precedes(k, l) <=> IF options.reverse THEN l < k ELSE k < l
           /\ \A m \in Int : Precedes(k, l) /\ Precedes(l, m) => Precedes(k, m)
BY DEF Precedes

\* What is past a key that is out of range beyond one that is in it, is out of range too.
LEMMA Convex ==
    ASSUME Fits, NEW p \in Keys, NEW q \in snapshot, NEW r \in snapshot,
           ~OutOfRange(p), OutOfRange(q), Precedes(p, q), Precedes(q, r)
    PROVE  OutOfRange(r)
<1>1. p \in Int /\ q \in Int /\ r \in Int
  <2>1. Keys \subseteq Int
    BY OptionsAre
  <2> QED  BY <2>1, OptionsAre
<1>2. \A b \in Bound : b = None \/ b \in Int
  BY OptionsAre DEF Bound
<1> QED  BY <1>1, <1>2, OptionsAre, NotNumbers DEF OutOfRange, Precedes

\* Moving on from a key that was read keeps what is ahead.
LEMMA AheadAfterMove ==
    ASSUME Fits, NEW p \in snapshot, ~OutOfRange(p)
    PROVE  AheadOf(Moved(p), FALSE) = AheadOf(p, TRUE)
<1>1. snapshot \subseteq Int /\ snapshot \subseteq Keys
  BY OptionsAre DEF Fits
<1>2. Valid(p)
  BY DEF Valid
<1>3. CASE Moved(p) = None
  <2>1. Moved(p) \notin snapshot
    BY <1>1, <1>3, NotNumbers
  <2>2. \A l \in snapshot : ~Precedes(p, l)
    BY <1>3, MovedIs, <2>1
  <2> QED  BY <1>2, <2>1, <2>2 DEF AheadOf, Valid
<1>4. CASE Moved(p) \in snapshot /\ ~OutOfRange(Moved(p))
  <2>1. Valid(Moved(p))
    BY <1>4 DEF Valid
  <2>2. /\ Precedes(p, Moved(p))
        /\ \A l \in snapshot : Precedes(p, l) => l = Moved(p) \/ Precedes(Moved(p), l)
    BY <1>1, <1>4, MovedIs, NotNumbers
  <2>3. \A l \in snapshot : Precedes(Moved(p), l) => Precedes(p, l)
    <3> TAKE l \in snapshot
    <3>1. p \in Int /\ l \in Int /\ Moved(p) \in Int
      BY <1>1, <1>4
    <3> QED  BY <3>1, <2>2, Order
  <2> HIDE DEF Moved
  <2> QED  BY <1>2, <2>1, <2>2, <2>3 DEF AheadOf
<1>5. CASE Moved(p) \in snapshot /\ OutOfRange(Moved(p))
  <2>1. ~Valid(Moved(p))
    BY <1>5 DEF Valid
  <2>2. /\ Precedes(p, Moved(p))
        /\ \A l \in snapshot : Precedes(p, l) => l = Moved(p) \/ Precedes(Moved(p), l)
    BY <1>1, <1>5, MovedIs, NotNumbers
  <2>3. \A l \in snapshot : Precedes(p, l) => OutOfRange(l)
    BY <1>1, <1>5, <2>2, Convex
  <2> QED  BY <1>2, <2>1, <2>3 DEF AheadOf, InRange
<1> QED  BY <1>3, <1>4, <1>5, MovedIs

\* A position that has all of S at or after it, S being what a bound admits.
StartsAt(p, S) == \/ p = None /\ S = {}
                  \/ p \in S /\ \A k \in S : k = p \/ Precedes(p, k)

\* The first in the order of the iteration starts the set it is of.
LEMMA StartsAtEnd ==
    ASSUME NEW S \in SUBSET Int, NEW p \in S,
           \A k \in S : IF options.reverse THEN k <= p ELSE p <= k
    PROVE  StartsAt(p, S)
<1>1. ASSUME NEW k \in S PROVE k = p \/ Precedes(p, k)
  <2>1. k \in Int /\ p \in Int /\ IF options.reverse THEN k <= p ELSE p <= k
    OBVIOUS
  <2> QED  BY <2>1 DEF Precedes
<1> QED  BY <1>1 DEF StartsAt

\* The bounds at which the iteration begins and ends.
Begun(k) ==
    IF options.reverse THEN /\ options.lte # None => k <= options.lte
                            /\ options.lt # None => k < options.lt
    ELSE /\ options.gte # None => k >= options.gte
         /\ options.gt # None => k > options.gt

\* Past the end of the range nothing is in it, for a key that is not before its start.
LEMMA Endings ==
    ASSUME Fits, NEW p \in snapshot, Begun(p), OutOfRange(p), NEW r \in snapshot, Precedes(p, r)
    PROVE  OutOfRange(r)
<1>1. p \in Int /\ r \in Int
  BY OptionsAre
<1>2. \A b \in Bound : b = None \/ b \in Int
  BY OptionsAre DEF Bound
<1> QED  BY <1>1, <1>2, OptionsAre, NotNumbers DEF OutOfRange, Precedes, Begun

\* At the start of what the starting bound admits, the whole range is ahead.
LEMMA AllAhead ==
    ASSUME Fits, NEW p, StartsAt(p, {k \in snapshot : Begun(k)})
    PROVE  p \in snapshot \cup {None} /\ AheadOf(p, FALSE) = snapshot \cap InRange
<1>1. snapshot \subseteq Int /\ snapshot \subseteq Keys
  BY OptionsAre DEF Fits
<1>2. \A k \in snapshot : ~OutOfRange(k) => Begun(k)
  <2>1. \A b \in Bound : b = None \/ b \in Int
    BY OptionsAre DEF Bound
  <2> QED  BY <1>1, <2>1, OptionsAre, NotNumbers DEF OutOfRange, Begun
<1>3. CASE p = None
  <2>1. p \notin snapshot
    BY <1>1, <1>3, NotNumbers
  <2>2. {k \in snapshot : Begun(k)} = {}
    BY <2>1 DEF StartsAt
  <2> QED  BY <1>2, <1>3, <2>1, <2>2 DEF AheadOf, Valid, InRange
<1>4. CASE p \in snapshot /\ Begun(p)
  <2>1. \A k \in snapshot : Begun(k) => k = p \/ Precedes(p, k)
    BY <1>1, <1>4, NotNumbers DEF StartsAt
  <2>2. CASE OutOfRange(p)
    <3>1. \A k \in snapshot : OutOfRange(k)
      BY <1>2, <1>4, <2>1, <2>2, Endings
    <3> QED  BY <1>4, <2>2, <3>1 DEF AheadOf, Valid, InRange
  <2>3. CASE ~OutOfRange(p)
    <3>1. Valid(p)
      BY <1>4, <2>3 DEF Valid
    <3>2. \A k \in snapshot \cap InRange : k = p \/ Precedes(p, k)
      BY <1>2, <2>1 DEF InRange
    <3> QED  BY <1>4, <3>1, <3>2 DEF AheadOf
  <2> QED  BY <2>2, <2>3
<1> QED  BY <1>3, <1>4 DEF StartsAt

\* The sought start of a reverse range: the last key that the upper bound admits.
LEMMA BelowIs ==
    ASSUME Fits, options.reverse, NEW b \in Keys, NEW inclusive \in BOOLEAN
    PROVE  StartsAt(Below(b, inclusive), {k \in snapshot : IF inclusive THEN k <= b ELSE k < b})
<1> DEFINE S == {k \in snapshot : IF inclusive THEN k <= b ELSE k < b}
           p == AtOrAfter(b)
<1>0. snapshot \in SUBSET Keys
  BY DEF Fits
<1>1. snapshot \subseteq Int /\ b \in Int
  BY OptionsAre
<1>2. \/ p = None /\ \A l \in snapshot : l < b
      \/ /\ p \in snapshot /\ b <= p
         /\ \A l \in snapshot : b <= l => p <= l
  BY AtOrAfterIs
<1>3. CASE p = None
  <2>1. p \notin snapshot /\ \A l \in snapshot : l < b
    BY <1>1, <1>2, <1>3, NotNumbers
  <2>2. S = snapshot /\ Below(b, inclusive) = Greatest(snapshot)
    <3>1. S = snapshot
      <4>1. ASSUME NEW l \in snapshot PROVE IF inclusive THEN l <= b ELSE l < b
        <5>1. l \in Int /\ b \in Int /\ l < b
          BY <1>1, <2>1
        <5> QED  BY <5>1
      <4> QED  BY <4>1
    <3>2. AtOrAfter(b) = None
      BY <1>3
    <3> QED  BY <3>1, <3>2 DEF Below
  <2>3. \/ snapshot = {} /\ Greatest(snapshot) = None
        \/ Greatest(snapshot) \in snapshot /\ \A k \in snapshot : k <= Greatest(snapshot)
    BY <1>0, GreatestIs
  <2>4. StartsAt(Greatest(snapshot), snapshot)
    <3>1. snapshot \in SUBSET Int
      BY <1>1
    <3>2. CASE snapshot = {}
      BY <2>3, <3>2 DEF StartsAt
    <3>3. CASE snapshot # {}
      BY <2>3, <3>1, <3>3, StartsAtEnd
    <3> QED  BY <3>2, <3>3
  <2> QED  BY <2>2, <2>4
<1>4. CASE p # None /\ inclusive /\ p = b
  <2>1. Below(b, inclusive) = b /\ b \in snapshot
    BY <1>2, <1>4 DEF Below
  <2>2. b \in S /\ \A k \in S : k <= b
    BY <1>1, <1>4, <2>1
  <2>3. S \in SUBSET Int
    BY <1>1
  <2> HIDE DEF S
  <2>4. StartsAt(b, S)
    BY <2>2, <2>3, StartsAtEnd
  <2> QED  BY <2>1, <2>4 DEF S
<1>5. CASE p # None /\ ~(inclusive /\ p = b)
  <2>1. Below(b, inclusive) = DbPrev(p) /\ p \in snapshot
    BY <1>2, <1>5 DEF Below
  <2>2. \A k \in snapshot : k \in S <=> k < p
    <3> TAKE k \in snapshot
    <3>1. k \in Int /\ p \in Int /\ b \in Int
      BY <1>1, <2>1
    <3>2. b <= p /\ (b <= k => p <= k)
      BY <1>2, <2>1, <1>1, NotNumbers
    <3>3. k \in S <=> IF inclusive THEN k <= b ELSE k < b
      OBVIOUS
    <3> HIDE DEF S, p
    <3>4. CASE inclusive
      <4>1. p # b
        BY <1>5, <3>4
      <4> QED  BY <3>1, <3>2, <3>3, <3>4, <4>1
    <3>5. CASE ~inclusive
      BY <3>1, <3>2, <3>3, <3>5
    <3> QED  BY <3>4, <3>5
  <2>3. \/ DbPrev(p) = None /\ \A l \in snapshot : p <= l
        \/ /\ DbPrev(p) \in snapshot /\ DbPrev(p) < p
           /\ \A l \in snapshot : l < p => l <= DbPrev(p)
    BY <2>1, DbPrevIs
  <2>4. S \subseteq snapshot
    OBVIOUS
  <2> HIDE DEF S, p
  <2>5. StartsAt(DbPrev(p), S)
    <3>1. CASE DbPrev(p) \in snapshot /\ DbPrev(p) < p /\ \A l \in snapshot : l < p => l <= DbPrev(p)
      <4>1. S \in SUBSET Int /\ DbPrev(p) \in S /\ \A k \in S : k <= DbPrev(p)
        BY <1>1, <2>2, <2>4, <3>1
      <4> QED  BY <4>1, StartsAtEnd
    <3>2. CASE DbPrev(p) = None /\ \A l \in snapshot : p <= l
      <4>1. S = {}
        BY <1>1, <2>1, <2>2, <2>4, <3>2
      <4> QED  BY <3>2, <4>1 DEF StartsAt
    <3> QED  BY <2>3, <3>1, <3>2
  <2> QED  BY <2>1, <2>5 DEF S
<1> QED  BY <1>3, <1>4, <1>5

\* SeekToRange goes to the start of what the starting bound admits, if there is one such bound.
LEMMA ToRangeIs ==
    ASSUME Fits, OneBoundEach(options)
    PROVE  StartsAt(ToRange, {k \in snapshot : Begun(k)})
<1> DEFINE S == {k \in snapshot : Begun(k)}
<1>0. snapshot \in SUBSET Keys
  BY DEF Fits
<1>1. snapshot \subseteq Int
  BY OptionsAre
<1>2. \A b \in Bound : b = None \/ b \in Keys
  BY DEF Bound
<1>3. CASE ~options.reverse /\ options.gte # None
  <2> DEFINE p == AtOrAfter(options.gte)
  <2>1. ToRange = p /\ options.gte \in Keys /\ options.gt = None /\ options.gte \in Int
    BY <1>2, <1>3, OptionsAre DEF ToRange, OneBoundEach
  <2>2. \A k \in snapshot : k \in S <=> options.gte <= k
    BY <1>1, <1>3, <2>1 DEF Begun
  <2>3. \/ p = None /\ \A l \in snapshot : l < options.gte
        \/ /\ p \in snapshot /\ options.gte <= p
           /\ \A l \in snapshot : options.gte <= l => p <= l
    BY <2>1, AtOrAfterIs
  <2>4. S \subseteq snapshot
    OBVIOUS
  <2> HIDE DEF S, p
  <2>5. StartsAt(p, S)
    <3>1. CASE p = None /\ \A l \in snapshot : l < options.gte
      <4>1. S = {}
        BY <1>1, <2>1, <2>2, <2>4, <3>1
      <4> QED  BY <3>1, <4>1 DEF StartsAt
    <3>2. CASE p \in snapshot /\ options.gte <= p /\ \A l \in snapshot : options.gte <= l => p <= l
      <4>1. S \in SUBSET Int /\ p \in S /\ \A k \in S : p <= k
        BY <1>1, <2>2, <2>4, <3>2
      <4> QED  BY <1>3, <4>1, StartsAtEnd
    <3> QED  BY <2>3, <3>1, <3>2
  <2> QED  BY <2>1, <2>5 DEF S
<1>4. CASE ~options.reverse /\ options.gte = None /\ options.gt # None
  <2> DEFINE p == AtOrAfter(options.gt)
             r == IF p = options.gt THEN DbNext(p) ELSE p
  <2>1. ToRange = r /\ options.gt \in Keys /\ options.gt \in Int
    BY <1>2, <1>4, OptionsAre DEF ToRange
  <2>2. \A k \in snapshot : k \in S <=> options.gt < k
    BY <1>1, <1>4, <2>1 DEF Begun
  <2>3. \/ p = None /\ \A l \in snapshot : l < options.gt
        \/ /\ p \in snapshot /\ options.gt <= p
           /\ \A l \in snapshot : options.gt <= l => p <= l
    BY <2>1, AtOrAfterIs
  <2>4. S \subseteq snapshot
    OBVIOUS
  <2>5. CASE p = options.gt
    <3>1. p \in snapshot
      BY <2>1, <2>3, <2>5, NotNumbers
    <3>2. \/ DbNext(p) = None /\ \A l \in snapshot : l <= p
          \/ /\ DbNext(p) \in snapshot /\ p < DbNext(p)
             /\ \A l \in snapshot : p < l => DbNext(p) <= l
      BY <3>1, DbNextIs
    <3>3. r = DbNext(p)
      BY <2>5
    <3> HIDE DEF S, p, r
    <3>4. StartsAt(r, S)
      <4>1. CASE DbNext(p) = None /\ \A l \in snapshot : l <= p
        <5>1. S = {}
          BY <1>1, <2>1, <2>2, <2>4, <2>5, <4>1
        <5> QED  BY <3>3, <4>1, <5>1 DEF StartsAt
      <4>2. CASE DbNext(p) \in snapshot /\ p < DbNext(p) /\ \A l \in snapshot : p < l => DbNext(p) <= l
        <5>1. S \in SUBSET Int /\ r \in S /\ \A k \in S : r <= k
          BY <1>1, <2>2, <2>4, <2>5, <3>3, <4>2
        <5> QED  BY <1>4, <5>1, StartsAtEnd
      <4> QED  BY <3>2, <4>1, <4>2
    <3> QED  BY <2>1, <3>4 DEF S
  <2>6. CASE p # options.gt
    <3>1. r = p
      BY <2>6
    <3> HIDE DEF S, p, r
    <3>2. StartsAt(p, S)
      <4>1. CASE p = None /\ \A l \in snapshot : l < options.gt
        <5>1. S = {}
          BY <1>1, <2>1, <2>2, <2>4, <4>1
        <5> QED  BY <4>1, <5>1 DEF StartsAt
      <4>2. CASE p \in snapshot /\ options.gt <= p /\ \A l \in snapshot : options.gt <= l => p <= l
        <5>1. \A k \in S : p <= k
          BY <1>1, <2>1, <2>2, <2>4, <4>2
        <5>2. p \in Int /\ options.gt \in Int /\ options.gt <= p
          BY <1>1, <2>1, <4>2
        <5>3. options.gt < p
          BY <5>2, <2>6
        <5>4. S \in SUBSET Int /\ p \in S
          BY <1>1, <2>2, <2>4, <4>2, <5>3
        <5> QED  BY <1>4, <5>1, <5>4, StartsAtEnd
      <4> QED  BY <2>3, <4>1, <4>2
    <3> QED  BY <2>1, <3>1, <3>2 DEF S
  <2> QED  BY <2>5, <2>6
<1>5. CASE options.reverse /\ options.lte # None
  <2>1. ToRange = Below(options.lte, TRUE) /\ options.lte \in Keys /\ options.lt = None
    BY <1>2, <1>5, OptionsAre DEF ToRange, OneBoundEach
  <2>2. S = {k \in snapshot : IF TRUE THEN k <= options.lte ELSE k < options.lte}
    BY <1>5, <2>1 DEF Begun
  <2> QED  BY <1>5, <2>1, <2>2, BelowIs
<1>6. CASE options.reverse /\ options.lte = None /\ options.lt # None
  <2>1. ToRange = Below(options.lt, FALSE) /\ options.lt \in Keys
    BY <1>2, <1>6, OptionsAre DEF ToRange
  <2>2. S = {k \in snapshot : IF FALSE THEN k <= options.lt ELSE k < options.lt}
    BY <1>6, <2>1 DEF Begun
  <2> QED  BY <1>6, <2>1, <2>2, BelowIs
<1>7. CASE \/ ~options.reverse /\ options.gte = None /\ options.gt = None
           \/ options.reverse /\ options.lte = None /\ options.lt = None
  <2>1. ToRange = ToFirst
    BY <1>7 DEF ToRange
  <2>2. S = snapshot
    BY <1>7 DEF Begun
  <2>3. StartsAt(ToFirst, snapshot)
    BY EndsAre DEF StartsAt
  <2> QED  BY <2>1, <2>2, <2>3
<1> QED  BY <1>3, <1>4, <1>5, <1>6, <1>7, OptionsAre

\* What is ahead at the start of a set of entries that reaches to the last one.
LEMMA AheadFrom ==
    ASSUME Fits, NEW S \in SUBSET snapshot, NEW p, StartsAt(p, S),
           \A k \in S : \A r \in snapshot : Precedes(k, r) => r \in S,
           p \in S /\ OutOfRange(p) => \A r \in S : OutOfRange(r)
    PROVE  p \in snapshot \cup {None} /\ AheadOf(p, FALSE) = S \cap InRange
<1>1. snapshot \subseteq Keys /\ None \notin snapshot
  BY OptionsAre, NotNumbers DEF Fits
<1>2. CASE p = None /\ S = {}
  BY <1>1, <1>2 DEF AheadOf, Valid
<1>3. CASE p \in S /\ \A k \in S : k = p \/ Precedes(p, k)
  <2>1. CASE OutOfRange(p)
    BY <1>3, <2>1 DEF AheadOf, Valid, InRange
  <2>2. CASE ~OutOfRange(p)
    <3>1. Valid(p)
      BY <1>3, <2>2 DEF Valid
    <3>2. \A k \in snapshot : k \in S <=> k = p \/ Precedes(p, k)
      BY <1>3
    <3> QED  BY <1>3, <3>1, <3>2 DEF AheadOf
  <2> QED  BY <1>3, <2>1, <2>2
<1> QED  BY <1>2, <1>3 DEF StartsAt

\* seek() goes to the target or past it, or to the end.
LEMMA ToTargetIs ==
    ASSUME Fits, NEW target \in Keys, snapshot # {} \/ ~OutOfRange(target)
    PROVE  /\ ToTarget(target) \in snapshot \cup {None}
           /\ AheadOf(ToTarget(target), FALSE) =
                IF target \in InRange THEN {k \in snapshot \cap InRange : k = target \/ Precedes(target, k)}
                ELSE {}
<1> DEFINE S == {k \in snapshot : k = target \/ Precedes(target, k)}
           p == AtOrAfter(target)
           q == ToTarget(target)
<1>1. snapshot \subseteq Int /\ snapshot \subseteq Keys /\ target \in Int /\ None \notin snapshot
  <2>1. Keys \subseteq Int
    BY OptionsAre
  <2> QED  BY <2>1, OptionsAre, NotNumbers DEF Fits
<1>2. CASE OutOfRange(target)
  <2>1. q = None
    BY <1>2, EndsAre DEF ToTarget
  <2> QED  BY <1>1, <1>2, <2>1 DEF AheadOf, Valid, InRange
<1>3. CASE ~OutOfRange(target)
  <2>1. \/ p = None /\ \A l \in snapshot : l < target
        \/ /\ p \in snapshot /\ target <= p
           /\ \A l \in snapshot : target <= l => p <= l
    BY AtOrAfterIs
  <2>2. S \in SUBSET snapshot /\ S \in SUBSET Int
    BY <1>1
  <2>3. \A k \in snapshot : k \in S <=> IF options.reverse THEN k <= target ELSE target <= k
    <3> TAKE k \in snapshot
    <3>1. k \in Int
      BY <1>1
    <3> QED  BY <1>1, <3>1 DEF Precedes
  <2>4. q = IF p # None THEN IF Precedes(p, target) THEN Moved(p) ELSE p
            ELSE IF ToFirst # None /\ Precedes(ToFirst, target) THEN ToEnd
            ELSE ToFirst
    BY <1>3 DEF ToTarget
  <2> HIDE DEF S, p, q
  <2>5. StartsAt(q, S)
    <3>1. CASE p = None /\ snapshot = {}
      <4>1. q = None
        BY <2>4, <3>1, EndsAre
      <4>2. S = {}
        BY <2>2, <3>1
      <4> QED  BY <4>1, <4>2 DEF StartsAt
    <3>2. CASE p = None /\ snapshot # {}
      <4>1. /\ ToFirst \in snapshot /\ \A l \in snapshot : l = ToFirst \/ Precedes(ToFirst, l)
            /\ ToEnd = None /\ ToFirst \in Int /\ ToFirst # None
        BY <1>1, <3>2, EndsAre
      <4>2. \A l \in snapshot : l < target
        BY <1>1, <2>1, <3>2
      <4>3. CASE options.reverse
        <5>1. ~Precedes(ToFirst, target)
          BY <1>1, <4>1, <4>2, <4>3 DEF Precedes
        <5>2. S = snapshot
          <6>1. \A l \in snapshot : l <= target
            BY <1>1, <4>2
          <6> QED  BY <2>2, <2>3, <4>3, <6>1
        <5>3. q = ToFirst
          BY <2>4, <3>2, <5>1
        <5> QED  BY <4>1, <5>2, <5>3 DEF StartsAt
      <4>4. CASE ~options.reverse
        <5>1. Precedes(ToFirst, target)
          BY <1>1, <4>1, <4>2, <4>4 DEF Precedes
        <5>2. S = {}
          <6>1. \A l \in snapshot : ~(target <= l)
            BY <1>1, <4>2
          <6> QED  BY <2>2, <2>3, <4>4, <6>1
        <5>3. q = None
          BY <2>4, <3>2, <4>1, <5>1
        <5> QED  BY <5>2, <5>3 DEF StartsAt
      <4> QED  BY <4>3, <4>4
    <3>3. CASE p # None
      <4>1. /\ p \in snapshot /\ target <= p /\ p \in Int
            /\ \A l \in snapshot : target <= l => p <= l
        BY <1>1, <2>1, <3>3
      <4>2. CASE ~options.reverse
        <5>1. ~Precedes(p, target)
          BY <1>1, <4>1, <4>2 DEF Precedes
        <5>2. q = p
          BY <2>4, <3>3, <5>1
        <5>3. p \in S /\ \A k \in S : p <= k
          BY <2>2, <2>3, <4>1, <4>2
        <5> QED  BY <2>2, <4>2, <5>2, <5>3, StartsAtEnd
      <4>3. CASE options.reverse /\ p = target
        <5>1. ~Precedes(p, target)
          BY <1>1, <4>1, <4>3 DEF Precedes
        <5>2. q = p
          BY <2>4, <3>3, <5>1
        <5>3. p \in S /\ \A k \in S : k <= p
          BY <1>1, <2>2, <2>3, <4>1, <4>3
        <5> QED  BY <2>2, <4>3, <5>2, <5>3, StartsAtEnd
      <4>4. CASE options.reverse /\ p # target
        <5>1. Precedes(p, target)
          BY <1>1, <4>1, <4>4 DEF Precedes
        <5>2. q = DbPrev(p)
          BY <2>4, <3>3, <4>4, <5>1 DEF Moved
        <5>3. \A k \in snapshot : k \in S <=> k < p
          <6> TAKE k \in snapshot
          <6>1. k \in Int /\ (target <= k => p <= k)
            BY <1>1, <4>1
          <6>2. k \in S <=> k <= target
            BY <2>3, <4>4
          <6>3. target < p
            BY <1>1, <4>1, <4>4
          <6> QED  BY <1>1, <4>1, <6>1, <6>2, <6>3
        <5>4. \/ DbPrev(p) = None /\ \A l \in snapshot : p <= l
              \/ /\ DbPrev(p) \in snapshot /\ DbPrev(p) < p
                 /\ \A l \in snapshot : l < p => l <= DbPrev(p)
          BY <4>1, DbPrevIs
        <5>5. CASE DbPrev(p) = None /\ \A l \in snapshot : p <= l
          <6>1. S = {}
            BY <1>1, <2>2, <4>1, <5>3, <5>5
          <6> QED  BY <5>2, <5>5, <6>1 DEF StartsAt
        <5>6. CASE /\ DbPrev(p) \in snapshot /\ DbPrev(p) < p
                   /\ \A l \in snapshot : l < p => l <= DbPrev(p)
          <6>1. DbPrev(p) \in S /\ \A k \in S : k <= DbPrev(p)
            BY <2>2, <5>3, <5>6
          <6> QED  BY <2>2, <4>4, <5>2, <6>1, StartsAtEnd
        <5> QED  BY <5>4, <5>5, <5>6
      <4> QED  BY <4>2, <4>3, <4>4
    <3> QED  BY <3>1, <3>2, <3>3
  <2>6. \A k \in S : \A r \in snapshot : Precedes(k, r) => r \in S
    <3> SUFFICES ASSUME NEW k \in S, NEW r \in snapshot, Precedes(k, r) PROVE r \in S
      OBVIOUS
    <3>1. k \in Int /\ r \in Int /\ k \in snapshot
      BY <1>1, <2>2
    <3> QED  BY <1>1, <2>3, <3>1 DEF Precedes
  <2>7. q \in S /\ OutOfRange(q) => \A r \in S : OutOfRange(r)
    <3> SUFFICES ASSUME q \in S, OutOfRange(q), NEW r \in S PROVE OutOfRange(r)
      OBVIOUS
    <3>1. q # None
      BY <1>1, <2>2
    <3>2. r = q \/ Precedes(q, r)
      BY <2>5, <3>1 DEF StartsAt
    <3>3. q = target \/ Precedes(target, q)
      BY DEF S
    <3> QED  BY <1>3, <2>2, <3>2, <3>3, Convex
  <2>8. q \in snapshot \cup {None} /\ AheadOf(q, FALSE) = S \cap InRange
    BY <2>2, <2>5, <2>6, <2>7, AheadFrom
  <2>9. target \in InRange
    BY <1>3 DEF InRange
  <2> QED  BY <2>8, <2>9 DEF q, S
<1> QED  BY <1>2, <1>3
-----------------------------------------------------------------------------
(* ReadMany. *)

\* What the loop of ReadMany starts with, and the loop as a function of its turns.
Start == [pos |-> IF didSeek THEN pos ELSE ToRange, landed |-> landed, count |-> count,
          cache |-> <<>>, done |-> FALSE, more |-> TRUE]
Turning(f, n) == f = [i \in 0..n |-> IF i = 0 THEN Start ELSE Pull(f[i - 1])]

\* ReadMany gives the last turn of the loop.
LEMMA ReadManyIs == \A n : ReadMany(n) = (CHOOSE f : Turning(f, n))[n]
BY DEF ReadMany, Turning, Start

\* The loop is well defined: a function has the turns for values.
LEMMA TurningExists == \A n \in Nat : \E f : Turning(f, n)
<1> DEFINE T == {n \in Nat : \E f : Turning(f, n)}
<1>1. 0 \in T
  <2> DEFINE f == [i \in 0..0 |-> Start]
  <2>1. Turning(f, 0)
    BY DEF Turning
  <2> QED  BY <2>1
<1>2. ASSUME NEW n \in Nat, n \in T PROVE n + 1 \in T
  <2>1. PICK g : Turning(g, n)
    BY <1>2
  <2> DEFINE f == [i \in 0..(n + 1) |-> IF i = n + 1 THEN Pull(g[n]) ELSE g[i]]
  <2>2. \A i \in 0..(n + 1) : f[i] = IF i = 0 THEN Start ELSE Pull(f[i - 1])
    <3> TAKE i \in 0..(n + 1)
    <3>1. CASE i = n + 1
      <4>1. i # 0 /\ i - 1 = n /\ n \in 0..(n + 1) /\ n # n + 1
        BY <3>1
      <4>2. f[i - 1] = g[n] /\ f[i] = Pull(g[n])
        BY <3>1, <4>1
      <4> QED  BY <4>1, <4>2
    <3>2. CASE i # n + 1
      <4>1. i \in 0..n /\ (i # 0 => i - 1 \in 0..n /\ i - 1 \in 0..(n + 1) /\ i - 1 # n + 1)
        BY <3>2
      <4>2. f[i] = g[i] /\ (i # 0 => f[i - 1] = g[i - 1])
        BY <3>2, <4>1
      <4>3. g[i] = IF i = 0 THEN Start ELSE Pull(g[i - 1])
        BY <2>1, <4>1 DEF Turning
      <4> QED  BY <4>2, <4>3
    <3> QED  BY <3>1, <3>2
  <2> HIDE DEF f
  <2>3. f = [i \in 0..(n + 1) |-> IF i = 0 THEN Start ELSE Pull(f[i - 1])]
    <3>1. f = [i \in 0..(n + 1) |-> f[i]]
      BY DEF f
    <3> QED  BY <2>2, <3>1
  <2> QED  BY <2>3 DEF Turning
<1> HIDE DEF T
<1>3. Nat \subseteq T
  BY <1>1, <1>2, Upwards
<1> QED  BY <1>3 DEF T

\* What is read is what the turns make of the start.
LEMMA TurnByTurn ==
    ASSUME NEW n \in Nat, NEW T, Start \in T, NEW U,
           \A s \in T \cup U : Pull(s) \in U
    PROVE  ReadMany(n) \in T \cup U /\ (n > 0 => ReadMany(n) \in U)
<1> DEFINE f == CHOOSE f : Turning(f, n)
<1>1. Turning(f, n)
  BY TurningExists
<1> HIDE DEF f
<1>2. \A i \in 0..n : f[i] = IF i = 0 THEN Start ELSE Pull(f[i - 1])
  BY <1>1 DEF Turning
<1> DEFINE S == {i \in Nat : i <= n => f[i] \in T \cup U /\ (i > 0 => f[i] \in U)}
<1>3. 0 \in S
  <2>1. f[0] = Start
    BY <1>2
  <2> QED  BY <2>1
<1>4. ASSUME NEW i \in Nat, i \in S PROVE i + 1 \in S
  <2> SUFFICES ASSUME i + 1 <= n PROVE f[i + 1] \in U
    OBVIOUS
  <2>1. f[i] \in T \cup U
    BY <1>4
  <2>2. i + 1 \in 0..n /\ i + 1 # 0 /\ (i + 1) - 1 = i
    OBVIOUS
  <2>3. f[i + 1] = Pull(f[i])
    BY <1>2, <2>2
  <2> QED  BY <2>1, <2>3
<1> HIDE DEF S
<1>5. n \in S
  BY <1>3, <1>4, Upwards
<1> QED  BY <1>5, ReadManyIs DEF S, f
-----------------------------------------------------------------------------
(* The leveldb iterator is moved from entries only. *)

\* What a read is after a turn: while it goes on, it stands on an entry.
Turn == [pos: snapshot \cup {None}, landed: BOOLEAN, count: Nat, cache: Seq(snapshot),
         done: BOOLEAN, more: BOOLEAN]
Stands(s) == /\ s \in Turn
             /\ s.landed /\ ~s.done => Valid(s.pos)
             /\ s.done => ~s.more

\* The inductive invariant: an iterator that goes on from where it landed stands on a key of the
\* range; it is off its entries only when it landed nowhere or this.finished keeps it from being moved.
MoveInv ==
    /\ Fits /\ pos \in snapshot \cup {None} /\ count \in Nat /\ cache \in Seq(snapshot)
    /\ didSeek \in BOOLEAN /\ landed \in BOOLEAN /\ finished \in BOOLEAN
    /\ landed => didSeek
    /\ landed /\ ~finished => Valid(pos)

\* SeekToRange leaves the leveldb iterator on an entry or off the last, never moved from nowhere.
LEMMA ToRangeIsEntry == ASSUME Fits PROVE ToRange \in snapshot \cup {None}
<1>1. /\ \A b \in Bound : b = None \/ b \in Keys
      /\ \A k \in Keys : AtOrAfter(k) \in snapshot \cup {None}
      /\ \A k \in snapshot : DbNext(k) \in snapshot \cup {None} /\ DbPrev(k) \in snapshot \cup {None}
      /\ ToFirst \in snapshot \cup {None}
  BY AtOrAfterIs, DbNextIs, DbPrevIs, EndsAre DEF Bound
<1>2. None \notin Keys
  <2>1. Keys \subseteq Int
    BY OptionsAre
  <2> QED  BY <2>1, NotNumbers
<1>3. ASSUME NEW b \in Keys, NEW inclusive PROVE Below(b, inclusive) \in snapshot \cup {None}
  <2>1. Greatest(snapshot) \in snapshot \cup {None}
    BY GreatestIs DEF Fits
  <2> QED  BY <1>1, <2>1 DEF Below
<1>4. CASE ~options.reverse /\ options.gte = None /\ options.gt # None
  <2>1. ToRange = IF AtOrAfter(options.gt) = options.gt THEN DbNext(AtOrAfter(options.gt))
                  ELSE AtOrAfter(options.gt)
    BY <1>4 DEF ToRange
  <2>2. options.gt \in Keys
    BY <1>1, <1>4, OptionsAre
  <2> QED  BY <1>1, <1>2, <2>1, <2>2
<1>5. CASE ~options.reverse /\ options.gte # None
  <2>1. ToRange = AtOrAfter(options.gte)
    BY <1>5 DEF ToRange
  <2> QED  BY <1>1, <1>5, <2>1, OptionsAre
<1>6. CASE options.reverse /\ options.lte # None
  <2>1. ToRange = Below(options.lte, TRUE)
    BY <1>6 DEF ToRange
  <2> QED  BY <1>1, <1>3, <1>6, <2>1, OptionsAre
<1>7. CASE options.reverse /\ options.lte = None /\ options.lt # None
  <2>1. ToRange = Below(options.lt, FALSE)
    BY <1>7 DEF ToRange
  <2> QED  BY <1>1, <1>3, <1>7, <2>1, OptionsAre
<1>8. CASE \/ ~options.reverse /\ options.gte = None /\ options.gt = None
           \/ options.reverse /\ options.lte = None /\ options.lt = None
  <2>1. ToRange = ToFirst
    BY <1>8 DEF ToRange
  <2> QED  BY <1>1, <2>1
<1> QED  BY <1>4, <1>5, <1>6, <1>7, <1>8, OptionsAre

\* A read starts in good order.
LEMMA StartStands == ASSUME MoveInv, ~finished PROVE Stands(Start)
<1>1. Start.pos \in snapshot \cup {None}
  BY ToRangeIsEntry DEF MoveInv, Start
<1>2. <<>> \in Seq(snapshot)
  OBVIOUS
<1>3. Start \in Turn
  BY <1>1, <1>2 DEF MoveInv, Start, Turn
<1> QED  BY <1>3 DEF MoveInv, Start, Stands

\* The parts of a turn.
At(s) == IF s.landed THEN Moved(s.pos) ELSE s.pos
Counted(s) == IF Limited /\ s.count <= options.limit THEN s.count + 1 ELSE s.count
PullEnds(s) == [s EXCEPT !.pos = At(s), !.done = TRUE, !.more = FALSE]
PullMeetsLimit(s) == [s EXCEPT !.pos = At(s), !.count = Counted(s), !.done = TRUE, !.more = FALSE]
PullReads(s) == [s EXCEPT !.pos = At(s), !.count = Counted(s), !.cache = Append(@, At(s)),
                          !.landed = TRUE, !.more = s.landed]

\* A turn is idle, meets the end, meets the limit, or reads a key.
LEMMA PullIs ==
    \A s : Pull(s) = IF ~s.more THEN s
                     ELSE IF ~Valid(At(s)) THEN PullEnds(s)
                     ELSE IF Limited /\ Counted(s) > options.limit THEN PullMeetsLimit(s)
                     ELSE PullReads(s)
BY DEF Pull, At, Counted, PullEnds, PullMeetsLimit, PullReads

\* Each of these leaves the read in good order.
LEMMA PullIsTurn ==
    ASSUME Fits, NEW s, Stands(s), s.more
    PROVE  /\ At(s) \in snapshot \cup {None} /\ Counted(s) \in Nat
           /\ Stands(PullEnds(s)) /\ Stands(PullMeetsLimit(s))
           /\ Valid(At(s)) => Stands(PullReads(s)) /\ At(s) \in snapshot
<1>1. s \in Turn /\ ~s.done
  BY DEF Stands
<1>2. At(s) \in snapshot \cup {None}
  BY <1>1, MovedIs DEF At, Stands, Turn, Valid
<1>3. Counted(s) \in Nat
  BY <1>1 DEF Counted, Turn
<1>4. Valid(At(s)) => At(s) \in snapshot
  BY DEF Valid
<1> HIDE DEF At, Counted
<1>5. PullEnds(s) \in Turn /\ PullMeetsLimit(s) \in Turn
  BY <1>1, <1>2, <1>3 DEF PullEnds, PullMeetsLimit, Turn
<1>6. Valid(At(s)) => PullReads(s) \in Turn
  <2>1. At(s) \in snapshot => Append(s.cache, At(s)) \in Seq(snapshot)
    BY <1>1 DEF Turn
  <2> QED  BY <1>1, <1>2, <1>3, <1>4, <2>1 DEF PullReads, Turn
<1>7. Stands(PullEnds(s)) /\ Stands(PullMeetsLimit(s))
  BY <1>1, <1>5 DEF Stands, PullEnds, PullMeetsLimit, Turn
<1>8. Valid(At(s)) => Stands(PullReads(s))
  BY <1>1, <1>6 DEF Stands, PullReads, Turn
<1> QED  BY <1>2, <1>3, <1>4, <1>7, <1>8

\* So does every turn,
LEMMA PullStands == ASSUME Fits, NEW s, Stands(s) PROVE Stands(Pull(s))
BY PullIs, PullIsTurn

\* and so does the whole of ReadMany.
LEMMA ReadStands == ASSUME MoveInv, ~finished, NEW n \in Nat PROVE Stands(ReadMany(n))
<1> DEFINE T == {s \in Turn : Stands(s)}
<1>1. Start \in T
  BY StartStands DEF Stands
<1>2. \A s \in T \cup T : Pull(s) \in T
  BY PullStands DEF MoveInv, Stands
<1> HIDE DEF T
<1>3. ReadMany(n) \in T \cup T
  BY <1>1, <1>2, TurnByTurn
<1> QED  BY <1>3 DEF T

\* Nothing changes the options or the snapshot,
LEMMA FitsIsKept == ASSUME Fits, UNCHANGED <<options, snapshot>> PROVE Fits'
BY DEF Fits

\* so that the range,
LEMMA ValidIsKept ==
    ASSUME UNCHANGED <<options, snapshot>>
    PROVE  /\ \A p : Valid(p)' = Valid(p)
           /\ \A p : OutOfRange(p)' = OutOfRange(p)
           /\ \A p, given : AheadOf(p, given)' = AheadOf(p, given)
           /\ InRange' = InRange
BY DEF Valid, OutOfRange, AheadOf, InRange, Precedes

\* The invariant holds before the first call,
LEMMA MoveInvInit == ASSUME RangeInit PROVE MoveInv
<1>1. <<>> \in Seq(snapshot)
  OBVIOUS
<1> QED  BY <1>1 DEF RangeInit, MoveInv, Fits

\* and whether a position is valid, stay too.
LEMMA PosIsKept ==
    ASSUME UNCHANGED <<options, snapshot>>
    PROVE  /\ Valid(pos)' <=> Valid(pos')
           /\ pos' = pos => (Valid(pos') <=> Valid(pos))
BY DEF Valid, OutOfRange

\* and next() and seek() keep it.
LEMMA MoveInvNext == ASSUME MoveInv, [RangeNext]_rangeVars PROVE MoveInv'
<1>1. CASE NextFromCache
  <2>1. Fits' /\ (Valid(pos)' <=> Valid(pos')) /\ (pos' = pos => (Valid(pos') <=> Valid(pos)))
    BY <1>1, FitsIsKept, PosIsKept DEF MoveInv, NextFromCache
  <2>2. Tail(cache) \in Seq(snapshot)
    BY <1>1 DEF MoveInv, NextFromCache
  <2>3. landed' /\ ~finished' => Valid(pos')
    BY <1>1, <2>1 DEF MoveInv, NextFromCache, native
  <2> QED  BY <1>1, <2>1, <2>2, <2>3 DEF MoveInv, NextFromCache, native
<1>2. CASE NextAtEnd
  <2>1. Fits' /\ (Valid(pos)' <=> Valid(pos')) /\ (pos' = pos => (Valid(pos') <=> Valid(pos)))
    BY <1>2, FitsIsKept, PosIsKept DEF MoveInv, NextAtEnd
  <2>2. landed' /\ ~finished' => Valid(pos')
    BY <1>2, <2>1 DEF MoveInv, NextAtEnd, native
  <2> QED  BY <1>2, <2>1, <2>2 DEF MoveInv, NextAtEnd, native
<1>3. CASE NextReads
  <2>1. Fits' /\ (Valid(pos)' <=> Valid(pos')) /\ (pos' = pos => (Valid(pos') <=> Valid(pos)))
    BY <1>3, FitsIsKept, PosIsKept DEF MoveInv, NextReads
  <2>2. PICK n \in 1..MaxBatch :
          LET read == ReadMany(n)
          IN  /\ pos' = read.pos /\ landed' = read.landed /\ count' = read.count
              /\ finished' = read.done
              /\ IF read.cache = <<>>
                 THEN answer' = NoMore /\ cache' = <<>>
                 ELSE answer' = Head(read.cache) /\ cache' = Tail(read.cache)
    BY <1>3 DEF NextReads
  <2>3. n \in Nat
    BY RangeAssumption
  <2>4. Stands(ReadMany(n))
    BY <1>3, <2>3, ReadStands DEF NextReads
  <2>5. cache' \in Seq(snapshot)
    BY <2>2, <2>4 DEF Stands, Turn
  <2>6. landed' /\ ~finished' => Valid(pos')
    BY <2>1, <2>2, <2>4 DEF Stands
  <2> QED  BY <1>3, <2>1, <2>2, <2>4, <2>5, <2>6 DEF MoveInv, NextReads, Stands, Turn
<1>4. ASSUME NEW target \in Keys, Seek(target) PROVE MoveInv'
  <2>1. Fits'
    BY <1>4, FitsIsKept DEF MoveInv, Seek
  <2>2. ToTarget(target) \in snapshot \cup {None}
    BY <1>4, ToTargetIs DEF MoveInv, Seek
  <2>3. <<>> \in Seq(snapshot)
    OBVIOUS
  <2> QED  BY <1>4, <2>1, <2>2, <2>3 DEF MoveInv, Seek
<1>5. CASE UNCHANGED rangeVars
  <2>1. Fits' /\ (Valid(pos)' <=> Valid(pos')) /\ (pos' = pos => (Valid(pos') <=> Valid(pos)))
    BY <1>5, FitsIsKept, PosIsKept DEF MoveInv, rangeVars
  <2>2. landed' /\ ~finished' => Valid(pos')
    BY <1>5, <2>1 DEF MoveInv, rangeVars, native
  <2> QED  BY <1>5, <2>1, <2>2 DEF MoveInv, rangeVars, native
<1> QED  BY <1>1, <1>2, <1>3, <1>4, <1>5 DEF RangeNext

\* The leveldb iterator is moved only from an entry, whatever is sought and read in
\* which batches (BaseIterator::Next and Seek, Iterator::ReadMany).
THEOREM EntriesAreLeft == RangeSpec => []MovesFromEntries
<1>1. RangeInit => MoveInv
  BY MoveInvInit
<1>2. MoveInv /\ [RangeNext]_rangeVars => MoveInv'
  BY MoveInvNext
<1>3. MoveInv => MovesFromEntries
  <2> SUFFICES ASSUME MoveInv PROVE pos # Undefined
    BY DEF MovesFromEntries
  <2>1. snapshot \subseteq Int
    BY OptionsAre DEF MoveInv
  <2> QED  BY <2>1, NotNumbers, RangeAssumption DEF MoveInv
<1> QED  BY <1>1, <1>2, <1>3, PTL DEF RangeSpec
-----------------------------------------------------------------------------
(* An iterator is a cursor. *)

\* The limit was met, and what room it leaves after c keys; the keys of a sequence, in order.
OverLimit(c) == Limited /\ c > options.limit
Room(c) == IF c < options.limit THEN options.limit - c ELSE 0
Elements(c) == {c[i] : i \in DOMAIN c}
InOrder(c) == \A i, j \in DOMAIN c : i < j => Precedes(c[i], c[j])

\* The keys in c were read, in order, and those in S are behind them.
Leading(c, S) == InOrder(c) /\ Elements(c) \subseteq InRange /\ \A k \in Elements(c), l \in S : Precedes(k, l)

\* What is still ahead of a read after a turn.
LeftBy(s) == AheadOf(s.pos, s.landed /\ ~OverLimit(s.count))

\* A turn reads from the keys U that were ahead when there was room for n more.
Reads(s, U, n) ==
    /\ Stands(s)
    /\ s.landed /\ ~s.done => ~OverLimit(s.count)
    /\ U = Elements(s.cache) \cup LeftBy(s)
    /\ Leading(s.cache, LeftBy(s))
    /\ Limited => Len(s.cache) + Room(s.count) = n
    /\ s.done => LeftBy(s) = {} \/ OverLimit(s.count)

\* The inductive invariant of the refinement: the cache leads what is unread, an iterator that
\* is finished has nothing unread or met its limit, and one that was not placed read nothing.
CursorInv ==
    /\ MoveInv /\ OneBoundEach(options)
    /\ landed /\ ~finished => ~OverLimit(count)
    /\ Leading(cache, Unread)
    /\ finished => Unread = {} \/ OverLimit(count)
    /\ ~didSeek => cache = <<>> /\ ~finished /\ ~landed

\* The mapping's Unread in the terms of the proofs.
LEMMA UnreadIs ==
    /\ didSeek => Unread = AheadOf(pos, landed /\ ~OverLimit(count))
    /\ ~didSeek => Unread = snapshot \cap InRange
BY DEF Unread, AheadOf, Passed, OverLimit

\* What is ahead are entries of the range.
LEMMA AheadIsInRange ==
    ASSUME Fits
    PROVE  \A p, given : AheadOf(p, given) \subseteq snapshot \cap InRange
BY DEF AheadOf

\* A read starts with nothing read and all of it ahead.
LEMMA StartReads ==
    ASSUME CursorInv, cache = <<>>, ~finished
    PROVE  Reads(Start, Unread, Room(count))
<1>1. Stands(Start)
  BY StartStands DEF CursorInv
<1>2. Start.cache = <<>> /\ Start.done = FALSE /\ Start.count = count /\ Start.landed = landed
  BY DEF Start
<1>3. LeftBy(Start) = Unread
  <2>1. CASE didSeek
    BY <1>2, <2>1, UnreadIs DEF LeftBy, Start
  <2>2. CASE ~didSeek
    <3>1. AheadOf(ToRange, FALSE) = snapshot \cap InRange
      BY ToRangeIs, AllAhead DEF CursorInv, MoveInv
    <3> QED  BY <1>2, <2>2, <3>1, UnreadIs DEF LeftBy, Start, CursorInv
  <2> QED  BY <2>1, <2>2 DEF CursorInv, MoveInv
<1>4. Elements(<<>>) = {} /\ Leading(<<>>, Unread) /\ Len(<<>>) = 0
  BY DEF Elements, Leading, InOrder
<1>5. Limited => Room(count) \in Nat
  BY OptionsAre DEF CursorInv, MoveInv, Limited, Room
<1> QED  BY <1>1, <1>2, <1>3, <1>4, <1>5 DEF Reads, CursorInv

\* Where a turn looks, what was ahead is.
LEMMA LooksAhead ==
    ASSUME Fits, NEW s, NEW U, NEW n, Reads(s, U, n), s.more
    PROVE  AheadOf(At(s), FALSE) = LeftBy(s)
<1>1. Stands(s) /\ ~s.done /\ s.landed \in BOOLEAN
  BY DEF Reads, Stands, Turn
<1>2. CASE s.landed
  <2>1. Valid(s.pos) /\ ~OverLimit(s.count)
    BY <1>1, <1>2 DEF Reads, Stands
  <2>2. AheadOf(Moved(s.pos), FALSE) = AheadOf(s.pos, TRUE)
    BY <2>1, AheadAfterMove DEF Valid
  <2> QED  BY <1>2, <2>1, <2>2 DEF At, LeftBy
<1>3. CASE ~s.landed
  BY <1>3 DEF At, LeftBy
<1> QED  BY <1>1, <1>2, <1>3

\* A key read behind the others is the last of them.
LEMMA AppendLeads ==
    ASSUME Fits, NEW c \in Seq(snapshot), NEW S, NEW p \in snapshot, p \in InRange,
           Leading(c, S), p \in S, S \subseteq snapshot,
           NEW R, R = {k \in S : k # p}, \A k \in R : Precedes(p, k)
    PROVE  Leading(Append(c, p), R) /\ Elements(Append(c, p)) = Elements(c) \cup {p}
<1> DEFINE d == Append(c, p)
<1>1. /\ d \in Seq(snapshot) /\ Len(d) = Len(c) + 1 /\ Len(c) \in Nat
      /\ \A i \in 1..Len(c) : d[i] = c[i]
      /\ d[Len(c) + 1] = p
      /\ DOMAIN d = 1..(Len(c) + 1) /\ DOMAIN c = 1..Len(c)
  OBVIOUS
<1> HIDE DEF d
<1>2. Elements(d) = Elements(c) \cup {p}
  BY <1>1 DEF Elements
<1>3. InOrder(d)
  <2> SUFFICES ASSUME NEW i \in 1..(Len(c) + 1), NEW j \in 1..(Len(c) + 1), i < j
               PROVE  Precedes(d[i], d[j])
    BY <1>1 DEF InOrder
  <2>1. i \in 1..Len(c) /\ d[i] = c[i] /\ i \in DOMAIN c
    BY <1>1
  <2>2. CASE j = Len(c) + 1
    BY <1>1, <2>1, <2>2 DEF Leading, Elements
  <2>3. CASE j # Len(c) + 1
    <3>1. j \in 1..Len(c) /\ d[j] = c[j] /\ j \in DOMAIN c
      BY <1>1, <2>3
    <3> QED  BY <2>1, <3>1 DEF Leading, InOrder
  <2> QED  BY <2>2, <2>3
<1>4. \A k \in Elements(d), l \in R : Precedes(k, l)
  BY <1>2 DEF Leading
<1> QED  BY <1>2, <1>3, <1>4 DEF Leading, d

\* Every turn of a read that goes on reads the next key, or finds the end or the limit.
LEMMA PullReadsOn ==
    ASSUME Fits, NEW s, NEW U, NEW n, Reads(s, U, n), s.more
    PROVE  Reads(Pull(s), U, n) /\ (Pull(s).cache = <<>> => Pull(s).done)
<1> DEFINE p == At(s)
           c == Counted(s)
<1>1. Stands(s) /\ s \in Turn /\ ~s.done /\ s.landed \in BOOLEAN /\ s.count \in Nat
  BY DEF Reads, Stands, Turn
<1>2. AheadOf(p, FALSE) = LeftBy(s)
  BY LooksAhead
<1>3. p \in snapshot \cup {None} /\ c \in Nat
  BY <1>1, PullIsTurn
<1>4. options.limit \in Int
  BY OptionsAre
<1>5. CASE ~Valid(p)
  <2>1. Pull(s) = PullEnds(s) /\ Stands(PullEnds(s))
    BY <1>1, <1>5, PullIs, PullIsTurn
  <2>2. LeftBy(s) = {}
    BY <1>2, <1>5 DEF AheadOf
  <2> DEFINE t == PullEnds(s)
  <2>3. t.pos = p /\ t.done = TRUE /\ t.count = s.count /\ t.cache = s.cache /\ t.landed = s.landed
    BY <1>1 DEF PullEnds, Turn
  <2> HIDE DEF p, t
  <2>4. LeftBy(t) = {}
    BY <1>5, <2>3 DEF LeftBy, AheadOf
  <2>5. Reads(t, U, n)
    BY <1>1, <2>1, <2>2, <2>3, <2>4 DEF Reads, t
  <2> QED  BY <2>1, <2>3, <2>5 DEF t
<1>6. CASE Valid(p) /\ Limited /\ c > options.limit
  <2>1. Pull(s) = PullMeetsLimit(s) /\ Stands(PullMeetsLimit(s))
    BY <1>1, <1>6, PullIs, PullIsTurn
  <2> DEFINE t == PullMeetsLimit(s)
  <2>2. t.pos = p /\ t.done = TRUE /\ t.count = c /\ t.cache = s.cache /\ t.landed = s.landed
    BY <1>1 DEF PullMeetsLimit, Turn
  <2>3. OverLimit(c) /\ Room(c) = 0 /\ Room(s.count) = 0
    BY <1>1, <1>4, <1>6 DEF OverLimit, Room, Counted
  <2> HIDE DEF p, t, c
  <2>4. LeftBy(t) = LeftBy(s)
    BY <1>2, <2>2, <2>3 DEF LeftBy
  <2>5. Reads(t, U, n)
    BY <1>1, <2>1, <2>2, <2>3, <2>4 DEF Reads, t
  <2> QED  BY <2>1, <2>2, <2>5 DEF t
<1>7. CASE Valid(p) /\ ~(Limited /\ c > options.limit)
  <2>1. Pull(s) = PullReads(s) /\ Stands(PullReads(s)) /\ p \in snapshot
    BY <1>1, <1>7, PullIs, PullIsTurn
  <2> DEFINE t == PullReads(s)
  <2>2. /\ t.pos = p /\ t.done = FALSE /\ t.count = c /\ t.cache = Append(s.cache, p)
        /\ t.landed = TRUE
    BY <1>1 DEF PullReads, Turn
  <2>3. ~OverLimit(c) /\ (Limited => c = s.count + 1 /\ c <= options.limit)
    BY <1>1, <1>4, <1>7 DEF OverLimit, Counted
  <2>4. Limited => Room(s.count) = Room(c) + 1 /\ Room(c) \in Nat
    BY <1>1, <1>3, <1>4, <2>3 DEF Room
  <2>5. s.cache \in Seq(snapshot) /\ Len(Append(s.cache, p)) = Len(s.cache) + 1 /\ Len(s.cache) \in Nat
        /\ Append(s.cache, p) # <<>>
    BY <1>1, <2>1 DEF Turn
  <2> HIDE DEF p, t, c
  <2>6. LeftBy(t) = AheadOf(p, TRUE)
    BY <2>2, <2>3 DEF LeftBy
  <2>7. p \in InRange /\ p \in snapshot /\ p \in Int
    BY <1>7, <2>1, OptionsAre DEF Valid, InRange, Fits
  <2>8. /\ AheadOf(p, FALSE) = {k \in snapshot \cap InRange : k = p \/ Precedes(p, k)}
        /\ AheadOf(p, TRUE) = {k \in snapshot \cap InRange : Precedes(p, k)}
    BY <1>7 DEF AheadOf
  <2>9. /\ AheadOf(p, TRUE) = {k \in AheadOf(p, FALSE) : k # p} /\ p \in AheadOf(p, FALSE)
        /\ \A k \in AheadOf(p, TRUE) : Precedes(p, k)
    <3>1. ~Precedes(p, p)
      BY <2>7 DEF Precedes
    <3> QED  BY <2>7, <2>8, <3>1
  <2>10. Leading(t.cache, LeftBy(t)) /\ Elements(t.cache) = Elements(s.cache) \cup {p}
    <3>1. Leading(s.cache, AheadOf(p, FALSE)) /\ AheadOf(p, FALSE) \subseteq snapshot
      BY <1>2, <2>8 DEF Reads
    <3> DEFINE S == AheadOf(p, FALSE)
               R == {k \in S : k # p}
    <3>2. R = AheadOf(p, TRUE) /\ p \in S /\ \A k \in R : Precedes(p, k)
      BY <2>9
    <3>3. Leading(s.cache, S) /\ S \subseteq snapshot /\ R = {k \in S : k # p}
      BY <3>1
    <3> HIDE DEF S, R
    <3>4. Leading(Append(s.cache, p), R) /\ Elements(Append(s.cache, p)) = Elements(s.cache) \cup {p}
      BY <2>5, <2>7, <3>2, <3>3, AppendLeads
    <3> QED  BY <2>2, <2>6, <3>2, <3>4
  <2>11. U = Elements(t.cache) \cup LeftBy(t)
    BY <1>2, <2>6, <2>9, <2>10 DEF Reads
  <2>12. Limited => Len(t.cache) + Room(t.count) = n
    <3>1. Limited => n = Len(s.cache) + Room(s.count)
      BY DEF Reads
    <3>2. Limited => (Len(s.cache) + 1) + Room(c) = Len(s.cache) + Room(s.count)
      BY <2>4, <2>5
    <3>3. Len(t.cache) = Len(s.cache) + 1 /\ Room(t.count) = Room(c)
      BY <2>2, <2>5
    <3> QED  BY <3>1, <3>2, <3>3
  <2>13. Reads(t, U, n)
    BY <2>1, <2>2, <2>3, <2>10, <2>11, <2>12 DEF Reads, t
  <2> QED  BY <2>1, <2>2, <2>5, <2>13 DEF t
<1> QED  BY <1>5, <1>6, <1>7

\* What a read leaves: in order the first of the keys that were ahead, if there were any.
LEMMA ReadManyReads ==
    ASSUME CursorInv, cache = <<>>, ~finished, NEW n \in Nat \ {0}
    PROVE  /\ Reads(ReadMany(n), Unread, Room(count))
           /\ ReadMany(n).cache = <<>> => ReadMany(n).done
<1> DEFINE T == {Start}
           V == {s \in Turn : Reads(s, Unread, Room(count)) /\ (s.cache = <<>> => s.done)}
<1>1. Fits
  BY DEF CursorInv, MoveInv
<1>2. Reads(Start, Unread, Room(count)) /\ Start.more
  BY StartReads DEF Start
<1>3. \A s \in T \cup V : Pull(s) \in V
  <2> TAKE s \in T \cup V
  <2>1. Reads(s, Unread, Room(count))
    BY <1>2
  <2>2. CASE s.more
    <3>1. Reads(Pull(s), Unread, Room(count)) /\ (Pull(s).cache = <<>> => Pull(s).done)
      BY <1>1, <2>1, <2>2, PullReadsOn
    <3> QED  BY <3>1 DEF Reads, Stands
  <2>3. CASE ~s.more
    <3>1. Pull(s) = s
      BY <2>3, PullIs
    <3> QED  BY <1>2, <2>3, <3>1
  <2> QED  BY <2>2, <2>3
<1> HIDE DEF V
<1>4. Start \in T
  OBVIOUS
<1>5. ReadMany(n) \in V
  <2> HIDE DEF T
  <2> QED  BY <1>3, <1>4, TurnByTurn
<1> QED  BY <1>5 DEF V

\* The cursor of an iterator.
Rest == IF Remaining = 0 THEN {} ELSE Elements(cache) \cup Unread

\* The mapping's allowance in the terms of the proofs.
LEMMA RemainingIs == Remaining = IF Limited THEN Len(cache) + Room(count) ELSE -1
BY DEF Remaining, Room

\* The parts of the mapping after a step.
LEMMA NextIs ==
    ASSUME UNCHANGED <<options, snapshot>>
    PROVE  /\ didSeek' => Unread' = AheadOf(pos', landed' /\ ~OverLimit(count'))
           /\ didSeek' = didSeek /\ pos' = pos /\ landed' = landed /\ count' = count => Unread' = Unread
           /\ Leading(cache, Unread)' <=> Leading(cache', Unread')
           /\ OverLimit(count)' <=> OverLimit(count')
           /\ OneBoundEach(options)' <=> OneBoundEach(options)
           /\ Remaining' = IF Limited THEN Len(cache') + Room(count') ELSE -1
           /\ Rest' = IF Remaining' = 0 THEN {} ELSE Elements(cache') \cup Unread'
           /\ InRange' = InRange
<1>1. InRange' = InRange
  BY DEF InRange, OutOfRange
<1>2. didSeek' => Unread' = AheadOf(pos', landed' /\ ~OverLimit(count'))
  BY <1>1 DEF Unread, AheadOf, Passed, OverLimit, Limited, Valid, OutOfRange, Precedes
<1>3. didSeek' = didSeek /\ pos' = pos /\ landed' = landed /\ count' = count => Unread' = Unread
  BY <1>1 DEF Unread, Passed, Limited, Valid, OutOfRange, Precedes
<1>4. Leading(cache, Unread)' <=> Leading(cache', Unread')
  BY <1>1 DEF Leading, InOrder, Elements, Precedes
<1>5. Remaining' = IF Limited THEN Len(cache') + Room(count') ELSE -1
  BY DEF Remaining, Room, Limited
<1>6. Rest' = IF Remaining' = 0 THEN {} ELSE Elements(cache') \cup Unread'
  BY DEF Rest, Elements
<1>7. (OverLimit(count)' <=> OverLimit(count')) /\ (OneBoundEach(options)' <=> OneBoundEach(options))
  BY DEF OverLimit, Limited, OneBoundEach
<1> QED  BY <1>1, <1>2, <1>3, <1>4, <1>5, <1>6, <1>7

\* Taking the first key from those read leaves the others in order, all behind it.
LEMMA TailLeads ==
    ASSUME Fits, NEW c \in Seq(snapshot), c # <<>>, NEW S, Leading(c, S)
    PROVE  /\ Leading(Tail(c), S) /\ Tail(c) \in Seq(snapshot) /\ Len(Tail(c)) = Len(c) - 1 /\ Len(c) \in Nat \ {0}
           /\ Elements(c) = {Head(c)} \cup Elements(Tail(c))
           /\ \A k \in Elements(Tail(c)) : Precedes(Head(c), k)
           /\ Head(c) \in snapshot
<1> DEFINE d == Tail(c)
<1>1. /\ Len(c) \in Nat \ {0} /\ d \in Seq(snapshot) /\ Len(d) = Len(c) - 1
      /\ \A i \in 1..Len(d) : d[i] = c[i + 1]
      /\ DOMAIN d = 1..Len(d) /\ DOMAIN c = 1..Len(c) /\ Head(c) = c[1] /\ c[1] \in snapshot
  OBVIOUS
<1> HIDE DEF d
<1>2. Elements(c) = {Head(c)} \cup Elements(d)
  <2>1. ASSUME NEW k \in Elements(c) PROVE k = Head(c) \/ k \in Elements(d)
    <3>1. PICK i \in 1..Len(c) : k = c[i]
      BY <1>1 DEF Elements
    <3>2. CASE i = 1
      BY <1>1, <3>1, <3>2
    <3>3. CASE i # 1
      <4>1. i - 1 \in 1..Len(d) /\ (i - 1) + 1 = i
        BY <1>1, <3>3
      <4>2. k = d[i - 1]
        BY <1>1, <3>1, <4>1
      <4> QED  BY <1>1, <4>1, <4>2 DEF Elements
    <3> QED  BY <3>2, <3>3
  <2>2. ASSUME NEW k \in Elements(d) PROVE k \in Elements(c)
    <3>1. PICK i \in 1..Len(d) : k = d[i]
      BY <1>1 DEF Elements
    <3>2. i + 1 \in 1..Len(c) /\ k = c[i + 1]
      BY <1>1, <3>1
    <3> QED  BY <1>1, <3>2 DEF Elements
  <2>3. Head(c) \in Elements(c)
    <3>1. 1 \in 1..Len(c)
      BY <1>1
    <3> QED  BY <1>1, <3>1 DEF Elements
  <2> QED  BY <2>1, <2>2, <2>3
<1>3. InOrder(d)
  <2> SUFFICES ASSUME NEW i \in 1..Len(d), NEW j \in 1..Len(d), i < j PROVE Precedes(d[i], d[j])
    BY <1>1 DEF InOrder
  <2>1. i + 1 \in 1..Len(c) /\ j + 1 \in 1..Len(c) /\ i + 1 < j + 1 /\ d[i] = c[i + 1] /\ d[j] = c[j + 1]
    BY <1>1
  <2> QED  BY <1>1, <2>1 DEF Leading, InOrder
<1>4. \A k \in Elements(d) : Precedes(Head(c), k)
  <2> TAKE k \in Elements(d)
  <2>1. PICK i \in 1..Len(d) : k = d[i]
    BY <1>1 DEF Elements
  <2>2. i + 1 \in 1..Len(c) /\ k = c[i + 1] /\ 1 \in 1..Len(c) /\ 1 < i + 1
    BY <1>1, <2>1
  <2> QED  BY <1>1, <2>2 DEF Leading, InOrder
<1> QED  BY <1>1, <1>2, <1>3, <1>4 DEF Leading, d

\* No keys are in order.
LEMMA NoneLeads == ASSUME NEW S PROVE Leading(<<>>, S) /\ Elements(<<>>) = {} /\ Len(<<>>) = 0
BY DEF Leading, InOrder, Elements

\* What next() does when it has to read.
LEMMA ReadsAre ==
    ASSUME CursorInv, NextReads
    PROVE  \E n \in 1..MaxBatch : LET r == ReadMany(n) IN
              /\ Reads(r, Unread, Room(count)) /\ (r.cache = <<>> => r.done)
              /\ r.cache \in Seq(snapshot)
              /\ pos' = r.pos /\ landed' = r.landed /\ count' = r.count /\ finished' = r.done
              /\ r.cache = <<>> => answer' = NoMore /\ cache' = <<>>
              /\ r.cache # <<>> => answer' = Head(r.cache) /\ cache' = Tail(r.cache)
<1>1. PICK n \in 1..MaxBatch :
        LET read == ReadMany(n)
        IN  /\ pos' = read.pos /\ landed' = read.landed /\ count' = read.count
            /\ finished' = read.done
            /\ IF read.cache = <<>>
               THEN answer' = NoMore /\ cache' = <<>>
               ELSE answer' = Head(read.cache) /\ cache' = Tail(read.cache)
  BY DEF NextReads
<1>2. n \in Nat \ {0}
  BY RangeAssumption
<1>3. Reads(ReadMany(n), Unread, Room(count)) /\ (ReadMany(n).cache = <<>> => ReadMany(n).done)
  BY <1>2, ReadManyReads DEF NextReads
<1>4. ReadMany(n).cache \in Seq(snapshot)
  BY <1>3 DEF Reads, Stands, Turn
<1> QED  BY <1>1, <1>3, <1>4

\* The invariant holds before the first call, for options with one bound at each end,
LEMMA CursorInvInit == ASSUME RangeInit, \A o \in OptionSets : OneBoundEach(o) PROVE CursorInv
<1>1. MoveInv
  BY MoveInvInit
<1> QED  BY <1>1, NoneLeads DEF RangeInit, CursorInv

\* and next() and seek() keep it.
LEMMA CursorInvNext == ASSUME CursorInv, [RangeNext]_rangeVars PROVE CursorInv'
<1>0. MoveInv'
  BY MoveInvNext DEF CursorInv
<1>1. CASE NextFromCache
  <2>1. UNCHANGED <<options, snapshot, didSeek, pos, landed, count, finished>> /\ cache' = Tail(cache)
    BY <1>1 DEF NextFromCache, native
  <2>2. Unread' = Unread
    BY <2>1, NextIs
  <2>3. Leading(Tail(cache), Unread)
    BY <1>1, TailLeads DEF CursorInv, MoveInv, NextFromCache
  <2> QED  BY <1>0, <1>1, <2>1, <2>2, <2>3, NextIs DEF CursorInv, NextFromCache
<1>2. CASE NextAtEnd \/ UNCHANGED rangeVars
  <2>1. UNCHANGED <<options, snapshot, didSeek, pos, landed, count, finished, cache>>
    BY <1>2 DEF NextAtEnd, native, rangeVars
  <2>2. Unread' = Unread
    BY <2>1, NextIs
  <2> QED  BY <1>0, <2>1, <2>2, NextIs DEF CursorInv
<1>3. CASE NextReads
  <2>1. PICK n \in 1..MaxBatch : LET r == ReadMany(n) IN
              /\ Reads(r, Unread, Room(count)) /\ (r.cache = <<>> => r.done)
              /\ r.cache \in Seq(snapshot)
              /\ pos' = r.pos /\ landed' = r.landed /\ count' = r.count /\ finished' = r.done
              /\ r.cache = <<>> => answer' = NoMore /\ cache' = <<>>
              /\ r.cache # <<>> => answer' = Head(r.cache) /\ cache' = Tail(r.cache)
    BY <1>3, ReadsAre
  <2>2. UNCHANGED <<options, snapshot>> /\ didSeek' = TRUE
    BY <1>3 DEF NextReads
  <2>3. Unread' = LeftBy(ReadMany(n))
    BY <2>1, <2>2, NextIs DEF LeftBy
  <2>4. Leading(cache', Unread')
    <3>1. CASE ReadMany(n).cache = <<>>
      BY <2>1, <3>1, NoneLeads
    <3>2. CASE ReadMany(n).cache # <<>>
      <4> DEFINE c == ReadMany(n).cache
      <4>1. Leading(c, Unread') /\ c \in Seq(snapshot) /\ c # <<>> /\ cache' = Tail(c)
        BY <2>1, <2>3, <3>2 DEF Reads
      <4>2. Fits
        BY DEF CursorInv, MoveInv
      <4> HIDE DEF c
      <4> QED  BY <4>1, <4>2, TailLeads
    <3> QED  BY <3>1, <3>2
  <2> QED  BY <1>0, <2>1, <2>2, <2>3, <2>4, NextIs DEF CursorInv, Reads
<1>4. ASSUME NEW target \in Keys, Seek(target) PROVE CursorInv'
  <2>1. UNCHANGED <<options, snapshot>> /\ cache' = <<>> /\ didSeek' = TRUE /\ ~landed' /\ ~finished'
    BY <1>4 DEF Seek
  <2>2. Leading(cache', Unread')
    BY <2>1, NoneLeads
  <2> QED  BY <1>0, <2>1, <2>2, NextIs DEF CursorInv
<1> QED  BY <1>1, <1>2, <1>3, <1>4 DEF RangeNext

\* What the actions of the cursor ask of the mapped variables.
LEMMA CursorIs ==
    /\ C!CursorInit <=> /\ snapshot \cap InRange \subseteq InRange
                        /\ Rest = IF Remaining = 0 THEN {} ELSE snapshot \cap InRange
                        /\ answer = Nothing
    /\ UNCHANGED <<options, snapshot>> =>
        /\ Rest' = Rest /\ Remaining' = Remaining /\ answer' = answer => UNCHANGED C!cursorVars
        /\ /\ Rest = {} /\ answer' = NoMore /\ Rest' = Rest /\ Remaining' = Remaining
           => C!Stop
        /\ /\ answer' \in Rest
           /\ \A l \in Rest : IF options.reverse THEN l <= answer' ELSE answer' <= l
           /\ Remaining' = IF Remaining < 0 THEN Remaining ELSE Remaining - 1
           /\ Rest' = IF Remaining' = 0 THEN {} ELSE Rest \ {answer'}
           => C!Give
        /\ \A target :
             /\ Remaining' <= Remaining /\ (Remaining < 0 <=> Remaining' < 0)
             /\ Rest' = IF Remaining' # 0 /\ target \in InRange
                        THEN {k \in snapshot \cap InRange : IF options.reverse THEN k <= target ELSE target <= k}
                        ELSE {}
             /\ answer' = Nothing
             => C!SeekTo(target)
<1>1. Rest = IF Remaining = 0 THEN {} ELSE {cache[i] : i \in DOMAIN cache} \cup Unread
  BY DEF Rest, Elements
<1>2. Rest' = IF Remaining' = 0 THEN {} ELSE {cache'[i] : i \in DOMAIN cache'} \cup Unread'
  BY DEF Rest, Elements
<1>3. UNCHANGED <<options, snapshot>> => InRange' = InRange
  BY NextIs
<1> HIDE DEF Rest
<1>4. C!CursorInit <=> /\ snapshot \cap InRange \subseteq InRange
                       /\ Rest = IF Remaining = 0 THEN {} ELSE snapshot \cap InRange
                       /\ answer = Nothing
  BY <1>1 DEF C!CursorInit
<1>5. ASSUME UNCHANGED <<options, snapshot>>, Rest' = Rest, Remaining' = Remaining, answer' = answer
      PROVE  UNCHANGED C!cursorVars
  BY <1>1, <1>2, <1>3, <1>5 DEF C!cursorVars
<1>6. ASSUME UNCHANGED <<options, snapshot>>, Rest = {}, answer' = NoMore, Rest' = Rest,
             Remaining' = Remaining
      PROVE  C!Stop
  BY <1>1, <1>2, <1>3, <1>6 DEF C!Stop
<1>7. ASSUME UNCHANGED <<options, snapshot>>, answer' \in Rest,
             \A l \in Rest : IF options.reverse THEN l <= answer' ELSE answer' <= l,
             Remaining' = IF Remaining < 0 THEN Remaining ELSE Remaining - 1,
             Rest' = IF Remaining' = 0 THEN {} ELSE Rest \ {answer'}
      PROVE  C!Give
  BY <1>1, <1>2, <1>3, <1>7 DEF C!Give, C!Leads, C!Ahead
<1>8. ASSUME UNCHANGED <<options, snapshot>>, NEW target,
             Remaining' <= Remaining, Remaining < 0 <=> Remaining' < 0,
             Rest' = IF Remaining' # 0 /\ target \in InRange
                     THEN {k \in snapshot \cap InRange : IF options.reverse THEN k <= target ELSE target <= k}
                     ELSE {},
             answer' = Nothing
      PROVE  C!SeekTo(target)
  BY <1>1, <1>2, <1>3, <1>8 DEF C!SeekTo, C!Ahead
<1> QED  BY <1>4, <1>5, <1>6, <1>7, <1>8

\* next() gives the first of the keys c it has at hand, those in S being behind them.
LEMMA GiveFrom ==
    ASSUME Fits, UNCHANGED <<options, snapshot>>,
           NEW c \in Seq(snapshot), c # <<>>, NEW S \in SUBSET snapshot, Leading(c, S), NEW m \in Nat,
           Remaining = IF Limited THEN Len(c) + Room(m) ELSE -1,
           Rest = IF Remaining = 0 THEN {} ELSE Elements(c) \cup S,
           answer' = Head(c),
           Remaining' = IF Limited THEN Len(Tail(c)) + Room(m) ELSE -1,
           Rest' = IF Remaining' = 0 THEN {} ELSE Elements(Tail(c)) \cup S
    PROVE  C!Give
<1> DEFINE h == Head(c)
           d == Tail(c)
<1>1. /\ Leading(d, S) /\ Len(d) = Len(c) - 1 /\ Len(c) \in Nat \ {0}
      /\ Elements(c) = {h} \cup Elements(d) /\ h \in snapshot
      /\ \A k \in Elements(d) : Precedes(h, k)
  BY TailLeads
<1> HIDE DEF h, d
<1>2. snapshot \subseteq Int
  BY OptionsAre
<1>3. Limited => Room(m) \in Nat
  BY OptionsAre DEF Limited, Room
<1>4. Remaining # 0 /\ (Remaining < 0 <=> ~Limited)
  BY <1>1, <1>3
<1>5. Rest = {h} \cup Elements(d) \cup S
  BY <1>1, <1>4
<1>6. \A k \in Elements(d) \cup S : Precedes(h, k)
  BY <1>1 DEF Leading
<1>7. Elements(d) \cup S \subseteq snapshot
  <2>1. Elements(d) \subseteq snapshot
    <3>1. d \in Seq(snapshot)
      BY TailLeads DEF d
    <3>2. \A i \in DOMAIN d : d[i] \in snapshot
      BY <3>1
    <3> QED  BY <3>2 DEF Elements
  <2> QED  BY <2>1
<1>8. h \notin Elements(d) \cup S
  <2>1. ~Precedes(h, h)
    BY <1>1, <1>2 DEF Precedes
  <2> QED  BY <1>6, <2>1
<1>9. \A l \in Rest : IF options.reverse THEN l <= h ELSE h <= l
  <2>1. \A l \in Rest : l \in Int /\ (l = h \/ Precedes(h, l))
    BY <1>1, <1>2, <1>5, <1>6, <1>7
  <2>2. h \in Int
    BY <1>1, <1>2
  <2> QED  BY <2>1, <2>2 DEF Precedes
<1>10. Remaining' = IF Remaining < 0 THEN Remaining ELSE Remaining - 1
  <2>1. Limited => Remaining' = Len(c) - 1 + Room(m)
    BY <1>1 DEF d
  <2>2. Limited => Remaining = Len(c) + Room(m)
    OBVIOUS
  <2>3. ~Limited => Remaining' = -1 /\ Remaining = -1
    OBVIOUS
  <2> QED  BY <1>1, <1>3, <1>4, <2>1, <2>2, <2>3
<1>11. Rest' = IF Remaining' = 0 THEN {} ELSE Rest \ {h}
  <2>1. Rest \ {h} = Elements(d) \cup S
    BY <1>5, <1>8
  <2> QED  BY <2>1 DEF d
<1>12. answer' = h /\ h \in Rest
  BY <1>5 DEF h
<1> QED  BY <1>9, <1>10, <1>11, <1>12, CursorIs

\* An iterator that met the end has nothing left to give.
LEMMA NothingIsLeft ==
    ASSUME CursorInv, cache = <<>>, finished
    PROVE  Rest = {}
<1>1. CASE OverLimit(count)
  <2>1. Limited /\ Room(count) = 0
    BY <1>1, OptionsAre DEF OverLimit, Room, CursorInv, MoveInv
  <2>2. Remaining = 0
    BY <2>1, RemainingIs, NoneLeads
  <2> QED  BY <2>2 DEF Rest
<1>2. CASE Unread = {}
  BY <1>2, NoneLeads DEF Rest
<1> QED  BY <1>1, <1>2 DEF CursorInv

\* A new iterator is a new cursor.
LEMMA InitIsCursorInit == ASSUME RangeInit PROVE C!CursorInit
<1>1. Rest = IF Remaining = 0 THEN {} ELSE snapshot \cap InRange
  BY NoneLeads, UnreadIs DEF RangeInit, Rest
<1>2. answer = Nothing
  BY DEF RangeInit
<1> QED  BY <1>1, <1>2, CursorIs

\* next() from the cache gives the first key that is left.
LEMMA FromCacheGives == ASSUME CursorInv, NextFromCache PROVE C!Give
<1>1. UNCHANGED <<options, snapshot, didSeek, pos, landed, count>>
  BY DEF NextFromCache, native
<1>2. cache # <<>> /\ answer' = Head(cache) /\ cache' = Tail(cache)
  BY DEF NextFromCache
<1>3. Fits /\ cache \in Seq(snapshot) /\ count \in Nat /\ Leading(cache, Unread)
  BY DEF CursorInv, MoveInv
<1>4. Unread \in SUBSET snapshot
  BY <1>3, UnreadIs, AheadIsInRange
<1>5. Unread' = Unread
  BY <1>1, NextIs
<1>6. Remaining' = IF Limited THEN Len(Tail(cache)) + Room(count) ELSE -1
  BY <1>1, <1>2, NextIs
<1>7. Rest' = IF Remaining' = 0 THEN {} ELSE Elements(Tail(cache)) \cup Unread
  BY <1>1, <1>2, <1>5, NextIs
<1>8. Rest = IF Remaining = 0 THEN {} ELSE Elements(cache) \cup Unread
  BY DEF Rest
<1> QED  BY <1>1, <1>2, <1>3, <1>4, <1>6, <1>7, <1>8, RemainingIs, GiveFrom

\* next() at the end says so, when nothing is left.
LEMMA AtEndStops == ASSUME CursorInv, NextAtEnd PROVE C!Stop
<1>1. UNCHANGED <<options, snapshot, didSeek, pos, landed, count, cache>> /\ answer' = NoMore
  BY DEF NextAtEnd, native
<1>2. Rest = {}
  BY NothingIsLeft DEF NextAtEnd
<1>3. Remaining' = Remaining
  BY <1>1, NextIs, RemainingIs
<1>4. Unread' = Unread
  BY <1>1, NextIs
<1>5. Rest' = Rest
  BY <1>1, <1>3, <1>4, NextIs DEF Rest
<1> QED  BY <1>1, <1>2, <1>3, <1>5, CursorIs

\* next() that reads gives the first key that is left, or says that none is.
LEMMA ReadsGiveOrStop == ASSUME CursorInv, NextReads PROVE C!Give \/ C!Stop
<1>1. PICK n \in 1..MaxBatch : LET r == ReadMany(n) IN
         /\ Reads(r, Unread, Room(count)) /\ (r.cache = <<>> => r.done)
         /\ r.cache \in Seq(snapshot)
         /\ pos' = r.pos /\ landed' = r.landed /\ count' = r.count /\ finished' = r.done
         /\ r.cache = <<>> => answer' = NoMore /\ cache' = <<>>
         /\ r.cache # <<>> => answer' = Head(r.cache) /\ cache' = Tail(r.cache)
  BY ReadsAre
<1> DEFINE r == ReadMany(n)
           S == LeftBy(r)
<1>2. UNCHANGED <<options, snapshot>> /\ didSeek' = TRUE /\ cache = <<>>
  BY DEF NextReads
<1>3. Unread' = S
  BY <1>1, <1>2, NextIs DEF LeftBy
<1>4. /\ Unread = Elements(r.cache) \cup S /\ Leading(r.cache, S) /\ r.count \in Nat
      /\ Limited => Len(r.cache) + Room(r.count) = Room(count)
      /\ r.done => S = {} \/ OverLimit(r.count)
  BY <1>1 DEF Reads, Stands, Turn
<1>5. Fits
  BY DEF CursorInv, MoveInv
<1>6. S \in SUBSET snapshot
  BY <1>5, AheadIsInRange DEF LeftBy
<1>7. r.cache \in Seq(snapshot) /\ count' = r.count
  BY <1>1
<1>8. /\ r.cache = <<>> => r.done /\ answer' = NoMore /\ cache' = <<>>
      /\ r.cache # <<>> => answer' = Head(r.cache) /\ cache' = Tail(r.cache)
  BY <1>1
<1> HIDE DEF S, r
<1>9. Limited => Room(count) \in Nat /\ Room(r.count) \in Nat
  BY <1>4, <1>5, OptionsAre DEF Limited, Room, CursorInv, MoveInv
<1>10. Remaining = IF Limited THEN Len(r.cache) + Room(r.count) ELSE -1
  <2>1. Remaining = IF Limited THEN Room(count) ELSE -1
    BY <1>2, <1>9, NoneLeads, RemainingIs
  <2> QED  BY <1>4, <2>1
<1>11. Rest = IF Remaining = 0 THEN {} ELSE Elements(r.cache) \cup S
  BY <1>2, <1>4, NoneLeads DEF Rest
<1>12. Remaining' = IF Limited THEN Len(cache') + Room(r.count) ELSE -1
  BY <1>2, <1>7, NextIs
<1>13. Rest' = IF Remaining' = 0 THEN {} ELSE Elements(cache') \cup S
  BY <1>2, <1>3, NextIs
<1>14. CASE r.cache = <<>>
  <2>1. Remaining' = Remaining /\ Rest' = Rest
    BY <1>8, <1>10, <1>11, <1>12, <1>13, <1>14
  <2>2. Rest = {}
    <3>1. CASE S = {}
      BY <1>11, <1>14, <3>1, NoneLeads
    <3>2. CASE OverLimit(r.count)
      <4>1. Limited /\ Room(r.count) = 0
        BY <1>4, <1>5, <3>2, OptionsAre DEF OverLimit, Room
      <4>2. Remaining = 0
        BY <1>10, <1>14, <4>1, NoneLeads
      <4> QED  BY <1>11, <4>2
    <3> QED  BY <1>4, <1>8, <1>14, <3>1, <3>2
  <2> QED  BY <1>2, <1>8, <1>14, <2>1, <2>2, CursorIs
<1>15. CASE r.cache # <<>>
  BY <1>2, <1>4, <1>5, <1>6, <1>7, <1>8, <1>10, <1>11, <1>12, <1>13, <1>15, GiveFrom
<1> QED  BY <1>14, <1>15

\* seek() leaves the keys from the target on, in the order of the iteration.
LEMMA SeekSeeks ==
    ASSUME CursorInv, NEW target \in Keys, Seek(target)
    PROVE  C!SeekTo(target)
<1>1. /\ UNCHANGED <<options, snapshot, count>> /\ cache' = <<>> /\ answer' = Nothing
      /\ didSeek' = TRUE /\ landed' = FALSE /\ pos' = ToTarget(target)
      /\ snapshot # {} \/ ~OutOfRange(target)
  BY DEF Seek
<1>2. Fits /\ Len(cache) \in Nat /\ count \in Nat
  BY DEF CursorInv, MoveInv
<1>3. Unread' = AheadOf(ToTarget(target), FALSE)
  BY <1>1, NextIs
<1>4. AheadOf(ToTarget(target), FALSE) =
        IF target \in InRange THEN {k \in snapshot \cap InRange : k = target \/ Precedes(target, k)} ELSE {}
  BY <1>1, <1>2, ToTargetIs
<1>5. {k \in snapshot \cap InRange : k = target \/ Precedes(target, k)}
        = {k \in snapshot \cap InRange : IF options.reverse THEN k <= target ELSE target <= k}
  <2>1. target \in Int /\ snapshot \subseteq Int
    BY <1>2, OptionsAre
  <2>2. \A k \in snapshot : (k = target \/ Precedes(target, k))
                             <=> IF options.reverse THEN k <= target ELSE target <= k
    BY <2>1 DEF Precedes
  <2> QED  BY <2>2
<1>6. Limited => Room(count) \in Nat
  BY <1>2, OptionsAre DEF Limited, Room
<1>7. Remaining' = IF Limited THEN Room(count) ELSE -1
  BY <1>1, <1>6, NextIs, NoneLeads
<1>8. Remaining' <= Remaining /\ (Remaining < 0 <=> Remaining' < 0)
  BY <1>2, <1>6, <1>7, RemainingIs
<1>9. Rest' = IF Remaining' = 0 THEN {} ELSE Unread'
  BY <1>1, NextIs, NoneLeads
<1>10. Rest' = IF Remaining' # 0 /\ target \in InRange
               THEN {k \in snapshot \cap InRange : IF options.reverse THEN k <= target ELSE target <= k}
               ELSE {}
  BY <1>3, <1>4, <1>5, <1>9
<1> QED  BY <1>1, <1>8, <1>10, CursorIs

\* With at most one bound at each end, an iterator gives every key of its range once, in order,
\* up to its limit, from wherever it is sought: read-ahead, batches of any size, the cache of
\* iterator.js and the positions of SeekToRange and Seek (binding.cc) do not show.
THEOREM RangeIsACursor ==
    (\A o \in OptionSets : OneBoundEach(o)) => (RangeSpec => ImplementsCursor)
<1> SUFFICES ASSUME \A o \in OptionSets : OneBoundEach(o) PROVE RangeSpec => ImplementsCursor
  OBVIOUS
<1>1. RangeInit => CursorInv /\ C!CursorInit
  BY CursorInvInit, InitIsCursorInit
<1>2. CursorInv /\ [RangeNext]_rangeVars => CursorInv'
  BY CursorInvNext
<1>3. CursorInv /\ [RangeNext]_rangeVars => [C!CursorNext]_C!cursorVars
  <2> SUFFICES ASSUME CursorInv, [RangeNext]_rangeVars PROVE [C!CursorNext]_C!cursorVars
    OBVIOUS
  <2>1. CASE NextFromCache
    BY <2>1, FromCacheGives DEF C!CursorNext
  <2>2. CASE NextAtEnd
    BY <2>2, AtEndStops DEF C!CursorNext
  <2>3. CASE NextReads
    BY <2>3, ReadsGiveOrStop DEF C!CursorNext
  <2>4. ASSUME NEW target \in Keys, Seek(target) PROVE [C!CursorNext]_C!cursorVars
    BY <2>4, SeekSeeks DEF C!CursorNext
  <2>5. CASE UNCHANGED rangeVars
    <3>1. UNCHANGED <<options, snapshot, didSeek, pos, landed, count, cache, answer>>
      BY <2>5 DEF rangeVars, native
    <3>2. Remaining' = Remaining /\ Unread' = Unread
      BY <3>1, NextIs, RemainingIs
    <3>3. Rest' = Rest
      BY <3>1, <3>2, NextIs DEF Rest
    <3> QED  BY <3>1, <3>2, <3>3, CursorIs
  <2> QED  BY <2>1, <2>2, <2>3, <2>4, <2>5 DEF RangeNext
<1> QED  BY <1>1, <1>2, <1>3, PTL DEF RangeSpec, ImplementsCursor, C!CursorSpec
=============================================================================
