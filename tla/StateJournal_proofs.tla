------------------------- MODULE StateJournal_proofs -------------------------
(***************************************************************************)
(* State's cache, purging, change log and rollback, and that they          *)
(* implement Ledger, for any addresses, slots, values, codes and bounds.   *)
(*                                                                         *)
(* What rollback leaves of an account depends on entries that may be far   *)
(* below the top of the log, so the invariant speaks of what is left at    *)
(* every height: Left(x, lg, a, m) is x with the entries of a above m      *)
(* undone.  An account is Sound when everything that can still be left of  *)
(* it, down to the run's first savepoint, fits the trie (Grounded), and is *)
(* there and dirty wherever an entry below changed the account.  That is   *)
(* why purging, which takes clean accounts away, and fetching them again   *)
(* take nothing from under the log.  The proof has a lemma for each way a  *)
(* step treats the log: it exchanges a clean account (Exchanged), replaces *)
(* one by its like (Replaced), logs one or two entries (EntryStep,         *)
(* EntriesStep) or cuts the log (UndoKeeps).  Each also says that undoing  *)
(* still shows what it showed, which the proof of the refinement uses.     *)
(*                                                                         *)
(* Left is defined by recursion over the log.  A CHOSEn function stands    *)
(* for it, and what it satisfies is shown by going down from the top of    *)
(* the log: a set of heights with no least missing one (Least, Downwards), *)
(* from NatLessThanWellFounded and WFMin.                                  *)
(***************************************************************************)
EXTENDS StateLedger, WellFoundedInduction, SequenceTheorems, TLAPS

\* What is left of x once the entries of lg above n that are a's are undone.
Undoing(f, x, lg, a, n) ==
    f = [m \in n..Len(lg) |->
          IF m = Len(lg) THEN x
          ELSE IF lg[m + 1].address = a THEN UndoneAccount(f[m + 1], lg[m + 1])
          ELSE f[m + 1]]
Left(x, lg, a, n) == (CHOOSE f : Undoing(f, x, lg, a, n))[n]

\* The same for what is warm: what is left of x once the entries of lg above n that are
\* a's are undone.
Cooling(f, x, lg, a, n) ==
    f = [m \in n..Len(lg) |->
          IF m = Len(lg) THEN x
          ELSE IF lg[m + 1].address = a THEN UndoneWarm(f[m + 1], lg[m + 1])
          ELSE f[m + 1]]
WarmLeft(x, lg, a, n) == (CHOOSE f : Cooling(f, x, lg, a, n))[n]

\* A set of numbers has a least one.
LEMMA Least ==
    ASSUME NEW T, T \subseteq Nat, T # {}
    PROVE  \E n \in T : \A m \in T : n <= m
<1> DEFINE R == OpToRel(<, Nat)
<1>1. IsWellFoundedOn(R, Nat)
  BY NatLessThanWellFounded
<1> HIDE DEF R
<1>2. PICK n \in T : \A m \in T : ~ (<<m, n>> \in R)
  BY <1>1, WFMin
<1>3. \A m \in T : ~ (m < n)
  BY <1>2 DEF R, OpToRel
<1>4. \A m \in T : n <= m
  BY <1>3
<1> QED  BY <1>4

\* A set with 0 and every successor of its members has every number.
LEMMA Upwards ==
    ASSUME NEW T, 0 \in T, \A n \in Nat : n \in T => n + 1 \in T
    PROVE  Nat \subseteq T
<1> SUFFICES ASSUME Nat \ T # {} PROVE FALSE
  OBVIOUS
<1>1. PICK n \in Nat \ T : \A m \in Nat \ T : n <= m
  BY Least
<1>2. n # 0
  OBVIOUS
<1>3. n - 1 \in Nat /\ n - 1 \in T
  BY <1>1, <1>2
<1>4. (n - 1) + 1 \in T
  BY <1>3
<1> QED  BY <1>4, <1>1

\* The same from high down to n.
LEMMA Downwards ==
    ASSUME NEW high \in Nat, NEW n \in 0..high, NEW T, high \in T,
           \A m \in n..(high - 1) : m + 1 \in T => m \in T
    PROVE  \A m \in n..high : m \in T
<1> DEFINE S == {k \in Nat : high - k >= n => high - k \in T}
<1>1. 0 \in S
  OBVIOUS
<1>2. ASSUME NEW k \in Nat, k \in S PROVE k + 1 \in S
  <2> SUFFICES ASSUME high - (k + 1) >= n PROVE high - (k + 1) \in T
    OBVIOUS
  <2>1. high - k \in T
    BY <1>2
  <2>2. high - (k + 1) \in n..(high - 1) /\ (high - (k + 1)) + 1 = high - k
    OBVIOUS
  <2> QED  BY <2>1, <2>2
<1> HIDE DEF S
<1>3. Nat \subseteq S
  BY <1>1, <1>2, Upwards
<1>4. ASSUME NEW m \in n..high PROVE m \in T
  <2>1. high - m \in Nat /\ high - (high - m) = m /\ high - (high - m) >= n
    OBVIOUS
  <2> QED  BY <2>1, <1>3 DEF S
<1> QED  BY <1>4

\* The function that undoes entry by entry exists.
LEMMA UndoingExists ==
    ASSUME NEW x, NEW lg, Len(lg) \in Nat, NEW a, NEW n \in 0..Len(lg)
    PROVE  \E f : Undoing(f, x, lg, a, n)
<1> DEFINE T == {k \in 0..Len(lg) : \E f : Undoing(f, x, lg, a, k)}
<1>1. Len(lg) \in T
  <2> DEFINE f == [m \in Len(lg)..Len(lg) |-> x]
  <2>1. Undoing(f, x, lg, a, Len(lg))
    BY DEF Undoing
  <2> QED  BY <2>1
<1>2. ASSUME NEW k \in n..(Len(lg) - 1), k + 1 \in T PROVE k \in T
  <2>1. PICK g : Undoing(g, x, lg, a, k + 1)
    BY <1>2
  <2> DEFINE f == [m \in k..Len(lg) |->
                    IF m = k
                    THEN IF lg[k + 1].address = a THEN UndoneAccount(g[k + 1], lg[k + 1]) ELSE g[k + 1]
                    ELSE g[m]]
  <2>2. \A m \in (k + 1)..Len(lg) : f[m] = g[m]
    OBVIOUS
  <2>3. \A m \in k..Len(lg) :
          f[m] = IF m = Len(lg) THEN x
                 ELSE IF lg[m + 1].address = a THEN UndoneAccount(f[m + 1], lg[m + 1])
                 ELSE f[m + 1]
    <3> TAKE m \in k..Len(lg)
    <3>1. CASE m = k
      <4>1. f[m + 1] = g[k + 1] /\ m # Len(lg)
        BY <3>1, <2>2
      <4> QED  BY <3>1, <4>1
    <3>2. CASE m # k
      <4>1. m \in (k + 1)..Len(lg) /\ (m # Len(lg) => m + 1 \in (k + 1)..Len(lg))
        BY <3>2
      <4>2. f[m] = g[m] /\ (m # Len(lg) => f[m + 1] = g[m + 1])
        BY <4>1, <2>2
      <4>3. g[m] = IF m = Len(lg) THEN x
                   ELSE IF lg[m + 1].address = a THEN UndoneAccount(g[m + 1], lg[m + 1])
                   ELSE g[m + 1]
        BY <2>1, <4>1 DEF Undoing
      <4> QED  BY <4>2, <4>3
    <3> QED  BY <3>1, <3>2
  <2>4. Undoing(f, x, lg, a, k)
    BY <2>3 DEF Undoing
  <2>5. k \in 0..Len(lg)
    OBVIOUS
  <2> QED  BY <2>4, <2>5
<1> HIDE DEF T
<1>3. \A k \in n..Len(lg) : k \in T
  BY <1>1, <1>2, Downwards
<1>4. n \in n..Len(lg)
  OBVIOUS
<1> QED  BY <1>3, <1>4 DEF T

\* Two ways to undo the same entries agree: one that goes on further down too.
LEMMA UndoingIsUnique ==
    ASSUME NEW x, NEW lg, Len(lg) \in Nat, NEW a, NEW n \in 0..Len(lg), NEW k \in n..Len(lg),
           NEW f, Undoing(f, x, lg, a, n), NEW g, Undoing(g, x, lg, a, k)
    PROVE  \A m \in k..Len(lg) : f[m] = g[m]
<1> DEFINE T == {m \in k..Len(lg) : f[m] = g[m]}
<1>1. \A m \in n..Len(lg) :
        f[m] = IF m = Len(lg) THEN x
               ELSE IF lg[m + 1].address = a THEN UndoneAccount(f[m + 1], lg[m + 1])
               ELSE f[m + 1]
  BY DEF Undoing
<1>2. \A m \in k..Len(lg) :
        g[m] = IF m = Len(lg) THEN x
               ELSE IF lg[m + 1].address = a THEN UndoneAccount(g[m + 1], lg[m + 1])
               ELSE g[m + 1]
  BY DEF Undoing
<1>3. Len(lg) \in T
  BY <1>1, <1>2
<1>4. ASSUME NEW m \in k..(Len(lg) - 1), m + 1 \in T PROVE m \in T
  <2>1. m \in n..Len(lg) /\ m \in k..Len(lg) /\ m # Len(lg)
    OBVIOUS
  <2>2. f[m + 1] = g[m + 1]
    BY <1>4
  <2>3. f[m] = g[m]
    BY <2>1, <2>2, <1>1, <1>2
  <2> QED  BY <2>1, <2>3
<1>5. k \in 0..Len(lg)
  OBVIOUS
<1> HIDE DEF T
<1>6. \A m \in k..Len(lg) : m \in T
  BY <1>3, <1>4, <1>5, Downwards
<1> QED  BY <1>6 DEF T

\* So Left obeys its equation.
LEMMA LeftIs ==
    ASSUME NEW x, NEW lg, Len(lg) \in Nat, NEW a, NEW n \in 0..Len(lg)
    PROVE  \A f : Undoing(f, x, lg, a, n) => \A m \in n..Len(lg) : Left(x, lg, a, m) = f[m]
<1> TAKE f
<1> HAVE Undoing(f, x, lg, a, n)
<1> TAKE m \in n..Len(lg)
<1> DEFINE g == CHOOSE h : Undoing(h, x, lg, a, m)
<1>1. m \in 0..Len(lg) /\ m \in m..Len(lg)
  OBVIOUS
<1>2. \E h : Undoing(h, x, lg, a, m)
  BY <1>1, UndoingExists
<1>3. Undoing(g, x, lg, a, m)
  BY <1>2
<1> HIDE DEF g
<1>4. f[m] = g[m]
  BY <1>1, <1>3, UndoingIsUnique
<1> QED  BY <1>4 DEF Left, g

\* Nothing to undo.
LEMMA LeftTop ==
    ASSUME NEW x, NEW lg, Len(lg) \in Nat, NEW a
    PROVE  Left(x, lg, a, Len(lg)) = x
<1> DEFINE high == Len(lg)
<1>1. PICK f : Undoing(f, x, lg, a, high)
  BY UndoingExists, high \in 0..high
<1>2. Left(x, lg, a, high) = f[high]
  BY <1>1, LeftIs, high \in 0..high, high \in high..high
<1>3. f[high] = x
  BY <1>1, high \in high..high DEF Undoing
<1> QED  BY <1>2, <1>3

\* One entry is undone: the lowest.
LEMMA LeftStep ==
    ASSUME NEW x, NEW lg, Len(lg) \in Nat, NEW a, NEW m \in 0..(Len(lg) - 1)
    PROVE  Left(x, lg, a, m) = IF lg[m + 1].address = a
                               THEN UndoneAccount(Left(x, lg, a, m + 1), lg[m + 1])
                               ELSE Left(x, lg, a, m + 1)
<1>1. m \in 0..Len(lg) /\ m \in m..Len(lg) /\ m + 1 \in m..Len(lg) /\ m # Len(lg)
  OBVIOUS
<1>2. PICK f : Undoing(f, x, lg, a, m)
  BY <1>1, UndoingExists
<1>3. Left(x, lg, a, m) = f[m] /\ Left(x, lg, a, m + 1) = f[m + 1]
  BY <1>1, <1>2, LeftIs
<1>4. f[m] = IF lg[m + 1].address = a THEN UndoneAccount(f[m + 1], lg[m + 1]) ELSE f[m + 1]
  BY <1>1, <1>2 DEF Undoing
<1> QED  BY <1>3, <1>4

\* A longer log is undone down to the shorter one it goes on from, and then that one.
LEMMA LeftSplit ==
    ASSUME NEW x, NEW lg, Len(lg) \in Nat, NEW more, Len(more) \in Nat, Len(lg) <= Len(more),
           \A i \in 1..Len(lg) : more[i] = lg[i],
           NEW a, NEW n \in 0..Len(lg)
    PROVE  Left(x, more, a, n) = Left(Left(x, more, a, Len(lg)), lg, a, n)
<1> DEFINE high == Len(lg)
           top == Left(x, more, a, high)
           T == {m \in 0..high : Left(x, more, a, m) = Left(top, lg, a, m)}
<1>1. high \in T
  BY LeftTop
<1>2. ASSUME NEW m \in n..(high - 1), m + 1 \in T PROVE m \in T
  <2>1. m \in 0..(Len(lg) - 1) /\ m \in 0..(Len(more) - 1) /\ m + 1 \in 1..Len(lg) /\ m \in 0..high
    OBVIOUS
  <2>2. more[m + 1] = lg[m + 1]
    BY <2>1
  <2>3. Left(x, more, a, m + 1) = Left(top, lg, a, m + 1)
    BY <1>2
  <2>4. Left(x, more, a, m) = IF more[m + 1].address = a
                               THEN UndoneAccount(Left(x, more, a, m + 1), more[m + 1])
                               ELSE Left(x, more, a, m + 1)
    BY <2>1, LeftStep
  <2> HIDE DEF top
  <2>5. Left(top, lg, a, m) = IF lg[m + 1].address = a
                               THEN UndoneAccount(Left(top, lg, a, m + 1), lg[m + 1])
                               ELSE Left(top, lg, a, m + 1)
    BY <2>1, LeftStep
  <2>6. Left(x, more, a, m) = Left(top, lg, a, m)
    BY <2>2, <2>3, <2>4, <2>5
  <2> QED  BY <2>1, <2>6
<1> HIDE DEF T
<1>3. \A m \in n..high : m \in T
  BY <1>1, <1>2, Downwards
<1> QED  BY <1>3, n \in n..high DEF T

\* The operator of State::rollback is Left, on the cache and the change log.
LEMMA AccountAtIsLeft == \A a : \A n : AccountAt(a, n) = Left(cache[a], log, a, n)
BY DEF AccountAt, Left, Undoing
\* The same in the next state.
LEMMA NextAccountAtIsLeft == \A a : \A n : AccountAt(a, n)' = Left(cache'[a], log', a, n)
BY DEF AccountAt, Left, Undoing
-----------------------------------------------------------------------------
(* The same lemmas about what is warm. *)

\* There is a function that takes warmings back one by one.
LEMMA CoolingExists ==
    ASSUME NEW x, NEW lg, Len(lg) \in Nat, NEW a, NEW n \in 0..Len(lg)
    PROVE  \E f : Cooling(f, x, lg, a, n)
<1> DEFINE T == {k \in 0..Len(lg) : \E f : Cooling(f, x, lg, a, k)}
<1>1. Len(lg) \in T
  <2> DEFINE f == [m \in Len(lg)..Len(lg) |-> x]
  <2>1. Cooling(f, x, lg, a, Len(lg))
    BY DEF Cooling
  <2> QED  BY <2>1
<1>2. ASSUME NEW k \in n..(Len(lg) - 1), k + 1 \in T PROVE k \in T
  <2>1. PICK g : Cooling(g, x, lg, a, k + 1)
    BY <1>2
  <2> DEFINE f == [m \in k..Len(lg) |->
                    IF m = k
                    THEN IF lg[k + 1].address = a THEN UndoneWarm(g[k + 1], lg[k + 1]) ELSE g[k + 1]
                    ELSE g[m]]
  <2>2. \A m \in (k + 1)..Len(lg) : f[m] = g[m]
    OBVIOUS
  <2>3. \A m \in k..Len(lg) :
          f[m] = IF m = Len(lg) THEN x
                 ELSE IF lg[m + 1].address = a THEN UndoneWarm(f[m + 1], lg[m + 1])
                 ELSE f[m + 1]
    <3> TAKE m \in k..Len(lg)
    <3>1. CASE m = k
      <4>1. f[m + 1] = g[k + 1] /\ m # Len(lg)
        BY <3>1, <2>2
      <4> QED  BY <3>1, <4>1
    <3>2. CASE m # k
      <4>1. m \in (k + 1)..Len(lg) /\ (m # Len(lg) => m + 1 \in (k + 1)..Len(lg))
        BY <3>2
      <4>2. f[m] = g[m] /\ (m # Len(lg) => f[m + 1] = g[m + 1])
        BY <4>1, <2>2
      <4>3. g[m] = IF m = Len(lg) THEN x
                   ELSE IF lg[m + 1].address = a THEN UndoneWarm(g[m + 1], lg[m + 1])
                   ELSE g[m + 1]
        BY <2>1, <4>1 DEF Cooling
      <4> QED  BY <4>2, <4>3
    <3> QED  BY <3>1, <3>2
  <2>4. Cooling(f, x, lg, a, k)
    BY <2>3 DEF Cooling
  <2>5. k \in 0..Len(lg)
    OBVIOUS
  <2> QED  BY <2>4, <2>5
<1> HIDE DEF T
<1>3. \A k \in n..Len(lg) : k \in T
  BY <1>1, <1>2, Downwards
<1>4. n \in n..Len(lg)
  OBVIOUS
<1> QED  BY <1>3, <1>4 DEF T

\* There is only one.
LEMMA CoolingIsUnique ==
    ASSUME NEW x, NEW lg, Len(lg) \in Nat, NEW a, NEW n \in 0..Len(lg), NEW k \in n..Len(lg),
           NEW f, Cooling(f, x, lg, a, n), NEW g, Cooling(g, x, lg, a, k)
    PROVE  \A m \in k..Len(lg) : f[m] = g[m]
<1> DEFINE T == {m \in k..Len(lg) : f[m] = g[m]}
<1>1. \A m \in n..Len(lg) :
        f[m] = IF m = Len(lg) THEN x
               ELSE IF lg[m + 1].address = a THEN UndoneWarm(f[m + 1], lg[m + 1])
               ELSE f[m + 1]
  BY DEF Cooling
<1>2. \A m \in k..Len(lg) :
        g[m] = IF m = Len(lg) THEN x
               ELSE IF lg[m + 1].address = a THEN UndoneWarm(g[m + 1], lg[m + 1])
               ELSE g[m + 1]
  BY DEF Cooling
<1>3. Len(lg) \in T
  BY <1>1, <1>2
<1>4. ASSUME NEW m \in k..(Len(lg) - 1), m + 1 \in T PROVE m \in T
  <2>1. m \in n..Len(lg) /\ m \in k..Len(lg) /\ m # Len(lg)
    OBVIOUS
  <2>2. f[m + 1] = g[m + 1]
    BY <1>4
  <2>3. f[m] = g[m]
    BY <2>1, <2>2, <1>1, <1>2
  <2> QED  BY <2>1, <2>3
<1>5. k \in 0..Len(lg)
  OBVIOUS
<1> HIDE DEF T
<1>6. \A m \in k..Len(lg) : m \in T
  BY <1>3, <1>4, <1>5, Downwards
<1> QED  BY <1>6 DEF T

\* So WarmLeft obeys its equation.
LEMMA WarmLeftIs ==
    ASSUME NEW x, NEW lg, Len(lg) \in Nat, NEW a, NEW n \in 0..Len(lg)
    PROVE  \A f : Cooling(f, x, lg, a, n) => \A m \in n..Len(lg) : WarmLeft(x, lg, a, m) = f[m]
<1> TAKE f
<1> HAVE Cooling(f, x, lg, a, n)
<1> TAKE m \in n..Len(lg)
<1> DEFINE g == CHOOSE h : Cooling(h, x, lg, a, m)
<1>1. m \in 0..Len(lg) /\ m \in m..Len(lg)
  OBVIOUS
<1>2. \E h : Cooling(h, x, lg, a, m)
  BY <1>1, CoolingExists
<1>3. Cooling(g, x, lg, a, m)
  BY <1>2
<1> HIDE DEF g
<1>4. f[m] = g[m]
  BY <1>1, <1>3, CoolingIsUnique
<1> QED  BY <1>4 DEF WarmLeft, g

\* Nothing to take back.
LEMMA WarmLeftTop ==
    ASSUME NEW x, NEW lg, Len(lg) \in Nat, NEW a
    PROVE  WarmLeft(x, lg, a, Len(lg)) = x
<1> DEFINE high == Len(lg)
<1>1. PICK f : Cooling(f, x, lg, a, high)
  BY CoolingExists, high \in 0..high
<1>2. WarmLeft(x, lg, a, high) = f[high]
  BY <1>1, WarmLeftIs, high \in 0..high, high \in high..high
<1>3. f[high] = x
  BY <1>1, high \in high..high DEF Cooling
<1> QED  BY <1>2, <1>3

\* One warming is taken back: the lowest.
LEMMA WarmLeftStep ==
    ASSUME NEW x, NEW lg, Len(lg) \in Nat, NEW a, NEW m \in 0..(Len(lg) - 1)
    PROVE  WarmLeft(x, lg, a, m) = IF lg[m + 1].address = a
                               THEN UndoneWarm(WarmLeft(x, lg, a, m + 1), lg[m + 1])
                               ELSE WarmLeft(x, lg, a, m + 1)
<1>1. m \in 0..Len(lg) /\ m \in m..Len(lg) /\ m + 1 \in m..Len(lg) /\ m # Len(lg)
  OBVIOUS
<1>2. PICK f : Cooling(f, x, lg, a, m)
  BY <1>1, CoolingExists
<1>3. WarmLeft(x, lg, a, m) = f[m] /\ WarmLeft(x, lg, a, m + 1) = f[m + 1]
  BY <1>1, <1>2, WarmLeftIs
<1>4. f[m] = IF lg[m + 1].address = a THEN UndoneWarm(f[m + 1], lg[m + 1]) ELSE f[m + 1]
  BY <1>1, <1>2 DEF Cooling
<1> QED  BY <1>3, <1>4

\* A longer log is taken back down to the shorter one, and then that one.
LEMMA WarmLeftSplit ==
    ASSUME NEW x, NEW lg, Len(lg) \in Nat, NEW more, Len(more) \in Nat, Len(lg) <= Len(more),
           \A i \in 1..Len(lg) : more[i] = lg[i],
           NEW a, NEW n \in 0..Len(lg)
    PROVE  WarmLeft(x, more, a, n) = WarmLeft(WarmLeft(x, more, a, Len(lg)), lg, a, n)
<1> DEFINE high == Len(lg)
           top == WarmLeft(x, more, a, high)
           T == {m \in 0..high : WarmLeft(x, more, a, m) = WarmLeft(top, lg, a, m)}
<1>1. high \in T
  BY WarmLeftTop
<1>2. ASSUME NEW m \in n..(high - 1), m + 1 \in T PROVE m \in T
  <2>1. m \in 0..(Len(lg) - 1) /\ m \in 0..(Len(more) - 1) /\ m + 1 \in 1..Len(lg) /\ m \in 0..high
    OBVIOUS
  <2>2. more[m + 1] = lg[m + 1]
    BY <2>1
  <2>3. WarmLeft(x, more, a, m + 1) = WarmLeft(top, lg, a, m + 1)
    BY <1>2
  <2>4. WarmLeft(x, more, a, m) = IF more[m + 1].address = a
                               THEN UndoneWarm(WarmLeft(x, more, a, m + 1), more[m + 1])
                               ELSE WarmLeft(x, more, a, m + 1)
    BY <2>1, WarmLeftStep
  <2> HIDE DEF top
  <2>5. WarmLeft(top, lg, a, m) = IF lg[m + 1].address = a
                               THEN UndoneWarm(WarmLeft(top, lg, a, m + 1), lg[m + 1])
                               ELSE WarmLeft(top, lg, a, m + 1)
    BY <2>1, WarmLeftStep
  <2>6. WarmLeft(x, more, a, m) = WarmLeft(top, lg, a, m)
    BY <2>2, <2>3, <2>4, <2>5
  <2> QED  BY <2>1, <2>6
<1> HIDE DEF T
<1>3. \A m \in n..high : m \in T
  BY <1>1, <1>2, Downwards
<1> QED  BY <1>3, n \in n..high DEF T

\* What rollback leaves warm is WarmLeft, of what is warm and the log.
LEMMA WarmAtIsWarmLeft == \A a : \A n : WarmAt(a, n) = WarmLeft(warmed[a], log, a, n)
BY DEF WarmAt, WarmLeft, Cooling
\* The same in the next state.
LEMMA NextWarmAtIsWarmLeft == \A a : \A n : WarmAt(a, n)' = WarmLeft(warmed'[a], log', a, n)
BY DEF WarmAt, WarmLeft, Cooling
-----------------------------------------------------------------------------

\* The entries of the change log.
LogEntry == [kind: Kind, address: Address, key: Key, value: Value \cup 0..MaxNonce,
             root: [Key -> Value]]

\* An entry carries what undoing its kind needs.
EntryFits(e) ==
    /\ e \in LogEntry
    /\ e.kind = "Storage" => e.value \in Value
    /\ e.kind = "Nonce" => e.value \in 0..MaxNonce

\* A slot looked up is kept as the trie has it, and only a code that is there is new.
Coherent(acc) ==
    /\ \A k \in Key : acc.original[k] # None => acc.original[k] = acc.root[k]
    /\ acc.newCode => acc.code # NoCode

\* h fits the entry t of the trie: clean, it shows what t shows, and a code that is not
\* stored is new.
Grounded(h, t, cs) ==
    /\ h \in Account \cup {None}
    /\ h # None => /\ Coherent(h)
                   /\ ~h.dirty => t # None /\ View(h) = View(FromTrie(t))
                   /\ h.code # NoCode /\ h.code \notin cs => h.newCode

\* x and y show the same, but for being touched.
Alike(x, y) ==
    /\ x.nonce = y.nonce /\ x.balance = y.balance /\ x.code = y.code
    /\ \A k \in Key : StorageValue(x, k) = StorageValue(y, k) /\ OriginalValue(x, k) = OriginalValue(y, k)
    /\ x.code # NoCode => x.newCode = y.newCode

\* y can take the place of x.
StandsFor(y, x) == Alike(x, y) /\ (x.dirty => y.dirty)

\* Undoing an entry.
LEMMA UndoneIsAccount ==
    ASSUME NEW x \in Account, NEW e, EntryFits(e), e.kind # "Create"
    PROVE  UndoneAccount(x, e) \in Account
<1> USE ConstantsAssumption
<1>1. CASE e.kind = "Storage"
  BY <1>1 DEF UndoneAccount, WithSlot, EntryFits, LogEntry, Account
<1>2. CASE e.kind = "StorageRoot"
  BY <1>2 DEF UndoneAccount, WithRoot, EntryFits, LogEntry, Account, NoOverlay
<1>3. CASE e.kind = "Balance"
  <2>1. (x.balance + (Modulus - e.value)) % Modulus \in Value
    BY DEF Account, EntryFits, LogEntry, Value
  <2> QED  BY <1>3, <2>1 DEF UndoneAccount, Plus, Account
<1>4. CASE e.kind = "Nonce"
  BY <1>4 DEF UndoneAccount, WithNonce, EntryFits, Account
<1>5. CASE e.kind = "Code"
  BY <1>5 DEF UndoneAccount, Account
<1>6. CASE e.kind = "Touch"
  BY <1>6 DEF UndoneAccount, Account
<1>7. CASE e.kind \notin {"Storage", "StorageRoot", "Balance", "Nonce", "Code", "Touch"}
  BY <1>7 DEF UndoneAccount
<1> QED  BY <1>1, <1>2, <1>3, <1>4, <1>5, <1>6, <1>7

\* Undoing an entry keeps an account coherent and its code new.
LEMMA UndoneKeeps ==
    ASSUME NEW x \in Account, NEW e, EntryFits(e), e.kind # "Create", Coherent(x)
    PROVE  LET z == UndoneAccount(x, e) IN
           /\ Coherent(z)
           /\ e.kind # "Touch" /\ x.dirty => z.dirty
           /\ z.code # NoCode => z.code = x.code /\ z.newCode = x.newCode
<1> USE ConstantsAssumption
<1>1. CASE e.kind = "Storage"
  BY <1>1 DEF UndoneAccount, WithSlot, EntryFits, LogEntry, Account, Coherent
<1>2. CASE e.kind = "StorageRoot"
  BY <1>2 DEF UndoneAccount, WithRoot, EntryFits, LogEntry, Account, NoOverlay, Coherent
<1>3. CASE e.kind = "Balance"
  BY <1>3 DEF UndoneAccount, Plus, Account, Coherent
<1>4. CASE e.kind = "Nonce"
  BY <1>4 DEF UndoneAccount, WithNonce, EntryFits, Account, Coherent
<1>5. CASE e.kind = "Code"
  BY <1>5 DEF UndoneAccount, Account, Coherent
<1>6. CASE e.kind = "Touch"
  BY <1>6 DEF UndoneAccount, Account, Coherent
<1>7. CASE e.kind \notin {"Storage", "StorageRoot", "Balance", "Nonce", "Code", "Touch"}
  BY <1>7 DEF UndoneAccount
<1> QED  BY <1>1, <1>2, <1>3, <1>4, <1>5, <1>6, <1>7

\* Undoing keeps one account standing for another.
LEMMA UndoneStandsFor ==
    ASSUME NEW x \in Account, NEW y \in Account, StandsFor(y, x), NEW e, EntryFits(e), e.kind # "Create"
    PROVE  /\ StandsFor(UndoneAccount(y, e), UndoneAccount(x, e))
           /\ x.dirty = y.dirty => UndoneAccount(x, e).dirty = UndoneAccount(y, e).dirty
<1> USE ConstantsAssumption
<1>1. CASE e.kind = "Storage"
  <2> DEFINE slot(z) == [z EXCEPT !.overlay[e.key] = e.value, !.dirty = TRUE]
  <2>1. UndoneAccount(x, e) = slot(x) /\ UndoneAccount(y, e) = slot(y)
    BY <1>1 DEF UndoneAccount, WithSlot
  <2>2. e.key \in Key /\ e.value # None
    BY <1>1 DEF EntryFits, LogEntry
  <2>3. ASSUME NEW z \in Account, NEW k \in Key
        PROVE  /\ OriginalValue(slot(z), k) = OriginalValue(z, k)
               /\ StorageValue(slot(z), k) = IF k = e.key THEN e.value ELSE StorageValue(z, k)
    <3>1. slot(z).overlay[k] = (IF k = e.key THEN e.value ELSE z.overlay[k])
      BY <2>2 DEF Account
    <3>2. slot(z).original = z.original /\ slot(z).root = z.root
      BY DEF Account
    <3> QED  BY <2>2, <3>1, <3>2 DEF StorageValue, OriginalValue
  <2>4. ASSUME NEW z \in Account
        PROVE  /\ slot(z).nonce = z.nonce /\ slot(z).balance = z.balance
               /\ slot(z).code = z.code /\ slot(z).newCode = z.newCode /\ slot(z).dirty
    BY DEF Account
  <2> HIDE DEF slot
  <2>5. slot(x).dirty = TRUE /\ slot(y).dirty = TRUE
    <3>1. \A z \in Account : slot(z).dirty = TRUE
      BY DEF slot, Account
    <3> QED  BY <3>1
  <2>6. StandsFor(slot(y), slot(x))
    BY <2>3, <2>4 DEF StandsFor, Alike
  <2> QED  BY <2>1, <2>5, <2>6
<1>2. CASE e.kind = "StorageRoot"
  BY <1>2 DEF UndoneAccount, WithRoot, EntryFits, LogEntry, Account, NoOverlay, StandsFor, Alike, StorageValue, OriginalValue
<1>3. CASE e.kind = "Balance"
  BY <1>3 DEF UndoneAccount, Plus, Account, StandsFor, Alike, StorageValue, OriginalValue
<1>4. CASE e.kind = "Nonce"
  BY <1>4 DEF UndoneAccount, WithNonce, EntryFits, Account, StandsFor, Alike, StorageValue, OriginalValue
<1>5. CASE e.kind = "Code"
  BY <1>5 DEF UndoneAccount, Account, StandsFor, Alike, StorageValue, OriginalValue
<1>6. CASE e.kind = "Touch"
  BY <1>6 DEF UndoneAccount, Account, StandsFor, Alike, StorageValue, OriginalValue
<1>7. CASE e.kind \notin {"Storage", "StorageRoot", "Balance", "Nonce", "Code", "Touch"}
  BY <1>7 DEF UndoneAccount
<1> QED  BY <1>1, <1>2, <1>3, <1>4, <1>5, <1>6, <1>7

\* Accounts that stand for each other are seen alike when both are clean or both dirty.
LEMMA AlikeViews ==
    ASSUME NEW x \in Account, NEW y \in Account, Alike(x, y), x.dirty = y.dirty
    PROVE  View(x) = View(y)
BY NoneAssumption DEF Alike, View, IsEmpty

\* An entry of warming leaves the account.
LEMMA WarmingUndoesNothing ==
    ASSUME NEW x, NEW e, IsWarming(e)
    PROVE  UndoneAccount(x, e) = x
BY DEF IsWarming, UndoneAccount
-----------------------------------------------------------------------------
\* The entries from base to m changed account a.
Changed(lg, a, base, m) == \E i \in (base + 1)..m : lg[i].address = a /\ ~IsWarming(lg[i])

\* All that can be left of x fits the trie, and is there and dirty wherever an entry
\* below changed it.
Sound(x, lg, a, base, t, cs) ==
    \A m \in base..Len(lg) :
        /\ Grounded(Left(x, lg, a, m), t, cs)
        /\ Changed(lg, a, base, m) =>
             Left(x, lg, a, m) # None /\ Left(x, lg, a, m).dirty

\* The log is one of entries that carry what undoing needs.
EntriesFit(lg) == Len(lg) \in Nat /\ \A i \in 1..Len(lg) : EntryFits(lg[i])

\* No entry changes the account: nothing undone.
LEMMA Quiet ==
    ASSUME NEW lg, EntriesFit(lg), NEW a, NEW base \in 0..Len(lg), ~Changed(lg, a, base, Len(lg)),
           NEW x
    PROVE  \A m \in base..Len(lg) : Left(x, lg, a, m) = x
<1> DEFINE T == {m \in base..Len(lg) : Left(x, lg, a, m) = x}
<1>0. Len(lg) \in Nat
  BY DEF EntriesFit
<1>1. Len(lg) \in T
  BY <1>0, LeftTop
<1>2. ASSUME NEW m \in base..(Len(lg) - 1), m + 1 \in T PROVE m \in T
  <2>1. m \in 0..(Len(lg) - 1) /\ m + 1 \in (base + 1)..Len(lg) /\ m \in base..Len(lg)
    BY <1>0
  <2>2. Left(x, lg, a, m + 1) = x
    BY <1>2
  <2>3. Left(x, lg, a, m) = IF lg[m + 1].address = a THEN UndoneAccount(x, lg[m + 1]) ELSE x
    BY <2>1, <2>2, <1>0, LeftStep
  <2>4. lg[m + 1].address = a => IsWarming(lg[m + 1])
    BY <2>1 DEF Changed
  <2>5. Left(x, lg, a, m) = x
    BY <2>3, <2>4, WarmingUndoesNothing
  <2> QED  BY <2>1, <2>5
<1> HIDE DEF T
<1>3. \A m \in base..Len(lg) : m \in T
  BY <1>0, <1>1, <1>2, Downwards
<1> QED  BY <1>3 DEF T

\* Sound at the top of the log: nothing undone.
LEMMA TopIsGrounded ==
    ASSUME NEW x, NEW lg, EntriesFit(lg), NEW a, NEW base \in 0..Len(lg), NEW t, NEW cs,
           Sound(x, lg, a, base, t, cs)
    PROVE  Grounded(x, t, cs) /\ (Changed(lg, a, base, Len(lg)) => x # None /\ x.dirty)
BY LeftTop, Len(lg) \in base..Len(lg) DEF Sound, EntriesFit

\* A clean or absent account can be exchanged for any other that fits the trie.
LEMMA Exchanged ==
    ASSUME NEW x, NEW lg, EntriesFit(lg), NEW a, NEW base \in 0..Len(lg), NEW t, NEW cs,
           Sound(x, lg, a, base, t, cs), x = None \/ ~x.dirty,
           NEW y, Grounded(y, t, cs)
    PROVE  /\ Sound(y, lg, a, base, t, cs)
           /\ \A m \in base..Len(lg) : Left(x, lg, a, m) = x /\ Left(y, lg, a, m) = y
<1>1. ~Changed(lg, a, base, Len(lg))
  BY TopIsGrounded
<1>2. \A m \in base..Len(lg) : Left(x, lg, a, m) = x /\ Left(y, lg, a, m) = y
  BY <1>1, Quiet
<1>3. \A m \in base..Len(lg) : ~Changed(lg, a, base, m)
  BY <1>1 DEF Changed, EntriesFit
<1> QED  BY <1>2, <1>3 DEF Sound

\* Only the step from an account to what an entry leaves of it.
LEMMA StepDown ==
    ASSUME NEW x, NEW lg, EntriesFit(lg), NEW a, NEW base \in 0..Len(lg), NEW t, NEW cs,
           Sound(x, lg, a, base, t, cs), NEW m \in base..(Len(lg) - 1),
           lg[m + 1].address = a, ~IsWarming(lg[m + 1])
    PROVE  /\ Left(x, lg, a, m) = UndoneAccount(Left(x, lg, a, m + 1), lg[m + 1])
           /\ Left(x, lg, a, m + 1) \in Account /\ Left(x, lg, a, m + 1).dirty
           /\ Coherent(Left(x, lg, a, m + 1))
           /\ EntryFits(lg[m + 1])
<1>1. m + 1 \in base..Len(lg) /\ m + 1 \in (base + 1)..(m + 1) /\ m \in 0..(Len(lg) - 1)
      /\ m + 1 \in 1..Len(lg)
  BY DEF EntriesFit
<1>2. Changed(lg, a, base, m + 1)
  BY <1>1 DEF Changed
<1> QED  BY <1>1, <1>2, LeftStep DEF Sound, Grounded, EntriesFit

\* An account can be exchanged for one that stands for it.
LEMMA Replaced ==
    ASSUME NEW x \in Account, NEW lg, EntriesFit(lg), NEW a, NEW base \in 0..Len(lg), NEW t, NEW cs,
           Sound(x, lg, a, base, t, cs),
           NEW y \in Account, StandsFor(y, x), Coherent(y)
    PROVE  /\ Sound(y, lg, a, base, t, cs)
           /\ \A m \in base..Len(lg) :
                \/ Left(x, lg, a, m) = None /\ Left(y, lg, a, m) = None
                \/ /\ Left(x, lg, a, m) \in Account /\ Left(y, lg, a, m) \in Account
                   /\ StandsFor(Left(y, lg, a, m), Left(x, lg, a, m))
                   /\ x.dirty = y.dirty => Left(x, lg, a, m).dirty = Left(y, lg, a, m).dirty
<1> DEFINE l(m) == Left(x, lg, a, m)
           r(m) == Left(y, lg, a, m)
           Both(m) == \/ l(m) = None /\ r(m) = None
                      \/ /\ l(m) \in Account /\ r(m) \in Account /\ StandsFor(r(m), l(m)) /\ Coherent(r(m))
                         /\ x.dirty = y.dirty => l(m).dirty = r(m).dirty
           T == {m \in base..Len(lg) : Both(m)}
<1>0. Len(lg) \in Nat
  BY DEF EntriesFit
<1>1. Len(lg) \in T
  BY <1>0, LeftTop
<1>2. ASSUME NEW m \in base..(Len(lg) - 1), m + 1 \in T PROVE m \in T
  <2>1. m \in 0..(Len(lg) - 1) /\ m + 1 \in base..Len(lg) /\ m \in base..Len(lg)
    BY <1>0
  <2>2. Both(m + 1)
    BY <1>2
  <2>3. CASE lg[m + 1].address # a
    <3>1. l(m) = l(m + 1) /\ r(m) = r(m + 1)
      BY <2>1, <2>3, <1>0, LeftStep
    <3> QED  BY <2>1, <2>2, <3>1
  <2>4. CASE lg[m + 1].address = a /\ IsWarming(lg[m + 1])
    <3>1. l(m) = l(m + 1) /\ r(m) = r(m + 1)
      BY <2>1, <2>4, <1>0, LeftStep, WarmingUndoesNothing
    <3> QED  BY <2>1, <2>2, <3>1
  <2>5. CASE lg[m + 1].address = a /\ ~IsWarming(lg[m + 1])
    <3>1. /\ l(m) = UndoneAccount(l(m + 1), lg[m + 1])
          /\ l(m + 1) \in Account /\ EntryFits(lg[m + 1])
      BY <2>5, StepDown
    <3>2. r(m) = UndoneAccount(r(m + 1), lg[m + 1])
      BY <2>1, <2>5, <1>0, LeftStep
    <3>3. /\ r(m + 1) \in Account /\ StandsFor(r(m + 1), l(m + 1)) /\ Coherent(r(m + 1))
          /\ x.dirty = y.dirty => l(m + 1).dirty = r(m + 1).dirty
      BY <2>2, <3>1, NoneAssumption
    <3>4. CASE lg[m + 1].kind = "Create"
      <4>1. l(m) = None /\ r(m) = None
        BY <3>1, <3>2, <3>4 DEF UndoneAccount
      <4> QED  BY <2>1, <4>1
    <3>5. CASE lg[m + 1].kind # "Create"
      <4> HIDE DEF l, r
      <4>1. l(m) \in Account /\ r(m) \in Account
        BY <3>1, <3>2, <3>3, <3>5, UndoneIsAccount
      <4>2. StandsFor(r(m), l(m)) /\ (x.dirty = y.dirty => l(m).dirty = r(m).dirty)
        BY <3>1, <3>2, <3>3, <3>5, UndoneStandsFor
      <4>3. Coherent(r(m))
        BY <3>1, <3>2, <3>3, <3>5, UndoneKeeps
      <4> QED  BY <2>1, <4>1, <4>2, <4>3
    <3> QED  BY <3>4, <3>5
  <2> QED  BY <2>3, <2>4, <2>5
<1> HIDE DEF T
<1>3. \A m \in base..Len(lg) : m \in T
  BY <1>0, <1>1, <1>2, Downwards
<1>4. \A m \in base..Len(lg) : Both(m)
  BY <1>3 DEF T
<1>5. ASSUME NEW m \in base..Len(lg)
      PROVE  Grounded(r(m), t, cs) /\ (Changed(lg, a, base, m) => r(m) # None /\ r(m).dirty)
  <2>1. /\ Grounded(l(m), t, cs)
        /\ Changed(lg, a, base, m) => l(m) # None /\ l(m).dirty
    BY DEF Sound
  <2>2. Both(m)
    BY <1>4
  <2> HIDE DEF l, r
  <2>3. CASE l(m) = None
    BY <2>1, <2>2, <2>3, NoneAssumption DEF Grounded
  <2>4. CASE l(m) # None
    <3>1. l(m) \in Account /\ r(m) \in Account /\ StandsFor(r(m), l(m)) /\ Coherent(r(m))
      BY <2>2, <2>4
    <3>2. ~r(m).dirty => t # None /\ View(r(m)) = View(FromTrie(t))
      <4> HAVE ~r(m).dirty
      <4>1. ~l(m).dirty
        BY <3>1 DEF StandsFor
      <4>2. View(l(m)) = View(r(m))
        BY <3>1, <4>1, AlikeViews DEF StandsFor, Account
      <4> QED  BY <2>1, <2>4, <4>1, <4>2 DEF Grounded
    <3>3. r(m).code # NoCode /\ r(m).code \notin cs => r(m).newCode
      BY <2>1, <2>4, <3>1 DEF Grounded, StandsFor, Alike
    <3>4. r(m) # None
      BY <3>1, NoneAssumption
    <3> QED  BY <2>1, <2>4, <3>1, <3>2, <3>3, <3>4 DEF Grounded, StandsFor
  <2> QED  BY <2>3, <2>4
<1> QED  BY <1>4, <1>5 DEF Sound

\* What the executor sees of an address: its account, or else the trie's.
Shown(h, t) == View(IF h # None THEN h ELSE IF t = None THEN None ELSE FromTrie(t))

\* A clean account shows what the trie shows.
LEMMA ShownByTrie ==
    ASSUME NEW h, NEW t, NEW cs, Grounded(h, t, cs), h = None \/ ~h.dirty
    PROVE  Shown(h, t) = Shown(None, t)
BY DEF Shown, Grounded

\* Undoing still shows the same when a clean or absent account is exchanged.
LEMMA ExchangedShows ==
    ASSUME NEW x, NEW lg, EntriesFit(lg), NEW a, NEW base \in 0..Len(lg), NEW t, NEW cs,
           Sound(x, lg, a, base, t, cs), x = None \/ ~x.dirty,
           NEW y, Grounded(y, t, cs), y = None \/ ~y.dirty
    PROVE  \A m \in base..Len(lg) : Shown(Left(y, lg, a, m), t) = Shown(Left(x, lg, a, m), t)
<1>1. Grounded(x, t, cs) /\ ~Changed(lg, a, base, Len(lg))
  BY TopIsGrounded
<1>2. \A m \in base..Len(lg) : Left(x, lg, a, m) = x /\ Left(y, lg, a, m) = y
  BY <1>1, Quiet
<1>3. Shown(x, t) = Shown(y, t)
  BY <1>1, ShownByTrie
<1> QED  BY <1>2, <1>3

\* And when an account is replaced by one that stands for it.
LEMMA ReplacedShows ==
    ASSUME NEW x \in Account, NEW lg, EntriesFit(lg), NEW a, NEW base \in 0..Len(lg), NEW t, NEW cs,
           Sound(x, lg, a, base, t, cs),
           NEW y \in Account, StandsFor(y, x), Coherent(y), x.dirty = y.dirty \/ ~IsEmpty(x)
    PROVE  \A m \in base..Len(lg) : Shown(Left(y, lg, a, m), t) = Shown(Left(x, lg, a, m), t)
<1>1. CASE x.dirty = y.dirty
  <2>0. /\ Sound(y, lg, a, base, t, cs)
        /\ \A m \in base..Len(lg) :
             \/ Left(x, lg, a, m) = None /\ Left(y, lg, a, m) = None
             \/ /\ Left(x, lg, a, m) \in Account /\ Left(y, lg, a, m) \in Account
                /\ StandsFor(Left(y, lg, a, m), Left(x, lg, a, m))
                /\ x.dirty = y.dirty => Left(x, lg, a, m).dirty = Left(y, lg, a, m).dirty
    BY Replaced
  <2> TAKE m \in base..Len(lg)
  <2> DEFINE l == Left(x, lg, a, m)
             r == Left(y, lg, a, m)
  <2>1. \/ l = None /\ r = None
        \/ l \in Account /\ r \in Account /\ StandsFor(r, l) /\ l.dirty = r.dirty
    BY <1>1, <2>0
  <2> HIDE DEF l, r
  <2>2. CASE l = None /\ r = None
    BY <2>2 DEF l, r
  <2>3. CASE l \in Account /\ r \in Account /\ StandsFor(r, l) /\ l.dirty = r.dirty
    <3>1. View(l) = View(r)
      BY <2>3, AlikeViews DEF StandsFor
    <3>2. l # None /\ r # None
      BY <2>3, NoneAssumption
    <3> QED  BY <3>1, <3>2 DEF Shown, l, r
  <2> QED  BY <2>1, <2>2, <2>3
<1>2. CASE x.dirty # y.dirty
  <2>1. ~x.dirty /\ y.dirty /\ ~IsEmpty(x)
    BY <1>2 DEF StandsFor, Account
  <2>2. ~Changed(lg, a, base, Len(lg))
    BY <2>1, TopIsGrounded
  <2>3. \A m \in base..Len(lg) : Left(x, lg, a, m) = x /\ Left(y, lg, a, m) = y
    BY <2>2, Quiet
  <2>4. View(x) = View(y)
    BY <2>1, NoneAssumption DEF StandsFor, Alike, View, IsEmpty
  <2>5. x # None /\ y # None
    BY NoneAssumption
  <2> QED  BY <2>3, <2>4, <2>5 DEF Shown
<1> QED  BY <1>1, <1>2

\* The log grows by an entry.
LEMMA AppendFits ==
    ASSUME NEW lg \in Seq(LogEntry), EntriesFit(lg), NEW e, EntryFits(e)
    PROVE  /\ Append(lg, e) \in Seq(LogEntry) /\ EntriesFit(Append(lg, e))
           /\ Len(Append(lg, e)) = Len(lg) + 1
           /\ \A i \in 1..Len(lg) : Append(lg, e)[i] = lg[i]
           /\ Append(lg, e)[Len(lg) + 1] = e
BY DEF EntriesFit, EntryFits

\* What is left of an account under a longer log.
LEMMA AppendedLeft ==
    ASSUME NEW lg \in Seq(LogEntry), EntriesFit(lg), NEW e, EntryFits(e), NEW y, NEW a, NEW z,
           z = (IF e.address = a THEN UndoneAccount(y, e) ELSE y)
    PROVE  /\ Left(y, Append(lg, e), a, Len(lg) + 1) = y
           /\ \A m \in 0..Len(lg) : Left(y, Append(lg, e), a, m) = Left(z, lg, a, m)
<1> DEFINE more == Append(lg, e)
<1>1. /\ Len(more) = Len(lg) + 1 /\ Len(lg) \in Nat
      /\ \A i \in 1..Len(lg) : more[i] = lg[i]
      /\ more[Len(lg) + 1] = e
  BY AppendFits DEF EntriesFit
<1> HIDE DEF more
<1>2. Left(y, more, a, Len(lg) + 1) = y
  BY <1>1, LeftTop
<1>3. Left(y, more, a, Len(lg)) = z
  <2>1. Len(lg) \in 0..(Len(more) - 1) /\ Len(more) \in Nat
    BY <1>1
  <2> QED  BY <1>1, <1>2, <2>1, LeftStep
<1>4. \A m \in 0..Len(lg) : Left(y, more, a, m) = Left(z, lg, a, m)
  BY <1>1, <1>3, LeftSplit
<1> QED  BY <1>2, <1>4 DEF more

\* Under one entry more: what is left of the account with that one undone.
LEMMA UndoneLeft ==
    ASSUME NEW lg \in Seq(LogEntry), EntriesFit(lg), NEW e, EntryFits(e), NEW y, NEW a, e.address = a
    PROVE  \A m \in 0..Len(lg) : Left(y, Append(lg, e), a, m) = Left(UndoneAccount(y, e), lg, a, m)
<1> DEFINE z == UndoneAccount(y, e)
<1>1. z = (IF e.address = a THEN UndoneAccount(y, e) ELSE y)
  OBVIOUS
<1>2. /\ Left(y, Append(lg, e), a, Len(lg) + 1) = y
      /\ \A m \in 0..Len(lg) : Left(y, Append(lg, e), a, m) = Left(z, lg, a, m)
  BY <1>1, AppendedLeft
<1> QED  BY <1>2

\* The account a change makes, with the change's entry: what undoing the entry
\* leaves was sound before.
LEMMA LoggedChange ==
    ASSUME NEW lg \in Seq(LogEntry), EntriesFit(lg), NEW e, EntryFits(e),
           NEW a, NEW base \in 0..Len(lg), NEW t, NEW cs,
           NEW y \in Account, y.dirty, Grounded(y, t, cs), e.address = a,
           Sound(UndoneAccount(y, e), lg, a, base, t, cs)
    PROVE  Sound(y, Append(lg, e), a, base, t, cs)
<1> DEFINE more == Append(lg, e)
           z == UndoneAccount(y, e)
<1>1. /\ Len(more) = Len(lg) + 1 /\ Len(lg) \in Nat
      /\ \A i \in 1..Len(lg) : more[i] = lg[i]
  BY AppendFits DEF EntriesFit
<1>2. /\ Left(y, more, a, Len(lg) + 1) = y
      /\ \A m \in 0..Len(lg) : Left(y, more, a, m) = Left(z, lg, a, m)
  BY AppendedLeft
<1> HIDE DEF more, z
<1>3. \A m \in base..Len(lg) : Changed(more, a, base, m) <=> Changed(lg, a, base, m)
  BY <1>1 DEF Changed
<1>4. ASSUME NEW m \in base..Len(more)
      PROVE  /\ Grounded(Left(y, more, a, m), t, cs)
             /\ Changed(more, a, base, m) =>
                  Left(y, more, a, m) # None /\ Left(y, more, a, m).dirty
  <2>1. CASE m \in base..Len(lg)
    BY <2>1, <1>1, <1>2, <1>3 DEF Sound, z
  <2>2. CASE m = Len(lg) + 1
    BY <2>2, <1>2, NoneAssumption
  <2> QED  BY <2>1, <2>2, <1>1
<1> QED  BY <1>4 DEF Sound, more

\* An entry of another account, or of something getting warm.
LEMMA LoggedElsewhere ==
    ASSUME NEW lg \in Seq(LogEntry), EntriesFit(lg), NEW e, EntryFits(e),
           NEW a, NEW base \in 0..Len(lg), NEW t, NEW cs, NEW x,
           e.address # a \/ IsWarming(e),
           Sound(x, lg, a, base, t, cs)
    PROVE  /\ Sound(x, Append(lg, e), a, base, t, cs)
           /\ \A m \in 0..Len(lg) : Left(x, Append(lg, e), a, m) = Left(x, lg, a, m)
<1> DEFINE more == Append(lg, e)
<1>1. /\ Len(more) = Len(lg) + 1 /\ Len(lg) \in Nat
      /\ \A i \in 1..Len(lg) : more[i] = lg[i]
      /\ more[Len(lg) + 1] = e
  BY AppendFits DEF EntriesFit
<1>2. x = (IF e.address = a THEN UndoneAccount(x, e) ELSE x)
  BY WarmingUndoesNothing
<1>3. /\ Left(x, more, a, Len(lg) + 1) = x
      /\ \A m \in 0..Len(lg) : Left(x, more, a, m) = Left(x, lg, a, m)
  BY <1>2, AppendedLeft
<1>4. Grounded(x, t, cs) /\ (Changed(lg, a, base, Len(lg)) => x # None /\ x.dirty)
  BY TopIsGrounded
<1> HIDE DEF more
<1>5. /\ \A m \in base..Len(lg) : Changed(more, a, base, m) <=> Changed(lg, a, base, m)
      /\ Changed(more, a, base, Len(lg) + 1) <=> Changed(lg, a, base, Len(lg))
  BY <1>1 DEF Changed
<1>6. ASSUME NEW m \in base..Len(more)
      PROVE  /\ Grounded(Left(x, more, a, m), t, cs)
             /\ Changed(more, a, base, m) =>
                  Left(x, more, a, m) # None /\ Left(x, more, a, m).dirty
  <2>1. CASE m \in base..Len(lg)
    BY <2>1, <1>1, <1>3, <1>5 DEF Sound
  <2>2. CASE m = Len(lg) + 1
    BY <2>2, <1>3, <1>4, <1>5
  <2> QED  BY <2>1, <2>2, <1>1
<1> QED  BY <1>3, <1>6 DEF Sound, more

\* What is left warm under one entry more.
LEMMA LoggedWarm ==
    ASSUME NEW lg \in Seq(LogEntry), EntriesFit(lg), NEW e, EntryFits(e), NEW x, NEW a, NEW z,
           z = (IF e.address = a THEN UndoneWarm(x, e) ELSE x)
    PROVE  \A m \in 0..Len(lg) : WarmLeft(x, Append(lg, e), a, m) = WarmLeft(z, lg, a, m)
<1> DEFINE more == Append(lg, e)
<1>1. /\ Len(more) = Len(lg) + 1 /\ Len(lg) \in Nat
      /\ \A i \in 1..Len(lg) : more[i] = lg[i]
      /\ more[Len(lg) + 1] = e
  BY AppendFits DEF EntriesFit
<1> HIDE DEF more
<1>2. WarmLeft(x, more, a, Len(lg) + 1) = x
  BY <1>1, WarmLeftTop
<1>3. WarmLeft(x, more, a, Len(lg)) = z
  <2>1. Len(lg) \in 0..(Len(more) - 1) /\ Len(more) \in Nat
    BY <1>1
  <2> QED  BY <1>1, <1>2, <2>1, WarmLeftStep
<1>4. \A m \in 0..Len(lg) : WarmLeft(x, more, a, m) = WarmLeft(z, lg, a, m)
  BY <1>1, <1>3, WarmLeftSplit
<1> QED  BY <1>4 DEF more

\* An entry that warms nothing leaves what is warm.
LEMMA LoggedCold ==
    ASSUME NEW lg \in Seq(LogEntry), EntriesFit(lg), NEW e, EntryFits(e), ~IsWarming(e)
    PROVE  \A a : \A x : \A m \in 0..Len(lg) : WarmLeft(x, Append(lg, e), a, m) = WarmLeft(x, lg, a, m)
<1>1. \A x : UndoneWarm(x, e) = x
  BY DEF IsWarming, UndoneWarm
<1> QED  BY <1>1, LoggedWarm

\* A log that is cut at n still fits.
LEMMA CutFits ==
    ASSUME NEW lg \in Seq(LogEntry), EntriesFit(lg), NEW n \in 0..Len(lg)
    PROVE  /\ SubSeq(lg, 1, n) \in Seq(LogEntry) /\ EntriesFit(SubSeq(lg, 1, n))
           /\ Len(SubSeq(lg, 1, n)) = n
           /\ \A i \in 1..n : SubSeq(lg, 1, n)[i] = lg[i]
BY DEF EntriesFit

\* Undoing further down from what rollback left is undoing from the top.
LEMMA Cut ==
    ASSUME NEW lg \in Seq(LogEntry), EntriesFit(lg), NEW a, NEW base \in 0..Len(lg),
           NEW n \in base..Len(lg), NEW t, NEW cs, NEW x,
           Sound(x, lg, a, base, t, cs)
    PROVE  /\ Sound(Left(x, lg, a, n), SubSeq(lg, 1, n), a, base, t, cs)
           /\ \A m \in 0..n : Left(Left(x, lg, a, n), SubSeq(lg, 1, n), a, m) = Left(x, lg, a, m)
<1> DEFINE less == SubSeq(lg, 1, n)
<1>0. n \in 0..Len(lg) /\ Len(lg) \in Nat
  BY DEF EntriesFit
<1>1. Len(less) = n /\ \A i \in 1..n : less[i] = lg[i]
  BY <1>0, CutFits
<1> HIDE DEF less
<1>2. \A m \in 0..n : Left(x, lg, a, m) = Left(Left(x, lg, a, n), less, a, m)
  BY <1>0, <1>1, LeftSplit
<1>3. \A m \in base..n : Changed(less, a, base, m) <=> Changed(lg, a, base, m)
  BY <1>0, <1>1 DEF Changed
<1>4. Sound(Left(x, lg, a, n), less, a, base, t, cs)
  BY <1>0, <1>1, <1>2, <1>3 DEF Sound
<1> QED  BY <1>2, <1>4 DEF less

\* Fewer entries can still be undone.
LEMMA Rebased ==
    ASSUME NEW lg, EntriesFit(lg), NEW a, NEW base \in 0..Len(lg),
           NEW n \in base..Len(lg), NEW t, NEW cs, NEW x,
           Sound(x, lg, a, base, t, cs)
    PROVE  Sound(x, lg, a, n, t, cs)
BY DEF Sound, Changed, EntriesFit

\* No account is sound where nothing was changed.
LEMMA AbsentIsSound ==
    ASSUME NEW lg, EntriesFit(lg), NEW a, NEW t, NEW cs
    PROVE  Sound(None, lg, a, Len(lg), t, cs)
BY LeftTop DEF Sound, Changed, EntriesFit, Grounded

\* An account that was changed and is clean once entries are undone: its touch is
\* one of them.
LEMMA Untouching ==
    ASSUME NEW x, NEW lg, EntriesFit(lg), NEW a, NEW base \in 0..Len(lg), NEW t, NEW cs,
           Sound(x, lg, a, base, t, cs), NEW n \in base..Len(lg),
           Left(x, lg, a, n) # None, ~Left(x, lg, a, n).dirty
    PROVE  (x # None /\ ~x.dirty) \/ \E i \in (n + 1)..Len(lg) : lg[i].address = a /\ lg[i].kind = "Touch"
<1> DEFINE l(m) == Left(x, lg, a, m)
           T == {m \in n..Len(lg) : (l(m) # None /\ ~l(m).dirty) =>
                   \/ x # None /\ ~x.dirty
                   \/ \E i \in (m + 1)..Len(lg) : lg[i].address = a /\ lg[i].kind = "Touch"}
<1>0. Len(lg) \in Nat
  BY DEF EntriesFit
<1>1. Len(lg) \in T
  BY <1>0, LeftTop
<1>2. ASSUME NEW m \in n..(Len(lg) - 1), m + 1 \in T PROVE m \in T
  <2>0. m \in base..(Len(lg) - 1) /\ m \in 0..(Len(lg) - 1) /\ m \in n..Len(lg)
        /\ (m + 1)..Len(lg) = {m + 1} \cup ((m + 1) + 1)..Len(lg)
    BY <1>0
  <2>1. CASE lg[m + 1].address # a \/ IsWarming(lg[m + 1])
    <3>1. l(m) = l(m + 1)
      BY <2>0, <2>1, <1>0, LeftStep, WarmingUndoesNothing
    <3> QED  BY <3>1, <1>2, <2>0
  <2>2. CASE lg[m + 1].address = a /\ ~IsWarming(lg[m + 1])
    <3>1. /\ l(m) = UndoneAccount(l(m + 1), lg[m + 1])
          /\ l(m + 1) \in Account /\ l(m + 1).dirty /\ Coherent(l(m + 1))
          /\ EntryFits(lg[m + 1])
      BY <2>0, <2>2, StepDown
    <3>2. CASE lg[m + 1].kind = "Touch"
      BY <2>0, <2>2, <3>2
    <3>3. CASE lg[m + 1].kind = "Create"
      <4>1. l(m) = None
        BY <3>1, <3>3 DEF UndoneAccount
      <4> QED  BY <2>0, <4>1
    <3>4. CASE lg[m + 1].kind \notin {"Touch", "Create"}
      <4> HIDE DEF l
      <4>1. l(m).dirty
        BY <3>1, <3>4, UndoneKeeps
      <4> QED  BY <2>0, <4>1
    <3> QED  BY <3>2, <3>3, <3>4
  <2> QED  BY <2>1, <2>2
<1> HIDE DEF T
<1>3. \A m \in n..Len(lg) : m \in T
  BY <1>0, <1>1, <1>2, n \in 0..Len(lg), Downwards
<1>4. n \in T
  BY <1>0, <1>3
<1> QED  BY <1>4 DEF T

-----------------------------------------------------------------------------
\* The heights that may still be rolled back to: from the first savepoint, or only the
\* top.
Base == IF Running THEN frames[1] ELSE Len(log)

\* Savepoints are heights of the log, in order.
FramesInOrder ==
    /\ \A i \in 1..Len(frames) : frames[i] \in 0..Len(log)
    /\ \A i, j \in 1..Len(frames) : i <= j => frames[i] <= frames[j]

\* Every account in the cache is sound.
JournalIsSound == \A a \in Address : Sound(cache[a], log, a, Base, trie[a], codes)

\* The codes that accounts of a trie name are in the database.
CodeStored(entries) ==
    \A a \in Address : entries[a] # None => entries[a].code \in codes \cup {NoCode}

\* That holds of the present trie and every root that can be set.
CodesAreStored == CodeStored(trie) /\ \A root \in Roots : CodeStored(root)

\* A clean account is on the list that purging takes from.
CleanIsListed == \A a \in Address : IsClean(a) => a \in unchanged

\* The inductive invariant.
IInv ==
    /\ TypeOK /\ EntriesFit(log) /\ FramesInOrder
    /\ JournalIsSound /\ CodesAreStored /\ NonExistingIsRight /\ CleanIsListed

\* The type of the log.
LEMMA LogType == ASSUME TypeOK PROVE log \in Seq(LogEntry)
BY DEF TypeOK, LogEntry

\* Base is a height of the log.
LEMMA BaseIsBelow ==
    ASSUME IInv
    PROVE  /\ Len(log) \in Nat /\ Base \in 0..Len(log)
           /\ Running => Len(frames) \in Nat \ {0} /\ Base = frames[1]
           /\ ~Running => Base = Len(log)
<1>1. frames \in Seq(0..MaxLog) /\ Len(log) \in Nat
  BY DEF IInv, TypeOK, EntriesFit
<1>2. CASE Running
  <2>1. Len(frames) \in Nat \ {0}
    BY <1>1, <1>2, EmptySeq DEF Running
  <2>2. frames[1] \in 0..Len(log)
    BY <2>1 DEF IInv, FramesInOrder
  <2> QED  BY <1>1, <1>2, <2>1, <2>2 DEF Base
<1>3. CASE ~Running
  BY <1>1, <1>3 DEF Base
<1> QED  BY <1>2, <1>3

\* What is read from the trie is an account.
LEMMA FromTrieIsAccount ==
    ASSUME NEW entry \in Entry
    PROVE  FromTrie(entry) \in Account /\ Coherent(FromTrie(entry)) /\ ~FromTrie(entry).dirty
BY DEF FromTrie, Entry, Account, NoOverlay, Coherent

\* And it fits the trie.
LEMMA FromTrieIsGrounded ==
    ASSUME IInv, NEW a \in Address, trie[a] # None
    PROVE  Grounded(FromTrie(trie[a]), trie[a], codes)
<1>1. trie[a] \in Entry
  BY DEF IInv, TypeOK
<1>2. trie[a].code \in codes \cup {NoCode}
  BY DEF IInv, CodesAreStored, CodeStored
<1>3. FromTrie(trie[a]).code = trie[a].code
  BY DEF FromTrie
<1> QED  BY <1>1, <1>2, <1>3, FromTrieIsAccount DEF Grounded

\* Undoing the log on y instead shows what it showed.
Restores(a, y) ==
    \A n \in Base..Len(log) : Shown(Left(y, log, a, n), trie[a]) = Shown(Left(cache[a], log, a, n), trie[a])

\* What account() finds could be in the cache.
LEMMA LoadedIsSound ==
    ASSUME IInv, NEW a \in Address
    PROVE  /\ Loaded(a) = IF cache[a] # None THEN cache[a]
                          ELSE IF trie[a] = None THEN None ELSE FromTrie(trie[a])
           /\ Sound(Loaded(a), log, a, Base, trie[a], codes)
           /\ Grounded(Loaded(a), trie[a], codes)
           /\ Loaded(a) # None /\ ~Loaded(a).dirty => Fetches(a) \/ IsClean(a)
           /\ Loaded(a) = None => cache[a] = None /\ trie[a] = None
           /\ Restores(a, Loaded(a))
<1>1. Loaded(a) = IF cache[a] # None THEN cache[a]
                  ELSE IF trie[a] = None THEN None ELSE FromTrie(trie[a])
  BY DEF IInv, NonExistingIsRight, Loaded, Found
<1>2. Sound(cache[a], log, a, Base, trie[a], codes)
  BY DEF IInv, JournalIsSound
<1>3. EntriesFit(log) /\ Base \in 0..Len(log)
  BY BaseIsBelow DEF IInv
<1>4. trie[a] # None => FromTrie(trie[a]) # None
  BY FromTrieIsAccount, NoneAssumption DEF IInv, TypeOK
<1>5. Sound(Loaded(a), log, a, Base, trie[a], codes)
  <2>1. CASE cache[a] # None \/ trie[a] = None
    BY <1>1, <1>2, <2>1
  <2>2. CASE cache[a] = None /\ trie[a] # None
    <3>1. Loaded(a) = FromTrie(trie[a])
      BY <1>1, <2>2
    <3> QED  BY <1>2, <1>3, <2>2, <3>1, FromTrieIsGrounded, Exchanged
  <2> QED  BY <2>1, <2>2
<1>6. Grounded(Loaded(a), trie[a], codes)
  BY <1>3, <1>5, TopIsGrounded
<1>7. Restores(a, Loaded(a))
  <2>1. CASE cache[a] # None \/ trie[a] = None
    BY <1>1, <2>1 DEF Restores
  <2>2. CASE cache[a] = None /\ trie[a] # None
    <3>1. Loaded(a) = FromTrie(trie[a]) /\ ~FromTrie(trie[a]).dirty
      BY <1>1, <2>2 DEF FromTrie
    <3>2. Grounded(FromTrie(trie[a]), trie[a], codes)
      BY <2>2, FromTrieIsGrounded
    <3> QED  BY <1>2, <1>3, <2>2, <3>1, <3>2, ExchangedShows DEF Restores
  <2> QED  BY <2>1, <2>2
<1> QED  BY <1>1, <1>4, <1>5, <1>6, <1>7 DEF Fetches, IsClean

\* A step after which undoing, to an entry below top, brings back what it would have
\* brought back before.
RecoversTo(top) ==
    \A a \in Address : \A n \in Base..top :
        /\ Shown(Left(cache'[a], log', a, n), trie[a]) = Shown(Left(cache[a], log, a, n), trie[a])
        /\ WarmLeft(warmed'[a], log', a, n) = WarmLeft(warmed[a], log, a, n)
Recovers == RecoversTo(Len(log))
\* The other accounts show what they showed.
ShownElsewhere(a) ==
    \A b \in Address \ {a} : Shown(cache'[b], trie[b]) = Shown(cache[b], trie[b])

\* A change of account a that undoing takes back.
Changes(a) == Recovers /\ ShownElsewhere(a) /\ cache'[a] \in Account /\ cache'[a].dirty

\* What Access leaves in the cache for the other addresses.
LEMMA Accessed ==
    ASSUME IInv, NEW a \in Address, NEW acc \in Account \cup {None}, Access(a, acc)
    PROVE  /\ cache' \in [Address -> Account \cup {None}] /\ cache'[a] = acc
           /\ \A b \in Address \ {a} : /\ cache'[b] = cache[b] \/ (IsClean(b) /\ cache'[b] = None)
                                       /\ IsClean(b) => b \in unchanged' \/ cache'[b] = None
           /\ unchanged' \subseteq Address /\ (Fetches(a) => a \in unchanged')
           /\ ~Fetches(a) => unchanged' = unchanged
           /\ nonExisting' \subseteq Address
<1>1. PICK purged \in IF Fetches(a) THEN SUBSET unchanged ELSE {{}} :
        /\ cache' = [c \in Address |-> IF c = a THEN acc
                                       ELSE IF c \in purged /\ IsClean(c) THEN None
                                       ELSE cache[c]]
        /\ unchanged' = IF Fetches(a) THEN (unchanged \ purged) \cup {a} ELSE unchanged
  BY DEF Access
<1>2. cache \in [Address -> Account \cup {None}] /\ unchanged \subseteq Address
  BY DEF IInv, TypeOK
<1>3. cache' \in [Address -> Account \cup {None}] /\ cache'[a] = acc
  BY <1>1, <1>2
<1>4. ASSUME NEW b \in Address \ {a}
      PROVE  /\ cache'[b] = cache[b] \/ (IsClean(b) /\ cache'[b] = None)
             /\ IsClean(b) => b \in unchanged' \/ cache'[b] = None
  BY <1>1 DEF IInv, CleanIsListed
<1>5. nonExisting' \subseteq Address
  BY DEF Access, IInv, TypeOK
<1>6. unchanged' \subseteq Address /\ (Fetches(a) => a \in unchanged') /\ (~Fetches(a) => unchanged' = unchanged)
  BY <1>1, <1>2
<1> QED  BY <1>3, <1>4, <1>5, <1>6

\* A step on account a: what has to be shown of it to keep the invariant.
LEMMA AccountStep ==
    ASSUME IInv, NEW a \in Address, NEW acc \in Account \cup {None}, Access(a, acc),
           Loaded(a) # None => acc # None,
           acc # None /\ ~acc.dirty => Fetches(a) \/ IsClean(a),
           log' \in Seq(LogEntry), EntriesFit(log'), Len(log') <= MaxLog, Len(log) <= Len(log'),
           Running \/ log' = log,
           \A b \in Address \ {a} : \A x :
               Sound(x, log, b, Base, trie[b], codes) =>
                   /\ Sound(x, log', b, Base, trie[b], codes)
                   /\ \A m \in Base..Len(log) : Left(x, log', b, m) = Left(x, log, b, m),
           \A b \in Address : \A x : \A m \in Base..Len(log) :
               WarmLeft(x, log', b, m) = WarmLeft(x, log, b, m),
           Sound(acc, log', a, Base, trie[a], codes),
           \A n \in Base..Len(log) :
               Shown(Left(acc, log', a, n), trie[a]) = Shown(Left(cache[a], log, a, n), trie[a]),
           UNCHANGED <<stores, touchedForever, warmed, frames>>
    PROVE  IInv' /\ Recovers /\ ShownElsewhere(a) /\ cache'[a] = acc
<1> USE DEF stores
<1>0. /\ cache' \in [Address -> Account \cup {None}] /\ cache'[a] = acc
      /\ \A b \in Address \ {a} : /\ cache'[b] = cache[b] \/ (IsClean(b) /\ cache'[b] = None)
                                  /\ IsClean(b) => b \in unchanged' \/ cache'[b] = None
      /\ unchanged' \subseteq Address /\ (Fetches(a) => a \in unchanged')
      /\ ~Fetches(a) => unchanged' = unchanged
      /\ nonExisting' \subseteq Address
  BY Accessed
<1>1. TypeOK'
  BY <1>0 DEF IInv, TypeOK, LogEntry
<1>2. FramesInOrder'
  BY DEF IInv, FramesInOrder, EntriesFit
<1>3. Base' = Base
  BY DEF Base, Running
<1>8. ASSUME NEW b \in Address \ {a}
      PROVE  /\ Sound(cache'[b], log', b, Base, trie[b], codes)
             /\ \A n \in Base..Len(log) :
                  Shown(Left(cache'[b], log', b, n), trie[b]) = Shown(Left(cache[b], log, b, n), trie[b])
             /\ Shown(cache'[b], trie[b]) = Shown(cache[b], trie[b])
  <2>1. Sound(cache[b], log, b, Base, trie[b], codes)
    BY DEF IInv, JournalIsSound
  <2>2. CASE cache'[b] = cache[b]
    BY <2>1, <2>2
  <2>3. CASE IsClean(b) /\ cache'[b] = None
    <3>1. Base \in 0..Len(log) /\ EntriesFit(log)
      BY BaseIsBelow DEF IInv
    <3>2. Grounded(None, trie[b], codes)
      BY DEF Grounded
    <3>3. Sound(None, log, b, Base, trie[b], codes)
      BY <2>1, <2>3, <3>1, <3>2, Exchanged DEF IsClean
    <3>4. \A n \in Base..Len(log) :
            Shown(Left(None, log, b, n), trie[b]) = Shown(Left(cache[b], log, b, n), trie[b])
      BY <2>1, <2>3, <3>1, <3>2, ExchangedShows DEF IsClean
    <3>5. Grounded(cache[b], trie[b], codes)
      BY <2>1, <3>1, TopIsGrounded
    <3>6. Shown(None, trie[b]) = Shown(cache[b], trie[b])
      BY <2>3, <3>5, ShownByTrie DEF IsClean
    <3> QED  BY <2>3, <3>3, <3>4, <3>6
  <2> QED  BY <1>0, <2>2, <2>3
<1>4. JournalIsSound'
  <2>2. \A b \in Address : Sound(cache'[b], log', b, Base', trie'[b], codes')
    BY <1>0, <1>3, <1>8
  <2> QED  BY <2>2 DEF JournalIsSound
<1>5. CodesAreStored'
  BY DEF IInv, CodesAreStored, CodeStored
<1>6. NonExistingIsRight'
  <2>1. Loaded(a) = None => cache[a] = None /\ trie[a] = None
    BY LoadedIsSound
  <2>2. a \in nonExisting => Loaded(a) = None
    BY DEF IInv, NonExistingIsRight, Loaded, Found
  <2>3. \A b \in nonExisting : trie[b] = None /\ cache[b] = None
    BY DEF IInv, NonExistingIsRight
  <2>4. ASSUME NEW b \in nonExisting' PROVE trie'[b] = None /\ cache'[b] = None
    <3>0. b \in Address
      BY <1>0
    <3>1. CASE b # a
      <4>1. b \in nonExisting
        BY <2>4, <3>1 DEF Access
      <4> QED  BY <2>3, <4>1, <1>0, <3>0, <3>1
    <3>2. CASE b = a
      <4>1. Loaded(a) = None /\ acc = None
        BY <2>2, <2>4, <3>2 DEF Access
      <4> QED  BY <4>1, <2>1, <1>0, <3>2
    <3> QED  BY <3>1, <3>2
  <2> QED  BY <2>4 DEF NonExistingIsRight
<1>7. CleanIsListed'
  <2>1. ASSUME NEW b \in Address, cache'[b] # None, ~cache'[b].dirty PROVE b \in unchanged'
    <3>1. CASE b # a
      BY <1>0, <2>1, <3>1 DEF IsClean
    <3>2. CASE b = a
      <4>1. IsClean(a) => a \in unchanged
        BY DEF IInv, CleanIsListed
      <4>2. Fetches(a) \/ IsClean(a)
        BY <1>0, <2>1, <3>2
      <4> QED  BY <4>1, <4>2, <1>0, <3>2
    <3> QED  BY <3>1, <3>2
  <2> QED  BY <2>1 DEF CleanIsListed, IsClean
<1>9. Recovers /\ ShownElsewhere(a)
  BY <1>0, <1>8 DEF Recovers, RecoversTo, ShownElsewhere
<1> QED  BY <1>0, <1>1, <1>2, <1>4, <1>5, <1>6, <1>7, <1>9 DEF IInv

-----------------------------------------------------------------------------
\* An entry made of an account fits.
LEMMA EntryIs ==
    ASSUME NEW kind \in Kind, NEW a \in Address, NEW k \in Key, NEW v \in Value \cup 0..MaxNonce,
           NEW root \in [Key -> Value],
           kind = "Storage" => v \in Value, kind = "Nonce" => v \in 0..MaxNonce
    PROVE  /\ EntryFits(Change(kind, a, k, v, root))
           /\ Change(kind, a, k, v, root).address = a /\ Change(kind, a, k, v, root).kind = kind
           /\ Change(kind, a, k, v, root).value = v /\ Change(kind, a, k, v, root).root = root
           /\ Change(kind, a, k, v, root).key = k
BY DEF EntryFits, LogEntry, Change

\* And one without a key or value.
LEMMA PlainIs ==
    ASSUME NEW kind \in Kind, NEW a \in Address, NEW v \in Value \cup 0..MaxNonce,
           kind # "Storage", kind = "Nonce" => v \in 0..MaxNonce
    PROVE  /\ EntryFits(Plain(kind, a, v))
           /\ Plain(kind, a, v).address = a /\ Plain(kind, a, v).kind = kind
           /\ Plain(kind, a, v).value = v
<1>1. AnyKey \in Key
  BY KeyAssumption DEF AnyKey
<1>2. EmptyTrie \in [Key -> Value]
  BY ConstantsAssumption DEF EmptyTrie, Value
<1> QED  BY <1>1, <1>2, EntryIs DEF Plain

\* A step that logs nothing, one entry or two.
LEMMA SilentStep ==
    ASSUME IInv, NEW a \in Address, NEW acc \in Account \cup {None}, Access(a, acc),
           Loaded(a) # None => acc # None,
           acc # None /\ ~acc.dirty => Fetches(a) \/ IsClean(a),
           log' = log,
           Sound(acc, log, a, Base, trie[a], codes), Restores(a, acc),
           UNCHANGED <<stores, touchedForever, warmed, frames>>
    PROVE  IInv' /\ Recovers /\ ShownElsewhere(a) /\ cache'[a] = acc
<1>1. log' \in Seq(LogEntry) /\ EntriesFit(log') /\ Len(log') <= MaxLog /\ Len(log) <= Len(log')
  BY LogType DEF IInv, TypeOK, EntriesFit
<1>2. \A n \in Base..Len(log) :
        Shown(Left(acc, log', a, n), trie[a]) = Shown(Left(cache[a], log, a, n), trie[a])
  BY DEF Restores
<1> QED  BY <1>1, <1>2, AccountStep

\* The same with one entry.
LEMMA EntryStep ==
    ASSUME IInv, NEW a \in Address, NEW acc \in Account, Access(a, acc),
           NEW e, EntryFits(e), e.address = a, ~IsWarming(e), Running,
           acc.dirty, Grounded(acc, trie[a], codes),
           Sound(UndoneAccount(acc, e), log, a, Base, trie[a], codes),
           Restores(a, UndoneAccount(acc, e)),
           log' = Append(log, e), Len(log) + 1 <= MaxLog,
           UNCHANGED <<stores, touchedForever, warmed, frames>>
    PROVE  IInv' /\ Changes(a)
<1>1. log \in Seq(LogEntry) /\ EntriesFit(log) /\ Base \in 0..Len(log) /\ Len(log) \in Nat
      /\ \A n \in Base..Len(log) : n \in 0..Len(log)
  BY LogType, BaseIsBelow DEF IInv
<1>2. log' \in Seq(LogEntry) /\ EntriesFit(log') /\ Len(log') = Len(log) + 1
  BY <1>1, AppendFits
<1>3. Sound(acc, log', a, Base, trie[a], codes)
  BY <1>1, LoggedChange
<1>4. \A b \in Address \ {a} : \A x :
        Sound(x, log, b, Base, trie[b], codes) =>
            /\ Sound(x, log', b, Base, trie[b], codes)
            /\ \A m \in Base..Len(log) : Left(x, log', b, m) = Left(x, log, b, m)
  BY <1>1, LoggedElsewhere
<1>5. acc # None /\ Len(log') <= MaxLog /\ Len(log) <= Len(log')
  BY <1>1, <1>2, NoneAssumption
<1>6. \A b \in Address : \A x : \A m \in Base..Len(log) :
        WarmLeft(x, log', b, m) = WarmLeft(x, log, b, m)
  BY <1>1, LoggedCold
<1>7. \A n \in 0..Len(log) : Left(acc, log', a, n) = Left(UndoneAccount(acc, e), log, a, n)
  BY <1>1, UndoneLeft
<1>8. \A n \in Base..Len(log) :
        Shown(Left(acc, log', a, n), trie[a]) = Shown(Left(cache[a], log, a, n), trie[a])
  BY <1>1, <1>7 DEF Restores
<1> QED  BY <1>2, <1>3, <1>4, <1>5, <1>6, <1>8, AccountStep DEF Changes

\* The same with two.
LEMMA EntriesStep ==
    ASSUME IInv, NEW a \in Address, NEW acc \in Account, Access(a, acc),
           NEW d, EntryFits(d), d.address = a, ~IsWarming(d),
           NEW e, EntryFits(e), e.address = a, ~IsWarming(e), Running,
           acc.dirty, Grounded(acc, trie[a], codes),
           NEW mid \in Account, mid = UndoneAccount(acc, e), mid.dirty, Grounded(mid, trie[a], codes),
           Sound(UndoneAccount(mid, d), log, a, Base, trie[a], codes),
           Restores(a, UndoneAccount(mid, d)),
           log' = Append(Append(log, d), e), Len(log) + 2 <= MaxLog,
           UNCHANGED <<stores, touchedForever, warmed, frames>>
    PROVE  IInv' /\ Changes(a)
<1> DEFINE lg == Append(log, d)
<1>1. log \in Seq(LogEntry) /\ EntriesFit(log) /\ Base \in 0..Len(log) /\ Len(log) \in Nat
  BY LogType, BaseIsBelow DEF IInv
<1>2. lg \in Seq(LogEntry) /\ EntriesFit(lg) /\ Len(lg) = Len(log) + 1 /\ Base \in 0..Len(lg)
  BY <1>1, AppendFits
<1>3. Sound(mid, lg, a, Base, trie[a], codes)
  BY <1>1, LoggedChange
<1>4. \A b \in Address \ {a} : \A x :
        Sound(x, log, b, Base, trie[b], codes) =>
            /\ Sound(x, lg, b, Base, trie[b], codes)
            /\ \A m \in 0..Len(log) : Left(x, lg, b, m) = Left(x, log, b, m)
  BY <1>1, LoggedElsewhere
<1>10. \A b \in Address : \A x : \A m \in 0..Len(log) : WarmLeft(x, lg, b, m) = WarmLeft(x, log, b, m)
  BY <1>1, LoggedCold
<1>11. \A n \in 0..Len(log) : Left(mid, lg, a, n) = Left(UndoneAccount(mid, d), log, a, n)
  BY <1>1, UndoneLeft
<1> HIDE DEF lg
<1>5. log' = Append(lg, e)
  BY DEF lg
<1>6. log' \in Seq(LogEntry) /\ EntriesFit(log') /\ Len(log') = Len(log) + 2
  BY <1>1, <1>2, <1>5, AppendFits
<1>7. Sound(acc, log', a, Base, trie[a], codes)
  BY <1>2, <1>3, <1>5, LoggedChange
<1>8. \A b \in Address \ {a} : \A x :
        Sound(x, lg, b, Base, trie[b], codes) =>
            /\ Sound(x, log', b, Base, trie[b], codes)
            /\ \A m \in 0..Len(lg) : Left(x, log', b, m) = Left(x, lg, b, m)
  BY <1>2, <1>5, LoggedElsewhere
<1>9. acc # None /\ Len(log') <= MaxLog /\ Len(log) <= Len(log')
  BY <1>1, <1>6, NoneAssumption DEF EntriesFit
<1>12. \A b \in Address : \A x : \A m \in 0..Len(lg) : WarmLeft(x, log', b, m) = WarmLeft(x, lg, b, m)
  BY <1>2, <1>5, LoggedCold
<1>13. \A n \in 0..Len(lg) : Left(acc, log', a, n) = Left(mid, lg, a, n)
  BY <1>2, <1>5, UndoneLeft
<1>14. \A n \in Base..Len(log) : n \in 0..Len(log) /\ n \in 0..Len(lg)
  BY <1>1, <1>2
<1>15. \A n \in Base..Len(log) :
        Shown(Left(acc, log', a, n), trie[a]) = Shown(Left(cache[a], log, a, n), trie[a])
  BY <1>11, <1>13, <1>14 DEF Restores
<1>16. \A b \in Address : \A x : \A m \in Base..Len(log) :
         WarmLeft(x, log', b, m) = WarmLeft(x, log, b, m)
  BY <1>10, <1>12, <1>14
<1>17. \A b \in Address \ {a} : \A x :
        Sound(x, log, b, Base, trie[b], codes) =>
            /\ Sound(x, log', b, Base, trie[b], codes)
            /\ \A m \in Base..Len(log) : Left(x, log', b, m) = Left(x, log, b, m)
  BY <1>4, <1>8, <1>14
<1> QED  BY <1>6, <1>7, <1>9, <1>15, <1>16, <1>17, AccountStep DEF Changes

\* The account of a log that grew by what the step logged.
LEMMA LoggedIs ==
    ASSUME TypeOK, NEW d \in LogEntry, NEW e \in LogEntry
    PROVE  /\ Logged(<<>> \o <<>>) => log' = log
           /\ Logged(<<e>>) => log' = Append(log, e) /\ Len(log) + 1 <= MaxLog
           /\ Logged(<<>> \o <<e>>) => log' = Append(log, e) /\ Len(log) + 1 <= MaxLog
           /\ Logged(<<e>> \o <<>>) => log' = Append(log, e) /\ Len(log) + 1 <= MaxLog
           /\ Logged(<<d>> \o <<e>>) =>
                log' = Append(Append(log, d), e) /\ Len(log) + 2 <= MaxLog
<1>1. log \in Seq(LogEntry)
  BY LogType
<1>2. <<>> \in Seq(LogEntry) /\ <<e>> \in Seq(LogEntry) /\ <<d>> \in Seq(LogEntry)
  OBVIOUS
<1>3. <<>> \o <<>> = <<>> /\ <<>> \o <<e>> = <<e>> /\ <<e>> \o <<>> = <<e>> /\ log \o <<>> = log
  BY <1>1, <1>2, ConcatEmptySeq
<1>4. log \o <<e>> = Append(log, e)
  BY <1>1
<1>5. log \o (<<d>> \o <<e>>) = Append(Append(log, d), e)
  <2>1. log \o (<<d>> \o <<e>>) = (log \o <<d>>) \o <<e>>
    BY <1>1, <1>2, ConcatAssociative
  <2>2. log \o <<d>> = Append(log, d) /\ Append(log, d) \in Seq(LogEntry)
    BY <1>1
  <2>3. Append(log, d) \o <<e>> = Append(Append(log, d), e)
    BY <2>2
  <2> QED  BY <2>1, <2>2, <2>3
<1>6. Len(<<>>) = 0 /\ Len(<<e>>) = 1 /\ Len(<<d>> \o <<e>>) = 2
  BY <1>2, ConcatProperties
<1> QED  BY <1>3, <1>4, <1>5, <1>6 DEF Logged

\* account() alone.
LEMMA ReadKeeps ==
    ASSUME IInv, NEW a \in Address, Read(a)
    PROVE  IInv' /\ Recovers /\ ShownElsewhere(a)
<1>1. Sound(Loaded(a), log, a, Base, trie[a], codes) /\ Grounded(Loaded(a), trie[a], codes)
      /\ (Loaded(a) # None /\ ~Loaded(a).dirty => Fetches(a) \/ IsClean(a)) /\ Restores(a, Loaded(a))
  BY LoadedIsSound
<1>2. Loaded(a) \in Account \cup {None}
  BY <1>1 DEF Grounded
<1>3. Access(a, Loaded(a)) /\ log' = log /\ UNCHANGED <<stores, touchedForever, warmed, frames>>
  BY DEF Read
<1> QED  BY <1>1, <1>2, <1>3, SilentStep

\* A slot that was looked up: nothing shown changes.
LEMMA LookedIs ==
    ASSUME NEW x \in Account, Coherent(x), NEW k \in Key
    PROVE  /\ Looked(x, k) \in Account /\ Coherent(Looked(x, k))
           /\ Alike(Looked(x, k), x) /\ Looked(x, k).dirty = x.dirty
           /\ StorageValue(x, k) \in Value /\ OriginalValue(x, k) \in Value
<1>1. OriginalValue(x, k) \in Value /\ StorageValue(x, k) \in Value
  BY DEF OriginalValue, StorageValue, Account
<1>2. CASE x.overlay[k] # None
  BY <1>1, <1>2 DEF Looked, Alike
<1>3. CASE x.overlay[k] = None
  <2> DEFINE z == [x EXCEPT !.original[k] = OriginalValue(x, k)]
  <2>1. Looked(x, k) = z
    BY <1>3 DEF Looked
  <2>2. z \in Account
    BY <1>1 DEF Account
  <2>3. \A j \in Key : z.original[j] = IF j = k THEN OriginalValue(x, k) ELSE x.original[j]
    BY DEF Account
  <2>4. z.nonce = x.nonce /\ z.balance = x.balance /\ z.code = x.code /\ z.newCode = x.newCode
        /\ z.dirty = x.dirty /\ z.root = x.root /\ z.overlay = x.overlay
    BY DEF Account
  <2> HIDE DEF z
  <2>5. OriginalValue(x, k) = x.root[k]
    BY DEF Coherent, OriginalValue
  <2>6. \A j \in Key : OriginalValue(z, j) = OriginalValue(x, j)
    BY <2>3, <2>4, <2>5 DEF OriginalValue
  <2>7. Alike(z, x)
    BY <2>4, <2>6 DEF Alike, StorageValue
  <2>8. Coherent(z)
    BY <2>3, <2>4, <2>5 DEF Coherent
  <2> QED  BY <1>1, <2>1, <2>2, <2>4, <2>7, <2>8
<1> QED  BY <1>2, <1>3

\* The account found, what is known of it, and what may take its place.
LEMMA LoadedAccount ==
    ASSUME IInv, NEW a \in Address, Loaded(a) # None
    PROVE  /\ Loaded(a) \in Account /\ Coherent(Loaded(a))
           /\ Loaded(a).code # NoCode /\ Loaded(a).code \notin codes => Loaded(a).newCode
           /\ Sound(Loaded(a), log, a, Base, trie[a], codes)
           /\ \A y \in Account : StandsFor(y, Loaded(a)) /\ Coherent(y) =>
                /\ Sound(y, log, a, Base, trie[a], codes) /\ Grounded(y, trie[a], codes)
                /\ Loaded(a).dirty = y.dirty \/ ~IsEmpty(Loaded(a)) => Restores(a, y)
<1>1. /\ Sound(Loaded(a), log, a, Base, trie[a], codes) /\ Grounded(Loaded(a), trie[a], codes)
      /\ Restores(a, Loaded(a))
  BY LoadedIsSound
<1>2. EntriesFit(log) /\ Base \in 0..Len(log)
  BY BaseIsBelow DEF IInv
<1>3. Loaded(a) \in Account
  BY <1>1 DEF Grounded
<1>4. ASSUME NEW y \in Account, StandsFor(y, Loaded(a)), Coherent(y)
      PROVE  Sound(y, log, a, Base, trie[a], codes) /\ Grounded(y, trie[a], codes)
  <2>1. Sound(y, log, a, Base, trie[a], codes)
    BY <1>1, <1>2, <1>3, <1>4, Replaced
  <2> QED  BY <1>2, <2>1, TopIsGrounded
<1>5. ASSUME NEW y \in Account, StandsFor(y, Loaded(a)), Coherent(y),
             Loaded(a).dirty = y.dirty \/ ~IsEmpty(Loaded(a))
      PROVE  Restores(a, y)
  <2>1. \A n \in Base..Len(log) :
          Shown(Left(y, log, a, n), trie[a]) = Shown(Left(Loaded(a), log, a, n), trie[a])
    BY <1>1, <1>2, <1>3, <1>5, ReplacedShows
  <2> QED  BY <1>1, <2>1 DEF Restores
<1> QED  BY <1>1, <1>3, <1>4, <1>5 DEF Grounded

\* storage().
LEMMA ReadStorageKeeps ==
    ASSUME IInv, NEW a \in Address, NEW k \in Key, ReadStorage(a, k)
    PROVE  IInv' /\ Recovers /\ ShownElsewhere(a)
<1> DEFINE y == Looked(Loaded(a), k)
<1>1. Loaded(a) # None /\ Access(a, y) /\ log' = log /\ UNCHANGED <<stores, touchedForever, warmed, frames>>
  BY DEF ReadStorage, Exists
<1>2. y \in Account /\ Coherent(y) /\ StandsFor(y, Loaded(a)) /\ y.dirty = Loaded(a).dirty
  <2>1. Loaded(a) \in Account /\ Coherent(Loaded(a))
    BY <1>1, LoadedAccount
  <2> QED  BY <2>1, LookedIs DEF StandsFor, Alike
<1>3. Sound(y, log, a, Base, trie[a], codes) /\ Restores(a, y)
  BY <1>1, <1>2, LoadedAccount
<1>4. y # None /\ (~y.dirty => Fetches(a) \/ IsClean(a))
  BY <1>1, <1>2, LoadedIsSound, NoneAssumption
<1> HIDE DEF y
<1> QED  BY <1>1, <1>2, <1>3, <1>4, SilentStep

-----------------------------------------------------------------------------
\* A sum of balances is a balance.
LEMMA ModIs ==
    ASSUME NEW M \in Nat \ {0}, NEW n \in 0..(M - 1)
    PROVE  n % M = n /\ (n + M) % M = n
OBVIOUS

\* A balance is added: the account is dirty and otherwise as it was.
LEMMA PlusIs ==
    ASSUME NEW x \in Account, Coherent(x), NEW v \in Value
    PROVE  /\ Plus(x, v) \in Account /\ Coherent(Plus(x, v)) /\ Plus(x, v).dirty
           /\ Plus(x, v).code = x.code /\ Plus(x, v).newCode = x.newCode
           /\ Plus(x, v).nonce = x.nonce
           /\ \A k \in Key : /\ StorageValue(Plus(x, v), k) = StorageValue(x, k)
                             /\ OriginalValue(Plus(x, v), k) = OriginalValue(x, k)
           /\ Plus(x, v).balance = (x.balance + v) % Modulus
<1> USE ConstantsAssumption
<1>1. (x.balance + v) % Modulus \in Value
  BY DEF Account, Value
<1>2. Plus(x, v) \in Account
  BY <1>1 DEF Plus, Account
<1>3. /\ Plus(x, v).dirty /\ Plus(x, v).code = x.code /\ Plus(x, v).newCode = x.newCode
      /\ Plus(x, v).nonce = x.nonce /\ Plus(x, v).balance = (x.balance + v) % Modulus
      /\ Plus(x, v).overlay = x.overlay /\ Plus(x, v).original = x.original /\ Plus(x, v).root = x.root
  BY DEF Plus, Account
<1> QED  BY <1>2, <1>3 DEF Coherent, StorageValue, OriginalValue

\* The balance added is taken back.
LEMMA PlusUndone ==
    ASSUME NEW x \in Account, Coherent(x), NEW v \in Value \ {0}
    PROVE  LET z == Plus(Plus(x, v), Modulus - v) IN
           z \in Account /\ Coherent(z) /\ z.dirty /\ Alike(z, x)
<1> USE ConstantsAssumption
<1> DEFINE y == Plus(x, v)
           z == Plus(y, Modulus - v)
<1>1. y \in Account /\ Coherent(y) /\ Modulus - v \in Value
  BY PlusIs DEF Value
<1>2. x.balance \in 0..(Modulus - 1) /\ v \in 1..(Modulus - 1)
  BY DEF Account, Value
<1>3. (((x.balance + v) % Modulus) + (Modulus - v)) % Modulus = x.balance
  <2>1. CASE x.balance + v < Modulus
    <3>1. (x.balance + v) % Modulus = x.balance + v
      BY <1>2, <2>1, ModIs
    <3>2. x.balance + v + (Modulus - v) = x.balance + Modulus
      BY <1>2
    <3> QED  BY <1>2, <3>1, <3>2, ModIs
  <2>2. CASE x.balance + v >= Modulus
    <3>1. x.balance + v - Modulus \in 0..(Modulus - 1)
          /\ x.balance + v = (x.balance + v - Modulus) + Modulus
      BY <1>2, <2>2
    <3>2. (x.balance + v) % Modulus = x.balance + v - Modulus
      BY <3>1, ModIs
    <3>3. x.balance + v - Modulus + (Modulus - v) = x.balance
      BY <1>2
    <3> QED  BY <1>2, <3>2, <3>3, ModIs
  <2> QED  BY <1>2, <2>1, <2>2
<1>4. z \in Account /\ Coherent(z) /\ z.dirty /\ z.balance = x.balance
  BY <1>1, <1>3, PlusIs
<1>5. Alike(z, x)
  <2>1. \A k \in Key : StorageValue(z, k) = StorageValue(x, k) /\ OriginalValue(z, k) = OriginalValue(x, k)
    BY <1>1, PlusIs
  <2>2. z.nonce = x.nonce /\ z.code = x.code /\ z.newCode = x.newCode
    BY <1>1, PlusIs
  <2> QED  BY <1>4, <2>1, <2>2 DEF Alike
<1> QED  BY <1>4, <1>5

\* Adding nothing changes nothing that is shown, but touches.
LEMMA PlusZero ==
    ASSUME NEW x \in Account, Coherent(x), NEW v \in Value, v = 0
    PROVE  Alike(Plus(x, v), x)
<1>1. x.balance \in 0..(Modulus - 1) /\ Modulus \in Nat \ {0}
  BY ConstantsAssumption DEF Account, Value
<1>2. (x.balance + v) % Modulus = x.balance
  BY <1>1, ModIs
<1>3. Plus(x, v).balance = x.balance
  BY <1>2, PlusIs
<1> QED  BY <1>3, PlusIs DEF Alike

\* A dirty account fits any trie.
LEMMA DirtyIsGrounded ==
    ASSUME NEW y \in Account, Coherent(y), y.dirty, NEW t, NEW cs,
           y.code # NoCode /\ y.code \notin cs => y.newCode
    PROVE  Grounded(y, t, cs)
BY DEF Grounded

\* A new account is one, and dirty.
LEMMA NewAccountIs ==
    ASSUME NEW n \in 0..MaxNonce, NEW v \in Value
    PROVE  /\ NewAccount(n, v) \in Account /\ Coherent(NewAccount(n, v))
           /\ NewAccount(n, v).dirty /\ NewAccount(n, v).code = NoCode
BY ConstantsAssumption DEF NewAccount, Account, Coherent, NoOverlay, EmptyTrie, Value

\* A touch is undone.
LEMMA TouchUndone ==
    ASSUME NEW x \in Account, Coherent(x), ~x.dirty, NEW y \in Account, Coherent(y), Alike(y, x),
           NEW e, e.kind = "Touch"
    PROVE  /\ UndoneAccount(y, e) \in Account /\ Coherent(UndoneAccount(y, e))
           /\ StandsFor(UndoneAccount(y, e), x) /\ ~UndoneAccount(y, e).dirty
<1> DEFINE z == [y EXCEPT !.dirty = FALSE]
<1>1. UndoneAccount(y, e) = z
  BY DEF UndoneAccount
<1>2. z \in Account /\ ~z.dirty /\ z.nonce = y.nonce /\ z.balance = y.balance /\ z.code = y.code
      /\ z.newCode = y.newCode /\ z.root = y.root /\ z.overlay = y.overlay /\ z.original = y.original
  BY DEF Account
<1> HIDE DEF z
<1> QED  BY <1>1, <1>2 DEF Coherent, StandsFor, Alike, StorageValue, OriginalValue

\* addBalance.
LEMMA ToExistingKeeps ==
    ASSUME IInv, Running, NEW a \in Address, NEW v \in Value,
           ToExisting(a, v, TouchOf(a) \o BalanceOf(a, v)),
           UNCHANGED <<stores, touchedForever, warmed, frames>>
    PROVE  IInv' /\ Changes(a)
<1> DEFINE x == Loaded(a)
           y == Plus(x, v)
           d == Plain("Touch", a, 0)
           e == Plain("Balance", a, v)
<1>1. x # None /\ Access(a, y) /\ Logged(TouchOf(a) \o BalanceOf(a, v))
  BY DEF ToExisting, Exists
<1>2. /\ x \in Account /\ Coherent(x)
      /\ x.code # NoCode /\ x.code \notin codes => x.newCode
      /\ \A z \in Account : StandsFor(z, x) /\ Coherent(z) =>
           /\ Sound(z, log, a, Base, trie[a], codes) /\ Grounded(z, trie[a], codes)
           /\ x.dirty = z.dirty \/ ~IsEmpty(x) => Restores(a, z)
  BY <1>1, LoadedAccount
<1>3. 0 \in Value \cup 0..MaxNonce
  BY ConstantsAssumption DEF Value
<1>4. /\ EntryFits(d) /\ d.address = a /\ d.kind = "Touch"
      /\ EntryFits(e) /\ e.address = a /\ e.kind = "Balance" /\ e.value = v
      /\ ~IsWarming(d) /\ ~IsWarming(e)
  BY <1>3, PlainIs DEF Kind, IsWarming
<1>5. d \in LogEntry /\ e \in LogEntry /\ TypeOK
  BY <1>4 DEF EntryFits, IInv
<1>6. UndoneAccount(y, e) = Plus(y, Modulus - v)
  BY <1>4 DEF UndoneAccount
<1>7. y \in Account /\ Coherent(y) /\ y.dirty /\ y.code = x.code /\ y.newCode = x.newCode
  BY <1>2, PlusIs
<1>8. Grounded(y, trie[a], codes)
  BY <1>2, <1>7, DirtyIsGrounded
<1>9. y # None
  BY <1>7, NoneAssumption
<1> HIDE DEF d, e, x
<1>10. v = 0 => Alike(y, x)
  BY <1>2, PlusZero
<1> DEFINE z == Plus(y, Modulus - v)
<1>11. v # 0 => z \in Account /\ Coherent(z) /\ z.dirty /\ Alike(z, x)
  <2> HAVE v # 0
  <2>1. x \in Account /\ Coherent(x) /\ v \in Value \ {0}
    BY <1>2
  <2> QED  BY <2>1, PlusUndone
<1> HIDE DEF y, z
<1>16. \A w : Alike(w, x) /\ w.dirty => StandsFor(w, x)
  BY DEF StandsFor, Alike
<1>17. ASSUME ~Touches(a) PROVE \A w \in Account : w.dirty => x.dirty = w.dirty \/ ~IsEmpty(x)
  BY <1>2, <1>17 DEF Touches, x, Account
<1>18. x.dirty \in BOOLEAN /\ \A w \in Account : w.dirty \in BOOLEAN
  BY <1>2 DEF Account
<1>12. CASE ~Touches(a) /\ v = 0
  <2>1. log' = log
    BY <1>1, <1>5, <1>12, LoggedIs DEF TouchOf, BalanceOf
  <2>2. Sound(y, log, a, Base, trie[a], codes) /\ Restores(a, y)
    BY <1>2, <1>7, <1>10, <1>12, <1>16, <1>17
  <2> QED  BY <1>1, <1>7, <1>9, <2>1, <2>2, SilentStep DEF x, Changes
<1>13. CASE ~Touches(a) /\ v # 0
  <2>1. log' = Append(log, e) /\ Len(log) + 1 <= MaxLog
    BY <1>1, <1>5, <1>13, LoggedIs DEF TouchOf, BalanceOf, e
  <2>2. Sound(UndoneAccount(y, e), log, a, Base, trie[a], codes) /\ Restores(a, UndoneAccount(y, e))
    BY <1>2, <1>6, <1>11, <1>13, <1>16, <1>17 DEF z
  <2> QED  BY <1>1, <1>4, <1>7, <1>8, <2>1, <2>2, EntryStep
<1>14. CASE Touches(a) /\ v = 0
  <2>1. log' = Append(log, d) /\ Len(log) + 1 <= MaxLog
    BY <1>1, <1>5, <1>14, LoggedIs DEF TouchOf, BalanceOf, d
  <2>2. ~x.dirty
    BY <1>14 DEF Touches, x
  <2>3. /\ UndoneAccount(y, d) \in Account /\ Coherent(UndoneAccount(y, d))
        /\ StandsFor(UndoneAccount(y, d), x) /\ ~UndoneAccount(y, d).dirty
    BY <1>2, <1>4, <1>7, <1>10, <1>14, <2>2, TouchUndone
  <2>4. Sound(UndoneAccount(y, d), log, a, Base, trie[a], codes) /\ Restores(a, UndoneAccount(y, d))
    BY <1>2, <1>18, <2>2, <2>3
  <2> QED  BY <1>1, <1>4, <1>7, <1>8, <2>1, <2>4, EntryStep
<1>15. CASE Touches(a) /\ v # 0
  <2>1. log' = Append(Append(log, d), e) /\ Len(log) + 2 <= MaxLog
    BY <1>1, <1>5, <1>15, LoggedIs DEF TouchOf, BalanceOf, d, e
  <2>2. ~x.dirty
    BY <1>15 DEF Touches, x
  <2>3. z \in Account /\ Coherent(z) /\ z.dirty /\ Alike(z, x) /\ z = UndoneAccount(y, e)
    BY <1>6, <1>11, <1>15 DEF z
  <2>6. /\ UndoneAccount(z, d) \in Account /\ Coherent(UndoneAccount(z, d))
        /\ StandsFor(UndoneAccount(z, d), x) /\ ~UndoneAccount(z, d).dirty
    BY <1>2, <1>4, <2>2, <2>3, TouchUndone
  <2>4. Sound(UndoneAccount(z, d), log, a, Base, trie[a], codes) /\ Restores(a, UndoneAccount(z, d))
    BY <1>2, <1>18, <2>2, <2>6
  <2>5. Grounded(z, trie[a], codes)
    BY <1>2, <1>16, <2>3
  <2> QED  BY <1>1, <1>4, <1>7, <1>8, <2>1, <2>3, <2>4, <2>5, EntriesStep
<1> QED  BY <1>12, <1>13, <1>14, <1>15

\* createAccount, and addBalance to the account it made.
LEMMA ToNewKeeps ==
    ASSUME IInv, Running, NEW a \in Address, NEW v \in Value,
           ToNew(a, v, CreateOf(a) \o BalanceOf(a, v)),
           UNCHANGED <<stores, touchedForever, warmed, frames>>
    PROVE  IInv' /\ Changes(a)
<1> DEFINE y == NewAccount(0, v)
           d == Plain("Create", a, 0)
           e == Plain("Balance", a, v)
<1>1. Loaded(a) = None /\ Access(a, y) /\ Logged(CreateOf(a) \o BalanceOf(a, v))
  BY DEF ToNew, Exists
<1>2. Sound(None, log, a, Base, trie[a], codes) /\ Restores(a, None)
  BY <1>1, LoadedIsSound
<1>3. 0 \in Value \cup 0..MaxNonce /\ 0 \in 0..MaxNonce
  BY ConstantsAssumption DEF Value
<1>4. /\ EntryFits(d) /\ d.address = a /\ d.kind = "Create"
      /\ EntryFits(e) /\ e.address = a /\ e.kind = "Balance" /\ e.value = v
      /\ ~IsWarming(d) /\ ~IsWarming(e)
  BY <1>3, PlainIs DEF Kind, IsWarming
<1>5. d \in LogEntry /\ e \in LogEntry /\ TypeOK
  BY <1>4 DEF EntryFits, IInv
<1>6. UndoneAccount(y, e) = Plus(y, Modulus - v) /\ \A w : UndoneAccount(w, d) = None
  BY <1>4 DEF UndoneAccount
<1>7. y \in Account /\ Coherent(y) /\ y.dirty /\ y.code = NoCode
  BY <1>3, NewAccountIs
<1>8. Grounded(y, trie[a], codes)
  BY <1>7, DirtyIsGrounded
<1>9. CASE v = 0
  <2> HIDE DEF d, e, y
  <2>1. log' = Append(log, d) /\ Len(log) + 1 <= MaxLog
    BY <1>1, <1>5, <1>9, LoggedIs DEF CreateOf, BalanceOf, d
  <2> QED  BY <1>1, <1>2, <1>4, <1>6, <1>7, <1>8, <2>1, EntryStep
<1>10. CASE v # 0
  <2> DEFINE z == Plus(y, Modulus - v)
  <2>0. Modulus - v \in Value
    BY <1>10, ConstantsAssumption DEF Value
  <2> HIDE DEF d, e, y
  <2>1. log' = Append(Append(log, d), e) /\ Len(log) + 2 <= MaxLog
    BY <1>1, <1>5, <1>10, LoggedIs DEF CreateOf, BalanceOf, d, e
  <2>2. z \in Account /\ Coherent(z) /\ z.dirty /\ z.code = NoCode /\ z = UndoneAccount(y, e)
    BY <1>6, <1>7, <2>0, PlusIs
  <2> HIDE DEF z
  <2>3. Grounded(z, trie[a], codes)
    BY <2>2, DirtyIsGrounded
  <2>4. Sound(UndoneAccount(z, d), log, a, Base, trie[a], codes) /\ Restores(a, UndoneAccount(z, d))
    BY <1>2, <1>6
  <2> QED  BY <1>1, <1>4, <1>7, <1>8, <2>1, <2>2, <2>3, <2>4, EntriesStep
<1> QED  BY <1>9, <1>10

\* Either way.
LEMMA IncreaseKeeps ==
    ASSUME IInv, Running, NEW a \in Address, NEW v \in Value, Increase(a, v),
           UNCHANGED <<stores, touchedForever, warmed, frames>>
    PROVE  IInv' /\ Changes(a)
BY ToExistingKeeps, ToNewKeeps DEF Increase

\* A change of the account found, logged with an entry that undoes it.
LEMMA ChangeStep ==
    ASSUME IInv, Running, NEW a \in Address, Loaded(a) # None,
           Loaded(a).dirty \/ ~IsEmpty(Loaded(a)),
           NEW y \in Account, Coherent(y), y.dirty, y.code # NoCode /\ y.code \notin codes => y.newCode,
           NEW e, EntryFits(e), e.address = a, ~IsWarming(e),
           UndoneAccount(y, e) \in Account, Coherent(UndoneAccount(y, e)),
           UndoneAccount(y, e).dirty, Alike(UndoneAccount(y, e), Loaded(a)),
           Access(a, y), Logged(<<e>>),
           UNCHANGED <<stores, touchedForever, warmed, frames>>
    PROVE  IInv' /\ Changes(a)
<1>1. e \in LogEntry /\ TypeOK
  BY DEF EntryFits, IInv
<1>2. log' = Append(log, e) /\ Len(log) + 1 <= MaxLog
  BY <1>1, LoggedIs
<1>3. StandsFor(UndoneAccount(y, e), Loaded(a))
  BY DEF StandsFor, Alike
<1>6. Loaded(a).dirty = UndoneAccount(y, e).dirty \/ ~IsEmpty(Loaded(a))
  BY LoadedAccount DEF Account
<1>4. Sound(UndoneAccount(y, e), log, a, Base, trie[a], codes) /\ Restores(a, UndoneAccount(y, e))
  BY <1>3, <1>6, LoadedAccount
<1>5. Grounded(y, trie[a], codes)
  BY DirtyIsGrounded
<1> QED  BY <1>2, <1>4, <1>5, EntryStep

\* A nonce is changed.
LEMMA NonceStep ==
    ASSUME IInv, Running, NEW a \in Address, Loaded(a) # None, NEW n \in 0..MaxNonce,
           Loaded(a).dirty \/ ~IsEmpty(Loaded(a)),
           Access(a, WithNonce(Loaded(a), n)), Logged(<<Plain("Nonce", a, Loaded(a).nonce)>>),
           UNCHANGED <<stores, touchedForever, warmed, frames>>
    PROVE  IInv' /\ Changes(a)
<1> DEFINE x == Loaded(a)
           y == WithNonce(x, n)
           e == Plain("Nonce", a, x.nonce)
           z == WithNonce(y, x.nonce)
<1>1. /\ x \in Account /\ Coherent(x) /\ (x.code # NoCode /\ x.code \notin codes => x.newCode)
      /\ x.dirty \/ ~IsEmpty(x)
  BY LoadedAccount
<1> HIDE DEF x
<1>2. x.nonce \in 0..MaxNonce
  BY <1>1 DEF Account
<1>3. EntryFits(e) /\ e.address = a /\ e.kind = "Nonce" /\ e.value = x.nonce /\ ~IsWarming(e)
  BY <1>2, PlainIs DEF Kind, IsWarming
<1>4. UndoneAccount(y, e) = z
  BY <1>3 DEF UndoneAccount
<1>5. y \in Account /\ Coherent(y) /\ y.dirty /\ y.code = x.code /\ y.newCode = x.newCode
  BY <1>1 DEF WithNonce, Account, Coherent
<1>6. z \in Account /\ Coherent(z) /\ z.dirty
  BY <1>1, <1>2 DEF WithNonce, Account, Coherent
<1>7. z.nonce = x.nonce /\ z.balance = x.balance /\ z.code = x.code /\ z.newCode = x.newCode
      /\ z.root = x.root /\ z.overlay = x.overlay /\ z.original = x.original
  BY <1>1 DEF WithNonce, Account
<1> HIDE DEF y, z, e
<1>8. Alike(z, x)
  BY <1>7 DEF Alike, StorageValue, OriginalValue
<1>9. Access(a, y) /\ Logged(<<e>>)
  BY DEF x, y, e
<1> QED  BY <1>1, <1>3, <1>4, <1>5, <1>6, <1>8, <1>9, ChangeStep DEF x

\* incNonce.
LEMMA IncNonceKeeps ==
    ASSUME IInv, NEW a \in Address, IncNonce(a)
    PROVE  IInv' /\ Changes(a)
<1>0. Running /\ UNCHANGED <<stores, touchedForever, warmed, frames>>
  BY DEF IncNonce
<1>1. CASE Exists(a)
  <2>1. /\ Loaded(a) # None /\ Loaded(a).nonce < MaxNonce /\ ~IsEmpty(Loaded(a))
        /\ Access(a, WithNonce(Loaded(a), Loaded(a).nonce + 1))
        /\ Logged(<<Plain("Nonce", a, Loaded(a).nonce)>>)
    BY <1>1 DEF IncNonce, Exists
  <2>2. Loaded(a).nonce + 1 \in 0..MaxNonce
    BY <2>1, LoadedAccount, ConstantsAssumption DEF Account
  <2> QED  BY <1>0, <2>1, <2>2, NonceStep
<1>2. CASE ~Exists(a)
  <2> DEFINE y == NewAccount(1, 0)
             e == Plain("Create", a, 0)
  <2>1. Loaded(a) = None /\ Access(a, y) /\ Logged(<<e>>)
    BY <1>2 DEF IncNonce, Exists, CreateOf
  <2>2. Sound(None, log, a, Base, trie[a], codes) /\ Restores(a, None)
    BY <2>1, LoadedIsSound
  <2>3. 0 \in Value \cup 0..MaxNonce /\ 1 \in 0..MaxNonce /\ 0 \in Value
    BY ConstantsAssumption DEF Value
  <2>4. EntryFits(e) /\ e.address = a /\ e.kind = "Create" /\ ~IsWarming(e)
    BY <2>3, PlainIs DEF Kind, IsWarming
  <2>5. y \in Account /\ Coherent(y) /\ y.dirty /\ y.code = NoCode
    BY <2>3, NewAccountIs
  <2> HIDE DEF y, e
  <2>6. UndoneAccount(y, e) = None
    BY <2>4 DEF UndoneAccount
  <2>7. e \in LogEntry /\ TypeOK
    BY <2>4 DEF EntryFits, IInv
  <2>8. log' = Append(log, e) /\ Len(log) + 1 <= MaxLog
    BY <2>1, <2>7, LoggedIs
  <2>9. Grounded(y, trie[a], codes)
    BY <2>5, DirtyIsGrounded
  <2> QED  BY <1>0, <2>1, <2>2, <2>4, <2>5, <2>6, <2>8, <2>9, EntryStep
<1> QED  BY <1>1, <1>2

\* The account createAccount made is found.
LEMMA CreatedIsLoaded ==
    ASSUME IInv, NEW a \in Address, InCreation(a)
    PROVE  Loaded(a) = cache[a] /\ Loaded(a) # None /\ Loaded(a).dirty
BY LoadedIsSound DEF InCreation

\* setNonce.
LEMMA SetNonceKeeps ==
    ASSUME IInv, NEW a \in Address, SetNonce(a)
    PROVE  IInv' /\ Changes(a)
<1>1. Loaded(a) = cache[a] /\ Loaded(a) # None /\ Loaded(a).dirty
  BY CreatedIsLoaded DEF SetNonce
<1>2. 1 \in 0..MaxNonce
  BY ConstantsAssumption
<1> QED  BY <1>1, <1>2, NonceStep DEF SetNonce

\* A slot is written: what is shown of the others, and of the original, stays.
LEMMA WithSlotIs ==
    ASSUME NEW x \in Account, Coherent(x), NEW k \in Key, NEW v \in Value
    PROVE  LET y == WithSlot(x, k, v) IN
           /\ y \in Account /\ Coherent(y) /\ y.dirty
           /\ y.nonce = x.nonce /\ y.balance = x.balance /\ y.code = x.code /\ y.newCode = x.newCode
           /\ \A j \in Key : /\ OriginalValue(y, j) = OriginalValue(x, j)
                             /\ StorageValue(y, j) = IF j = k THEN v ELSE StorageValue(x, j)
<1> DEFINE y == WithSlot(x, k, v)
<1>1. y \in Account /\ y.dirty
  BY DEF WithSlot, Account
<1>2. /\ y.nonce = x.nonce /\ y.balance = x.balance /\ y.code = x.code /\ y.newCode = x.newCode
      /\ y.root = x.root /\ y.original = x.original
      /\ \A j \in Key : y.overlay[j] = IF j = k THEN v ELSE x.overlay[j]
  BY DEF WithSlot, Account
<1> HIDE DEF y
<1>3. v # None
  BY ConstantsAssumption
<1>4. \A j \in Key : OriginalValue(y, j) = OriginalValue(x, j)
  BY <1>2 DEF OriginalValue
<1>5. \A j \in Key : StorageValue(y, j) = IF j = k THEN v ELSE StorageValue(x, j)
  BY <1>2, <1>3, <1>4 DEF StorageValue
<1> QED  BY <1>1, <1>2, <1>4, <1>5 DEF y, Coherent

\* setStorage.
LEMMA SetStorageKeeps ==
    ASSUME IInv, NEW a \in Address, NEW k \in Key, NEW v \in Value, SetStorage(a, k, v)
    PROVE  IInv' /\ Changes(a)
<1> DEFINE x == Loaded(a)
           w == Looked(x, k)
           y == WithSlot(w, k, v)
           s == StorageValue(x, k)
           e == Change("Storage", a, k, s, EmptyTrie)
           z == WithSlot(y, k, s)
<1>0. Running /\ x # None /\ ~IsEmpty(x) /\ Access(a, y) /\ Logged(<<e>>)
      /\ UNCHANGED <<stores, touchedForever, warmed, frames>>
  BY DEF SetStorage, Exists
<1>1. x \in Account /\ Coherent(x) /\ (x.code # NoCode /\ x.code \notin codes => x.newCode)
  BY <1>0, LoadedAccount
<1> HIDE DEF x
<1>2. w \in Account /\ Coherent(w) /\ Alike(w, x) /\ s \in Value
  BY <1>1, LookedIs
<1> HIDE DEF w, s
<1>3. EntryFits(e) /\ e.address = a /\ e.kind = "Storage" /\ e.value = s /\ e.key = k /\ ~IsWarming(e)
  <2>1. EmptyTrie \in [Key -> Value]
    BY ConstantsAssumption DEF EmptyTrie, Value
  <2> QED  BY <1>2, <2>1, EntryIs DEF Kind, IsWarming
<1>4. UndoneAccount(y, e) = z
  BY <1>3 DEF UndoneAccount
<1>5. /\ y \in Account /\ Coherent(y) /\ y.dirty
      /\ y.nonce = w.nonce /\ y.balance = w.balance /\ y.code = w.code /\ y.newCode = w.newCode
      /\ \A j \in Key : /\ OriginalValue(y, j) = OriginalValue(w, j)
                        /\ StorageValue(y, j) = IF j = k THEN v ELSE StorageValue(w, j)
  BY <1>2, WithSlotIs
<1> HIDE DEF y, e
<1>6. /\ z \in Account /\ Coherent(z) /\ z.dirty
      /\ z.nonce = y.nonce /\ z.balance = y.balance /\ z.code = y.code /\ z.newCode = y.newCode
      /\ \A j \in Key : /\ OriginalValue(z, j) = OriginalValue(y, j)
                        /\ StorageValue(z, j) = IF j = k THEN s ELSE StorageValue(y, j)
  BY <1>2, <1>5, WithSlotIs
<1> HIDE DEF z
<1>7. Alike(z, x)
  BY <1>2, <1>5, <1>6 DEF Alike, s
<1>8. y.code # NoCode /\ y.code \notin codes => y.newCode
  BY <1>1, <1>2, <1>5 DEF Alike
<1> QED  BY <1>0, <1>3, <1>4, <1>5, <1>6, <1>7, <1>8, ChangeStep DEF x

\* clearStorage.
LEMMA ClearStorageKeeps ==
    ASSUME IInv, NEW a \in Address, ClearStorage(a)
    PROVE  IInv' /\ Changes(a)
<1> DEFINE x == Loaded(a)
           y == WithRoot(x, EmptyTrie)
           e == Change("StorageRoot", a, AnyKey, 0, x.root)
           z == WithRoot(y, x.root)
<1>0. /\ Running /\ x # None /\ x.dirty /\ x.overlay = NoOverlay
      /\ Access(a, y) /\ Logged(<<e>>)
      /\ UNCHANGED <<stores, touchedForever, warmed, frames>>
  BY CreatedIsLoaded DEF ClearStorage
<1>1. x \in Account /\ Coherent(x) /\ (x.code # NoCode /\ x.code \notin codes => x.newCode)
  BY <1>0, LoadedAccount
<1> HIDE DEF x
<1>2. EmptyTrie \in [Key -> Value] /\ x.root \in [Key -> Value] /\ NoOverlay \in [Key -> Value \cup {None}]
  BY <1>1, ConstantsAssumption DEF EmptyTrie, Value, Account, NoOverlay
<1>3. EntryFits(e) /\ e.address = a /\ e.kind = "StorageRoot" /\ e.root = x.root /\ ~IsWarming(e)
  <2>1. AnyKey \in Key /\ 0 \in Value \cup 0..MaxNonce
    BY KeyAssumption, ConstantsAssumption DEF AnyKey, Value
  <2>2. "StorageRoot" \in Kind
    BY DEF Kind
  <2> QED  BY <1>2, <2>1, <2>2, EntryIs DEF IsWarming
<1>4. UndoneAccount(y, e) = z
  BY <1>3 DEF UndoneAccount
<1>5. y \in Account /\ y.dirty /\ y.code = x.code /\ y.newCode = x.newCode /\ y.original = NoOverlay
  BY <1>1, <1>2 DEF WithRoot, Account
<1>6. z \in Account /\ z.dirty
  BY <1>2, <1>5 DEF WithRoot, Account
<1>7. z.nonce = x.nonce /\ z.balance = x.balance /\ z.code = x.code /\ z.newCode = x.newCode
      /\ z.root = x.root /\ z.overlay = NoOverlay /\ z.original = NoOverlay
  BY <1>1, <1>2 DEF WithRoot, Account
<1> HIDE DEF y, z, e
<1>8. Coherent(y) /\ Coherent(z)
  BY <1>1, <1>5, <1>7 DEF Coherent, NoOverlay
<1>9. \A k \in Key : OriginalValue(x, k) = x.root[k] /\ OriginalValue(z, k) = x.root[k]
  BY <1>1, <1>7 DEF OriginalValue, Coherent, NoOverlay
<1>10. \A k \in Key : StorageValue(z, k) = StorageValue(x, k)
  BY <1>0, <1>7, <1>9 DEF StorageValue, NoOverlay
<1>11. Alike(z, x)
  BY <1>7, <1>9, <1>10 DEF Alike
<1> QED  BY <1>0, <1>1, <1>3, <1>4, <1>5, <1>6, <1>8, <1>11, ChangeStep DEF x

\* setCode.
LEMMA SetCodeKeeps ==
    ASSUME IInv, NEW a \in Address, NEW c \in Code \cup {NoCode}, SetCode(a, c)
    PROVE  IInv' /\ Changes(a)
<1> DEFINE x == Loaded(a)
           y == WithCode(x, c)
           e == Plain("Code", a, 0)
           z == [y EXCEPT !.code = NoCode, !.newCode = FALSE]
<1>0. /\ Running /\ x # None /\ x.dirty /\ x.code = NoCode
      /\ Access(a, y) /\ Logged(<<e>>)
      /\ UNCHANGED <<stores, touchedForever, warmed, frames>>
  BY CreatedIsLoaded DEF SetCode
<1>1. x \in Account /\ Coherent(x)
  BY <1>0, LoadedAccount
<1> HIDE DEF x
<1>2. EntryFits(e) /\ e.address = a /\ e.kind = "Code" /\ ~IsWarming(e)
  BY ConstantsAssumption, PlainIs DEF Kind, Value, IsWarming
<1>3. UndoneAccount(y, e) = z
  BY <1>2 DEF UndoneAccount
<1>4. /\ y \in Account /\ y.dirty /\ (y.code # NoCode <=> y.newCode)
      /\ y.nonce = x.nonce /\ y.balance = x.balance
      /\ y.root = x.root /\ y.overlay = x.overlay /\ y.original = x.original
  <2>1. CASE c = NoCode
    BY <1>0, <1>1, <2>1 DEF WithCode, Coherent
  <2>2. CASE c # NoCode
    BY <1>0, <1>1, <2>2 DEF WithCode, Account
  <2> QED  BY <2>1, <2>2
<1> HIDE DEF y
<1>5. /\ z \in Account /\ z.dirty /\ z.code = NoCode /\ ~z.newCode
      /\ z.nonce = x.nonce /\ z.balance = x.balance
      /\ z.root = x.root /\ z.overlay = x.overlay /\ z.original = x.original
  BY <1>4 DEF Account
<1> HIDE DEF z, e
<1>6. Coherent(y) /\ Coherent(z)
  BY <1>1, <1>4, <1>5 DEF Coherent
<1>7. Alike(z, x)
  BY <1>0, <1>5 DEF Alike, StorageValue, OriginalValue
<1> QED  BY <1>0, <1>2, <1>3, <1>4, <1>5, <1>6, <1>7, ChangeStep DEF x

\* Something gets warm.
LEMMA WarmingStep ==
    ASSUME IInv, Running, NEW e, EntryFits(e), IsWarming(e), Logged(<<e>>),
           warmed' \in [Address -> {None} \cup SUBSET Key],
           \A a \in Address : warmed[a] = IF e.address = a THEN UndoneWarm(warmed'[a], e) ELSE warmed'[a],
           UNCHANGED <<stores, caches, touchedForever, frames>>
    PROVE  IInv' /\ Recovers
<1> USE DEF stores, caches
<1>1. e \in LogEntry /\ TypeOK /\ log \in Seq(LogEntry) /\ EntriesFit(log) /\ Base \in 0..Len(log)
      /\ Len(log) \in Nat
  BY LogType, BaseIsBelow DEF EntryFits, IInv
<1>2. log' = Append(log, e) /\ Len(log) + 1 <= MaxLog
  BY <1>1, LoggedIs
<1>3. log' \in Seq(LogEntry) /\ EntriesFit(log') /\ Len(log') = Len(log) + 1
  BY <1>1, <1>2, AppendFits
<1>4. TypeOK'
  BY <1>1, <1>2, <1>3 DEF TypeOK, LogEntry
<1>5. FramesInOrder'
  BY <1>1, <1>3 DEF IInv, FramesInOrder
<1>6. Base' = Base
  BY DEF Base, Running
<1>7. JournalIsSound'
  <2>1. \A a \in Address : Sound(cache[a], log, a, Base, trie[a], codes)
    BY DEF IInv, JournalIsSound
  <2>2. \A a \in Address : Sound(cache[a], log', a, Base, trie[a], codes)
    BY <1>1, <1>2, <2>1, LoggedElsewhere
  <2>3. \A a \in Address : Sound(cache'[a], log', a, Base', trie'[a], codes')
    BY <1>6, <2>2
  <2> QED  BY <2>3 DEF JournalIsSound
<1>8. CodesAreStored' /\ NonExistingIsRight' /\ CleanIsListed'
  BY DEF IInv, CodesAreStored, CodeStored, NonExistingIsRight, CleanIsListed, IsClean
<1>9. Recovers
  <2>1. ASSUME NEW a \in Address, NEW n \in Base..Len(log)
        PROVE  /\ Left(cache'[a], log', a, n) = Left(cache[a], log, a, n)
               /\ WarmLeft(warmed'[a], log', a, n) = WarmLeft(warmed[a], log, a, n)
    <3>1. n \in 0..Len(log) /\ Sound(cache[a], log, a, Base, trie[a], codes)
      BY <1>1 DEF IInv, JournalIsSound
    <3>2. Left(cache[a], log', a, n) = Left(cache[a], log, a, n)
      BY <1>1, <1>2, <3>1, LoggedElsewhere
    <3>3. \A m \in 0..Len(log) : WarmLeft(warmed'[a], log', a, m) = WarmLeft(warmed[a], log, a, m)
      BY <1>1, <1>2, LoggedWarm
    <3> QED  BY <3>1, <3>2, <3>3
  <2> QED  BY <2>1 DEF Recovers, RecoversTo
<1> QED  BY <1>3, <1>4, <1>5, <1>7, <1>8, <1>9 DEF IInv

\* accessAddress.
LEMMA AccessAddressKeeps ==
    ASSUME IInv, NEW a \in Address, AccessAddress(a)
    PROVE  IInv' /\ Recovers
<1> DEFINE e == Plain("WarmedAddress", a, 0)
<1>1. EntryFits(e) /\ IsWarming(e) /\ e.address = a /\ e.kind = "WarmedAddress"
  BY ConstantsAssumption, PlainIs DEF Kind, Value, IsWarming
<1>2. warmed' \in [Address -> {None} \cup SUBSET Key]
  BY DEF AccessAddress, IInv, TypeOK
<1>3. \A b \in Address : warmed[b] = IF e.address = b THEN UndoneWarm(warmed'[b], e) ELSE warmed'[b]
  BY <1>1 DEF AccessAddress, IInv, TypeOK, UndoneWarm
<1> QED  BY <1>1, <1>2, <1>3, WarmingStep DEF AccessAddress

\* accessStorage.
LEMMA AccessStorageKeeps ==
    ASSUME IInv, NEW a \in Address, NEW k \in Key, AccessStorage(a, k)
    PROVE  IInv' /\ Recovers
<1> DEFINE entry(kind) == Change(kind, a, k, 0, EmptyTrie)
<1>0. EmptyTrie \in [Key -> Value] /\ 0 \in Value \cup 0..MaxNonce
  BY ConstantsAssumption DEF EmptyTrie, Value
<1>1. ASSUME NEW kind \in {"WarmedAddressAndStorage", "WarmedStorage"}
      PROVE  /\ EntryFits(entry(kind)) /\ IsWarming(entry(kind))
             /\ entry(kind).address = a /\ entry(kind).kind = kind /\ entry(kind).key = k
  <2>1. kind \in Kind
    BY DEF Kind
  <2> QED  BY <1>0, <2>1, EntryIs DEF IsWarming
<1> HIDE DEF entry
<1>2. CASE warmed[a] = None
  <2> DEFINE e == entry("WarmedAddressAndStorage")
  <2>1. warmed' = [warmed EXCEPT ![a] = {k}] /\ Logged(<<e>>)
    BY <1>2 DEF AccessStorage, entry
  <2>2. warmed' \in [Address -> {None} \cup SUBSET Key]
    BY <2>1 DEF IInv, TypeOK
  <2>3. \A b \in Address : warmed[b] = IF e.address = b THEN UndoneWarm(warmed'[b], e) ELSE warmed'[b]
    BY <1>1, <1>2, <2>1 DEF IInv, TypeOK, UndoneWarm
  <2>4. EntryFits(e) /\ IsWarming(e)
    BY <1>1
  <2> HIDE DEF e
  <2> QED  BY <2>1, <2>2, <2>3, <2>4, WarmingStep DEF AccessStorage
<1>3. CASE warmed[a] # None
  <2> DEFINE e == entry("WarmedStorage")
  <2>1. warmed' = [warmed EXCEPT ![a] = @ \cup {k}] /\ Logged(<<e>>) /\ k \notin warmed[a]
    BY <1>3 DEF AccessStorage, entry
  <2>2. warmed[a] \in SUBSET Key
    BY <1>3 DEF IInv, TypeOK
  <2>3. warmed' \in [Address -> {None} \cup SUBSET Key]
    BY <2>1, <2>2 DEF IInv, TypeOK
  <2>4. EntryFits(e) /\ IsWarming(e) /\ e.address = a /\ e.kind = "WarmedStorage" /\ e.key = k
    BY <1>1
  <2> HIDE DEF e
  <2>5. UndoneWarm(warmed'[a], e) = warmed[a]
    <3>1. warmed'[a] = warmed[a] \cup {k} /\ warmed[a] \cup {k} \in SUBSET Key
      BY <2>1, <2>2 DEF IInv, TypeOK
    <3>2. warmed'[a] # None
      BY <3>1, NoneAssumption
    <3>3. UndoneWarm(warmed'[a], e) = warmed'[a] \ {k}
      BY <2>4, <3>2 DEF UndoneWarm
    <3> QED  BY <2>1, <3>1, <3>3
  <2>6. \A b \in Address : warmed[b] = IF e.address = b THEN UndoneWarm(warmed'[b], e) ELSE warmed'[b]
    BY <2>1, <2>4, <2>5 DEF IInv, TypeOK
  <2> QED  BY <2>1, <2>3, <2>4, <2>6, WarmingStep DEF AccessStorage
<1> QED  BY <1>2, <1>3

-----------------------------------------------------------------------------
\* An account that is absent after an entry was absent before it.
LEMMA AbsentBelow ==
    ASSUME NEW x, NEW lg \in Seq(LogEntry), EntriesFit(lg), NEW a, NEW base \in 0..Len(lg),
           NEW t, NEW cs, Sound(x, lg, a, base, t, cs),
           NEW i \in base..Len(lg), Left(x, lg, a, i) = None
    PROVE  \A m \in base..i : Left(x, lg, a, m) = None
<1> DEFINE cut == SubSeq(lg, 1, i)
<1>1. Sound(None, cut, a, base, t, cs) /\ \A m \in 0..i : Left(None, cut, a, m) = Left(x, lg, a, m)
  BY Cut
<1>2. EntriesFit(cut) /\ Len(cut) = i /\ base \in 0..Len(cut)
  BY CutFits DEF EntriesFit
<1>3. Grounded(None, t, cs)
  BY DEF Grounded
<1> HIDE DEF cut
<1>4. \A m \in base..Len(cut) : Left(None, cut, a, m) = None
  BY <1>1, <1>2, <1>3, Exchanged
<1> QED  BY <1>1, <1>2, <1>4

\* What is left warm has the type of what is warm.
LEMMA WarmType ==
    ASSUME TypeOK, EntriesFit(log), NEW a \in Address, NEW n \in 0..Len(log)
    PROVE  WarmAt(a, n) \in {None} \cup SUBSET Key
<1> DEFINE T == {m \in n..Len(log) : WarmLeft(warmed[a], log, a, m) \in {None} \cup SUBSET Key}
<1>0. Len(log) \in Nat
  BY DEF EntriesFit
<1>1. Len(log) \in T
  BY <1>0, WarmLeftTop DEF TypeOK
<1>2. ASSUME NEW m \in n..(Len(log) - 1), m + 1 \in T PROVE m \in T
  <2>1. m \in 0..(Len(log) - 1) /\ m \in n..Len(log)
    BY <1>0
  <2>2. WarmLeft(warmed[a], log, a, m + 1) \in {None} \cup SUBSET Key
    BY <1>2
  <2>3. WarmLeft(warmed[a], log, a, m) \in {None} \cup SUBSET Key
    BY <1>0, <2>1, <2>2, WarmLeftStep DEF UndoneWarm
  <2> QED  BY <2>1, <2>3
<1> HIDE DEF T
<1>3. \A m \in n..Len(log) : m \in T
  BY <1>0, <1>1, <1>2, Downwards
<1>4. n \in T
  BY <1>0, <1>3
<1> QED  BY <1>4, WarmAtIsWarmLeft DEF T

\* What rollback leaves of an address.
LEMMA UndoneIsSound ==
    ASSUME IInv, NEW n \in Base..Len(log), NEW a \in Address, NEW known,
           known = {b \in Refetched(n) : trie[b] # None}, NEW y,
           y = (IF a \in known THEN FromTrie(trie[a]) ELSE AccountAt(a, n))
    PROVE  /\ Sound(y, SubSeq(log, 1, n), a, Base, trie[a], codes)
           /\ Grounded(y, trie[a], codes)
           /\ a \in Refetched(n) => AccountAt(a, n) = None
           /\ cache[a] = None => AccountAt(a, n) = None
           /\ y # None /\ ~y.dirty => a \in unchanged \cup Untouched(n) \cup known
           /\ \A m \in Base..n : Shown(Left(y, SubSeq(log, 1, n), a, m), trie[a])
                                = Shown(Left(cache[a], log, a, m), trie[a])
<1> DEFINE lg == SubSeq(log, 1, n)
<1>1. log \in Seq(LogEntry) /\ EntriesFit(log) /\ Base \in 0..Len(log) /\ Len(log) \in Nat
      /\ n \in 0..Len(log)
  BY LogType, BaseIsBelow DEF IInv
<1>2. Sound(cache[a], log, a, Base, trie[a], codes)
  BY DEF IInv, JournalIsSound
<1>3. /\ Sound(AccountAt(a, n), lg, a, Base, trie[a], codes)
      /\ \A m \in 0..n : Left(AccountAt(a, n), lg, a, m) = Left(cache[a], log, a, m)
  <2>1. /\ Sound(Left(cache[a], log, a, n), lg, a, Base, trie[a], codes)
        /\ \A m \in 0..n : Left(Left(cache[a], log, a, n), lg, a, m) = Left(cache[a], log, a, m)
    BY <1>1, <1>2, Cut
  <2> QED  BY <2>1, AccountAtIsLeft
<1>9. \A m \in Base..n : m \in 0..n
  BY <1>1
<1>4. EntriesFit(lg) /\ Len(lg) = n /\ Base \in 0..Len(lg)
  BY <1>1, CutFits
<1> HIDE DEF lg
<1>5. a \in Refetched(n) => AccountAt(a, n) = None
  <2> HAVE a \in Refetched(n)
  <2>1. PICK i \in (n + 1)..Len(log) : AccountAt(a, i) = None
    BY DEF Refetched
  <2>2. i \in Base..Len(log) /\ n \in Base..i
    BY <1>1
  <2>3. Left(cache[a], log, a, i) = None
    BY <2>1, AccountAtIsLeft
  <2>4. Left(cache[a], log, a, n) = None
    BY <1>1, <1>2, <2>2, <2>3, AbsentBelow
  <2> QED  BY <2>4, AccountAtIsLeft
<1>6. cache[a] = None => AccountAt(a, n) = None
  <2> HAVE cache[a] = None
  <2>1. Left(cache[a], log, a, Len(log)) = None
    BY <1>1, LeftTop
  <2>2. Left(cache[a], log, a, n) = None
    BY <1>1, <1>2, <2>1, Len(log) \in Base..Len(log), AbsentBelow
  <2> QED  BY <2>2, AccountAtIsLeft
<1>7. CASE a \in known
  <2>1. trie[a] # None /\ AccountAt(a, n) = None /\ y = FromTrie(trie[a])
    BY <1>5, <1>7
  <2>2. Grounded(y, trie[a], codes)
    BY <2>1, FromTrieIsGrounded
  <2>3. Sound(y, lg, a, Base, trie[a], codes)
    BY <1>3, <1>4, <2>1, <2>2, Exchanged
  <2>4. ~y.dirty
    BY <2>1 DEF FromTrie
  <2>5. \A m \in Base..n : Shown(Left(y, lg, a, m), trie[a]) = Shown(Left(AccountAt(a, n), lg, a, m), trie[a])
    BY <1>3, <1>4, <2>1, <2>2, <2>4, ExchangedShows
  <2> QED  BY <1>3, <1>5, <1>6, <1>7, <1>9, <2>2, <2>3, <2>5 DEF lg
<1>8. CASE a \notin known
  <2>1. y = AccountAt(a, n)
    BY <1>8
  <2>2. Grounded(y, trie[a], codes)
    BY <1>3, <1>4, <2>1, TopIsGrounded
  <2>3. y # None /\ ~y.dirty => a \in unchanged \cup Untouched(n)
    <3> HAVE y # None /\ ~y.dirty
    <3>1. Left(cache[a], log, a, n) # None /\ ~Left(cache[a], log, a, n).dirty
      BY <2>1, AccountAtIsLeft
    <3>2. \/ cache[a] # None /\ ~cache[a].dirty
          \/ \E i \in (n + 1)..Len(log) : log[i].address = a /\ log[i].kind = "Touch"
      BY <1>1, <1>2, <3>1, Untouching
    <3> QED  BY <3>2 DEF IInv, CleanIsListed, IsClean, Untouched
  <2> QED  BY <1>3, <1>5, <1>6, <1>9, <2>1, <2>2, <2>3 DEF lg
<1> QED  BY <1>7, <1>8

\* rollback down to a height that is still needed.
LEMMA UndoKeeps ==
    ASSUME IInv, NEW n \in Base..Len(log), Rollback(n),
           frames' \in Seq(0..MaxLog), Len(frames') <= MaxDepth, FramesInOrder',
           Base' \in Base..n
    PROVE  IInv' /\ RecoversTo(n) /\ Len(log') = n
<1> DEFINE known == {a \in Refetched(n) : trie[a] # None}
           undone == [a \in Address |-> IF a \in known THEN FromTrie(trie[a]) ELSE AccountAt(a, n)]
           list == unchanged \cup Untouched(n) \cup known
<1>1. PICK purged \in IF known = {} THEN {{}} ELSE SUBSET list :
        /\ cache' = [a \in Address |->
                        IF a \in purged /\ undone[a] # None /\ ~undone[a].dirty THEN None
                        ELSE undone[a]]
        /\ unchanged' = list \ purged
        /\ nonExisting' = nonExisting \cup (Refetched(n) \ known)
        /\ warmed' = [a \in Address |-> WarmAt(a, n)]
        /\ log' = SubSeq(log, 1, n)
        /\ UNCHANGED <<stores, touchedForever>>
  BY DEF Rollback, Undo
<1>2. log \in Seq(LogEntry) /\ EntriesFit(log) /\ Base \in 0..Len(log) /\ Len(log) \in Nat
      /\ n \in 0..Len(log) /\ Len(log) <= MaxLog /\ MaxLog \in Nat
  BY LogType, BaseIsBelow, ConstantsAssumption DEF IInv, TypeOK
<1>3. log' \in Seq(LogEntry) /\ EntriesFit(log') /\ Len(log') = n
  BY <1>1, <1>2, CutFits
<1>4. ASSUME NEW a \in Address
      PROVE  /\ Sound(undone[a], log', a, Base, trie[a], codes)
             /\ Grounded(undone[a], trie[a], codes)
             /\ a \in Refetched(n) => AccountAt(a, n) = None
             /\ cache[a] = None => AccountAt(a, n) = None
             /\ undone[a] # None /\ ~undone[a].dirty => a \in list
             /\ undone[a] = IF a \in known THEN FromTrie(trie[a]) ELSE AccountAt(a, n)
             /\ \A m \in Base..n : Shown(Left(undone[a], log', a, m), trie[a])
                                  = Shown(Left(cache[a], log, a, m), trie[a])
  <2> DEFINE y == IF a \in known THEN FromTrie(trie[a]) ELSE AccountAt(a, n)
  <2>3. known = {b \in Refetched(n) : trie[b] # None}
        /\ y = (IF a \in known THEN FromTrie(trie[a]) ELSE AccountAt(a, n))
    OBVIOUS
  <2>2. undone[a] = y
    OBVIOUS
  <2> HIDE DEF undone, y, known
  <2>1. /\ Sound(y, SubSeq(log, 1, n), a, Base, trie[a], codes)
        /\ Grounded(y, trie[a], codes)
        /\ a \in Refetched(n) => AccountAt(a, n) = None
        /\ cache[a] = None => AccountAt(a, n) = None
        /\ y # None /\ ~y.dirty => a \in unchanged \cup Untouched(n) \cup known
        /\ \A m \in Base..n : Shown(Left(y, SubSeq(log, 1, n), a, m), trie[a])
                             = Shown(Left(cache[a], log, a, m), trie[a])
    BY <2>3, UndoneIsSound
  <2> QED  BY <1>1, <2>1, <2>2, <2>3
<1>5. \A a \in Address : cache'[a] = IF a \in purged /\ undone[a] # None /\ ~undone[a].dirty
                                     THEN None ELSE undone[a]
  BY <1>1
<1>6. list \subseteq Address
  <2>1. Untouched(n) \subseteq Address
    <3>1. \A i \in 1..Len(log) : log[i].address \in Address
      <4>1. \A i \in 1..Len(log) : log[i] \in LogEntry
        BY <1>2
      <4> QED  BY <4>1 DEF LogEntry
    <3>2. \A i \in (n + 1)..Len(log) : i \in 1..Len(log)
      BY <1>2
    <3> QED  BY <3>1, <3>2 DEF Untouched
  <2> QED  BY <2>1 DEF Refetched, IInv, TypeOK
<1>7. Refetched(n) \subseteq Address
  BY DEF Refetched
<1>8. /\ nonExisting' = nonExisting \cup {a \in Refetched(n) : trie[a] = None}
      /\ \A a \in known : a \in Refetched(n) /\ trie[a] # None
  BY <1>1
<1> HIDE DEF undone, list, known
<1>9. TypeOK'
  <2>1. cache' \in [Address -> Account \cup {None}]
    BY <1>1, <1>4 DEF Grounded
  <2>2. warmed' \in [Address -> {None} \cup SUBSET Key]
    BY <1>1, <1>2, WarmType DEF IInv
  <2>3. unchanged' \subseteq Address /\ nonExisting' \subseteq Address
    BY <1>1, <1>6, <1>7 DEF IInv, TypeOK
  <2>4. UNCHANGED <<trie, codes, touchedForever>>
    BY <1>1 DEF stores
  <2>5. Len(log') <= MaxLog
    BY <1>2, <1>3
  <2> QED  BY <1>3, <2>1, <2>2, <2>3, <2>4, <2>5 DEF IInv, TypeOK, LogEntry
<1>10. JournalIsSound'
  <2>1. ASSUME NEW a \in Address PROVE Sound(cache'[a], log', a, Base', trie[a], codes)
    <3>1. Base \in 0..Len(log')
      BY <1>2, <1>3
    <3>2. Sound(cache'[a], log', a, Base, trie[a], codes)
      <4>1. CASE a \in purged /\ undone[a] # None /\ ~undone[a].dirty
        <5>1. cache'[a] = None
          BY <1>5, <4>1
        <5>2. Grounded(None, trie[a], codes)
          BY DEF Grounded
        <5> QED  BY <1>3, <1>4, <3>1, <4>1, <5>1, <5>2, Exchanged
      <4>2. CASE ~(a \in purged /\ undone[a] # None /\ ~undone[a].dirty)
        BY <1>4, <1>5, <4>2
      <4> QED  BY <4>1, <4>2
    <3>3. Base' \in Base..Len(log')
      BY <1>3
    <3> QED  BY <1>3, <3>1, <3>2, <3>3, Rebased
  <2>2. \A a \in Address : Sound(cache'[a], log', a, Base', trie'[a], codes')
    BY <1>1, <2>1 DEF stores
  <2> QED  BY <2>2 DEF JournalIsSound
<1>11. CodesAreStored'
  BY <1>1 DEF stores, IInv, CodesAreStored, CodeStored
<1>12. NonExistingIsRight'
  <2>1. ASSUME NEW a \in nonExisting' PROVE trie[a] = None /\ cache'[a] = None
    <3>1. a \in Address
      BY <2>1, <1>8, <1>7 DEF IInv, TypeOK
    <3>2. trie[a] = None /\ AccountAt(a, n) = None
      BY <2>1, <1>4, <1>8, <3>1 DEF IInv, NonExistingIsRight
    <3>3. undone[a] = None
      BY <1>4, <1>8, <3>1, <3>2
    <3> QED  BY <1>5, <3>1, <3>2, <3>3
  <2> QED  BY <1>1, <2>1 DEF NonExistingIsRight, stores
<1>13. CleanIsListed'
  <2>1. ASSUME NEW a \in Address, cache'[a] # None, ~cache'[a].dirty PROVE a \in unchanged'
    BY <2>1, <1>1, <1>4, <1>5
  <2> QED  BY <2>1 DEF CleanIsListed, IsClean
<1>14. RecoversTo(n)
  <2>1. ASSUME NEW a \in Address
        PROVE  \A m \in Base..n : Shown(Left(cache'[a], log', a, m), trie[a])
                                 = Shown(Left(cache[a], log, a, m), trie[a])
    <3>1. CASE a \in purged /\ undone[a] # None /\ ~undone[a].dirty
      <4>1. cache'[a] = None
        BY <1>5, <3>1
      <4>2. Grounded(None, trie[a], codes) /\ Base \in 0..Len(log')
        BY <1>2, <1>3 DEF Grounded
      <4>3. \A m \in Base..n : Shown(Left(None, log', a, m), trie[a]) = Shown(Left(undone[a], log', a, m), trie[a])
        BY <1>3, <1>4, <3>1, <4>2, ExchangedShows
      <4> QED  BY <1>4, <4>1, <4>3
    <3>2. CASE ~(a \in purged /\ undone[a] # None /\ ~undone[a].dirty)
      BY <1>4, <1>5, <3>2
    <3> QED  BY <3>1, <3>2
  <2>2. ASSUME NEW a \in Address, NEW m \in Base..n
        PROVE  WarmLeft(warmed'[a], log', a, m) = WarmLeft(warmed[a], log, a, m)
    <3>1. warmed'[a] = WarmLeft(warmed[a], log, a, n)
      BY <1>1, WarmAtIsWarmLeft
    <3>2. m \in 0..Len(log') /\ Len(log') \in Nat /\ Len(log') <= Len(log)
          /\ \A i \in 1..Len(log') : log[i] = log'[i]
      BY <1>1, <1>2, <1>3, CutFits
    <3> QED  BY <1>2, <1>3, <3>1, <3>2, WarmLeftSplit
  <2> QED  BY <2>1, <2>2 DEF RecoversTo
<1> QED  BY <1>3, <1>9, <1>10, <1>11, <1>12, <1>13, <1>14 DEF IInv

-----------------------------------------------------------------------------
\* Savepoints are between the first one and the top.
LEMMA FramesAre ==
    ASSUME IInv
    PROVE  /\ frames \in Seq(0..MaxLog) /\ Len(frames) \in Nat /\ Len(frames) <= MaxDepth
           /\ log \in Seq(LogEntry) /\ Len(log) \in Nat /\ Len(log) <= MaxLog
           /\ \A i \in 1..Len(frames) : frames[i] \in 0..Len(log)
           /\ \A i, j \in 1..Len(frames) : i <= j => frames[i] <= frames[j]
           /\ Running <=> Len(frames) >= 1
<1>1. frames \in Seq(0..MaxLog)
  BY DEF IInv, TypeOK
<1>2. Running <=> Len(frames) >= 1
  BY <1>1, EmptySeq DEF Running
<1> QED  BY <1>1, <1>2, LogType DEF IInv, TypeOK, FramesInOrder, EntriesFit

\* Steps that leave accounts, tries and log as they are.
LEMMA FramesStep ==
    ASSUME IInv, frames' \in Seq(0..MaxLog), Len(frames') <= MaxDepth, FramesInOrder', Base' = Base,
           UNCHANGED <<stores, caches, warmed, log>>, touchedForever' \subseteq {Ripemd}
    PROVE  IInv'
<1> USE DEF stores, caches
<1>1. TypeOK'
  BY DEF IInv, TypeOK
<1>2. JournalIsSound'
  <2>1. \A a \in Address : Sound(cache'[a], log', a, Base', trie'[a], codes')
    BY DEF IInv, JournalIsSound
  <2> QED  BY <2>1 DEF JournalIsSound
<1>3. EntriesFit(log')
  BY DEF IInv
<1>4. CodesAreStored' /\ NonExistingIsRight' /\ CleanIsListed'
  BY DEF IInv, CodesAreStored, CodeStored, NonExistingIsRight, CleanIsListed, IsClean
<1> QED  BY <1>1, <1>2, <1>3, <1>4 DEF IInv

\* unrevertableTouch.
LEMMA UnrevertableTouchKeeps ==
    ASSUME IInv, UnrevertableTouch
    PROVE  IInv'
<1>1. touchedForever' \subseteq {Ripemd}
  BY DEF UnrevertableTouch, IInv, TypeOK
<1>2. frames' = frames /\ log' = log
  BY DEF UnrevertableTouch
<1>3. FramesInOrder' /\ Base' = Base
  BY <1>2 DEF IInv, FramesInOrder, Base, Running
<1> QED  BY <1>1, <1>2, <1>3, FramesStep DEF UnrevertableTouch, IInv, TypeOK

\* savepoint.
LEMMA SavepointKeeps ==
    ASSUME IInv, Savepoint
    PROVE  IInv'
<1>1. /\ frames \in Seq(0..MaxLog) /\ Len(frames) \in Nat /\ Len(frames) <= MaxDepth
      /\ Len(log) \in Nat /\ Len(log) <= MaxLog
      /\ \A i \in 1..Len(frames) : frames[i] \in 0..Len(log)
      /\ \A i, j \in 1..Len(frames) : i <= j => frames[i] <= frames[j]
      /\ Running <=> Len(frames) >= 1
  BY FramesAre
<1>2. frames' = Append(frames, Len(log)) /\ log' = log /\ Len(frames) < MaxDepth /\ MaxDepth \in Nat
      /\ MaxLog \in Nat
  BY ConstantsAssumption DEF Savepoint
<1>3. /\ frames' \in Seq(0..MaxLog) /\ Len(frames') = Len(frames) + 1 /\ Len(frames') <= MaxDepth
      /\ \A i \in 1..Len(frames) : frames'[i] = frames[i]
      /\ frames'[Len(frames) + 1] = Len(log)
  BY <1>1, <1>2
<1>4. FramesInOrder'
  BY <1>1, <1>2, <1>3 DEF FramesInOrder
<1>5. Running'
  BY <1>1, <1>3, EmptySeq DEF Running
<1>6. Base' = Base
  <2>1. Base' = frames'[1]
    BY <1>5 DEF Base
  <2>2. CASE Running
    BY <1>1, <1>3, <2>1, <2>2 DEF Base
  <2>3. CASE ~Running
    BY <1>1, <1>3, <2>1, <2>3 DEF Base
  <2> QED  BY <2>2, <2>3
<1>7. touchedForever' \subseteq {Ripemd}
  BY DEF Savepoint, IInv, TypeOK
<1> QED  BY <1>3, <1>4, <1>6, <1>7, FramesStep DEF Savepoint

\* Leaving an inner savepoint leaves the others.
LEMMA InnerIs ==
    ASSUME IInv, Len(frames) > 1
    PROVE  /\ Inner \in Seq(0..MaxLog) /\ Len(Inner) = Len(frames) - 1
           /\ \A i \in 1..Len(Inner) : Inner[i] = frames[i]
           /\ Running /\ Inner # <<>> /\ Inner[1] = frames[1]
           /\ Top \in Base..Len(log) /\ \A i \in 1..Len(Inner) : Inner[i] \in 0..Top
<1>1. /\ frames \in Seq(0..MaxLog) /\ Len(frames) \in Nat
      /\ Len(log) \in Nat
      /\ \A i \in 1..Len(frames) : frames[i] \in 0..Len(log)
      /\ \A i, j \in 1..Len(frames) : i <= j => frames[i] <= frames[j]
      /\ Running
  BY FramesAre
<1>2. /\ Inner \in Seq(0..MaxLog) /\ Len(Inner) = Len(frames) - 1
      /\ \A i \in 1..Len(Inner) : Inner[i] = frames[i]
  <2> DEFINE n == Len(frames) - 1
  <2>1. n \in Nat /\ n >= 1 /\ 1..n \subseteq 1..Len(frames)
    BY <1>1
  <2>2. \A i \in 1..n : frames[i] \in 0..MaxLog
    BY <1>1, <2>1, ElementOfSeq
  <2> HIDE DEF n
  <2>3. /\ SubSeq(frames, 1, n) \in Seq(0..MaxLog) /\ Len(SubSeq(frames, 1, n)) = n
        /\ \A i \in 1..n : SubSeq(frames, 1, n)[i] = frames[i]
    BY <2>1, <2>2, SubSeqProperties
  <2> QED  BY <2>1, <2>3 DEF Inner, n
<1>3. Inner # <<>>
  BY <1>1, <1>2, EmptySeq
<1>4. Top \in Base..Len(log) /\ \A i \in 1..Len(Inner) : Inner[i] \in 0..Top
  BY <1>1, <1>2 DEF Top, Base
<1> QED  BY <1>1, <1>2, <1>3, <1>4

\* A call returns.
LEMMA ReturnKeeps ==
    ASSUME IInv, Return
    PROVE  IInv'
<1>1. /\ Len(frames) > 1 /\ frames' = Inner /\ log' = log
      /\ UNCHANGED <<stores, caches, touchedForever, warmed, log>>
  BY DEF Return
<1>2. /\ frames' \in Seq(0..MaxLog) /\ Len(frames') = Len(frames) - 1
      /\ \A i \in 1..Len(frames') : frames'[i] = frames[i]
      /\ Running /\ Running' /\ frames'[1] = frames[1]
  BY <1>1, InnerIs DEF Running
<1>3. Base' = Base
  BY <1>2 DEF Base
<1>4. FramesInOrder' /\ Len(frames') <= MaxDepth
  BY <1>1, <1>2, FramesAre, ConstantsAssumption DEF FramesInOrder
<1>5. touchedForever' \subseteq {Ripemd}
  BY <1>1 DEF IInv, TypeOK
<1> QED  BY <1>1, <1>2, <1>3, <1>4, <1>5, FramesStep

\* A call is reverted.
LEMMA RevertKeeps ==
    ASSUME IInv, Revert
    PROVE  IInv' /\ RecoversTo(Top) /\ Len(log') = Top
<1>1. Len(frames) > 1 /\ frames' = Inner /\ Rollback(Top)
  BY DEF Revert
<1>2. /\ frames' \in Seq(0..MaxLog) /\ Len(frames') = Len(frames) - 1
      /\ \A i \in 1..Len(frames') : frames'[i] = frames[i] /\ frames'[i] \in 0..Top
      /\ Running /\ Running' /\ frames'[1] = frames[1] /\ Top \in Base..Len(log)
  BY <1>1, InnerIs DEF Running
<1>3. log \in Seq(LogEntry) /\ EntriesFit(log) /\ Top \in 0..Len(log)
  BY <1>2, FramesAre, BaseIsBelow DEF IInv
<1>4. log' = SubSeq(log, 1, Top)
  BY <1>1 DEF Rollback, Undo
<1>5. Len(log') = Top
  BY <1>3, <1>4, CutFits
<1>6. Base' = Base
  BY <1>2 DEF Base
<1>7. FramesInOrder' /\ Len(frames') <= MaxDepth
  BY <1>1, <1>2, <1>5, FramesAre, ConstantsAssumption DEF FramesInOrder
<1>8. Base' \in Base..Top
  BY <1>2, <1>6, BaseIsBelow
<1> QED  BY <1>1, <1>2, <1>7, <1>8, UndoKeeps

\* A transaction is thrown away.
LEMMA AbortKeeps ==
    ASSUME IInv, Abort
    PROVE  IInv' /\ RecoversTo(frames[1]) /\ Len(log') = frames[1]
<1>1. Running /\ frames' = <<>> /\ Rollback(frames[1])
  BY DEF Abort
<1>2. Len(log) \in Nat /\ Base \in 0..Len(log) /\ Base = frames[1]
  BY <1>1, BaseIsBelow
<1>3. log' = SubSeq(log, 1, Base)
  BY <1>1, <1>2 DEF Rollback, Undo
<1>4. Len(log') = Base
  BY <1>2, <1>3, FramesAre, CutFits DEF IInv
<1>5. Base' = Base
  BY <1>1, <1>4 DEF Base, Running
<1>6. frames' \in Seq(0..MaxLog) /\ Len(frames') = 0 /\ Len(frames') <= MaxDepth
  BY <1>1, ConstantsAssumption, EmptySeq
<1>7. FramesInOrder'
  BY <1>6 DEF FramesInOrder
<1> QED  BY <1>1, <1>2, <1>5, <1>6, <1>7, UndoKeeps

-----------------------------------------------------------------------------
\* Nothing is cached and no frame is held.
LEMMA EmptiedStep ==
    ASSUME EntriesFit(log'), frames' = <<>>, cache' = [a \in Address |-> None],
           TypeOK', CodesAreStored', \A a \in nonExisting' : trie'[a] = None
    PROVE  IInv'
<1>1. Len(log') \in Nat /\ Base' = Len(log')
  BY DEF EntriesFit, Base, Running
<1>2. JournalIsSound'
  <2>1. \A a \in Address : Sound(cache'[a], log', a, Base', trie'[a], codes')
    BY <1>1, AbsentIsSound
  <2> QED  BY <2>1 DEF JournalIsSound
<1>3. NonExistingIsRight'
  BY DEF NonExistingIsRight, TypeOK
<1>4. CleanIsListed'
  BY DEF CleanIsListed, IsClean
<1>5. FramesInOrder'
  BY DEF FramesInOrder
<1> QED  BY <1>2, <1>3, <1>4, <1>5 DEF IInv

\* What commit writes of an account is an entry of the trie.
LEMMA WrittenIsEntry ==
    ASSUME NEW x \in Account
    PROVE  Written(x) \in Entry /\ Written(x).code = x.code
BY DEF Written, Account, Entry

\* commit.
LEMMA CommitKeeps ==
    ASSUME IInv, NEW killed, NEW removeEmpty, Commit(killed, removeEmpty)
    PROVE  IInv'
<1> DEFINE R == Removed(killed, removeEmpty)
           W == {b \in Address \ R : cache[b] # None /\ cache[b].dirty /\ cache[b].newCode}
<1> HIDE DEF R
<1>1. /\ trie' = [a \in Address |-> IF a \in R THEN None
                                    ELSE IF cache[a] # None /\ cache[a].dirty THEN Written(cache[a])
                                    ELSE trie[a]]
      /\ codes' = codes \cup {cache[a].code : a \in W}
      /\ warmed' = [a \in Address |-> None]
      /\ log' = <<>>
      /\ cache' = [a \in Address |-> None]
      /\ unchanged' = {}
      /\ nonExisting' = IF removeEmpty THEN nonExisting \cup {a \in touchedForever : ~Exists(a)}
                        ELSE nonExisting
      /\ frames' = <<>>
      /\ UNCHANGED touchedForever
  BY DEF Commit, R
<1>2. ASSUME NEW a \in Address
      PROVE  /\ Grounded(cache[a], trie[a], codes)
             /\ trie[a] \in Entry \cup {None} /\ cache[a] \in Account \cup {None}
             /\ trie[a] # None => trie[a].code \in codes \cup {NoCode}
  <2>1. Sound(cache[a], log, a, Base, trie[a], codes)
    BY DEF IInv, JournalIsSound
  <2>2. Grounded(cache[a], trie[a], codes)
    BY <2>1, BaseIsBelow, TopIsGrounded DEF IInv
  <2> QED  BY <2>2 DEF IInv, TypeOK, CodesAreStored, CodeStored
<1>3. trie' \in [Address -> Entry \cup {None}]
  <2>1. \A a \in Address : cache[a] # None => Written(cache[a]) \in Entry
    BY <1>2, WrittenIsEntry
  <2> QED  BY <1>1, <1>2, <2>1
<1>4. codes' \subseteq Code
  <2>1. \A a \in W : cache[a].code \in Code
    <3> TAKE a \in W
    <3>1. cache[a] \in Account /\ cache[a].newCode
      BY <1>2
    <3>2. cache[a].code # NoCode
      BY <1>2, <3>1, NoneAssumption DEF Grounded, Coherent
    <3> QED  BY <3>1, <3>2 DEF Account
  <2> HIDE DEF W
  <2> QED  BY <1>1, <2>1 DEF IInv, TypeOK
<1>5. \A a \in nonExisting' : a \in Address /\ trie'[a] = None
  <2> TAKE a \in nonExisting'
  <2>1. a \in nonExisting \/ (a \in touchedForever /\ ~Exists(a))
    BY <1>1
  <2>2. a \in Address
    BY <2>1, ConstantsAssumption DEF IInv, TypeOK
  <2>3. cache[a] = None /\ trie[a] = None
    BY <2>1, <2>2, LoadedIsSound DEF Exists, IInv, NonExistingIsRight
  <2> QED  BY <1>1, <2>2, <2>3
<1>6. EntriesFit(log') /\ Len(log') = 0 /\ log' \in Seq(LogEntry) /\ frames' \in Seq(0..MaxLog)
      /\ Len(frames') = 0
  BY <1>1 DEF EntriesFit
<1>7. TypeOK'
  BY <1>1, <1>3, <1>4, <1>5, <1>6, ConstantsAssumption DEF IInv, TypeOK, LogEntry
<1>8. CodesAreStored'
  <2>1. ASSUME NEW a \in Address, trie'[a] # None PROVE trie'[a].code \in codes' \cup {NoCode}
    <3>1. CASE trie'[a] = trie[a]
      BY <1>1, <1>2, <2>1, <3>1
    <3>2. CASE a \notin R /\ cache[a] # None /\ cache[a].dirty
      <4>1. trie'[a] = Written(cache[a]) /\ trie'[a].code = cache[a].code
        BY <1>1, <1>2, <3>2, WrittenIsEntry
      <4>2. CASE cache[a].newCode
        BY <1>1, <3>2, <4>1, <4>2
      <4>3. CASE ~cache[a].newCode
        BY <1>1, <1>2, <3>2, <4>1, <4>3 DEF Grounded
      <4> QED  BY <4>2, <4>3
    <3> QED  BY <1>1, <2>1, <3>1, <3>2
  <2>2. \A root \in Roots : CodeStored(root)'
    BY <1>1 DEF IInv, CodesAreStored, CodeStored
  <2> QED  BY <2>1, <2>2 DEF CodesAreStored, CodeStored
<1> QED  BY <1>1, <1>5, <1>6, <1>7, <1>8, EmptiedStep

\* A run whose changes are dropped.
LEMMA DropKeeps ==
    ASSUME IInv, Drop
    PROVE  IInv'
<1>1. /\ cache' = [a \in Address |-> None] /\ frames' = <<>>
      /\ UNCHANGED <<trie, codes, unchanged, nonExisting, touchedForever, warmed, log>>
  BY DEF Drop, stores
<1>2. TypeOK'
  BY <1>1, ConstantsAssumption DEF IInv, TypeOK
<1>3. CodesAreStored' /\ EntriesFit(log')
  BY <1>1 DEF IInv, CodesAreStored, CodeStored
<1>4. \A a \in nonExisting' : trie'[a] = None
  BY <1>1 DEF IInv, NonExistingIsRight
<1> QED  BY <1>1, <1>2, <1>3, <1>4, EmptiedStep

\* setRoot.
LEMMA SetRootKeeps ==
    ASSUME IInv, NEW root \in {trie} \cup Roots, SetRoot(root)
    PROVE  IInv'
<1>1. /\ trie' = root /\ cache' = [a \in Address |-> None] /\ unchanged' = {} /\ nonExisting' = {}
      /\ warmed' = [a \in Address |-> None] /\ frames = <<>> /\ frames' = <<>>
      /\ UNCHANGED <<codes, touchedForever, log>>
  BY DEF SetRoot, Running
<1>2. TypeOK'
  BY <1>1, ConstantsAssumption DEF IInv, TypeOK
<1>3. CodesAreStored' /\ EntriesFit(log')
  BY <1>1 DEF IInv, CodesAreStored, CodeStored
<1>4. \A a \in nonExisting' : trie'[a] = None
  BY <1>1
<1> QED  BY <1>1, <1>2, <1>3, <1>4, EmptiedStep
-----------------------------------------------------------------------------
\* The initial states have the invariant.
LEMMA InitHasInv == ASSUME Init PROVE IInv
<1>1. /\ trie \in Roots /\ cache = [a \in Address |-> None] /\ unchanged = {} /\ nonExisting = {}
      /\ touchedForever = {} /\ warmed = [a \in Address |-> None] /\ log = <<>> /\ frames = <<>>
      /\ codes = {c \in Code : \E root \in Roots, a \in Address : root[a] # None /\ root[a].code = c}
  BY DEF Init
<1>2. EntriesFit(log) /\ Len(log) = 0 /\ log \in Seq(LogEntry) /\ frames \in Seq(0..MaxLog)
      /\ Len(frames) = 0
  BY <1>1 DEF EntriesFit
<1>3. TypeOK
  BY <1>1, <1>2, ConstantsAssumption DEF TypeOK, LogEntry
<1>4. CodesAreStored
  <2>1. ASSUME NEW root \in Roots, NEW a \in Address, root[a] # None
        PROVE  root[a].code \in codes \cup {NoCode}
    <3>1. root[a] \in Entry
      BY <2>1, ConstantsAssumption
    <3>2. root[a].code \in Code \cup {NoCode}
      BY <3>1 DEF Entry
    <3> QED  BY <1>1, <2>1, <3>2
  <2> QED  BY <1>1, <2>1 DEF CodesAreStored, CodeStored
<1>5. JournalIsSound
  <2>1. Base = Len(log)
    BY <1>1 DEF Base, Running
  <2> QED  BY <1>1, <1>2, <2>1, AbsentIsSound DEF JournalIsSound
<1>6. NonExistingIsRight /\ CleanIsListed /\ FramesInOrder
  BY <1>1, <1>2 DEF NonExistingIsRight, CleanIsListed, IsClean, FramesInOrder
<1> QED  BY <1>2, <1>3, <1>4, <1>5, <1>6 DEF IInv

\* addBalance.
LEMMA AddBalanceKeeps ==
    ASSUME IInv, NEW a \in Address, NEW v \in Value, AddBalance(a, v)
    PROVE  IInv' /\ Changes(a)
BY IncreaseKeeps DEF AddBalance

\* subBalance.
LEMMA SubBalanceKeeps ==
    ASSUME IInv, NEW a \in Address, NEW v \in Value, SubBalance(a, v)
    PROVE  IInv' /\ Changes(a)
<1>1. Modulus - v \in Value
  BY ConstantsAssumption DEF SubBalance, Value
<1> QED  BY <1>1, IncreaseKeeps DEF SubBalance

\* Every step keeps the invariant.
LEMMA NextKeeps == ASSUME IInv, [Next]_vars PROVE IInv'
<1>1. CASE UNCHANGED vars
  <2>1. /\ UNCHANGED <<stores, caches, warmed, log, frames, touchedForever>>
    BY <1>1 DEF vars
  <2>2. Base' = Base /\ FramesInOrder'
    BY <2>1 DEF Base, Running, IInv, FramesInOrder
  <2> QED  BY <2>1, <2>2, FramesStep DEF IInv, TypeOK
<1>2. ASSUME NEW a \in Address, Read(a) PROVE IInv'
  BY <1>2, ReadKeeps
<1>3. ASSUME NEW a \in Address, IncNonce(a) PROVE IInv'
  BY <1>3, IncNonceKeeps
<1>4. ASSUME NEW a \in Address, SetNonce(a) PROVE IInv'
  BY <1>4, SetNonceKeeps
<1>5. ASSUME NEW a \in Address, ClearStorage(a) PROVE IInv'
  BY <1>5, ClearStorageKeeps
<1>6. ASSUME NEW a \in Address, AccessAddress(a) PROVE IInv'
  BY <1>6, AccessAddressKeeps
<1>7. ASSUME NEW a \in Address, NEW v \in Value, AddBalance(a, v) \/ SubBalance(a, v) PROVE IInv'
  BY <1>7, AddBalanceKeeps, SubBalanceKeeps
<1>8. ASSUME NEW a \in Address, NEW c \in Code \cup {NoCode}, SetCode(a, c) PROVE IInv'
  BY <1>8, SetCodeKeeps
<1>9. ASSUME NEW a \in Address, NEW k \in Key, ReadStorage(a, k) \/ AccessStorage(a, k) PROVE IInv'
  BY <1>9, ReadStorageKeeps, AccessStorageKeeps
<1>10. ASSUME NEW a \in Address, NEW k \in Key, NEW v \in Value, SetStorage(a, k, v) PROVE IInv'
  BY <1>10, SetStorageKeeps
<1>11. CASE UnrevertableTouch \/ Savepoint \/ Return \/ Revert \/ Abort \/ Drop
  BY <1>11, UnrevertableTouchKeeps, SavepointKeeps, ReturnKeeps, RevertKeeps, AbortKeeps, DropKeeps
<1>12. ASSUME NEW killed, NEW removeEmpty, Commit(killed, removeEmpty) PROVE IInv'
  BY <1>12, CommitKeeps
<1>13. ASSUME NEW root \in {trie} \cup Roots, SetRoot(root) PROVE IInv'
  BY <1>13, SetRootKeeps
<1> QED  BY <1>1, <1>2, <1>3, <1>4, <1>5, <1>6, <1>7, <1>8, <1>9, <1>10, <1>11, <1>12, <1>13 DEF Next

\* So it holds always.
LEMMA InvHolds == Spec => []IInv
<1>1. Init => IInv
  BY InitHasInv
<1>2. IInv /\ [Next]_vars => IInv'
  BY NextKeeps
<1> QED  BY <1>1, <1>2, PTL DEF Spec

\* Whatever is executed, purged, undone and committed, State keeps accounts, entries,
\* log and lists of the types that its code takes them to have (Account, Change,
\* m_cache, m_changeLog).
THEOREM Typed == Spec => []TypeOK
<1>1. IInv => TypeOK
  BY DEF IInv
<1> QED  BY <1>1, InvHolds, PTL

\* What State keeps besides the trie never contradicts it: an address it remembers as
\* absent is in neither trie nor cache, and a clean account can be purged, for it shows
\* what the trie does (State::account, clearCacheIfTooLarge, createAccount, setRoot).
THEOREM CachesAreRight == Spec => []CachesFollowTrie
<1>1. IInv => CachesFollowTrie
  <2> SUFFICES ASSUME IInv PROVE CachesFollowTrie
    OBVIOUS
  <2>1. ASSUME NEW a \in Address, IsClean(a)
        PROVE  a \in unchanged /\ trie[a] # None /\ View(cache[a]) = View(FromTrie(trie[a]))
    <3>1. Sound(cache[a], log, a, Base, trie[a], codes)
      BY DEF IInv, JournalIsSound
    <3>2. Grounded(cache[a], trie[a], codes)
      BY <3>1, BaseIsBelow, TopIsGrounded DEF IInv
    <3> QED  BY <2>1, <3>2 DEF Grounded, IsClean, IInv, CleanIsListed
  <2> QED  BY <2>1 DEF CachesFollowTrie, CleanCanBePurged, IInv
<1> QED  BY <1>1, InvHolds, PTL

\* Every entry that rollback may still have to undo finds its account in the cache,
\* whatever was fetched, purged or created since it was logged (State::rollback, which
\* dereferences it).
THEOREM RollbackFindsAccounts == Spec => []JournalIsGrounded
<1>1. IInv => JournalIsGrounded
  <2> SUFFICES ASSUME IInv, Running, NEW i \in (frames[1] + 1)..Len(log), ~IsWarming(log[i])
               PROVE  AccountAt(log[i].address, i) # None
    BY DEF JournalIsGrounded
  <2>1. Base = frames[1] /\ Base \in 0..Len(log) /\ Len(log) \in Nat
    BY BaseIsBelow
  <2>2. i \in 1..Len(log) /\ i \in Base..Len(log) /\ i \in (Base + 1)..i
    BY <2>1
  <2>3. log[i].address \in Address
    <3>1. log[i] \in LogEntry
      BY <2>2, LogType, ElementOfSeq DEF IInv
    <3> QED  BY <3>1 DEF LogEntry
  <2>4. Sound(cache[log[i].address], log, log[i].address, Base, trie[log[i].address], codes)
    BY <2>3 DEF IInv, JournalIsSound
  <2>5. Changed(log, log[i].address, Base, i)
    BY <2>2 DEF Changed
  <2> QED  BY <2>2, <2>4, <2>5, AccountAtIsLeft DEF Sound
<1> QED  BY <1>1, InvHolds, PTL

\* The code of every account in the present trie, and in every root that can be set, is
\* in the database (State::commit, with Account::hasNewCode).
THEOREM CodesAreFound == Spec => []CodesAreStored
<1>1. IInv => CodesAreStored
  BY DEF IInv
<1> QED  BY <1>1, InvHolds, PTL
-----------------------------------------------------------------------------
(* StateJournal implements Ledger.  Under IInv the mapping is plain: the world is  *)
(* what each account shows, and the copy of a savepoint is what is left of each    *)
(* account at its height (Mapping).  Every step then is a change of the ledger     *)
(* because undoing brings back what it would have brought back before (Recovers),  *)
(* or it changes nothing that the mapping says.                                    *)

\* Functions on 1..n as sequences.
LEMMA FcnIsSeq ==
    ASSUME NEW n \in Nat, NEW f, f = [i \in 1..n |-> f[i]]
    PROVE  f \in Seq({f[i] : i \in 1..n}) /\ Len(f) = n
<1> DEFINE S == {f[i] : i \in 1..n}
<1>1. f \in [1..n -> S]
  OBVIOUS
<1>2. f \in Seq(S)
  BY <1>1, SeqDef
<1>3. DOMAIN f = 1..Len(f) /\ Len(f) \in Nat
  BY <1>2, LenProperties
<1>4. DOMAIN f = 1..n
  OBVIOUS
<1>5. 1..n = 1..Len(f)
  BY <1>3, <1>4
<1> HIDE DEF S
<1>6. n = Len(f)
  BY <1>3, <1>5
<1> QED  BY <1>2, <1>6 DEF S

\* The first m members of a sequence given as a function.
LEMMA CutFcn ==
    ASSUME NEW n \in Nat, NEW f, f = [i \in 1..n |-> f[i]], NEW m \in 0..n
    PROVE  SubSeq(f, 1, m) = [i \in 1..m |-> f[i]]
<1> DEFINE g == SubSeq(f, 1, m)
           S == {f[i] : i \in 1..n}
<1>1. f \in Seq(S) /\ Len(f) = n /\ m \in 0..Len(f)
  BY FcnIsSeq
<1> HIDE DEF S
<1>2. g \in Seq(S) /\ Len(g) = m /\ \A i \in 1..m : g[i] = f[i]
  BY <1>1
<1>3. g \in [1..m -> S]
  BY <1>2, LenProperties
<1> HIDE DEF g
<1>4. g = [i \in 1..m |-> f[i]]
  BY <1>2, <1>3
<1> QED  BY <1>4 DEF g

\* And one with a member more.
LEMMA AppendFcn ==
    ASSUME NEW n \in Nat, NEW f, f = [i \in 1..n |-> f[i]], NEW x
    PROVE  Append(f, x) = [i \in 1..(n + 1) |-> IF i = n + 1 THEN x ELSE f[i]]
<1> DEFINE S == {f[i] : i \in 1..n} \cup {x}
           g == Append(f, x)
<1>1. f \in Seq(S) /\ Len(f) = n
  <2>1. f \in Seq({f[i] : i \in 1..n}) /\ Len(f) = n
    BY FcnIsSeq
  <2>2. f \in [1..n -> S]
    OBVIOUS
  <2> HIDE DEF S
  <2> QED  BY <2>1, <2>2, SeqDef
<1>2. x \in S
  OBVIOUS
<1> HIDE DEF S
<1>3. /\ g \in Seq(S) /\ Len(g) = n + 1 /\ g[n + 1] = x /\ \A i \in 1..n : g[i] = f[i]
  BY <1>1, <1>2
<1>4. g \in [1..(n + 1) -> S]
  BY <1>3, LenProperties
<1> HIDE DEF g
<1>5. g = [i \in 1..(n + 1) |-> IF i = n + 1 THEN x ELSE f[i]]
  <2>1. \A i \in 1..(n + 1) : g[i] = (IF i = n + 1 THEN x ELSE f[i])
    BY <1>3
  <2> QED  BY <1>4, <2>1
<1> QED  BY <1>5 DEF g

\* And the empty one.
LEMMA NoFcn == ASSUME NEW f, f = [i \in 1..0 |-> f[i]] PROVE f = <<>>
<1>1. f \in Seq({f[i] : i \in 1..0}) /\ Len(f) = 0
  BY FcnIsSeq
<1> QED  BY <1>1, EmptySeq
-----------------------------------------------------------------------------
(* The ledger of a state. *)

\* What every address shows.
World == [a \in Address |-> Shown(cache[a], trie[a])]
\* The same at height n of the log, and what is warm there.
Copy(n) == <<[a \in Address |-> Shown(Left(cache[a], log, a, n), trie[a])],
             [a \in Address |-> WarmLeft(warmed[a], log, a, n)]>>
\* The copies of the held savepoints, as the mapping has them.
Saved == [i \in 1..Len(frames) |-> CopyAt(frames[i])]

\* The mapping is the plain one.
Mapped == /\ WorldIn(cache) = World
          /\ Saved = [i \in 1..Len(frames) |-> Copy(frames[i])]
          /\ Readable = trie

\* It is under the invariant.
LEMMA IsMapped == IInv => Mapped
<1> SUFFICES ASSUME IInv PROVE Mapped
  OBVIOUS
<1>1. \A h : \A a \in Address :
        (IF h # None THEN h ELSE IF a \in nonExisting \/ trie[a] = None THEN None ELSE FromTrie(trie[a]))
        = (IF h # None THEN h ELSE IF trie[a] = None THEN None ELSE FromTrie(trie[a]))
  BY DEF IInv, NonExistingIsRight
<1>2. ASSUME NEW accounts, NEW a \in Address
      PROVE  View(Found(accounts, a)) = Shown(accounts[a], trie[a])
  BY <1>1 DEF Found, Shown
<1>3. WorldIn(cache) = World
  BY <1>2 DEF WorldIn, World
<1>4. ASSUME NEW n PROVE CopyAt(n) = Copy(n)
  <2> DEFINE accounts == [a \in Address |-> AccountAt(a, n)]
  <2>1. \A a \in Address : accounts[a] = Left(cache[a], log, a, n)
    BY AccountAtIsLeft
  <2> HIDE DEF accounts
  <2>2. WorldIn(accounts) = [a \in Address |-> Shown(Left(cache[a], log, a, n), trie[a])]
    BY <1>2, <2>1 DEF WorldIn
  <2>3. [a \in Address |-> WarmAt(a, n)] = [a \in Address |-> WarmLeft(warmed[a], log, a, n)]
    BY WarmAtIsWarmLeft
  <2>4. CopyAt(n) = <<WorldIn(accounts), [a \in Address |-> WarmAt(a, n)]>>
    BY DEF CopyAt, accounts
  <2> QED  BY <2>2, <2>3, <2>4 DEF Copy
<1>5. Readable = trie
  <2>1. trie \in [Address -> Entry \cup {None}] /\ \A a \in Address : trie[a] # None => trie[a].code \in codes \cup {NoCode}
    BY DEF IInv, TypeOK, CodesAreStored, CodeStored
  <2> QED  BY <2>1 DEF Readable
<1>6. Saved = [i \in 1..Len(frames) |-> Copy(frames[i])]
  BY <1>4 DEF Saved
<1> QED  BY <1>3, <1>5, <1>6 DEF Mapped

\* In the next state too.
LEMMA NextIsMapped == IInv' => Mapped'
BY IsMapped, PTL

\* The same with the definitions expanded.
LEMMA Mapping ==
    ASSUME IInv
    PROVE  /\ WorldIn(cache) = [a \in Address |-> Shown(cache[a], trie[a])]
           /\ Saved = [i \in 1..Len(frames) |->
                         <<[a \in Address |-> Shown(Left(cache[a], log, a, frames[i]), trie[a])],
                           [a \in Address |-> WarmLeft(warmed[a], log, a, frames[i])]>>]
           /\ Readable = trie
BY IsMapped DEF Mapped, World, Copy

\* The same, next.
LEMMA NextMapping ==
    ASSUME IInv'
    PROVE  /\ WorldIn(cache)' = [a \in Address |-> Shown(cache'[a], trie'[a])]
           /\ Saved' = [i \in 1..Len(frames') |->
                          <<[a \in Address |-> Shown(Left(cache'[a], log', a, frames'[i]), trie'[a])],
                            [a \in Address |-> WarmLeft(warmed'[a], log', a, frames'[i])]>>]
           /\ Readable' = trie'
<1>1. Mapped'
  BY NextIsMapped
<1>2. World' = [a \in Address |-> Shown(cache'[a], trie'[a])]
  BY DEF World, Shown
<1> QED  BY <1>1, <1>2 DEF Mapped, Copy, Shown

\* What held savepoints stand for is kept by a step that undoing takes back.
LEMMA FramesAreAbove ==
    ASSUME IInv
    PROVE  \A i \in 1..Len(frames) : frames[i] \in Base..Len(log)
<1>1. /\ Len(frames) \in Nat /\ Len(log) \in Nat
      /\ \A i \in 1..Len(frames) : frames[i] \in 0..Len(log)
      /\ \A i, j \in 1..Len(frames) : i <= j => frames[i] <= frames[j]
      /\ Running <=> Len(frames) >= 1
  BY FramesAre
<1> TAKE i \in 1..Len(frames)
<1>2. Running /\ 1 \in 1..Len(frames) /\ 1 <= i
  BY <1>1
<1>3. Base = frames[1] /\ frames[1] \in 0..Len(log)
  BY <1>1, <1>2 DEF Base
<1> QED  BY <1>1, <1>2, <1>3

\* A step that undoing takes back keeps the copies.
LEMMA SavedIsKept ==
    ASSUME IInv, IInv', Recovers, UNCHANGED <<trie, frames>>
    PROVE  Saved' = Saved
<1>1. ASSUME NEW i \in 1..Len(frames), NEW a \in Address
      PROVE  /\ Shown(Left(cache'[a], log', a, frames[i]), trie[a]) = Shown(Left(cache[a], log, a, frames[i]), trie[a])
             /\ WarmLeft(warmed'[a], log', a, frames[i]) = WarmLeft(warmed[a], log, a, frames[i])
  BY FramesAreAbove DEF Recovers, RecoversTo
<1> QED  BY <1>1, Mapping, NextMapping

\* A step that logs nothing shows the same.
LEMMA WorldIsKept ==
    ASSUME IInv, IInv', RecoversTo(Len(log')), trie' = trie, Len(log') \in Base..Len(log)
    PROVE  \A a \in Address :
             /\ Shown(cache'[a], trie'[a]) = Shown(Left(cache[a], log, a, Len(log')), trie[a])
             /\ warmed'[a] = WarmLeft(warmed[a], log, a, Len(log'))
<1>1. Len(log') \in Nat
  BY DEF IInv, EntriesFit
<1>2. \A a \in Address : Left(cache'[a], log', a, Len(log')) = cache'[a]
                         /\ WarmLeft(warmed'[a], log', a, Len(log')) = warmed'[a]
  BY <1>1, LeftTop, WarmLeftTop
<1>3. Len(log') \in Base..Len(log')
  BY <1>1, BaseIsBelow
<1> QED  BY <1>2, <1>3 DEF RecoversTo

\* So the ledger does not move.
LEMMA SilentIsStutter ==
    ASSUME IInv, IInv', Recovers, UNCHANGED <<stores, touchedForever, warmed, log, frames>>
    PROVE  UNCHANGED L!ledgerVars
<1>1. trie' = trie /\ Len(log) \in Base..Len(log) /\ Len(log) \in Nat
  BY BaseIsBelow DEF stores
<1>2. \A a \in Address : Shown(cache'[a], trie'[a]) = Shown(cache[a], trie[a])
  BY <1>1, WorldIsKept, LeftTop DEF Recovers
<1>3. WorldIn(cache)' = WorldIn(cache) /\ Readable' = Readable
  BY <1>1, <1>2, Mapping, NextMapping
<1>4. Saved' = Saved
  BY <1>1, SavedIsKept
<1> QED  BY <1>3, <1>4 DEF L!ledgerVars, Saved

\* What is seen of an account.
LEMMA ViewIs ==
    ASSUME NEW x \in Account
    PROVE  /\ View(x) # None
           /\ View(x).nonce = x.nonce /\ View(x).balance = x.balance /\ View(x).code = x.code
           /\ View(x).storage = [k \in Key |-> StorageValue(x, k)]
           /\ View(x).touched = (x.dirty /\ IsEmpty(x))
           /\ L!Empty(View(x)) <=> IsEmpty(x)
<1>1. x # None
  BY NoneAssumption
<1>2. \A k \in Key : StorageValue(x, k) \in Value /\ OriginalValue(x, k) \in Value
  BY DEF OriginalValue, StorageValue, Account
<1>3. View(x) \in Views
  BY <1>1, <1>2 DEF View, Views, Account, IsEmpty
<1>4. View(x) # None
  BY <1>3, NoneAssumption
<1>5. View(x) = [nonce |-> x.nonce, balance |-> x.balance, code |-> x.code,
                 storage |-> [k \in Key |-> StorageValue(x, k)],
                 original |-> [k \in Key |-> OriginalValue(x, k)],
                 touched |-> x.dirty /\ IsEmpty(x)]
  BY <1>1 DEF View
<1> QED  BY <1>4, <1>5 DEF L!Empty, IsEmpty

\* A change of account a, as the ledger sees it.
LEMMA ChangesImplement ==
    ASSUME IInv, IInv', NEW a \in Address, Changes(a),
           UNCHANGED <<stores, touchedForever, warmed, frames>>
    PROVE  L!LedgerNext
<1>1. trie' = trie /\ UNCHANGED <<touchedForever, warmed>>
  BY DEF stores
<1>2. Saved' = Saved
  BY <1>1, SavedIsKept DEF Changes
<1>3. cache'[a] \in Account /\ cache'[a].dirty /\ cache'[a] # None
  BY NoneAssumption DEF Changes
<1>4. WorldIn(cache)'[a] = View(cache'[a])
  BY <1>3, NextMapping DEF Shown
<1>5. WorldIn(cache)'[a] # None /\ WorldIn(cache)'[a].touched = L!Empty(WorldIn(cache)'[a])
  <2> DEFINE v == View(cache'[a])
  <2>1. /\ v # None /\ v.nonce = cache'[a].nonce /\ v.balance = cache'[a].balance /\ v.code = cache'[a].code
        /\ v.touched = (cache'[a].dirty /\ IsEmpty(cache'[a]))
    BY <1>3, ViewIs
  <2> HIDE DEF v
  <2>2. v.touched = L!Empty(v)
    BY <1>3, <2>1 DEF L!Empty, IsEmpty
  <2> QED  BY <1>4, <2>1, <2>2 DEF v, L!Empty
<1>6. WorldIn(cache)' = [WorldIn(cache) EXCEPT ![a] = WorldIn(cache)'[a]]
  BY <1>1, Mapping, NextMapping DEF Changes, ShownElsewhere
<1>7. Readable' = Readable
  BY <1>1, Mapping, NextMapping
<1>8. L!Change
  BY <1>1, <1>2, <1>5, <1>6, <1>7 DEF L!Change, Saved
<1> QED  BY <1>8 DEF L!LedgerNext

\* Something gets warm.
LEMMA WarmingImplements ==
    ASSUME IInv, IInv', NEW a \in Address, Recovers, NEW slots \in SUBSET Key,
           warmed' = [warmed EXCEPT ![a] = IF @ = None THEN slots ELSE @ \cup slots],
           UNCHANGED <<stores, caches, touchedForever, frames>>
    PROVE  L!LedgerNext
<1>1. trie' = trie /\ cache' = cache /\ frames' = frames /\ touchedForever' = touchedForever
  BY DEF stores, caches
<1>2. Saved' = Saved
  BY <1>1, SavedIsKept
<1>3. WorldIn(cache)' = WorldIn(cache) /\ Readable' = Readable
  BY <1>1, Mapping, NextMapping
<1>4. L!Change
  BY <1>1, <1>2, <1>3 DEF L!Change, Saved
<1> QED  BY <1>4 DEF L!LedgerNext

\* accessAddress.
LEMMA AccessAddressImplements ==
    ASSUME IInv, IInv', NEW a \in Address, AccessAddress(a)
    PROVE  L!LedgerNext
<1>1. /\ warmed[a] = None /\ warmed' = [warmed EXCEPT ![a] = {}]
      /\ UNCHANGED <<stores, caches, touchedForever, frames>>
  BY DEF AccessAddress
<1>2. warmed' = [warmed EXCEPT ![a] = IF @ = None THEN {} ELSE @ \cup {}]
  BY <1>1
<1>3. {} \in SUBSET Key /\ Recovers
  BY AccessAddressKeeps
<1> QED  BY <1>1, <1>2, <1>3, WarmingImplements

\* accessStorage.
LEMMA AccessStorageImplements ==
    ASSUME IInv, IInv', NEW a \in Address, NEW k \in Key, AccessStorage(a, k)
    PROVE  L!LedgerNext
<1>1. warmed' = [warmed EXCEPT ![a] = IF @ = None THEN {k} ELSE @ \cup {k}]
  BY DEF AccessStorage
<1>2. {k} \in SUBSET Key /\ Recovers /\ UNCHANGED <<stores, caches, touchedForever, frames>>
  BY AccessStorageKeeps DEF AccessStorage
<1> QED  BY <1>1, <1>2, WarmingImplements

\* The touch that is not reverted.
LEMMA TouchImplements ==
    ASSUME IInv, IInv', UnrevertableTouch
    PROVE  L!LedgerNext
<1>1. /\ touchedForever' = touchedForever \cup {Ripemd}
      /\ UNCHANGED <<trie, cache, warmed, log, frames>>
  BY DEF UnrevertableTouch, stores, caches
<1>2. WorldIn(cache)' = WorldIn(cache) /\ Readable' = Readable /\ Saved' = Saved
  BY <1>1, Mapping, NextMapping
<1>3. L!Doom
  BY <1>1, <1>2, ConstantsAssumption DEF L!Doom, Saved
<1> QED  BY <1>3 DEF L!LedgerNext

\* The copies are a sequence.
LEMMA SavedIsFcn == Saved = [i \in 1..Len(frames) |-> Saved[i]]
BY DEF Saved

\* savepoint takes a copy of the world.
LEMMA SavepointImplements ==
    ASSUME IInv, IInv', Savepoint
    PROVE  L!LedgerNext
<1>1. frames' = Append(frames, Len(log)) /\ UNCHANGED <<trie, cache, touchedForever, warmed, log>>
  BY DEF Savepoint, stores, caches
<1>2. frames \in Seq(0..MaxLog) /\ Len(frames) \in Nat /\ Len(log) \in Nat /\ Len(log) \in 0..MaxLog
  BY FramesAre
<1>3. /\ Len(frames') = Len(frames) + 1 /\ frames'[Len(frames) + 1] = Len(log)
      /\ \A i \in 1..Len(frames) : frames'[i] = frames[i]
  BY <1>1, <1>2
<1>4. WorldIn(cache)' = WorldIn(cache) /\ Readable' = Readable
  BY <1>1, Mapping, NextMapping
<1>5. warmed = [a \in Address |-> WarmLeft(warmed[a], log, a, Len(log))]
  BY <1>2, WarmLeftTop DEF IInv, TypeOK
<1>6. WorldIn(cache) = [a \in Address |-> Shown(Left(cache[a], log, a, Len(log)), trie[a])]
  BY <1>2, LeftTop, Mapping
<1>7. Append(Saved, <<WorldIn(cache), warmed>>)
        = [i \in 1..(Len(frames) + 1) |-> IF i = Len(frames) + 1 THEN <<WorldIn(cache), warmed>> ELSE Saved[i]]
  BY <1>2, SavedIsFcn, AppendFcn
<1>8. \A i \in 1..(Len(frames) + 1) :
        Saved'[i] = IF i = Len(frames) + 1 THEN <<WorldIn(cache), warmed>> ELSE Saved[i]
  <2> TAKE i \in 1..(Len(frames) + 1)
  <2>1. CASE i = Len(frames) + 1
    BY <1>1, <1>3, <1>5, <1>6, <2>1, NextMapping
  <2>2. CASE i # Len(frames) + 1
    <3>1. i \in 1..Len(frames)
      BY <1>2, <2>2
    <3>2. Saved[i] = <<[a \in Address |-> Shown(Left(cache[a], log, a, frames[i]), trie[a])],
                       [a \in Address |-> WarmLeft(warmed[a], log, a, frames[i])]>>
      BY <3>1, Mapping
    <3>3. Saved'[i] = <<[a \in Address |-> Shown(Left(cache'[a], log', a, frames'[i]), trie'[a])],
                        [a \in Address |-> WarmLeft(warmed'[a], log', a, frames'[i])]>>
      BY <1>3, NextMapping
    <3>4. frames'[i] = frames[i]
      BY <1>3, <3>1
    <3> QED  BY <1>1, <2>2, <3>2, <3>3, <3>4
  <2> QED  BY <2>1, <2>2
<1>9. Saved' = Append(Saved, <<WorldIn(cache), warmed>>)
  BY <1>3, <1>7, <1>8, NextMapping
<1>10. L!Save
  BY <1>1, <1>4, <1>9 DEF L!Save, Saved
<1> QED  BY <1>10 DEF L!LedgerNext

-----------------------------------------------------------------------------
(* Savepoints are left. *)

\* There is a copy for each held savepoint.
LEMMA SavedLen ==
    ASSUME IInv
    PROVE  Len(Saved) = Len(frames) /\ Len(frames) \in Nat /\ (Len(frames) > 0 => Saved # <<>>)
<1>1. Len(frames) \in Nat
  BY FramesAre
<1>2. Len(Saved) = Len(frames)
  BY <1>1, SavedIsFcn, FcnIsSeq
<1>3. Len(<<>>) = 0
  BY EmptySeq
<1> QED  BY <1>1, <1>2, <1>3

\* The copies that are still held.
LEMMA SavedIsCut ==
    ASSUME IInv, IInv', NEW n \in 1..Len(frames),
           Len(frames') = n - 1, \A i \in 1..(n - 1) : frames'[i] = frames[i],
           \A i \in 1..(n - 1) : \A a \in Address :
               /\ Shown(Left(cache'[a], log', a, frames[i]), trie[a])
                    = Shown(Left(cache[a], log, a, frames[i]), trie[a])
               /\ WarmLeft(warmed'[a], log', a, frames[i]) = WarmLeft(warmed[a], log, a, frames[i]),
           trie' = trie
    PROVE  Saved' = SubSeq(Saved, 1, n - 1)
<1>1. Len(frames) \in Nat /\ n - 1 \in 0..Len(frames) /\ \A i \in 1..(n - 1) : i \in 1..Len(frames)
  BY FramesAre
<1>2. SubSeq(Saved, 1, n - 1) = [i \in 1..(n - 1) |-> Saved[i]]
  BY <1>1, SavedIsFcn, CutFcn
<1>3. ASSUME NEW i \in 1..(n - 1) PROVE Saved'[i] = Saved[i]
  <2>1. Saved[i] = <<[a \in Address |-> Shown(Left(cache[a], log, a, frames[i]), trie[a])],
                     [a \in Address |-> WarmLeft(warmed[a], log, a, frames[i])]>>
    BY <1>1, Mapping
  <2>2. Saved'[i] = <<[a \in Address |-> Shown(Left(cache'[a], log', a, frames'[i]), trie'[a])],
                      [a \in Address |-> WarmLeft(warmed'[a], log', a, frames'[i])]>>
    BY NextMapping
  <2>3. frames'[i] = frames[i]
    OBVIOUS
  <2>4. [a \in Address |-> Shown(Left(cache'[a], log', a, frames[i]), trie[a])]
          = [a \in Address |-> Shown(Left(cache[a], log, a, frames[i]), trie[a])]
    OBVIOUS
  <2>5. [a \in Address |-> WarmLeft(warmed'[a], log', a, frames[i])]
          = [a \in Address |-> WarmLeft(warmed[a], log, a, frames[i])]
    OBVIOUS
  <2> QED  BY <2>1, <2>2, <2>3, <2>4, <2>5
<1>4. Saved' = [i \in 1..(n - 1) |-> Saved'[i]]
  BY NextMapping
<1>5. [i \in 1..(n - 1) |-> Saved'[i]] = [i \in 1..(n - 1) |-> Saved[i]]
  BY <1>3
<1> QED  BY <1>2, <1>4, <1>5

\* A call returns: its copy is forgotten.
LEMMA ReturnImplements ==
    ASSUME IInv, IInv', Return
    PROVE  L!LedgerNext
<1>1. /\ Len(frames) > 1 /\ frames' = Inner
      /\ UNCHANGED <<trie, cache, touchedForever, warmed, log>>
  BY DEF Return, stores, caches
<1>2. Len(frames) \in Nat /\ Len(frames) \in 1..Len(frames)
  BY <1>1, FramesAre
<1>3. Len(frames') = Len(frames) - 1 /\ \A i \in 1..(Len(frames) - 1) : frames'[i] = frames[i]
  BY <1>1, InnerIs
<1>4. Saved' = SubSeq(Saved, 1, Len(frames) - 1)
  BY <1>1, <1>2, <1>3, SavedIsCut
<1>5. WorldIn(cache)' = WorldIn(cache) /\ Readable' = Readable
  BY <1>1, Mapping, NextMapping
<1>7. Saved' = SubSeq(Saved, 1, Len(Saved) - 1) /\ Saved # <<>>
  BY <1>1, <1>4, SavedLen
<1>6. L!Keep
  BY <1>1, <1>5, <1>7, Zenon DEF L!Keep, Saved
<1> QED  BY <1>6 DEF L!LedgerNext

\* Back to the n-th savepoint.
LEMMA RestoreImplements ==
    ASSUME IInv, IInv', NEW n \in 1..Len(frames), RecoversTo(frames[n]), Len(log') = frames[n],
           Len(frames') = n - 1, \A i \in 1..(n - 1) : frames'[i] = frames[i],
           UNCHANGED <<trie, touchedForever>>
    PROVE  L!Restore(n)
<1>1. /\ Len(frames) \in Nat /\ Len(log) \in Nat
      /\ \A i \in 1..Len(frames) : frames[i] \in Base..Len(log)
      /\ \A i, j \in 1..Len(frames) : i <= j => frames[i] <= frames[j]
      /\ Base \in 0..Len(log)
  BY FramesAre, FramesAreAbove, BaseIsBelow
<1>2. ASSUME NEW i \in 1..(n - 1) PROVE frames[i] \in Base..frames[n]
  <2>1. i \in 1..Len(frames) /\ i <= n
    BY <1>1
  <2> QED  BY <1>1, <2>1
<1>3. Saved' = SubSeq(Saved, 1, n - 1)
  <2>1. ASSUME NEW i \in 1..(n - 1), NEW a \in Address
        PROVE  /\ Shown(Left(cache'[a], log', a, frames[i]), trie[a])
                    = Shown(Left(cache[a], log, a, frames[i]), trie[a])
               /\ WarmLeft(warmed'[a], log', a, frames[i]) = WarmLeft(warmed[a], log, a, frames[i])
    BY <1>2 DEF RecoversTo
  <2> QED  BY <2>1, SavedIsCut
<1>4. Saved[n] = <<[a \in Address |-> Shown(Left(cache[a], log, a, frames[n]), trie[a])],
                   [a \in Address |-> WarmLeft(warmed[a], log, a, frames[n])]>>
  BY Mapping
<1>5. \A a \in Address : /\ Shown(cache'[a], trie'[a]) = Shown(Left(cache[a], log, a, frames[n]), trie[a])
                         /\ warmed'[a] = WarmLeft(warmed[a], log, a, frames[n])
  BY <1>1, WorldIsKept
<1>6. WorldIn(cache)' = Saved[n][1]
  BY <1>4, <1>5, NextMapping
<1>7. warmed' = Saved[n][2]
  <2>1. warmed' \in [Address -> {None} \cup SUBSET Key]
    BY DEF IInv, TypeOK
  <2> QED  BY <1>4, <1>5, <2>1
<1>8. Readable' = Readable
  BY Mapping, NextMapping
<1> QED  BY <1>3, <1>6, <1>7, <1>8 DEF L!Restore, Saved

\* Putting back the first or the last copy is a step of the ledger.
LEMMA RestoreIsNext ==
    ASSUME IInv, NEW n \in 1..Len(frames), n = 1 \/ n = Len(frames), L!Restore(n)
    PROVE  L!LedgerNext
<1>1. n \in {j \in 1..Len(Saved) : j = 1 \/ j = Len(Saved)}
  BY SavedLen
<1> QED  BY <1>1 DEF L!LedgerNext, Saved

\* A call is reverted.
LEMMA RevertImplements ==
    ASSUME IInv, IInv', Revert
    PROVE  L!LedgerNext
<1>1. Len(frames) > 1 /\ frames' = Inner /\ UNCHANGED <<trie, touchedForever>>
  BY DEF Revert, Rollback, Undo, stores
<1>2. Len(frames) \in Nat /\ Len(frames) \in 1..Len(frames)
  BY <1>1, FramesAre
<1>3. Len(frames') = Len(frames) - 1 /\ \A i \in 1..(Len(frames) - 1) : frames'[i] = frames[i]
  BY <1>1, InnerIs
<1>4. RecoversTo(frames[Len(frames)]) /\ Len(log') = frames[Len(frames)]
  BY RevertKeeps DEF Top
<1>5. L!Restore(Len(frames))
  BY <1>1, <1>2, <1>3, <1>4, RestoreImplements
<1> QED  BY <1>2, <1>5, RestoreIsNext

\* A transaction is thrown away.
LEMMA AbortImplements ==
    ASSUME IInv, IInv', Abort
    PROVE  L!LedgerNext
<1>1. Running /\ frames' = <<>> /\ UNCHANGED <<trie, touchedForever>>
  BY DEF Abort, Rollback, Undo, stores
<1>2. Len(frames) \in Nat /\ 1 \in 1..Len(frames)
  BY <1>1, FramesAre
<1>3. Len(frames') = 1 - 1 /\ \A i \in 1..(1 - 1) : frames'[i] = frames[i]
  BY <1>1, EmptySeq
<1>4. RecoversTo(frames[1]) /\ Len(log') = frames[1]
  BY AbortKeeps
<1>5. L!Restore(1)
  BY <1>1, <1>2, <1>3, <1>4, RestoreImplements
<1> QED  BY <1>2, <1>5, RestoreIsNext

-----------------------------------------------------------------------------
(* The end of a run, and the next root. *)

\* An entry of the trie is seen as the ledger sees it.
LEMMA SeenIs ==
    ASSUME NEW t \in Entry \cup {None}
    PROVE  Shown(None, t) = L!Seen(t)
<1>1. CASE t = None
  BY <1>1 DEF Shown, View, L!Seen
<1>2. CASE t # None
  <2> DEFINE x == FromTrie(t)
  <2>1. t \in Entry /\ x \in Account
    BY <1>2, FromTrieIsAccount
  <2>2. x # None
    BY <2>1, NoneAssumption
  <2>3. x.nonce = t.nonce /\ x.balance = t.balance /\ x.code = t.code /\ x.root = t.root
        /\ x.overlay = NoOverlay /\ x.original = NoOverlay /\ x.dirty = FALSE
    BY DEF FromTrie
  <2> HIDE DEF x
  <2>4. \A k \in Key : StorageValue(x, k) = t.root[k] /\ OriginalValue(x, k) = t.root[k]
    BY <2>3 DEF StorageValue, OriginalValue, NoOverlay
  <2>5. t.root = [k \in Key |-> t.root[k]]
    BY <2>1 DEF Entry
  <2>6. [k \in Key |-> StorageValue(x, k)] = t.root /\ [k \in Key |-> OriginalValue(x, k)] = t.root
    BY <2>4, <2>5
  <2>7. View(x) = [nonce |-> t.nonce, balance |-> t.balance, code |-> t.code,
                   storage |-> t.root, original |-> t.root, touched |-> FALSE]
    BY <2>2, <2>3, <2>6 DEF View
  <2>8. Shown(None, t) = View(x)
    BY <1>2 DEF Shown, x
  <2> QED  BY <1>2, <2>7, <2>8 DEF L!Seen
<1> QED  BY <1>1, <1>2

\* With nothing cached the world is what the trie shows.
LEMMA EmptiedWorld ==
    ASSUME IInv', cache' = [a \in Address |-> None]
    PROVE  WorldIn(cache)' = L!WorldOf(Readable')
<1>1. Readable' = trie' /\ trie' \in [Address -> Entry \cup {None}]
  BY NextMapping DEF IInv, TypeOK
<1>2. \A a \in Address : Shown(cache'[a], trie'[a]) = L!Seen(trie'[a])
  BY <1>1, SeenIs
<1>3. WorldIn(cache)' = [a \in Address |-> L!Seen(trie'[a])]
  BY <1>2, NextMapping
<1> QED  BY <1>1, <1>3 DEF L!WorldOf

\* With no savepoint held there is no copy.
LEMMA EmptiedSaved ==
    ASSUME IInv', frames' = <<>>
    PROVE  Saved' = <<>>
<1>1. Len(frames') = 0
  BY EmptySeq
<1>2. Saved' = [i \in 1..0 |-> Saved'[i]]
  BY <1>1, NextMapping
<1> QED  BY <1>2, NoFcn

\* A run whose changes are dropped.
LEMMA DropImplements ==
    ASSUME IInv, IInv', Drop
    PROVE  L!LedgerNext
<1>1. /\ cache' = [a \in Address |-> None] /\ frames' = <<>>
      /\ UNCHANGED <<trie, touchedForever, warmed>>
  BY DEF Drop, stores
<1>2. Readable' = Readable
  BY <1>1, Mapping, NextMapping
<1>3. WorldIn(cache)' = L!WorldOf(Readable) /\ Saved' = <<>>
  BY <1>1, <1>2, EmptiedWorld, EmptiedSaved
<1>4. L!Discard
  BY <1>1, <1>2, <1>3 DEF L!Discard, Saved
<1> QED  BY <1>4 DEF L!LedgerNext

\* setRoot.
LEMMA SetRootImplements ==
    ASSUME IInv, IInv', NEW root \in {trie} \cup Roots, SetRoot(root)
    PROVE  L!LedgerNext
<1>1. /\ trie' = root /\ cache' = [a \in Address |-> None]
      /\ warmed' = [a \in Address |-> None] /\ frames = <<>> /\ frames' = <<>>
      /\ UNCHANGED touchedForever
  BY DEF SetRoot, Running
<1>2. Readable' \in {Readable} \cup Roots
  BY <1>1, Mapping, NextMapping
<1>3. WorldIn(cache)' = L!WorldOf(Readable') /\ Saved' = <<>>
  BY <1>1, EmptiedWorld, EmptiedSaved
<1>4. Saved = <<>>
  <2>1. Len(frames) = 0
    BY <1>1, EmptySeq
  <2>2. Saved = [i \in 1..0 |-> Saved[i]]
    BY <2>1, Mapping
  <2> QED  BY <2>2, NoFcn
<1>5. L!Reset
  BY <1>1, <1>2, <1>3, <1>4 DEF L!Reset, L!Cold, Saved
<1> QED  BY <1>5 DEF L!LedgerNext

\* What commit writes of an account is what was seen of it.
LEMMA WrittenIsSeen ==
    ASSUME NEW x \in Account, Coherent(x)
    PROVE  Written(x) = [nonce |-> View(x).nonce, balance |-> View(x).balance,
                         root |-> View(x).storage, code |-> View(x).code]
<1>1. \A k \in Key : (IF x.overlay[k] # None THEN x.overlay[k] ELSE x.root[k]) = StorageValue(x, k)
  BY DEF Coherent, StorageValue, OriginalValue
<1>2. [k \in Key |-> IF x.overlay[k] # None THEN x.overlay[k] ELSE x.root[k]]
        = [k \in Key |-> StorageValue(x, k)]
  BY <1>1
<1>3. Written(x) = [nonce |-> x.nonce, balance |-> x.balance, root |-> [k \in Key |-> StorageValue(x, k)],
                    code |-> x.code]
  BY <1>2 DEF Written
<1>4. /\ View(x).nonce = x.nonce /\ View(x).balance = x.balance /\ View(x).code = x.code
      /\ View(x).storage = [k \in Key |-> StorageValue(x, k)]
  BY ViewIs
<1> QED  BY <1>3, <1>4

\* An entry is what is seen of it.
LEMMA SeenEntry ==
    ASSUME NEW t \in Entry
    PROVE  t = [nonce |-> View(FromTrie(t)).nonce, balance |-> View(FromTrie(t)).balance,
                root |-> View(FromTrie(t)).storage, code |-> View(FromTrie(t)).code]
<1>1. t # None
  BY NoneAssumption
<1>2. View(FromTrie(t)) = L!Seen(t)
  <2>1. Shown(None, t) = L!Seen(t)
    BY SeenIs
  <2> QED  BY <1>1, <2>1 DEF Shown
<1>3. L!Seen(t) = [nonce |-> t.nonce, balance |-> t.balance, code |-> t.code,
                   storage |-> t.root, original |-> t.root, touched |-> FALSE]
  BY <1>1 DEF L!Seen
<1>4. t = [nonce |-> t.nonce, balance |-> t.balance, root |-> t.root, code |-> t.code]
  BY DEF Entry
<1> QED  BY <1>2, <1>3, <1>4

\* The world has what account() finds.
LEMMA WorldIsLoaded ==
    ASSUME IInv, NEW a \in Address
    PROVE  /\ WorldIn(cache)[a] = View(Loaded(a))
           /\ Loaded(a) = None <=> WorldIn(cache)[a] = None
           /\ Loaded(a) # None =>
                /\ WorldIn(cache)[a].touched = (Loaded(a).dirty /\ IsEmpty(Loaded(a)))
                /\ L!Empty(WorldIn(cache)[a]) <=> IsEmpty(Loaded(a))
<1>1. Loaded(a) = IF cache[a] # None THEN cache[a]
                  ELSE IF trie[a] = None THEN None ELSE FromTrie(trie[a])
  BY LoadedIsSound
<1>2. WorldIn(cache)[a] = View(Loaded(a))
  BY <1>1, Mapping DEF Shown
<1>3. Loaded(a) # None => Loaded(a) \in Account
  BY LoadedAccount
<1>4. Loaded(a) = None => View(Loaded(a)) = None
  BY DEF View
<1>5. CASE Loaded(a) = None
  BY <1>2, <1>4, <1>5
<1>6. CASE Loaded(a) # None
  <2>1. /\ View(Loaded(a)) # None
        /\ View(Loaded(a)).touched = (Loaded(a).dirty /\ IsEmpty(Loaded(a)))
        /\ L!Empty(View(Loaded(a))) <=> IsEmpty(Loaded(a))
    BY <1>3, <1>6, ViewIs
  <2> QED  BY <1>2, <1>6, <2>1 DEF L!Empty
<1> QED  BY <1>5, <1>6

\* The ledger removes the accounts that commit removes.
LEMMA GoneIs ==
    ASSUME IInv, NEW killed \in SUBSET Address, NEW removeEmpty \in BOOLEAN, NEW a \in Address
    PROVE  a \in L!Gone(killed, removeEmpty) <=> Loaded(a) = None \/ a \in Removed(killed, removeEmpty)
<1>1. CASE Loaded(a) = None
  <2>1. WorldIn(cache)[a] = None
    BY <1>1, WorldIsLoaded
  <2> QED  BY <1>1, <2>1 DEF L!Gone
<1>2. CASE Loaded(a) # None
  <2>1. /\ WorldIn(cache)[a] # None
        /\ WorldIn(cache)[a].touched = (Loaded(a).dirty /\ IsEmpty(Loaded(a)))
        /\ L!Empty(WorldIn(cache)[a]) <=> IsEmpty(Loaded(a))
    BY <1>2, WorldIsLoaded
  <2>2. a \in L!Gone(killed, removeEmpty) <=>
          \/ a \in killed
          \/ removeEmpty /\ L!Empty(WorldIn(cache)[a])
             /\ (WorldIn(cache)[a].touched \/ a \in touchedForever)
    BY <2>1 DEF L!Gone
  <2>3. a \in Removed(killed, removeEmpty) <=>
          \/ a \in killed
          \/ removeEmpty /\ IsEmpty(Loaded(a)) /\ (Loaded(a).dirty \/ a \in touchedForever)
    BY <1>2 DEF Removed, Exists
  <2> HIDE DEF IsEmpty
  <2>4. L!Empty(WorldIn(cache)[a]) /\ (WorldIn(cache)[a].touched \/ a \in touchedForever)
          <=> IsEmpty(Loaded(a)) /\ (Loaded(a).dirty \/ a \in touchedForever)
    BY <2>1
  <2> QED  BY <1>2, <2>2, <2>3, <2>4
<1> QED  BY <1>1, <1>2

\* commit.
LEMMA CommitImplements ==
    ASSUME IInv, IInv', NEW killed \in SUBSET Contracts, NEW removeEmpty \in BOOLEAN,
           Commit(killed, removeEmpty)
    PROVE  L!LedgerNext
<1> DEFINE R == Removed(killed, removeEmpty)
           w == WorldIn(cache)
<1> HIDE DEF R, w
<1>1. /\ trie' = [a \in Address |-> IF a \in R THEN None
                                    ELSE IF cache[a] # None /\ cache[a].dirty THEN Written(cache[a])
                                    ELSE trie[a]]
      /\ warmed' = [a \in Address |-> None]
      /\ cache' = [a \in Address |-> None] /\ frames' = <<>> /\ UNCHANGED touchedForever
  BY DEF Commit, R
<1>2. killed \in SUBSET Address
  BY DEF Contracts
<1>3. ASSUME NEW a \in Address
      PROVE  trie'[a] = IF a \in L!Gone(killed, removeEmpty) THEN None
                        ELSE [nonce |-> w[a].nonce, balance |-> w[a].balance,
                              root |-> w[a].storage, code |-> w[a].code]
  <2>1. /\ Loaded(a) = IF cache[a] # None THEN cache[a]
                       ELSE IF trie[a] = None THEN None ELSE FromTrie(trie[a])
        /\ Loaded(a) = None => cache[a] = None /\ trie[a] = None
        /\ Grounded(Loaded(a), trie[a], codes)
    BY LoadedIsSound
  <2>2. w[a] = View(Loaded(a))
    BY WorldIsLoaded DEF w
  <2>3. a \in L!Gone(killed, removeEmpty) <=> Loaded(a) = None \/ a \in R
    BY <1>2, GoneIs DEF R
  <2>4. CASE Loaded(a) = None \/ a \in R
    BY <1>1, <2>1, <2>3, <2>4
  <2>5. CASE Loaded(a) # None /\ a \notin R /\ cache[a] # None /\ cache[a].dirty
    <3>1. Loaded(a) = cache[a] /\ cache[a] \in Account /\ Coherent(cache[a])
      BY <2>1, <2>5, LoadedAccount
    <3>2. trie'[a] = Written(cache[a])
      BY <1>1, <2>5
    <3>3. Written(cache[a]) = [nonce |-> View(cache[a]).nonce, balance |-> View(cache[a]).balance,
                               root |-> View(cache[a]).storage, code |-> View(cache[a]).code]
      BY <3>1, WrittenIsSeen
    <3> QED  BY <2>2, <2>3, <2>5, <3>1, <3>2, <3>3
  <2>6. CASE Loaded(a) # None /\ a \notin R /\ ~(cache[a] # None /\ cache[a].dirty)
    <3>1. trie[a] # None /\ View(Loaded(a)) = View(FromTrie(trie[a]))
      <4>1. CASE cache[a] = None
        BY <2>1, <2>6, <4>1
      <4>2. CASE cache[a] # None
        BY <2>1, <2>6, <4>2 DEF Grounded
      <4> QED  BY <4>1, <4>2
    <3>2. trie'[a] = trie[a]
      BY <1>1, <2>6
    <3>3. trie[a] \in Entry
      BY <3>1 DEF IInv, TypeOK
    <3>4. trie[a] = [nonce |-> View(FromTrie(trie[a])).nonce, balance |-> View(FromTrie(trie[a])).balance,
                     root |-> View(FromTrie(trie[a])).storage, code |-> View(FromTrie(trie[a])).code]
      BY <3>3, SeenEntry
    <3> QED  BY <2>2, <2>3, <2>6, <3>1, <3>2, <3>4
  <2> QED  BY <2>4, <2>5, <2>6
<1>4. Readable' = trie' /\ WorldIn(cache)' = L!WorldOf(Readable') /\ Saved' = <<>>
  BY <1>1, NextMapping, EmptiedWorld, EmptiedSaved
<1>5. Readable' = [a \in Address |->
                     IF a \in L!Gone(killed, removeEmpty) THEN None
                     ELSE [nonce |-> w[a].nonce, balance |-> w[a].balance,
                           root |-> w[a].storage, code |-> w[a].code]]
  <2>1. trie' \in [Address -> Entry \cup {None}]
    BY DEF IInv, TypeOK
  <2> QED  BY <1>3, <1>4, <2>1
<1>6. L!Settle(killed, removeEmpty)
  BY <1>1, <1>4, <1>5, Zenon DEF L!Settle, L!Cold, Saved, w
<1> QED  BY <1>2, <1>6 DEF L!LedgerNext
-----------------------------------------------------------------------------
\* The initial states are the ledger's.
LEMMA InitImplements == ASSUME Init PROVE L!LedgerInit
<1>1. IInv
  BY InitHasInv
<1>2. /\ trie \in Roots /\ cache = [a \in Address |-> None]
      /\ touchedForever = {} /\ warmed = [a \in Address |-> None] /\ frames = <<>>
  BY DEF Init
<1>3. Readable = trie /\ trie \in [Address -> Entry \cup {None}]
  BY <1>1, Mapping DEF IInv, TypeOK
<1>4. \A a \in Address : Shown(cache[a], trie[a]) = L!Seen(trie[a])
  BY <1>2, <1>3, SeenIs
<1>5. WorldIn(cache) = L!WorldOf(Readable)
  <2>1. WorldIn(cache) = [a \in Address |-> L!Seen(trie[a])]
    BY <1>1, <1>4, Mapping
  <2> QED  BY <1>3, <2>1 DEF L!WorldOf
<1>6. Saved = <<>>
  <2>1. Len(frames) = 0
    BY <1>2, EmptySeq
  <2>2. Saved = [i \in 1..0 |-> Saved[i]]
    BY <1>1, <2>1, Mapping
  <2> QED  BY <2>2, NoFcn
<1> QED  BY <1>2, <1>3, <1>5, <1>6, Zenon DEF L!LedgerInit, L!Cold, Saved

\* addBalance and subBalance.
LEMMA IncreaseImplements ==
    ASSUME IInv, IInv', NEW a \in Address, NEW v \in Value, AddBalance(a, v) \/ SubBalance(a, v)
    PROVE  L!LedgerNext
<1>1. Changes(a)
  BY AddBalanceKeeps, SubBalanceKeeps
<1>2. UNCHANGED <<stores, touchedForever, warmed, frames>>
  BY DEF AddBalance, SubBalance
<1> QED  BY <1>1, <1>2, ChangesImplement

\* The other changes of one account.
LEMMA AccountImplements ==
    ASSUME IInv, IInv', NEW a \in Address,
           \/ IncNonce(a) \/ SetNonce(a) \/ ClearStorage(a)
           \/ \E c \in Code \cup {NoCode} : SetCode(a, c)
           \/ \E k \in Key, v \in Value : SetStorage(a, k, v)
    PROVE  L!LedgerNext
<1>1. Changes(a)
  BY IncNonceKeeps, SetNonceKeeps, ClearStorageKeeps, SetCodeKeeps, SetStorageKeeps
<1>2. UNCHANGED <<stores, touchedForever, warmed, frames>>
  BY DEF IncNonce, SetNonce, ClearStorage, SetCode, SetStorage
<1> QED  BY <1>1, <1>2, ChangesImplement

\* Reads: the ledger does not move.
LEMMA ReadImplements ==
    ASSUME IInv, IInv', NEW a \in Address, Read(a) \/ \E k \in Key : ReadStorage(a, k)
    PROVE  UNCHANGED L!ledgerVars
<1>1. Recovers
  BY ReadKeeps, ReadStorageKeeps
<1>2. UNCHANGED <<stores, touchedForever, warmed, log, frames>>
  BY DEF Read, ReadStorage
<1> QED  BY <1>1, <1>2, SilentIsStutter

\* Every step is one of the ledger's, or none.
LEMMA NextImplements == ASSUME IInv, IInv', [Next]_vars PROVE [L!LedgerNext]_L!ledgerVars
<1>1. CASE UNCHANGED vars
  <2>1. UNCHANGED <<trie, cache, touchedForever, warmed, log, frames>>
    BY <1>1 DEF vars, stores, caches
  <2>2. WorldIn(cache)' = WorldIn(cache) /\ Readable' = Readable /\ Saved' = Saved
    BY <2>1, Mapping, NextMapping
  <2> QED  BY <2>1, <2>2 DEF L!ledgerVars, Saved
<1>2. ASSUME NEW a \in Address, Read(a) \/ \E k \in Key : ReadStorage(a, k) PROVE UNCHANGED L!ledgerVars
  BY <1>2, ReadImplements
<1>3. ASSUME NEW a \in Address, AccessAddress(a) \/ \E k \in Key : AccessStorage(a, k) PROVE L!LedgerNext
  BY <1>3, AccessAddressImplements, AccessStorageImplements
<1>4. ASSUME NEW a \in Address, NEW v \in Value, AddBalance(a, v) \/ SubBalance(a, v) PROVE L!LedgerNext
  BY <1>4, IncreaseImplements
<1>5. ASSUME NEW a \in Address,
             \/ IncNonce(a) \/ SetNonce(a) \/ ClearStorage(a)
             \/ \E c \in Code \cup {NoCode} : SetCode(a, c)
             \/ \E k \in Key, v \in Value : SetStorage(a, k, v)
      PROVE  L!LedgerNext
  BY <1>5, AccountImplements
<1>6. CASE UnrevertableTouch \/ Savepoint \/ Return \/ Revert \/ Abort \/ Drop
  BY <1>6, TouchImplements, SavepointImplements, ReturnImplements, RevertImplements, AbortImplements,
     DropImplements
<1>7. ASSUME NEW killed \in SUBSET Contracts, NEW removeEmpty \in BOOLEAN, Commit(killed, removeEmpty)
      PROVE  L!LedgerNext
  BY <1>7, CommitImplements
<1>8. ASSUME NEW root \in {trie} \cup Roots, SetRoot(root) PROVE L!LedgerNext
  BY <1>8, SetRootImplements
<1>9. Next => L!LedgerNext \/ UNCHANGED L!ledgerVars
  BY <1>2, <1>3, <1>4, <1>5, <1>6, <1>7, <1>8 DEF Next
<1> QED  BY <1>1, <1>9

\* No change disturbs a copy that a held savepoint stands for, rollback brings it back
\* whatever was cached, purged, created or overlaid since, and commit writes exactly what
\* was seen, with the code of every account (State's change log, caches and overlays).
THEOREM StateImplementsLedger == Spec => ImplementsLedger
<1>1. Init => L!LedgerInit
  BY InitImplements
<1>2. IInv /\ IInv' /\ [Next]_vars => [L!LedgerNext]_L!ledgerVars
  BY NextImplements
<1>3. Spec => []IInv
  BY InvHolds
<1> QED  BY <1>1, <1>2, <1>3, PTL DEF Spec, ImplementsLedger, L!LedgerSpec
=============================================================================
