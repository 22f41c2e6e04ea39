------------------------------- MODULE Listing -------------------------------
(***************************************************************************)
(* Sets as sequences and parts of sequences, without recursion, so that    *)
(* the proofs can speak of them.                                           *)
(***************************************************************************)
EXTENDS Naturals, FiniteSets

\* The members of a finite set, of which the one that comes before the other is told.
InOrder(S, Before(_, _)) ==
    [i \in 1..Cardinality(S) |-> CHOOSE x \in S : Cardinality({y \in S : Before(y, x)}) = i - 1]

\* The elements of a sequence at some places, those that pass a test, and those
\* that are not in a set.  (What a set of one binds is found once, however often it
\* is looked at.)
TheOne(set) == CHOOSE x \in set : TRUE
ElementsAt(s, places) == [i \in 1..Cardinality(places) |-> s[InOrder(places, <)[i]]]
Picked(s, places) == TheOne({ElementsAt(t, P) : t \in {s}, P \in {places}})
Selected(s, Test(_)) == TheOne({Picked(t, {i \in DOMAIN t : Test(t[i])}) : t \in {s}})
Without(s, set) == Selected(s, LAMBDA x : x \notin set)
=============================================================================
