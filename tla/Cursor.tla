------------------------------- MODULE Cursor -------------------------------
(***************************************************************************)
(* What an iterator over a range promises its user: next() gives the keys  *)
(* of the range in order, each one once, then says that there are no more; *)
(* seek() goes to a target of the range, forward or back, or to the end.   *)
(* A limit bounds what is given in total.                                  *)
(***************************************************************************)
EXTENDS Integers

CONSTANTS
    NoMore,       \* the answer of next() that has no more keys
    Nothing,   \* next() was not called since the start or the last seek()
    seekable   \* targets of seek()

VARIABLES
    keys,      \* the keys of the range: those stored when the iterator was made
    targets,   \* what the range options admit, stored or not
    reverse,   \* from the last key to the first
    rest,      \* keys to come if nobody seeks
    allowance, \* how many more keys can be given, -1 if there is no limit
    answer     \* the last answer of next()

cursorVars == <<keys, targets, reverse, rest, allowance, answer>>

Ahead(k, l) == IF reverse THEN l <= k ELSE k <= l
Leads(k, S) == k \in S /\ \A l \in S : Ahead(k, l)

CursorInit ==
    /\ keys \subseteq targets
    /\ rest = IF allowance = 0 THEN {} ELSE keys
    /\ answer = Nothing

Give ==
    /\ Leads(answer', rest)
    /\ allowance' = IF allowance < 0 THEN allowance ELSE allowance - 1
    /\ rest' = IF allowance' = 0 THEN {} ELSE rest \ {answer'}
    /\ UNCHANGED <<keys, targets, reverse>>

Stop ==
    /\ rest = {}
    /\ answer' = NoMore
    /\ UNCHANGED <<keys, targets, reverse, rest, allowance>>

\* Keys that were fetched but not given yet are lost to the limit.
SeekTo(target) ==
    /\ allowance' <= allowance /\ (allowance < 0 <=> allowance' < 0)
    /\ rest' = IF allowance' # 0 /\ target \in targets THEN {k \in keys : Ahead(target, k)} ELSE {}
    /\ answer' = Nothing
    /\ UNCHANGED <<keys, targets, reverse>>

CursorNext == Give \/ Stop \/ \E target \in seekable : SeekTo(target)

CursorSpec == CursorInit /\ [][CursorNext]_cursorVars
=============================================================================
