-------------------------- MODULE TransactionQueue --------------------------
(***************************************************************************)
(* libethereum/TransactionQueue: the transactions that wait to be mined,   *)
(* in an order by nonce and gas price, those with a gap before their       *)
(* nonce, and the verifier threads that import what the network enqueues.  *)
(* A transaction stands for its hash.  Each public function holds m_lock   *)
(* from its first look to its last write, so that it is one action.        *)
(***************************************************************************)
EXTENDS Listing, SequencesExt

CONSTANTS
    Tx,          \* transactions, as records [from, nonce, price]
    TxVerifier,    \* the verifier threads
    Limit,       \* m_limit
    FutureLimit, \* m_futureLimit
    MaxDropped,  \* c_maxDroppedTransactionCount
    MaxUnverified, \* c_maxVerificationQueueSize
    NoTx

ASSUME TxAssumption ==
    /\ \A t \in Tx : t.nonce \in Nat /\ t.price \in Nat
    /\ Limit \in Nat /\ FutureLimit \in Nat

VARIABLES
    q,          \* what m_lock guards, see EmptyQueue
    unverified, \* m_unverified
    checking,   \* the transaction each verifier is at, or NoTx
    running,    \* the verifiers that have not returned
    aborting    \* m_aborting

queueVars == <<q, unverified, checking, running, aborting>>

\* A map from account and nonce to transactions is the set of its values.
EmptyQueue ==
    [current |-> <<>>, \* m_current, in the order of the multiset
     byHash  |-> {},   \* m_currentByHash
     byNonce |-> {},   \* m_currentByAddressAndNonce
     future  |-> {},   \* m_future
     futureSize |-> 0, \* m_futureSize
     known   |-> {},   \* m_known
     dropped |-> <<>>] \* m_dropped, the last one used first

QueueInit ==
    /\ q = EmptyQueue
    /\ unverified = <<>> /\ aborting = FALSE
    /\ checking = [v \in TxVerifier |-> NoTx] /\ running = TxVerifier

SameKey(t, u) == t.from = u.from /\ t.nonce = u.nonce
Of(account, txs) == {t \in txs : t.from = account}
-----------------------------------------------------------------------------
\* PriorityCompare: the distance from the account's first nonce in the queue,
\* then the higher price.  That distance changes as transactions come and go.
Height(s, t) == t.nonce - Min({u.nonce : u \in Of(t.from, s.byNonce)})
Before(s, t, u) ==
    \/ Height(s, t) < Height(s, u)
    \/ Height(s, t) = Height(s, u) /\ t.price > u.price

\* multiset::emplace walks down a tree: it ends at a place whose neighbours
\* compare right, the only one as long as the rest is in order.
Places(s, t) ==
    {i \in 0..Len(s.current) :
        /\ i > 0 => ~Before(s, t, s.current[i])
        /\ i < Len(s.current) => Before(s, t, s.current[i + 1])}

\* The map entry comes first, since the comparison reads it; an entry of the
\* same nonce is overwritten.
Placed(s, t) ==
    LET entered == [s EXCEPT !.byNonce = {u \in @ : ~SameKey(t, u)} \cup {t}, !.byHash = @ \cup {t}]
    IN  {[entered EXCEPT !.current = InsertAt(@, i + 1, t)] : i \in Places(entered, t)}

PlacedAll(s, ts) ==
    FoldLeft(LAMBDA states, t : UNION {Placed(r, t) : r \in states}, {s}, ts)

Removed(s, t) ==
    IF t \notin s.byHash THEN s
    ELSE [s EXCEPT !.byNonce = {u \in @ : ~SameKey(t, u)},
                   !.current = Without(@, {t}),
                   !.byHash = @ \ {t}, !.known = @ \ {t}]

\* The future transactions whose nonces follow on t without a gap.
Following(s, t) ==
    {u \in Of(t.from, s.future) :
        /\ u.nonce > t.nonce
        /\ \A n \in t.nonce + 1..u.nonce : \E w \in Of(t.from, s.future) : w.nonce = n}

\* One turn of the loop over m_futureSize: the last future transaction of some
\* account leaves the queue.
Evicted(s) ==
    {[s EXCEPT !.futureSize = @ - 1, !.future = @ \ {t}] :
        t \in {u \in s.future : \A w \in Of(u.from, s.future) : w.nonce <= u.nonce}}

MakeCurrent(s, t) ==
    LET ready == Following(s, t)
        moved == [s EXCEPT !.future = @ \ ready, !.futureSize = @ - Cardinality(ready)]
        excess == Max({0, moved.futureSize - FutureLimit})
        inOrder == InOrder(ready, LAMBDA u, w : u.nonce < w.nonce)
    IN  FoldLeft(LAMBDA states, n : UNION {Evicted(r) : r \in states},
                 PlacedAll(moved, inOrder), [n \in 1..excess |-> n])

\* Bug variant: the future entry of the nonce is found but left.
BugWithoutFuture(s, t) == s

\* The future transaction with the nonce of t is erased, but not from m_known.
WithoutFuture(s, t) ==
    LET same == {u \in s.future : SameKey(t, u)}
    IN  [s EXCEPT !.future = @ \ same, !.futureSize = @ - Cardinality(same)]

\* The loop that keeps to m_limit.
Trim(s) ==
    FoldLeft(LAMBDA r, n : Removed(r, Last(r.current)), s,
             [n \in 1..Max({0, Len(s.current) - Limit}) |-> n])

InsertCurrent(s, t) ==
    {[r EXCEPT !.known = @ \cup {t}] : r \in UNION {MakeCurrent(p, t) : p \in Placed(s, t)}}

Overbid(t, rivals) == \E u \in rivals : SameKey(t, u) /\ t.price < u.price

\* manageImport_WITH_LOCK: a price below that of the same nonce is refused, but
\* what is current goes before what is future is looked at.
Manage(s, t) ==
    LET freed == FoldSet(LAMBDA u, r : Removed(r, u), s, {u \in s.byNonce : SameKey(t, u)})
    IN  IF Overbid(t, s.byNonce) THEN {s}
        ELSE IF Overbid(t, freed.future) THEN {freed}
        ELSE {Trim(r) : r \in InsertCurrent(WithoutFuture(freed, t), t)}

\* LruCache: touch and insert move to the front, the last one makes room.
Touched(s, t) == IF t \in ToSet(s) THEN <<t>> \o Without(s, {t}) ELSE s
Inserted(s, t) ==
    IF t \in ToSet(s) THEN Touched(s, t)
    ELSE <<t>> \o (IF Len(s) = MaxDropped THEN Front(s) ELSE s)

\* import(): a transaction that was dropped is let in only to be retried.
Imported(s, t, retry) ==
    IF t \in s.known THEN {s}
    ELSE LET touched == [s EXCEPT !.dropped = Touched(@, t)]
         IN  IF t \in ToSet(s.dropped) /\ ~retry THEN {touched} ELSE Manage(touched, t)
-----------------------------------------------------------------------------
ImportTx(t, retry) ==
    /\ ~aborting
    /\ q' \in Imported(q, t, retry)
    /\ UNCHANGED <<unverified, checking, running, aborting>>

Drop(t) ==
    /\ ~aborting /\ t \in q.known
    /\ q' = Removed([q EXCEPT !.dropped = Inserted(@, t)], t)
    /\ UNCHANGED <<unverified, checking, running, aborting>>

DropGood(t) ==
    /\ ~aborting
    /\ \E s \in MakeCurrent(q, t) : q' = IF t \in s.known THEN Removed(s, t) ELSE s
    /\ UNCHANGED <<unverified, checking, running, aborting>>

\* Bug variant: only the transaction itself is moved out of the current ones.
BugSetFuture(t) ==
    /\ ~aborting /\ t \in q.byHash
    /\ q' = [q EXCEPT !.byHash = @ \ {t}, !.byNonce = @ \ {t}, !.future = @ \cup {t},
                      !.current = Without(@, {t}),
                      !.futureSize = @ + Cardinality({u \in Of(t.from, q.byNonce) : u.nonce >= t.nonce})]
    /\ UNCHANGED <<unverified, checking, running, aborting>>

\* t and what follows on it wait until the nonce before them is there; one whose
\* nonce is already among the future ones is lost, and counted.
SetFuture(t) ==
    /\ ~aborting /\ t \in q.byHash
    /\ LET moving == {u \in Of(t.from, q.byNonce) : u.nonce >= t.nonce}
           new == {u \in moving : ~\E w \in q.future : SameKey(u, w)}
       IN  q' = [q EXCEPT !.byHash = @ \ moving, !.byNonce = @ \ moving,
                          !.current = Without(@, moving),
                          !.future = @ \cup new, !.futureSize = @ + Cardinality(moving)]
    /\ UNCHANGED <<unverified, checking, running, aborting>>

\* What is on its way through the verifiers stays.
ClearTxs ==
    /\ ~aborting
    /\ q' = EmptyQueue
    /\ UNCHANGED <<unverified, checking, running, aborting>>

Enqueue(t) ==
    /\ ~aborting /\ Len(unverified) < MaxUnverified
    /\ unverified' = Append(unverified, t)
    /\ UNCHANGED <<q, checking, running, aborting>>

\* verifierBody: takes the next transaction, then imports it under the other lock.
TakeTx(v) ==
    /\ v \in running /\ checking[v] = NoTx /\ ~aborting /\ unverified # <<>>
    /\ checking' = [checking EXCEPT ![v] = Head(unverified)]
    /\ unverified' = Tail(unverified)
    /\ UNCHANGED <<q, running, aborting>>

CheckTx(v) ==
    /\ checking[v] # NoTx
    /\ q' \in Imported(q, checking[v], FALSE)
    /\ checking' = [checking EXCEPT ![v] = NoTx]
    /\ UNCHANGED <<unverified, running, aborting>>

Return(v) ==
    /\ v \in running /\ checking[v] = NoTx /\ aborting
    /\ running' = running \ {v}
    /\ UNCHANGED <<q, unverified, checking, aborting>>

\* The destructor, which then joins the verifiers.
Abort ==
    /\ ~aborting /\ aborting' = TRUE
    /\ UNCHANGED <<q, unverified, checking, running>>

QueueNext ==
    \/ \E t \in Tx :
        \/ \E retry \in BOOLEAN : ImportTx(t, retry)
        \/ Drop(t) \/ DropGood(t) \/ SetFuture(t) \/ Enqueue(t)
    \/ \E v \in TxVerifier : TakeTx(v) \/ CheckTx(v) \/ Return(v)
    \/ ClearTxs \/ Abort

QueueSpec == QueueInit /\ [][QueueNext]_queueVars
-----------------------------------------------------------------------------
(***************************************************************************)
(* Properties                                                              *)
(***************************************************************************)

\* The three indices of the current transactions hold the same ones, no nonce
\* of an account is queued twice, the count of future transactions is right,
\* and whatever is queued is known.  The loops of makeCurrent_WITH_LOCK and
\* manageImport_WITH_LOCK end, and stay inside their containers, because of it.
QueueIsConsistent ==
    LET all == q.byNonce \cup q.future
    IN  /\ ToSet(q.current) = q.byHash /\ q.byNonce = q.byHash
        /\ IsInjective(q.current)
        /\ \A t, u \in all : SameKey(t, u) => t = u
        /\ q.futureSize = Cardinality(q.future)
        /\ all \subseteq q.known

\* "The comparator takes into account min account nonce. Updating it does not
\* affect the order."
OrderHolds ==
    \A i, j \in DOMAIN q.current : i < j => ~Before(q, q.current[j], q.current[i])
=============================================================================
