------------------------------ MODULE OverlayDB ------------------------------
(***************************************************************************)
(* libdevcore/StateCacheDB and OverlayDB: trie nodes in memory with a      *)
(* reference count each, over a store that only ever grows.  A node stands *)
(* for its hash as well.  commit() is the loop of the code: ten attempts   *)
(* on one write batch, which the first attempt gives away.                 *)
(***************************************************************************)
EXTENDS Naturals, Functions

CONSTANT Attempts \* how often commit() tries: 10 in the code

VARIABLES
    main,    \* m_main: the reference count of each node in memory
    aux,     \* m_aux: the key preimages in memory
    store,   \* the nodes in the backing store
    auxStore,\* the preimages in the backing store
    attempt, \* the attempt commit() is at, 0 when it is not running
    writeBatch, \* the write batch: does it still hold the writes, or was it moved?
    refused, \* how often the store has refused to write during this commit()
    exited   \* the process has called exit()

overlayVars == <<main, aux, store, auxStore, attempt, writeBatch, refused, exited>>

\* With what an earlier process may have stored.
OverlayInit(nodes, preimages) ==
    /\ main = <<>> /\ aux = {} /\ store = nodes /\ auxStore = preimages
    /\ attempt = 0 /\ writeBatch = "null" /\ refused = 0 /\ exited = FALSE
-----------------------------------------------------------------------------
\* The memory after insert(n), and after kill(n), which only logs when it counts
\* no reference to n.
BugInsertNode(m, n) ==
    IF n \in DOMAIN m THEN m ELSE [x \in DOMAIN m \cup {n} |-> IF x = n THEN 1 ELSE m[x]]

InsertNode(m, n) ==
    IF n \in DOMAIN m THEN [m EXCEPT ![n] = @ + 1]
                      ELSE [x \in DOMAIN m \cup {n} |-> IF x = n THEN 1 ELSE m[x]]

KillNode(m, n) == IF n \in DOMAIN m /\ m[n] > 0 THEN [m EXCEPT ![n] = @ - 1] ELSE m

BugCounted == {n \in DOMAIN main : main[n] = 1}

Counted == {n \in DOMAIN main : main[n] > 0}

\* lookup() and exists(): a node no longer referenced is still found in memory.
Found(n) == n \in DOMAIN main \/ n \in store

Idle == attempt = 0 /\ ~exited

Purge ==
    /\ Idle
    /\ main' = Restrict(main, Counted)
    /\ UNCHANGED <<aux, store, auxStore, attempt, writeBatch, refused, exited>>

CommitBegin ==
    /\ Idle
    /\ attempt' = 1 /\ writeBatch' = "full" /\ refused' = 0
    /\ UNCHANGED <<main, aux, store, auxStore, exited>>

\* std::move gives the batch away whatever happens then.
CommitWrites ==
    /\ attempt > 0 /\ writeBatch = "full"
    /\ store' = store \cup Counted /\ auxStore' = auxStore \cup aux
    /\ main' = <<>> /\ aux' = {}
    /\ attempt' = 0 /\ writeBatch' = "null"
    /\ UNCHANGED <<refused, exited>>

\* Either the store refuses the batch or "Cannot commit null batch" is thrown.
CommitThrows ==
    /\ attempt > 0
    /\ refused' = IF writeBatch = "full" THEN refused + 1 ELSE refused
    /\ writeBatch' = "null"
    /\ IF attempt = Attempts THEN exited' = TRUE /\ attempt' = 0
                             ELSE attempt' = attempt + 1 /\ UNCHANGED exited
    /\ UNCHANGED <<main, aux, store, auxStore>>

Rollback ==
    /\ Idle
    /\ main' = <<>>
    /\ UNCHANGED <<aux, store, auxStore, attempt, writeBatch, refused, exited>>

\* A new process over the same store.
Reopen ==
    /\ exited
    /\ exited' = FALSE /\ main' = <<>> /\ aux' = {} /\ refused' = 0
    /\ UNCHANGED <<store, auxStore, attempt, writeBatch>>
-----------------------------------------------------------------------------
\* "Error writing to state database ... Sleeping for n seconds, then retrying":
\* the process gives up only when the store has refused the write ten times
\* (OverlayDB::commit).
GivesUpAfterTenRefusals == exited => refused = Attempts
=============================================================================
