----------------------------- MODULE StateLedger -----------------------------
(***************************************************************************)
(* StateJournal implements Ledger: the world is what account() finds, and  *)
(* a saved copy is the world that undoing the change log down to a held    *)
(* savepoint would bring back.                                             *)
(***************************************************************************)
EXTENDS StateJournal

WorldIn(accounts) == [a \in Address |-> View(Found(accounts, a))]

CopyAt(n) == <<WorldIn([a \in Address |-> AccountAt(a, n)]), [a \in Address |-> WarmAt(a, n)]>>

\* An account of the trie whose code is not in the database cannot be read.
Readable == [a \in Address |-> IF trie[a] # None /\ trie[a].code \notin codes \cup {NoCode} THEN None
                              ELSE trie[a]]

L == INSTANCE Ledger WITH
    world <- WorldIn(cache),
    warm <- warmed,
    doomed <- touchedForever,
    saved <- [i \in 1..Len(frames) |-> CopyAt(frames[i])],
    committed <- Readable

\* No change disturbs a copy that a held savepoint stands for, rollback brings
\* it back whatever was cached, purged, created or overlaid since, and commit
\* writes exactly what was seen, with the code of every account (State's change log,
\* caches and overlays, m_hasNewCode).
ImplementsLedger == L!LedgerSpec
=============================================================================
