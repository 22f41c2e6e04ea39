--------------------------- MODULE DatabaseSession ---------------------------
(***************************************************************************)
(* Database implements StoreSession: the store is db_, and the requests    *)
(* are the workers of operations and of next(), pending until DoFinally.   *)
(***************************************************************************)
EXTENDS Database

SessionRequest == ({"op"} \X Op) \cup ({"next", "again"} \X Iter)

SessionPhase ==
    IF db = "null" THEN "closed" ELSE IF status = "closing" THEN "closing" ELSE "open"

SessionPending == {w \in SessionRequest : InFlight(w)}

Session == INSTANCE StoreSession WITH
    Request <- SessionRequest, phase <- SessionPhase, pending <- SessionPending

\* Every step of the workers is a step of the session or none of its business:
\* nothing is accepted after close(), and db_ is deleted only when every
\* accepted operation and next() has been answered (db_close, CloseDatabase).
ImplementsSession == Session!SessionSpec

\* And the promises come true: each request is answered and close() closes.
ImplementsFairSession == Session!FairSession
=============================================================================
