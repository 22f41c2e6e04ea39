---------------------------- MODULE StoreSession ----------------------------
(***************************************************************************)
(* What a database promises its user: while the store is open it accepts   *)
(* requests (operations and next() calls) and answers each one; once       *)
(* close() is called it accepts nothing new, and the store goes away only  *)
(* when every accepted request has been answered.                          *)
(***************************************************************************)
CONSTANT Request

VARIABLES
    phase,   \* is the store closed, open or closing?
    pending  \* the requests accepted and not yet answered

sessionVars == <<phase, pending>>

SessionInit == phase = "closed" /\ pending = {}

OpenStore ==
    /\ phase = "closed" /\ pending = {}
    /\ phase' = "open"
    /\ UNCHANGED pending

Accept(r) ==
    /\ phase = "open" /\ r \notin pending
    /\ pending' = pending \cup {r}
    /\ UNCHANGED phase

Answer(r) ==
    /\ r \in pending
    /\ pending' = pending \ {r}
    /\ UNCHANGED phase

CloseRequest ==
    /\ phase = "open"
    /\ phase' = "closing"
    /\ UNCHANGED pending

\* By the close that was requested, or by the end of the environment.
CloseStore ==
    /\ phase # "closed" /\ pending = {}
    /\ phase' = "closed"
    /\ UNCHANGED pending

SessionNext ==
    \/ OpenStore \/ CloseRequest \/ CloseStore
    \/ \E r \in Request : Accept(r) \/ Answer(r)

SessionFairness ==
    /\ \A r \in Request : WF_sessionVars(Answer(r))
    /\ WF_sessionVars(CloseStore /\ phase = "closing")

SessionSpec == SessionInit /\ [][SessionNext]_sessionVars
FairSession == SessionSpec /\ SessionFairness
=============================================================================
