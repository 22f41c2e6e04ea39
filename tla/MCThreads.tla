------------------------------ MODULE MCThreads ------------------------------
(* The worker and the farm, whose threads wait for each other, and the       *)
(* client's thread among those that fill its queues.  They share no variable,*)
(* so each behaviour is one of one part: the others stay in their first      *)
(* state, where none of their fair actions is enabled.                       *)
EXTENDS Worker, Farm, ChainClient

VARIABLE part

\* Two branches from the genesis block, 1-2 and 3: the node seals 1, and 2 makes its
\* branch the heavier one.
MCParent(b) == IF b = 2 THEN 1 ELSE 0
MCNumber(b) == IF b = 2 THEN 2 ELSE IF b = 0 THEN 0 ELSE 1
MCDifficulty(b) == 1

\* The transactions of the branch that is left, of the sealed block, and one that
\* outbids another.
Offered(account, price) == [account |-> account, price |-> price]
MCClientTx == {Offered("a", 1), Offered("a", 2), Offered("b", 1)}
MCContents(b) == CASE b = 1 -> {Offered("b", 1)} [] b = 3 -> {Offered("a", 1)} [] OTHER -> {}

ThreadsInit == part \in {"worker", "farm", "client"} /\ WorkerInit /\ FarmInit /\ ClientInit

ThreadsNext ==
    \/ part = "worker" /\ WorkerNext /\ UNCHANGED <<part, farmVars, clientVars>>
    \/ part = "farm" /\ FarmNext /\ UNCHANGED <<part, workerVars, clientVars>>
    \/ part = "client" /\ ClientNext /\ UNCHANGED <<part, workerVars, farmVars>>

ThreadsSpec ==
    /\ ThreadsInit /\ [][ThreadsNext]_<<part, workerVars, farmVars, clientVars>>
    /\ WorkerFairness /\ FarmFairness
=============================================================================
