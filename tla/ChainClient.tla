----------------------------- MODULE ChainClient -----------------------------
(***************************************************************************)
(* libethereum/Client: the thread that imports what the block queue has    *)
(* ready, gives the transactions of dead blocks back to the transaction    *)
(* queue, and keeps the three blocks that are worked on, with the threads  *)
(* that fill the queues and seal.  doWork() is a round of steps; between   *)
(* two of them anybody else may act.  isMajorSyncing(), shouldSeal() and   *)
(* what the gas price and the time allow are choices of the step that asks. *)
(* Left out: getWork(), a change of author, rewind, clearPending and       *)
(* reopenChain, limits of the queues, filters and watches.                 *)
(***************************************************************************)
EXTENDS BlockTree, SequencesExt

CONSTANTS
    ClientTx,    \* transactions: an account, whose nonce they share, and a price
    Contents(_), \* a block's transactions
    Mined,       \* blocks that only this node can make
    Unsealed,
    SyncAmount   \* m_syncAmount

ASSUME ClientAssumption ==
    /\ ClientTx \subseteq [account : {t.account : t \in ClientTx}, price : Nat]
    /\ Mined \subseteq Block /\ Unsealed \notin Tree /\ SyncAmount \in Nat \ {0}
    /\ \A b \in Tree : Contents(b) \subseteq ClientTx /\ IsFiniteSet(Contents(b))

VARIABLES
    client,   \* what the client and its queues have
    stage,    \* where doWork() is
    accepted, \* the transactions that were taken in, and not outbid since
    misled    \* those dropped as good with a block that is on a side branch

clientVars == <<client, stage, accepted, misled>>

\* A Block that is worked on, and what it is when it is sealed.
Work(b) == [on |-> b, txs |-> {}, committed |-> FALSE, sealed |-> Unsealed]
NoRoute == [dead |-> <<>>, live |-> {}, good |-> {}]

ClientInit ==
    /\ client = [head |-> Genesis,
                 arrived |-> {},  \* blocks that came to the block queue
                 ready |-> <<>>,  \* the queue's blocks to import
                 queued |-> {}, dropped |-> {}, \* m_current, m_dropped of the transaction queue
                 pre |-> Work(Genesis), working |-> Work(Genesis), post |-> Work(Genesis),
                 sealing |-> Work(Genesis), \* m_sealingInfo
                 made |-> {},               \* blocks sealed
                 syncBlocks |-> FALSE, syncTxs |-> FALSE, needReset |-> FALSE,
                 more |-> FALSE, route |-> NoRoute]
    /\ stage = "blocks" /\ accepted = {} /\ misled = {}

ChainTxs(b) == UNION {Contents(c) : c \in Branch(b) \ {Genesis}}
Rivals(t) == {u \in ClientTx : u.account = t.account}
-----------------------------------------------------------------------------
(* The transaction queue, as far as the client asks it: see TransactionQueue. *)

Outbid(n, t) == {u \in n.queued : u.account = t.account /\ u # t /\ t.price < u.price}

\* import: one with a rival in the queue replaces it, or is refused.
TakeIn(n, t) ==
    IF t \in n.queued \/ Outbid(n, t) # {} THEN n
    ELSE [n EXCEPT !.queued = (@ \ Rivals(t)) \cup {t}, !.syncTxs = TRUE,
                   !.needReset = @ \/ Rivals(t) \cap n.queued # {}]

TakeAll(n, T) == FoldSet(LAMBDA t, m : TakeIn(m, t), n, T)
-----------------------------------------------------------------------------
(* The blocks that are worked on. *)

\* The transactions of postSeal go back to the queue, unless it is the block that
\* came in.
RestartMining(n) ==
    LET m == IF n.post.sealed = n.head THEN n ELSE TakeAll(n, n.post.txs)
        new == Work(n.head)
    IN  IF n.pre.on = n.head THEN [n EXCEPT !.syncTxs = TRUE]
        ELSE [m EXCEPT !.pre = new, !.working = new, !.post = new, !.syncTxs = TRUE]

ResyncStateFromChain(n) == IF n.working.on = n.head THEN n ELSE RestartMining(n)

ResetState(n) == [n EXCEPT !.working = n.pre, !.post = n.pre, !.syncTxs = TRUE]
-----------------------------------------------------------------------------
(* doWork() *)

Goes(from, to) == stage = from /\ stage' = to

ChainDifficulty(b) == MapThenSumSet(Difficulty, Branch(b))
Downwards(S) == InOrder(S, LAMBDA b, c : Number(b) > Number(c))

\* Good are the transactions of every block that is imported, best or not.
ImportBlock(n, b) ==
    LET good == [n EXCEPT !.route.good = @ \cup Contents(b)]
    IN  IF ChainDifficulty(b) <= ChainDifficulty(n.head) THEN good
        ELSE [good EXCEPT !.head = b,
                 !.route.dead = @ \o Downwards(Branch(n.head) \ Branch(b)),
                 !.route.live = @ \cup (Branch(b) \ Branch(n.head))]

SyncBlockQueue ==
    /\ client.syncBlocks /\ Goes("blocks", "imported")
    /\ LET count == IF Len(client.ready) < SyncAmount THEN Len(client.ready) ELSE SyncAmount
           n == [client EXCEPT !.syncBlocks = FALSE, !.ready = SubSeq(@, count + 1, Len(@))]
       IN  client' = FoldLeft(ImportBlock, n, SubSeq(client.ready, 1, count))
    /\ UNCHANGED <<accepted, misled>>

NoBlocks == ~client.syncBlocks /\ Goes("blocks", "reset") /\ UNCHANGED <<client, accepted, misled>>

\* doneDrain() looks under the queue's lock, and its answer is written later.
DrainDone ==
    /\ Goes("imported", "drained") /\ client' = [client EXCEPT !.more = client.ready # <<>>]
    /\ UNCHANGED <<accepted, misled>>

AfterDrain ==
    /\ IF client.route.live = {} THEN Goes("drained", "reset") ELSE Goes("drained", "changed")
    /\ client' = [client EXCEPT !.syncBlocks = client.more,
                                !.route = IF @.live = {} THEN NoRoute ELSE @]
    /\ UNCHANGED <<accepted, misled>>

\* Bug variant: without IfDropped::Retry.
BugOnDeadBlocks ==
    /\ Goes("changed", "resubmitted")
    /\ LET Again(b) == Contents(b) \ client.dropped
           n == FoldLeft(LAMBDA m, b : TakeAll(m, Again(b)), client, client.route.dead)
       IN  client' = [n EXCEPT !.route.dead = <<>>]
    /\ UNCHANGED <<accepted, misled>>

OnDeadBlocks ==
    /\ Goes("changed", "resubmitted")
    /\ LET n == FoldLeft(LAMBDA m, b : TakeAll(m, Contents(b)), client, client.route.dead)
       IN  client' = [n EXCEPT !.route.dead = <<>>]
    /\ UNCHANGED <<accepted, misled>>

DropGoodTxs ==
    /\ Goes("resubmitted", "dropped")
    /\ client' = [client EXCEPT !.queued = @ \ client.route.good, !.route = NoRoute]
    /\ misled' = misled \cup (client.route.good \ ChainTxs(client.head))
    /\ UNCHANGED accepted

OnChainChanged ==
    /\ Goes("dropped", "reset") /\ client' \in {client, ResyncStateFromChain(client)}
    /\ UNCHANGED <<accepted, misled>>

ResetIfNeeded ==
    /\ IF client.needReset THEN Goes("reset", "hasReset") ELSE Goes("reset", "txs")
    /\ client' = IF client.needReset THEN ResetState(client) ELSE client
    /\ UNCHANGED <<accepted, misled>>

HasReset ==
    /\ Goes("hasReset", "txs") /\ client' = [client EXCEPT !.needReset = FALSE]
    /\ UNCHANGED <<accepted, misled>>

SyncTransactionQueue ==
    /\ Goes("txs", "executes") /\ client.syncTxs /\ client.working.sealed = Unsealed
    /\ client' = ResyncStateFromChain([client EXCEPT !.syncTxs = FALSE])
    /\ UNCHANGED <<accepted, misled>>

NoTxs == Goes("txs", "seals") /\ UNCHANGED <<client, accepted, misled>>

\* Block::sync: those with an old nonce are dropped, others executed as they can be.
Execute ==
    /\ Goes("executes", "seals")
    /\ LET old == {t \in client.queued : Rivals(t) \cap ChainTxs(client.working.on) # {}}
           fit == {t \in client.queued \ old : Rivals(t) \cap client.working.txs = {}}
       IN  IF client.working.sealed # Unsealed THEN UNCHANGED client
           ELSE \E T \in SUBSET fit, more \in BOOLEAN :
            LET work == [client.working EXCEPT !.txs = @ \cup T, !.committed = @ /\ T = {}]
            IN  client' = [client EXCEPT !.queued = @ \ old, !.dropped = @ \cup old, !.working = work,
                                         !.post = IF T = {} THEN @ ELSE work, !.syncTxs = more]
    /\ UNCHANGED <<accepted, misled>>

RejigSealing ==
    /\ Goes("seals", "blocks")
    /\ \/ UNCHANGED client
       \/ /\ client.working.sealed = Unsealed
          /\ LET work == [client.working EXCEPT !.committed = TRUE]
             IN  client' = [client EXCEPT !.working = work, !.post = work, !.sealing = work]
    /\ UNCHANGED <<accepted, misled>>

DoWork ==
    \/ SyncBlockQueue \/ NoBlocks \/ DrainDone \/ AfterDrain \/ OnDeadBlocks \/ DropGoodTxs
    \/ OnChainChanged \/ ResetIfNeeded \/ HasReset \/ SyncTransactionQueue \/ NoTxs \/ Execute \/ RejigSealing
-----------------------------------------------------------------------------
(* Other threads. *)

\* The block queue has verified a block: onBlockQueueReady().
BlockReady(b) ==
    /\ b \in Block \ client.arrived /\ Parent(b) \in client.arrived \cup {Genesis}
    /\ b \in Mined => b \in client.made
    /\ client' = [client EXCEPT !.arrived = @ \cup {b}, !.ready = Append(@, b), !.syncBlocks = TRUE]
    /\ UNCHANGED <<stage, accepted, misled>>

\* A transaction comes in for the first time.
ImportTransaction(t) ==
    /\ t \notin client.queued \cup client.dropped \cup accepted
    /\ client' = TakeIn(client, t) /\ client' # client
    /\ accepted' = (accepted \ Rivals(t)) \cup {t}
    /\ UNCHANGED <<stage, misled>>

SubmitSealed(b) ==
    /\ b \in Mined \ client.made /\ client.sealing.committed
    /\ Parent(b) = client.sealing.on /\ Contents(b) = client.sealing.txs
    /\ client.working = client.sealing
    /\ LET work == [client.working EXCEPT !.sealed = b]
       IN  client' = [client EXCEPT !.working = work, !.post = work, !.made = @ \cup {b}]
    /\ UNCHANGED <<stage, accepted, misled>>

ClientNext ==
    \/ DoWork
    \/ \E b \in Block : BlockReady(b) \/ SubmitSealed(b)
    \/ \E t \in ClientTx : ImportTransaction(t)

ClientSpec == ClientInit /\ [][ClientNext]_clientVars
-----------------------------------------------------------------------------
(***************************************************************************)
(* Properties                                                              *)
(***************************************************************************)

\* A transaction that was taken in is queued or on the chain, it or one that
\* outbid it, also when the chain turns away from a block with it and while one
\* of its account is on the branch that is left.
TransactionsAreKept ==
    \A t \in accepted :
        Rivals(t) \cap (client.queued \cup ChainTxs(client.head) \cup misled
            \cup UNION {Contents(b) : b \in Range(client.route.dead)}) # {}
=============================================================================
