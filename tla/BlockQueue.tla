----------------------------- MODULE BlockQueue -----------------------------
(***************************************************************************)
(* libethereum/BlockQueue: blocks on their way from the network to the     *)
(* chain, the verifier threads, and BlockChain::sync, which drains what is *)
(* verified.  m_lock is held through each public function, m_verification  *)
(* is taken within it, so that each is one action; a verifier holds no     *)
(* lock while it verifies.  A block stands for its hash.  The totals of    *)
(* bytes and difficulty are left out.                                      *)
(***************************************************************************)
EXTENDS BlockTree, SequencesExt

CONSTANTS
    Invalid,     \* blocks that fail in a verifier
    Unsound,     \* blocks that only fail when they are executed on their parent
    Shaky,       \* blocks whose execution may meet a TransientError
    Late,        \* blocks whose timestamp is still to come when the run starts
    Verifier, NoBlock,
    MaxDrain,    \* how many blocks sync() asks for
    MaxImports,  \* bound on the calls of import() from outside
    ClearBusy    \* may clear() be called while a verifier is at work?

ASSUME BlockQueueAssumption == MaxDrain \in Nat

VARIABLES
    queue,      \* the sets and the queues of ready blocks, see NothingQueued
    draining,   \* m_drainingSet
    future,     \* m_future and m_futureSet
    work,       \* the block each verifier is at, or NoBlock
    due,        \* has the time of the late blocks come?
    todo,       \* the past-future blocks tick() is importing
    chain,      \* the blocks in the chain
    batch,      \* what sync() has drained and not imported yet
    failed,     \* what of it turned out bad
    syncing,    \* sync() is between drain() and doneDrain()
    strayed,    \* what sync() was handed and nothing accounts for any more
    imports     \* the calls of import() so far

setVars == <<queue, draining, future>>
syncVars == <<chain, batch, failed, syncing, strayed>>
timeVars == <<due, todo, imports>>
bqVars == <<setVars, work, syncVars, timeVars>>

NothingQueued(bad) ==
    [ready |-> {},        \* m_readySet
     knownBad |-> bad,    \* m_knownBad
     unknown |-> <<>>,    \* m_unknown in order of arrival; m_unknownSet holds the same
     unverified |-> <<>>, \* m_unverified
     verifying |-> <<>>,  \* m_verifying: [block, done]
     verified |-> <<>>]   \* m_verified

BlockQueueInit ==
    /\ queue = NothingQueued({}) /\ draining = {} /\ future = <<>>
    /\ work = [v \in Verifier |-> NoBlock]
    /\ due = FALSE /\ todo = <<>> /\ imports = 0
    /\ chain = {Genesis} /\ batch = <<>> /\ failed = {} /\ syncing = FALSE
    /\ strayed = {}

Blocks(s) == {s[i].block : i \in DOMAIN s}
Placeholder(b) == [block |-> b, done |-> FALSE]
-----------------------------------------------------------------------------
\* noteReady_WITH_LOCK: those that wait for b, those that wait for them, and so
\* on, in the order in which they are found.
Children(s, parent) == Selected(s, LAMBDA b : Parent(b) = parent)
FindWaiting(found, parent) == found \o Children(queue.unknown, parent)
NextWaiting(s, i) ==
    LET next == FoldLeft(FindWaiting, <<>>, s.last)
    IN  [last |-> next, all |-> s.all \o next]
WaitingFor(b) == FoldLeft(NextWaiting, [last |-> <<b>>, all |-> <<>>], queue.unknown).all

\* collectUnknownBad_WITH_BOTH_LOCKS and the loop around it, until there is no more
\* bad: the smallest set with b that has what goes with its members.  An entry that
\* a verifier has finished is judged by its parent alone.
Spoiled(b, bad) == b \in bad \/ Parent(b) \in bad
SpoiledEntry(e, bad) == Parent(e.block) \in bad \/ (~e.done /\ e.block \in bad)

NoMoreBad(bad, s) ==
    LET known == bad \cup s.knownBad
    IN  /\ \A u \in ToSet(s.unknown) : Parent(u) \in bad => u \in bad
        /\ \A u \in ToSet(s.verified) \cup ToSet(s.unverified) : Spoiled(u, known) => u \in bad
        /\ \A e \in ToSet(s.verifying) : SpoiledEntry(e, known) => e.block \in bad
BadWith(b, s) == {u \in Block : \A bad \in SUBSET Block : b \in bad /\ NoMoreBad(bad, s) => u \in bad}

Queued(s) == ToSet(s.verified) \cup ToSet(s.unverified) \cup Blocks(s.verifying)

UpdateBad(b, s) ==
    LET found == BadWith(b, s)
        bad == found \cup s.knownBad
        left == [s EXCEPT !.knownBad = bad, !.unknown = Without(@, found \ {b}),
                          !.verified = Selected(@, LAMBDA u : ~Spoiled(u, bad)),
                          !.unverified = Selected(@, LAMBDA u : ~Spoiled(u, bad)),
                          !.verifying = Selected(@, LAMBDA e : ~SpoiledEntry(e, bad))]
    IN  [left EXCEPT !.ready = @ \ (Queued(s) \ Queued(left))]

\* drainVerified_WITH_BOTH_LOCKS: what is finished at the front goes to verified,
\* or with its parent.
HandOn(s, e) ==
    IF s.verifying = <<>> \/ Head(s.verifying) # e \/ ~e.done THEN s
    ELSE IF Parent(e.block) \in s.knownBad
    THEN [s EXCEPT !.verifying = Tail(@), !.ready = @ \ {e.block}, !.knownBad = @ \cup {e.block}]
    ELSE [s EXCEPT !.verifying = Tail(@), !.verified = Append(@, e.block)]
DrainVerified(s) == FoldLeft(HandOn, s, s.verifying)

Known == queue.ready \cup draining \cup queue.knownBad \cup ToSet(queue.unknown) \cup ToSet(future)

Readied(found) ==
    [queue EXCEPT !.ready = @ \cup ToSet(found), !.unverified = @ \o found,
                  !.unknown = Without(@, ToSet(found))]

\* import(); a block of our own is not held back.
Accept(b, ours) ==
    /\ UNCHANGED <<draining, work>>
    /\ IF b \in Known \cup chain THEN UNCHANGED <<queue, future>>
       ELSE IF b \in Late /\ ~due /\ ~ours THEN future' = Append(future, b) /\ UNCHANGED queue
       ELSE /\ UNCHANGED future
            /\ queue' =
                IF Parent(b) \in queue.knownBad THEN UpdateBad(b, queue)
                ELSE IF Parent(b) \notin queue.ready \cup draining \cup chain
                THEN [queue EXCEPT !.unknown = Append(@, b)]
                ELSE Readied(<<b>> \o WaitingFor(b))

Import(b, ours) ==
    /\ imports < MaxImports /\ imports' = imports + 1
    /\ Accept(b, ours)
    /\ UNCHANGED <<syncVars, due, todo>>

TimeComes == ~due /\ due' = TRUE /\ UNCHANGED <<setVars, work, syncVars, todo, imports>>

\* tick() takes the past-future blocks out, then imports them one by one.
Tick ==
    /\ due /\ future # <<>> /\ todo = <<>>
    /\ todo' = future /\ future' = <<>>
    /\ UNCHANGED <<queue, draining, work, syncVars, due, imports>>

ImportPastFuture ==
    /\ todo # <<>> /\ todo' = Tail(todo)
    /\ Accept(Head(todo), FALSE)
    /\ UNCHANGED <<syncVars, due, imports>>

\* verifierBody: the block leaves m_unverified and holds its place in m_verifying.
Take(v) ==
    /\ work[v] = NoBlock /\ queue.unverified # <<>>
    /\ LET b == Head(queue.unverified)
       IN  /\ work' = [work EXCEPT ![v] = b]
           /\ queue' = [queue EXCEPT !.unverified = Tail(@), !.verifying = Append(@, Placeholder(b))]
    /\ UNCHANGED <<draining, future, syncVars, timeVars>>

\* It failed; its place, if it still has one, is given up.
Failed(b) ==
    DrainVerified([queue EXCEPT !.ready = @ \ {b}, !.knownBad = @ \cup {b},
                                !.verifying = Selected(@, LAMBDA e : e # Placeholder(b))])

\* Bug variant: a block is handed on as soon as it is verified.
BugPassed(b) ==
    [queue EXCEPT !.verified = Append(@, b),
                  !.verifying = Selected(@, LAMBDA e : e # Placeholder(b))]

\* It is verified: handed on if it is at the front, else kept in its place.
Passed(b) ==
    IF queue.verifying # <<>> /\ Head(queue.verifying) = Placeholder(b)
    THEN DrainVerified([queue EXCEPT !.verifying[1].done = TRUE])
    ELSE [queue EXCEPT !.verifying =
             [i \in DOMAIN @ |-> IF @[i].block = b THEN [block |-> b, done |-> TRUE] ELSE @[i]]]

Verify(v) ==
    /\ work[v] # NoBlock
    /\ queue' = IF work[v] \in Invalid THEN Failed(work[v]) ELSE Passed(work[v])
    /\ work' = [work EXCEPT ![v] = NoBlock]
    /\ UNCHANGED <<draining, future, syncVars, timeVars>>

\* BlockChain::sync: drain(), then the blocks one by one, then doneDrain().
Drain ==
    LET n == Min({MaxDrain, Len(queue.verified)})
    IN  /\ ~syncing /\ n > 0 /\ syncing' = TRUE
        /\ batch' = SubSeq(queue.verified, 1, n)
        /\ draining' = ToSet(batch')
        /\ queue' = [queue EXCEPT !.ready = @ \ draining', !.verified = SubSeq(@, n + 1, Len(@))]
        /\ UNCHANGED <<future, work, chain, failed, strayed, timeVars>>

\* import(): the block goes into the chain, is found bad, or is dropped.  Dropped is
\* one whose time is still to come (FutureTime), and one whose state did not come out
\* right (TransientError): "Attempt in import later" is not followed by another attempt.
SyncOne ==
    /\ batch # <<>> /\ batch' = Tail(batch)
    /\ LET b == Head(batch)
           early == b \in Late /\ ~due
           bad == Parent(b) \notin chain \/ (~early /\ b \in Unsound)
       IN  \/ b \in chain /\ UNCHANGED <<chain, failed, strayed>>
           \/ b \notin chain /\ bad /\ failed' = failed \cup {b} /\ UNCHANGED <<chain, strayed>>
           \/ b \notin chain /\ ~bad /\ (early \/ b \in Shaky)
              /\ strayed' = strayed \cup {b} /\ UNCHANGED <<chain, failed>>
           \/ b \notin chain /\ ~bad /\ ~early
              /\ chain' = chain \cup {b} /\ UNCHANGED <<failed, strayed>>
    /\ UNCHANGED <<setVars, work, syncing, timeVars>>

\* m_knownBad += _bad, then updateBad_WITH_LOCK for each.
UpdateAll(s, bad) ==
    FoldSet(UpdateBad, [s EXCEPT !.knownBad = @ \cup bad], bad)

DoneDrain ==
    /\ syncing /\ batch = <<>> /\ syncing' = FALSE
    /\ draining' = {} /\ failed' = {}
    /\ queue' = UpdateAll(queue, failed)
    /\ UNCHANGED <<future, work, chain, batch, strayed, timeVars>>

\* restartSync() calls it on the network's thread and rewind() on its caller's, while
\* sync() may be between drain() and doneDrain(): m_drainingSet then forgets what sync()
\* still has.  What is known to be bad stays known.
Clear ==
    /\ ClearBusy \/ \A v \in Verifier : work[v] = NoBlock
    /\ queue' = NothingQueued(queue.knownBad) /\ draining' = {} /\ future' = <<>>
    /\ strayed' = strayed \cup ToSet(batch) \cup failed
    /\ UNCHANGED <<work, chain, batch, failed, syncing, timeVars>>

BlockQueueNext ==
    \/ \E b \in Block, ours \in BOOLEAN : Import(b, ours)
    \/ \E v \in Verifier : Take(v) \/ Verify(v)
    \/ TimeComes \/ Tick \/ ImportPastFuture
    \/ Drain \/ SyncOne \/ DoneDrain
    \/ Clear

BlockQueueSpec == BlockQueueInit /\ [][BlockQueueNext]_bqVars

\* The verifiers and the thread that syncs go on.
BlockQueueFair ==
    /\ \A v \in Verifier : WF_bqVars(Take(v)) /\ WF_bqVars(Verify(v))
    /\ WF_bqVars(Drain) /\ WF_bqVars(SyncOne) /\ WF_bqVars(DoneDrain)

BlockQueueFairSpec == BlockQueueSpec /\ BlockQueueFair
-----------------------------------------------------------------------------
(***************************************************************************)
(* Properties                                                              *)
(***************************************************************************)

\* BlockQueue::invariants(), and what it stands for: m_readySet holds exactly
\* what is on its way through the three queues, each block once.
ReadyIsQueued ==
    /\ queue.ready = Queued(queue)
    /\ Cardinality(queue.ready) =
          Len(queue.verified) + Len(queue.unverified) + Len(queue.verifying)

\* "the queue should guarantee everything in the right order": sync() meets a
\* block whose parent is not in the chain only if that parent was found bad, or
\* sync() was handed it before and it strayed: it was dropped, or clear() came
\* meanwhile.  And no other block known to be bad, nor one that follows on it,
\* waits to be handed to sync().
SyncedInOrder ==
    /\ batch # <<>> => Parent(Head(batch)) \in chain \cup queue.knownBad \cup failed \cup strayed
    /\ \A b \in ToSet(queue.verified) : ~Spoiled(b, queue.knownBad \ strayed)

\* A block in m_readySet, "All blocks ready for chain import", gets there.
ReadyIsDrained == \A b \in Block : b \in queue.ready ~> b \notin queue.ready
=============================================================================
