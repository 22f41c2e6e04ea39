------------------------------ MODULE BlockSync ------------------------------
(***************************************************************************)
(* libethereum/BlockChainSync with EthereumPeer, and what                  *)
(* EthereumCapability passes between them: headers and bodies of the       *)
(* chain of a peer are asked for, from several peers at once, put together *)
(* and handed to the block queue.  A packet or a callback is handled in    *)
(* one step under x_sync, by functions of what the sync has.               *)
(* The chunks of m_headers and m_bodies are the runs in the domain of a    *)
(* function.  Left out: the DAO challenge, peers of another network,       *)
(* blocks from the future, a queue full of unknown blocks, the ratings of  *)
(* peers and what bans them (it ends in Disconnect).                       *)
(***************************************************************************)
EXTENDS BlockTree, SequencesExt

CONSTANTS
    Peer,
    Owned,      \* heads of the chain this node may start with
    Shown,      \* heads of the peers' chains to start with
    Body(_),    \* a block's transactions and uncles: its HeaderId
    NoBody,     \* neither transactions nor uncles
    Rejected,   \* blocks that do not verify
    MaxRequest, \* c_maxRequestHeaders, c_maxRequestBodies
    MaxKnown,   \* c_maxKnownCount of the queue
    MaxMoves    \* bound on new heads of peers, and on their connections

ASSUME SyncAssumption ==
    /\ IsFiniteSet(Peer) /\ Owned \cup Shown \subseteq Tree /\ Rejected \subseteq Block
    /\ MaxRequest \in Nat \ {0} /\ MaxKnown \in Nat /\ MaxMoves \in Nat

VARIABLES sync, theirs, moves

peerVars == <<sync, theirs, moves>>

NoAsk == [kind |-> "nothing", of |-> {}]
Offline == [on |-> FALSE, status |-> FALSE, td |-> 0, latest |-> Genesis, asking |-> NoAsk]

\* The members that resetSync() clears.
ResetSync(n) ==
    [n EXCEPT !.state = "NotSynced", !.td = 0, !.headers = <<>>, !.bodies = <<>>, !.ids = <<>>,
              !.fetching = [headers |-> {}, bodies |-> {}],
              !.from = [headers |-> [p \in Peer |-> {}], bodies |-> [p \in Peer |-> {}]]]

SyncInit ==
    /\ theirs \in [Peer -> Shown] /\ moves = 0
    /\ \E b \in Owned :
        sync = ResetSync([state |-> "Idle",   \* m_state
             td |-> 0,            \* m_syncingTotalDifficulty
             common |-> FALSE,    \* m_haveCommonHeader
             last |-> Number(b), lastHash |-> {b}, \* m_lastImportedBlock, and its hash
             headers |-> <<>>,    \* m_headers, number to block
             bodies |-> <<>>,     \* m_bodies, number to body
             ids |-> <<>>,         \* m_headerIdToNumber
             fetching |-> {},     \* m_downloadingHeaders, m_downloadingBodies
             from |-> {},         \* m_headerSyncPeers, m_bodySyncPeers
             peers |-> [p \in Peer |-> Offline], \* EthereumPeer
             ready |-> {}, draining |-> {}, unknown |-> {}, bad |-> {}, \* the queue's sets
             difficulty |-> 0,    \* the queue's m_difficulty
             importing |-> {},    \* what the client has drained
             resume |-> FALSE,    \* has the drained handler posted continueSync()?
             known |-> Branch(b), head |-> b]) \* the chain
-----------------------------------------------------------------------------
(* Runs of numbers. *)

First(f) == CHOOSE n \in DOMAIN f : \A k \in DOMAIN f : n <= k
RunFrom(f, n) == {k \in DOMAIN f : k >= n /\ n..k \subseteq DOMAIN f}
Run(f) == RunFrom(f, First(f))
Erase(f, N) == [n \in DOMAIN f \ N |-> f[n]]
Put(f, n, v) == [k \in DOMAIN f \cup {n} |-> IF k = n THEN v ELSE f[k]]
NoneOf(f) == DOMAIN f = {}
-----------------------------------------------------------------------------
(* The queue, as far as it is asked here: see BlockQueue. *)

InQueue(n) == n.ready \cup n.draining
Offspring(S, B) == {b \in S : Branch(b) \cap B # {}}

ImportResult(n, b, body) ==
    CASE b \in InQueue(n) \cup n.unknown \cup n.bad -> "AlreadyKnown"
      [] OTHER ->
        IF body # Body(b) THEN "Malformed"
        ELSE IF b \in n.known THEN "AlreadyInChain"
        ELSE IF Parent(b) \in n.bad THEN "BadChain"
        ELSE IF Parent(b) \in InQueue(n) \cup n.known THEN "Success" ELSE "UnknownParent"

QueueWith(n, b, result) ==
    LET after == Offspring(n.unknown, {b})
        m == [n EXCEPT !.difficulty = @ + Difficulty(b)]
    IN  CASE result = "BadChain" -> [n EXCEPT !.bad = @ \cup {b} \cup after, !.unknown = @ \ after]
          [] result = "Success"  -> [m EXCEPT !.ready = @ \cup {b} \cup after, !.unknown = @ \ after]
          [] result = "UnknownParent" -> [m EXCEPT !.unknown = @ \cup {b}]
          [] OTHER -> n

KnownFull(n) == Cardinality(n.ready) > MaxKnown
-----------------------------------------------------------------------------
(* What is asked of a peer. *)

Ask(n, p, kind, of) == [n EXCEPT !.peers[p].asking = [kind |-> kind, of |-> of]]

\* Bug variant: the numbers are kept as downloading.
BugClearPeerDownload(n, p) ==
    [n EXCEPT !.from.headers[p] = {}, !.from.bodies[p] = {},
              !.fetching.headers = @ \ n.from.headers[p]]

ClearPeerDownload(n, p) ==
    [n EXCEPT !.from.headers[p] = {}, !.from.bodies[p] = {},
              !.fetching.headers = @ \ n.from.headers[p], !.fetching.bodies = @ \ n.from.bodies[p]]

\* The first so many of a set of numbers.
Least(S) == {k \in S : Cardinality({j \in S : j < k}) < MaxRequest}

NeededBodies(n) ==
    IF n.common /\ ~NoneOf(n.headers) /\ First(n.headers) = n.last + 1
    THEN Least({k \in Run(n.headers) : k \notin n.fetching.bodies \cup DOMAIN n.bodies}) ELSE {}

\* The gaps before a chunk: where one starts, and the chunk after it.
Gaps(n) ==
    LET begins == {k \in DOMAIN n.headers : k - 1 \notin DOMAIN n.headers}
        ends == {k + 1 : k \in {j \in DOMAIN n.headers : j + 1 \notin DOMAIN n.headers}}
        starts == ends \cup {k \in {n.last + 1} : ~NoneOf(n.headers) /\ k < First(n.headers)}
    IN  {g \in [start : starts, end : begins] :
            g.start < g.end /\ (g.start..g.end - 1) \cap DOMAIN n.headers = {}}

\* The first gap with a number that is not being downloaded is gone through by
\* windows of MaxRequest numbers.  What is noted are the free ones of a window,
\* what is asked for is as many in a row from the first.
RequestHeaders(n, p) ==
    LET Free(g) == (g.start..g.end - 1) \ n.fetching.headers
        open == {g \in Gaps(n) : Free(g) # {}}
    IN  IF open = {} THEN n
        ELSE LET g == CHOOSE g \in open : \A h \in open : g.start <= h.start
                 low == CHOOSE k \in Free(g) : \A j \in Free(g) : k <= j
                 noted == {k \in Free(g) : (k - g.start) \div MaxRequest = (low - g.start) \div MaxRequest}
             IN  Ask([n EXCEPT !.from.headers[p] = noted, !.fetching.headers = @ \cup noted],
                     p, "headers", low..low + Cardinality(noted) - 1)

NumberHash(n, k) == {b \in Branch(n.head) : Number(b) = k}

RequestBlocks(n, p) ==
    LET m == ClearPeerDownload(n, p)
        needed == NeededBodies(m)
        start == IF NoneOf(m.headers) \/ m.last < First(m.headers) THEN m.last ELSE First(m.headers) - 1
        back == [m EXCEPT !.last = start, !.lastHash = NumberHash(m, start), !.common = start <= 1]
    IN  IF KnownFull(m) THEN [m EXCEPT !.state = "Waiting"]
        ELSE IF needed # {}
        THEN Ask([m EXCEPT !.from.bodies[p] = needed, !.fetching.bodies = @ \cup needed],
                 p, "bodies", {m.headers[k] : k \in needed})
        ELSE IF m.common THEN RequestHeaders(m, p)
        ELSE IF back.common THEN RequestHeaders(back, p) ELSE Ask(back, p, "headers", {start})

Total(S) == FoldSet(LAMBDA b, sum : sum + Difficulty(b), 0, S \ {Genesis})

SyncPeer(n, p, force) ==
    LET peer == n.peers[p]
        ours == Total(Branch(n.head)) + (IF InQueue(n) = {} THEN 0 ELSE n.difficulty)
    IN  IF ~peer.status \/ peer.asking # NoAsk \/ n.state = "Waiting" THEN n
        ELSE IF force \/ (peer.td > n.td /\ peer.td > ours)
        THEN Ask([n EXCEPT !.td = peer.td, !.state = IF @ \in {"Idle", "NotSynced"} THEN "Blocks" ELSE @],
                 p, "tip", {peer.latest})
        ELSE IF n.state = "Blocks" THEN RequestBlocks(n, p) ELSE n

\* The peers come in any order.
Orders == {order \in [1..Cardinality(Peer) -> Peer] : \A p \in Peer : \E i \in DOMAIN order : order[i] = p}
ContinueSync(n, order) ==
    FoldLeft(LAMBDA m, p : IF m.peers[p].on THEN SyncPeer(m, p, FALSE) ELSE m, n, order)

CompleteSync(n) == [ResetSync(n) EXCEPT !.state = "Idle"]

RestartSync(n) ==
    [ResetSync(n) EXCEPT !.common = FALSE, !.last = Number(n.head), !.lastHash = {n.head},
                       !.ready = {}, !.draining = {}, !.unknown = {}, !.difficulty = 0]
-----------------------------------------------------------------------------
(* What comes from a peer. *)

RemoveItem(f, k) == IF k \in DOMAIN f THEN Erase(f, RunFrom(f, k)) ELSE f
RemoveFrom(f, k) == Erase(f, {j \in DOMAIN f : j >= k})

\* Headers that follow on another one than the one that came are taken out; its own
\* id is, and not theirs.
WithoutFollowing(n, b) ==
    LET k == Number(b) + 1
    IN  IF k \in DOMAIN n.headers /\ Parent(n.headers[k]) # b
        THEN [n EXCEPT !.ids = Erase(@, {Body(b)}), !.headers = RemoveFrom(@, k), !.bodies = RemoveFrom(@, k),
                       !.fetching.headers = @ \ RunFrom(n.headers, k),
                       !.fetching.bodies = @ \ RunFrom(n.headers, k)]
        ELSE n

WithHeader(n, b) ==
    LET m == [n EXCEPT !.headers = Put(@, Number(b), b)]
    IN  IF Body(b) = NoBody THEN [m EXCEPT !.bodies = Put(@, Number(b), NoBody)]
        ELSE [m EXCEPT !.ids = Put(@, Body(b), Number(b))]

Strange(n, b) ==
    \/ Number(b) - 1 \in DOMAIN n.headers /\ n.headers[Number(b) - 1] # Parent(b)
    \/ Number(b) = n.last + 1 /\ {Parent(b)} # n.lastHash

\* One header, unless one before it has made sync restart.
TakeHeader(r, b) ==
    LET n == r.to
        k == Number(b)
        found == [n EXCEPT !.common = TRUE, !.last = k, !.lastHash = {b}]
        Restart == [to |-> RestartSync(n), over |-> TRUE]
        Go(m) == [to |-> m, over |-> FALSE]
    IN  IF r.over THEN r
        ELSE IF k \in DOMAIN n.headers \/ (k <= n.last /\ n.common) THEN r
        ELSE IF b \in InQueue(n) \cup n.known
        THEN IF ~NoneOf(n.headers) /\ First(n.headers) = k + 1 /\ Parent(n.headers[k + 1]) # b
             THEN [to |-> RestartSync(found), over |-> TRUE] ELSE Go(found)
        ELSE IF ~n.common THEN Go(WithHeader(n, b))
        ELSE IF Strange(n, b) THEN Restart ELSE Go(WithHeader(WithoutFollowing(n, b), b))

\* One block of collectBlocks.
Collect(r, k) ==
    LET n == r.to
        result == ImportResult(n, n.headers[k], n.bodies[k])
        m == QueueWith(n, n.headers[k], result)
    IN  IF r.over THEN r
        ELSE CASE result \in {"Malformed", "BadChain"} -> [to |-> RestartSync(m), over |-> TRUE]
               [] result = "AlreadyInChain" -> [to |-> m, over |-> FALSE]
               [] result = "Success" ->
                    [to |-> IF k > m.last THEN [m EXCEPT !.last = k, !.lastHash = {m.headers[k]}] ELSE m,
                     over |-> FALSE]
               [] result \in {"AlreadyKnown", "UnknownParent"} ->
                    [to |-> IF k > m.last THEN [ResetSync(m) EXCEPT !.common = FALSE] ELSE m, over |-> TRUE]

CollectBlocks(n) ==
    IF ~n.common \/ NoneOf(n.headers) \/ NoneOf(n.bodies) THEN n
    ELSE IF First(n.headers) # n.last + 1 \/ First(n.bodies) # n.last + 1 THEN n
    ELSE LET both == Run(n.headers) \cap Run(n.bodies)
             r == FoldLeft(Collect, [to |-> n, over |-> FALSE], InOrder(both, <))
             m == [r.to EXCEPT !.headers = Erase(@, both), !.bodies = Erase(@, both)]
         IN  IF r.over THEN r.to ELSE IF NoneOf(m.headers) THEN CompleteSync(m) ELSE m

ByNumber(S) == InOrder(S, LAMBDA b, c : Number(b) < Number(c))

OnHeaders(n, p, S, order) ==
    LET m == ClearPeerDownload(n, p)
        r == FoldLeft(TakeHeader, [to |-> m, over |-> FALSE], ByNumber(S))
    IN  IF m.state # "Blocks" THEN m
        ELSE IF r.over THEN r.to ELSE ContinueSync(CollectBlocks(r.to), order)

TakeBody(n, body) ==
    IF body \notin DOMAIN n.ids THEN n
    ELSE LET k == n.ids[body]
         IN  IF k \notin DOMAIN n.headers \/ k \in DOMAIN n.bodies THEN n
             ELSE [n EXCEPT !.ids = Erase(@, {body}), !.bodies = Put(@, k, body)]

OnBodies(n, p, S, order) ==
    LET m == ClearPeerDownload(n, p)
    IN  IF m.state # "Blocks" THEN m
        ELSE ContinueSync(CollectBlocks(FoldLeft(LAMBDA r, b : TakeBody(r, Body(b)), m, ByNumber(S))), order)

\* A block with the difficulty of the peer's chain up to it.
OnNewBlock(n, p, b) ==
    LET k == Number(b)
        result == ImportResult(n, b, Body(b))
        m == QueueWith(n, b, result)
        done == [m EXCEPT !.last = IF k > @ THEN k ELSE @, !.lastHash = IF k > m.last THEN {b} ELSE @,
                          !.fetching.headers = @ \ {k}, !.fetching.bodies = @ \ {k},
                          !.headers = RemoveItem(@, k), !.bodies = RemoveItem(@, k)]
    IN  IF k > n.last + 1 THEN SyncPeer([n EXCEPT !.peers[p].latest = b], p, TRUE)
        ELSE CASE result = "Success" -> IF NoneOf(done.headers) THEN CompleteSync(done) ELSE done
               [] result = "UnknownParent" ->
                    IF Total(Branch(b)) > m.peers[p].td THEN SyncPeer(m, p, TRUE) ELSE m
               [] OTHER -> m

OnNewHash(n, p, b) ==
    IF n.peers[p].asking # NoAsk \/ b \in InQueue(n) \cup n.unknown \cup n.known \cup n.bad THEN n
    ELSE SyncPeer([n EXCEPT !.peers[p].latest = b], p, TRUE)
-----------------------------------------------------------------------------
(* Packets and callbacks. *)

On(p) == sync.peers[p].on
AskedFor(p) == sync.peers[p].asking
Answered(p) == [sync EXCEPT !.peers[p].asking = NoAsk]

\* The peer that is kept is a copy made before it was asked for its status.
Connect(p) ==
    /\ ~On(p) /\ moves < MaxMoves /\ moves' = moves + 1
    /\ sync' = [sync EXCEPT !.peers[p] = [Offline EXCEPT !.on = TRUE]]
    /\ UNCHANGED theirs

Status(p) ==
    /\ On(p) /\ ~sync.peers[p].status
    /\ sync' = SyncPeer([sync EXCEPT !.peers[p].status = TRUE, !.peers[p].td = Total(Branch(theirs[p])),
                                     !.peers[p].latest = theirs[p]], p, FALSE)
    /\ UNCHANGED <<theirs, moves>>

\* What a peer has of what it is asked for: it may send fewer, but does so from the
\* first one on.
Held(p) ==
    LET of == AskedFor(p).of
        chain == Branch(theirs[p])
    IN  CASE AskedFor(p).kind = "bodies" -> of \cap chain
          [] AskedFor(p).kind = "headers" -> {b \in chain : Number(b) \in of}
          [] AskedFor(p).kind = "tip" -> {b \in chain : \E t \in of : Number(t) = Number(b)}

Answer(p) ==
    /\ On(p) /\ AskedFor(p) # NoAsk
    /\ \E most \in {0, MaxRequest}, order \in Orders :
        LET S == {b \in Held(p) : Cardinality({c \in Held(p) : Number(c) < Number(b)}) < most}
        IN  sync' = IF AskedFor(p).kind = "bodies" THEN OnBodies(Answered(p), p, S, order)
                    ELSE OnHeaders(Answered(p), p, S, order)
    /\ UNCHANGED <<theirs, moves>>

\* A peer goes, or is dropped for being slow or for a bad block.
Disconnect(p) ==
    /\ On(p)
    /\ \E order \in Orders :
        sync' = ContinueSync(ClearPeerDownload([sync EXCEPT !.peers[p] = Offline], p), order)
    /\ UNCHANGED <<theirs, moves>>

\* A peer has a heavier chain and tells of it, or not.
PeerMoves(p) ==
    /\ moves < MaxMoves /\ moves' = moves + 1
    /\ \E b \in Block \ Rejected :
        /\ Total(Branch(b)) > Total(Branch(theirs[p]))
        /\ theirs' = [theirs EXCEPT ![p] = b]
        /\ \/ UNCHANGED sync
           \/ On(p) /\ sync.peers[p].status /\ sync' \in {OnNewBlock(sync, p, b), OnNewHash(sync, p, b)}

\* The queue is drained of a block that has verified, and the handler of that
\* posts continueSync() if there is room again.
DrainOne(b) ==
    /\ b \in sync.ready /\ sync.importing = {} /\ Parent(b) \in sync.known
    /\ LET m == [sync EXCEPT !.ready = @ \ {b}, !.draining = {b}, !.importing = {b}]
       IN  sync' = [m EXCEPT !.resume = @ \/ (m.state = "Waiting" /\ ~KnownFull(m))]
    /\ UNCHANGED <<theirs, moves>>

ImportOne(b) ==
    /\ b \in sync.importing
    /\ LET m == [sync EXCEPT !.importing = {}, !.draining = {},
                          !.difficulty = IF b \in sync.draining THEN @ - Difficulty(b) ELSE @]
           heavier == Total(Branch(b)) > Total(Branch(m.head))
       IN  sync' = IF b \in Rejected
                   THEN LET spoiled == {b} \cup Offspring(m.ready \cup m.unknown, {b})
                        IN  [m EXCEPT !.bad = @ \cup spoiled, !.ready = @ \ spoiled, !.unknown = @ \ spoiled]
                   ELSE [m EXCEPT !.known = @ \cup {b}, !.head = IF heavier THEN b ELSE @,
                                  !.last = IF heavier /\ Number(b) > @ THEN Number(b) ELSE @,
                                  !.lastHash = IF heavier /\ Number(b) > m.last THEN {b} ELSE @]
    /\ UNCHANGED <<theirs, moves>>

Resume ==
    /\ sync.resume
    /\ \E order \in Orders :
        sync' = ContinueSync([sync EXCEPT !.resume = FALSE, !.state = "Blocks"], order)
    /\ UNCHANGED <<theirs, moves>>

SyncNext ==
    \/ \E p \in Peer : Connect(p) \/ Status(p) \/ Answer(p) \/ Disconnect(p) \/ PeerMoves(p)
    \/ \E b \in Block : DrainOne(b) \/ ImportOne(b)
    \/ Resume

SyncSpec == SyncInit /\ [][SyncNext]_peerVars
-----------------------------------------------------------------------------
(***************************************************************************)
(* Properties                                                              *)
(***************************************************************************)

\* What is marked as being downloaded is what a peer has been asked for that has
\* not answered yet, through restarts, disconnects and late answers: else nobody
\* would ask for it again.  The code's own invariants() compares only whether the
\* two records are empty.
DownloadsAreAsked ==
    \A what \in {"headers", "bodies"} : \A k \in sync.fetching[what] :
        \E p \in Peer : k \in sync.from[what][p] /\ On(p) /\ AskedFor(p) # NoAsk
=============================================================================
