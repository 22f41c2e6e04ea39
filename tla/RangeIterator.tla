---------------------------- MODULE RangeIterator ----------------------------
(***************************************************************************)
(* Iteration over a range: BaseIterator and ReadMany in binding.cc, the    *)
(* NextWorker that fills a cache, and iterator.js that empties it.         *)
(*                                                                         *)
(* Keys are numbers; the snapshot does not change.  The leveldb iterator   *)
(* is external: a position in the snapshot, or off it.  Moving it when it  *)
(* is off is undefined.  next() is one step with its worker and callback:  *)
(* abstract-leveldown admits no other call on the iterator in between (what*)
(* close() and end() do meanwhile is in Database).  Values, encodings and  *)
(* read errors are left out.                                               *)
(***************************************************************************)
EXTENDS Integers, Sequences

CONSTANTS
    MaxKey,     \* bound: keys are 1..MaxKey
    None,       \* no option; off the snapshot
    Undefined,  \* where the leveldb iterator is after it was moved while off
    NoMore,        \* next() has no more keys
    Nothing,    \* next() has not answered since the start or the last seek()
    MaxBatch,   \* entries that fit in a batch, by size * 2 or highWaterMark
    OptionSets  \* range options users give

Keys == 1..MaxKey
Bound == Keys \cup {None}
Options == [reverse: BOOLEAN, gt: Bound, gte: Bound, lt: Bound, lte: Bound, limit: Int]

ASSUME RangeAssumption ==
    /\ MaxKey \in Nat /\ MaxBatch \in Nat \ {0}
    /\ {None, Undefined, NoMore, Nothing} \cap Int = {} /\ None # Undefined
    /\ OptionSets \subseteq Options

VARIABLES
    options,   \* reverse_, gt_, gte_, lt_, lte_, limit_
    snapshot,  \* the keys the leveldb iterator walks over
    pos,       \* dbIterator_
    didSeek,   \* didSeek_
    landed,    \* landed_
    count,     \* count_, up to one past the limit: more makes no difference
    cache,     \* this.cache of iterator.js, in the order it is popped
    finished,  \* this.finished of iterator.js
    answer     \* what next() gave since the last seek()

native == <<pos, didSeek, landed, count>>
rangeVars == <<options, snapshot, native, cache, finished, answer>>
-----------------------------------------------------------------------------
(* The leveldb iterator. *)

Least(S) == IF S = {} THEN None ELSE CHOOSE k \in S : \A l \in S : k <= l
Greatest(S) == IF S = {} THEN None ELSE CHOOSE k \in S : \A l \in S : l <= k

AtOrAfter(k) == Least({l \in snapshot : k <= l})
DbNext(p) == IF p \in snapshot THEN Least({l \in snapshot : p < l}) ELSE Undefined
DbPrev(p) == IF p \in snapshot THEN Greatest({l \in snapshot : l < p}) ELSE Undefined
-----------------------------------------------------------------------------
(* BaseIterator. *)

OutOfRange(k) ==
    \/ options.lt # None /\ k >= options.lt
    \/ options.lte # None /\ k > options.lte
    \/ options.gt # None /\ k <= options.gt
    \/ options.gte # None /\ k < options.gte

Valid(p) == p \in snapshot /\ ~OutOfRange(p)
Moved(p) == IF options.reverse THEN DbPrev(p) ELSE DbNext(p)
ToFirst == IF options.reverse THEN Greatest(snapshot) ELSE Least(snapshot)
ToLast == IF options.reverse THEN Least(snapshot) ELSE Greatest(snapshot)
ToEnd == Moved(ToLast)

\* The last key that is not past the bound of a reverse range.
Below(bound, inclusive) ==
    LET p == AtOrAfter(bound)
    IN  IF p = None THEN Greatest(snapshot)
        ELSE IF inclusive /\ p = bound THEN p
        ELSE DbPrev(p)

\* Bug variant: the open lower bound itself is not skipped.
BugToRange ==
    CASE ~options.reverse /\ options.gte # None -> AtOrAfter(options.gte)
      [] ~options.reverse /\ options.gte = None /\ options.gt # None -> AtOrAfter(options.gt)
      [] options.reverse /\ options.lte # None -> Below(options.lte, TRUE)
      [] options.reverse /\ options.lte = None /\ options.lt # None -> Below(options.lt, FALSE)
      [] OTHER -> ToFirst
ToRange ==
    CASE ~options.reverse /\ options.gte # None -> AtOrAfter(options.gte)
      [] ~options.reverse /\ options.gte = None /\ options.gt # None ->
            LET p == AtOrAfter(options.gt) IN IF p = options.gt THEN DbNext(p) ELSE p
      [] options.reverse /\ options.lte # None -> Below(options.lte, TRUE)
      [] options.reverse /\ options.lte = None /\ options.lt # None -> Below(options.lt, FALSE)
      [] OTHER -> ToFirst

Precedes(p, k) == IF options.reverse THEN p > k ELSE p < k
ToTarget(target) ==
    LET p == AtOrAfter(target)
    IN  IF OutOfRange(target) THEN ToEnd
        ELSE IF p # None THEN IF Precedes(p, target) THEN Moved(p) ELSE p
        ELSE IF ToFirst # None /\ Precedes(ToFirst, target) THEN ToEnd
        ELSE ToFirst

Limited == options.limit >= 0

\* One turn of the loop of ReadMany.
Pull(s) ==
    LET p == IF s.landed THEN Moved(s.pos) ELSE s.pos
        n == IF Limited /\ s.count <= options.limit THEN s.count + 1 ELSE s.count
    IN  IF ~s.more THEN s
        ELSE IF ~Valid(p) THEN [s EXCEPT !.pos = p, !.done = TRUE, !.more = FALSE]
        ELSE IF Limited /\ n > options.limit
             THEN [s EXCEPT !.pos = p, !.count = n, !.done = TRUE, !.more = FALSE]
        ELSE [s EXCEPT !.pos = p, !.count = n, !.cache = Append(@, p),
                       !.landed = TRUE, !.more = s.landed]

\* ReadMany, when n entries fill the batch; only one is read to land.
ReadMany(n) ==
    LET turn[i \in 0..n] ==
          IF i = 0
          THEN [pos |-> IF didSeek THEN pos ELSE ToRange, landed |-> landed, count |-> count,
                cache |-> <<>>, done |-> FALSE, more |-> TRUE]
          ELSE Pull(turn[i - 1])
    IN  turn[n]
-----------------------------------------------------------------------------
RangeInit ==
    /\ options \in OptionSets
    /\ snapshot \in SUBSET Keys
    /\ pos = None
    /\ didSeek = FALSE /\ landed = FALSE
    /\ count = 0
    /\ cache = <<>> /\ finished = FALSE
    /\ answer = Nothing

\* _next: from the cache, or at the end, or after a batch was read.
NextFromCache ==
    /\ cache # <<>>
    /\ answer' = Head(cache) /\ cache' = Tail(cache)
    /\ UNCHANGED <<options, snapshot, native, finished>>

NextAtEnd ==
    /\ cache = <<>> /\ finished
    /\ answer' = NoMore
    /\ UNCHANGED <<options, snapshot, native, cache, finished>>

NextReads ==
    /\ cache = <<>> /\ ~finished
    /\ \E n \in 1..MaxBatch :
        LET read == ReadMany(n)
        IN  /\ pos' = read.pos /\ landed' = read.landed /\ count' = read.count
            /\ finished' = read.done
            /\ IF read.cache = <<>>
               THEN answer' = NoMore /\ cache' = <<>>
               ELSE answer' = Head(read.cache) /\ cache' = Tail(read.cache)
    /\ didSeek' = TRUE
    /\ UNCHANGED <<options, snapshot>>

\* seek(): a target outside the range of an empty database is excepted, leveldb
\* would be moved from nowhere.
\* Bug variant: landed_ is left alone.
BugSeek(target) ==
    /\ snapshot # {} \/ ~OutOfRange(target)
    /\ pos' = ToTarget(target)
    /\ didSeek' = TRUE
    /\ cache' = <<>> /\ finished' = FALSE
    /\ answer' = Nothing
    /\ UNCHANGED <<options, snapshot, landed, count>>
Seek(target) ==
    /\ snapshot # {} \/ ~OutOfRange(target)
    /\ pos' = ToTarget(target)
    /\ didSeek' = TRUE /\ landed' = FALSE
    /\ cache' = <<>> /\ finished' = FALSE
    /\ answer' = Nothing
    /\ UNCHANGED <<options, snapshot, count>>

RangeNext == NextFromCache \/ NextAtEnd \/ NextReads \/ \E target \in Keys : Seek(target)

RangeSpec == RangeInit /\ [][RangeNext]_rangeVars
-----------------------------------------------------------------------------
(***************************************************************************)
(* Properties                                                              *)
(***************************************************************************)

\* A range with at most one bound at each end.  With both of them only the inclusive one
\* is sought, and an iteration that meets a key out of range there ends at once.
OneBoundEach(o) == (o.gt = None \/ o.gte = None) /\ (o.lt = None \/ o.lte = None)

\* The leveldb iterator is moved only from an entry of the snapshot: ReadMany
\* moves on before it looks, which is right as long as landed_, the position
\* and this.finished agree.
MovesFromEntries == pos # Undefined

\* What the iterator will give if nobody seeks: its cache, and what is ahead.
InRange == {k \in Keys : ~OutOfRange(k)}
Remaining == IF Limited THEN Len(cache) + (IF count < options.limit THEN options.limit - count ELSE 0) ELSE -1
\* The key at pos was read, unless the limit was met there.
Passed == landed /\ ~(Limited /\ count > options.limit)
Unread ==
    IF ~didSeek THEN snapshot \cap InRange
    ELSE IF ~Valid(pos) THEN {}
    ELSE {k \in snapshot \cap InRange : (k = pos /\ ~Passed) \/ Precedes(pos, k)}

C == INSTANCE Cursor WITH
    seekable <- Keys,
    keys <- snapshot \cap InRange,
    targets <- InRange,
    reverse <- options.reverse,
    rest <- IF Remaining = 0 THEN {} ELSE {cache[i] : i \in DOMAIN cache} \cup Unread,
    allowance <- Remaining

\* Read-ahead, the cache in JavaScript, the limit and the positions that seek
\* and the range options set give what a cursor over the range promises.
ImplementsCursor == C!CursorSpec
=============================================================================
