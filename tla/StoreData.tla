----------------------------- MODULE StoreData -----------------------------
(***************************************************************************)
(* The data operations of binding.cc: put, del, batches, get, getMany and  *)
(* clear, each called on the main thread, executed on the pool and         *)
(* answered.  clear() walks a BaseIterator of its own, an instance of      *)
(* RangeIterator without the cache of iterator.js.  leveldb is external: a *)
(* map, written by one batch at a time.                                    *)
(***************************************************************************)
EXTENDS RangeIterator, FiniteSets

CONSTANTS
    DataOp,  \* slots for operations under way
    Version, \* values, as numbers; 0 is an absent key
    Writes,  \* what users write at once: values for some keys
    Reads,   \* what users read at once: sets of keys
    ClearOptions \* range options that users give to clear()

ASSUME DataAssumption ==
    /\ Version \subseteq Nat /\ 0 \in Version
    /\ ClearOptions \subseteq Options
    /\ \A w \in Writes : DOMAIN w \subseteq Keys /\ \A k \in DOMAIN w : w[k] \in Version

VARIABLES
    contents,\* the database: Keys -> Version
    ops,     \* the operations other than clear()
    clear,   \* the ClearWorker: "no", "queued", "running", "ok" or "error"
    deleted, \* the keys its batches have deleted
    within,  \* the options of the iterator of the ClearWorker,
    seen,    \* its snapshot,
    at,      \* its position
    counted  \* and its count_

clearVars == <<clear, deleted, within, seen, at, counted>>
dataVars == <<contents, ops, clearVars>>

It == INSTANCE RangeIterator WITH
    options <- within, snapshot <- seen, pos <- at, count <- counted,
    didSeek <- FALSE, landed <- FALSE, cache <- <<>>, finished <- FALSE, answer <- Nothing

Free == [kind |-> "none"]
Stored(m) == {k \in Keys : m[k] # 0}
-----------------------------------------------------------------------------
QueueWrite(o, w) ==
    /\ ops[o] = Free
    /\ ops' = [ops EXCEPT ![o] = [kind |-> "write", writes |-> w, stage |-> "queued"]]
    /\ UNCHANGED <<contents, clearVars>>

Single(w) == Cardinality(DOMAIN w) = 1
DbPut(o, w) == Single(w) /\ (\A k \in DOMAIN w : w[k] # 0) /\ QueueWrite(o, w)
DbDel(o, w) == Single(w) /\ (\A k \in DOMAIN w : w[k] = 0) /\ QueueWrite(o, w)

\* The last put or del of a key in the batch counts; a chained batch was filled
\* call by call on the main thread and is not changed once it is written.
BatchDo(o, w) == ~Single(w) /\ QueueWrite(o, w)
BatchWrite(o, w) == QueueWrite(o, w)

\* One leveldb write, or an error.
ExecuteWrite(o) ==
    /\ ops[o].kind = "write" /\ ops[o].stage = "queued"
    /\ \/ contents' = [k \in Keys |-> IF k \in DOMAIN ops[o].writes THEN ops[o].writes[k] ELSE contents[k]]
       \/ UNCHANGED contents
    /\ ops' = [ops EXCEPT ![o].stage = "executed"]
    /\ UNCHANGED clearVars

\* The snapshot of getMany is taken on the main thread.
CallGetMany(o, K) ==
    /\ ops[o] = Free
    /\ ops' = [ops EXCEPT ![o] = [kind |-> "getMany", keys |-> K, view |-> contents,
                                  got |-> <<>>, stage |-> "queued"]]
    /\ UNCHANGED <<contents, clearVars>>

\* get reads what is there when it executes.
CallGet(o, k) ==
    /\ ops[o] = Free
    /\ ops' = [ops EXCEPT ![o] = [kind |-> "get", keys |-> {k}, got |-> <<>>, stage |-> "queued"]]
    /\ UNCHANGED <<contents, clearVars>>

BugView(o) == contents
View(o) == IF ops[o].kind = "getMany" THEN ops[o].view ELSE contents

ReadKey(o, k) ==
    /\ ops[o].kind \in {"get", "getMany"} /\ ops[o].stage = "queued"
    /\ k \in ops[o].keys \ DOMAIN ops[o].got
    /\ LET v == View(o)[k]
           got == [l \in DOMAIN ops[o].got \cup {k} |->
                     IF l = k THEN v ELSE ops[o].got[l]]
       IN ops' = [ops EXCEPT ![o].got = got,
                             ![o].stage = IF DOMAIN got = ops[o].keys THEN "executed" ELSE @]
    /\ UNCHANGED <<contents, clearVars>>

Answered(o) ==
    /\ ops[o] # Free /\ ops[o].stage = "executed"
    /\ ops' = [ops EXCEPT ![o] = Free]
    /\ UNCHANGED <<contents, clearVars>>
-----------------------------------------------------------------------------
\* The iterator of the ClearWorker, and so its snapshot, is made by the call.
CallClear(o) ==
    /\ clear \in {"no", "ok", "error"}
    /\ clear' = "queued" /\ deleted' = {}
    /\ within' = o /\ seen' = Stored(contents)
    /\ at' = None /\ counted' = 0
    /\ UNCHANGED <<contents, ops>>

BugClearPull(s) ==
    IF It!Valid(s.pos) /\ (It!Limited => s.count <= within.limit)
    THEN [pos |-> It!Moved(s.pos), count |-> s.count + 1, batch |-> s.batch \cup {s.pos}]
    ELSE s

\* Valid, Increment, Delete and Next for one key.
ClearPull(s) ==
    IF It!Valid(s.pos) /\ (It!Limited => s.count < within.limit)
    THEN [pos |-> It!Moved(s.pos), count |-> s.count + 1, batch |-> s.batch \cup {s.pos}]
    ELSE s

\* What one turn of the outer loop has read when n keys fill the batch.
ClearRead(n) ==
    LET turn[i \in 0..n] ==
          IF i = 0 THEN [pos |-> IF clear = "queued" THEN It!ToRange ELSE at,
                         count |-> counted, batch |-> {}]
                   ELSE ClearPull(turn[i - 1])
    IN turn[n]

\* An error of the iterator or of the write leaves the range half deleted.
ClearTurn ==
    /\ clear \in {"queued", "running"}
    /\ \E n \in 1..MaxBatch : LET read == ClearRead(n) IN
        /\ at' = read.pos /\ counted' = read.count
        /\ \/ /\ read.batch = {}
              /\ clear' = "ok" /\ UNCHANGED <<contents, deleted>>
           \/ /\ read.batch # {}
              /\ contents' = [k \in Keys |-> IF k \in read.batch THEN 0 ELSE contents[k]]
              /\ deleted' = deleted \cup read.batch
              /\ clear' = "running"
           \/ clear' = "error" /\ UNCHANGED <<contents, deleted>>
    /\ UNCHANGED <<ops, within, seen>>
-----------------------------------------------------------------------------
DataInit ==
    /\ contents \in [Keys -> Version]
    /\ ops = [o \in DataOp |-> Free]
    /\ clear = "no" /\ deleted = {}
    /\ within = [reverse |-> FALSE, gt |-> None, gte |-> None, lt |-> None, lte |-> None, limit |-> -1]
    /\ seen = {} /\ at = None /\ counted = 0

DataNext ==
    \/ \E o \in DataOp :
        \/ \E w \in Writes : DbPut(o, w) \/ DbDel(o, w) \/ BatchDo(o, w) \/ BatchWrite(o, w)
        \/ \E K \in Reads : CallGetMany(o, K)
        \/ \E k \in Keys : ReadKey(o, k)
        \/ \E k \in UNION Reads : CallGet(o, k)
        \/ ExecuteWrite(o) \/ Answered(o)
    \/ \E o \in ClearOptions : CallClear(o)
    \/ ClearTurn

DataSpec == DataInit /\ [][DataNext]_dataVars
-----------------------------------------------------------------------------
(***************************************************************************)
(* Properties                                                              *)
(***************************************************************************)

\* Operations keep to the moment of their call, however writes interleave with
\* them.  getMany() answers with the values of that moment (GetManyWorker); clear()
\* deletes nothing but its range, in order, and all of it when it answers without
\* an error, and keys stored after the call are spared unless they were stored
\* before too (ClearWorker).
GetManyIsOneMoment ==
    \A o \in DataOp : ops[o].kind = "getMany" =>
        \A k \in DOMAIN ops[o].got : ops[o].got[k] = ops[o].view[k]

\* The keys clear() should delete: those of its range that were stored when it
\* was called, from the end it starts at, as many as the limit allows.
ToClear ==
    LET range == seen \cap It!InRange
    IN {k \in range : It!Limited => Cardinality({l \in range : It!Precedes(l, k)}) < within.limit}

ClearDeletesItsRange ==
    clear # "no" =>
        /\ deleted \subseteq ToClear
        /\ \A k \in deleted, l \in ToClear \ deleted : It!Precedes(k, l)
        /\ clear = "ok" => deleted = ToClear

MomentIsKept == GetManyIsOneMoment /\ ClearDeletesItsRange
=============================================================================
