------------------------------ MODULE Database ------------------------------
(***************************************************************************)
(* The lifecycle of one LevelDOWN database: leveldb-binding/binding.cc and *)
(* the JavaScript objects of src/leveldown that drive it.                  *)
(*                                                                         *)
(* Two kinds of threads run.  The main thread runs user code and every     *)
(* Node-API call; it also completes workers (callback, then DoFinally).    *)
(* The libuv pool runs DoExecute of the queued workers, concurrently with  *)
(* one another and with the main thread.  A worker is named by the pair    *)
(* <<kind, owner>>, which is enough because at most one open, close and    *)
(* end worker (per iterator) exists at a time; a second NextWorker of the  *)
(* same iterator ("again") can be created while the first one is still     *)
(* inside its error callback.  An open() or close() called from the        *)
(* callback of the previous one is taken to come just after it, since      *)
(* DoFinally of those workers only frees them.                             *)
(*                                                                         *)
(* Data is left out: keys, values and options never change which of these  *)
(* steps is possible.  The user follows the discipline of abstract-leveldown *)
(* and levelup: operations and iterators only on an open database, no      *)
(* second close() before the first is answered, no open() before close()   *)
(* is; iterators are used at any time.                                     *)
(***************************************************************************)
EXTENDS Integers, FiniteSets

CONSTANTS
    Op,             \* slots for concurrent put, get, getMany, del, clear, batch...
    Iter,           \* slots for concurrent iterators
    ReadErrors,     \* may a leveldb iterator report a bad status?
    SeekWhenEnding  \* does the user call seek() on an iterator close() is ending?

ASSUME ConstantsAssumption ==
    /\ IsFiniteSet(Op)
    /\ IsFiniteSet(Iter)
    /\ ReadErrors \in BOOLEAN
    /\ SeekWhenEnding \in BOOLEAN

VARIABLES
    db,           \* Database::db_, NULL or an open leveldb
    blockCache,   \* Database::blockCache_ is allocated
    priorityWork, \* Database::priorityWork_, also the count of the reference ref_
    work,         \* how far each worker has come
    life,         \* Iterator objects: none, with a leveldb iterator, hasEnded_
    attached,     \* the iterator is in iterators_ and its ref_ holds the object
    nexting,      \* Iterator::nexting_
    endedBy,      \* Iterator::isEnding_, and whose callback the EndWorker has
    jsNexting,    \* AbstractIterator._nexting
    jsEnd,        \* AbstractIterator._ended, and whether end() was answered
    main,         \* the worker whose callback the main thread is in, or Idle
    seeking,      \* the iterator the main thread is seeking, as a set
    status,       \* LevelDOWN.status; "closed" also stands for "new"
    env,          \* the Node environment
    dbObject      \* is the Database object allocated?

storeVars == <<db, blockCache>>
iterVars  == <<life, attached, nexting, endedBy, jsNexting, jsEnd>>
hostVars  == <<env, dbObject>>
vars == <<storeVars, priorityWork, work, iterVars, main, seeking, status, hostVars>>
-----------------------------------------------------------------------------
OpenW  == <<"open", "db">>
CloseW == <<"close", "db">>
OpW(o) == <<"op", o>>
EndW(i) == <<"end", i>>
NextW(i) == <<"next", i>>
AgainW(i) == <<"again", i>>
Idle == <<"idle", "db">>

Worker == ({"open", "close"} \X {"db"}) \cup ({"op"} \X Op)
            \cup ({"end", "next", "again"} \X Iter)

\* "held": created but not queued, it is pendingCloseWorker_ or an endWorker_.
WorkState == {"free", "held", "queued", "executing", "done", "failed"}

InFlight(w) == work[w] # "free"
Scheduled(w) == work[w] \in {"queued", "executing", "done", "failed"}
WillRun(w) == work[w] \in {"queued", "executing"}
NextInFlight(i) == InFlight(NextW(i)) \/ InFlight(AgainW(i))

IsEnding(i) == endedBy[i] # "no"
Attached == {i \in Iter : attached[i]}
PendingOps == {o \in Op : InFlight(OpW(o))}

\* Bug variant: close() waits for iterators only.
BugHasPriorityWork == Attached # {}
HasPriorityWork == priorityWork > 0

\* Does the callback of w run user code before DoFinally?  A successful next
\* answers the user on the next tick, and close() ends iterators with a noop.
RunsUserCode(w) ==
    \/ w[1] \in {"op", "open", "close"}
    \/ w[1] = "end" /\ endedBy[w[2]] = "user"
    \/ w[1] \in {"next", "again"} /\ work[w] = "failed"

UserCode ==
    /\ env = "running" /\ dbObject = "live" /\ seeking = {}
    /\ main = Idle \/ RunsUserCode(main)

TypeOK ==
    /\ db \in {"null", "open"}
    /\ blockCache \in BOOLEAN
    /\ priorityWork \in Nat
    /\ work \in [Worker -> WorkState]
    /\ life \in [Iter -> {"none", "live", "ended"}]
    /\ attached \in [Iter -> BOOLEAN]
    /\ nexting \in [Iter -> BOOLEAN]
    /\ endedBy \in [Iter -> {"no", "user", "close"}]
    /\ jsNexting \in [Iter -> BOOLEAN]
    /\ jsEnd \in [Iter -> {"no", "waiting", "called"}]
    /\ main \in Worker \cup {Idle}
    /\ seeking \in SUBSET Iter
    /\ status \in {"closed", "opening", "open", "closing"}
    /\ env \in {"running", "stopping", "exited"}
    /\ dbObject \in {"live", "deleted"}

Init ==
    /\ db = "null"
    /\ blockCache = FALSE
    /\ priorityWork = 0
    /\ work = [w \in Worker |-> "free"]
    /\ life = [i \in Iter |-> "none"]
    /\ attached = [i \in Iter |-> FALSE]
    /\ nexting = [i \in Iter |-> FALSE]
    /\ endedBy = [i \in Iter |-> "no"]
    /\ jsNexting = [i \in Iter |-> FALSE]
    /\ jsEnd = [i \in Iter |-> "no"]
    /\ main = Idle
    /\ seeking = {}
    /\ status = "closed"
    /\ env = "running"
    /\ dbObject = "live"
-----------------------------------------------------------------------------
(***************************************************************************)
(* Calls the user makes on the main thread, when it is idle or inside a    *)
(* callback.                                                               *)
(***************************************************************************)

\* open(): the OpenWorker is not a PriorityWorker.
DbOpen ==
    /\ UserCode
    /\ status = "closed" /\ ~InFlight(OpenW)
    /\ status' = "opening"
    /\ blockCache' = TRUE
    /\ work' = [work EXCEPT ![OpenW] = "queued"]
    /\ UNCHANGED <<db, priorityWork, iterVars, main, seeking, hostVars>>

\* iterator_end_do on the iterators S: the EndWorker waits for a next() in flight.
\* Bug variant: it does not wait.
BugEndWork(S) ==
    [w \in Worker |-> IF w[1] = "end" /\ w[2] \in S THEN "queued" ELSE work[w]]
EndWork(S) ==
    [w \in Worker |-> IF w[1] = "end" /\ w[2] \in S
                      THEN IF nexting[w[2]] THEN "held" ELSE "queued"
                      ELSE work[w]]

\* close(): at once when nothing has priority, otherwise after ending the iterators.
\* Bug variant: the iterators are left to the user to end.
BugDbClose ==
    /\ UserCode
    /\ status \in {"closed", "open"} /\ ~InFlight(CloseW)
    /\ status' = "closing"
    /\ work' = [work EXCEPT ![CloseW] = IF HasPriorityWork THEN "held" ELSE "queued"]
    /\ UNCHANGED <<storeVars, priorityWork, iterVars, main, seeking, hostVars>>
DbClose ==
    /\ UserCode
    /\ status \in {"closed", "open"} /\ ~InFlight(CloseW)
    /\ status' = "closing"
    /\ \/ /\ ~HasPriorityWork
          /\ work' = [work EXCEPT ![CloseW] = "queued"]
          /\ UNCHANGED endedBy
       \/ /\ HasPriorityWork
          /\ LET S == {i \in Attached : ~IsEnding(i) /\ life[i] # "ended"}
             IN  /\ work' = [EndWork(S) EXCEPT ![CloseW] = "held"]
                 /\ endedBy' = [i \in Iter |-> IF i \in S THEN "close" ELSE endedBy[i]]
    /\ UNCHANGED <<storeVars, priorityWork, life, attached, nexting, jsNexting,
                   jsEnd, main, seeking, hostVars>>

\* put(), get(), getMany(), del(), clear(), batch(), approximateSize(), compactRange().
\* Bug variant: a plain BaseWorker, which does not count.
BugDbOp(o) ==
    /\ UserCode
    /\ status = "open" /\ ~InFlight(OpW(o))
    /\ work' = [work EXCEPT ![OpW(o)] = "queued"]
    /\ UNCHANGED <<storeVars, priorityWork, iterVars, main, seeking, status, hostVars>>
DbOp(o) ==
    /\ UserCode
    /\ status = "open" /\ ~InFlight(OpW(o))
    /\ priorityWork' = priorityWork + 1
    /\ work' = [work EXCEPT ![OpW(o)] = "queued"]
    /\ UNCHANGED <<storeVars, iterVars, main, seeking, status, hostVars>>

\* iterator(): takes the snapshot and the leveldb iterator on the main thread.
IteratorInit(i) ==
    /\ UserCode
    /\ status = "open" /\ life[i] = "none"
    /\ life' = [life EXCEPT ![i] = "live"]
    /\ attached' = [attached EXCEPT ![i] = TRUE]
    /\ priorityWork' = priorityWork + 1
    /\ UNCHANGED <<storeVars, work, nexting, endedBy, jsNexting, jsEnd, main, seeking,
                   status, hostVars>>

\* The JavaScript object lets next() and seek() through.
JsReady(i) == life[i] # "none" /\ jsEnd[i] = "no" /\ ~jsNexting[i]

\* next(), when the cache of the JavaScript iterator is empty.  On an ending
\* iterator the callback gets "iterator has ended" at once and nothing changes.
IteratorNext(i) ==
    /\ UserCode /\ JsReady(i)
    /\ ~IsEnding(i) /\ life[i] # "ended"
    /\ \/ /\ ~InFlight(NextW(i))
          /\ work' = [work EXCEPT ![NextW(i)] = "queued"]
       \/ /\ InFlight(NextW(i)) /\ ~InFlight(AgainW(i))
          /\ work' = [work EXCEPT ![AgainW(i)] = "queued"]
    /\ nexting' = [nexting EXCEPT ![i] = TRUE]
    /\ jsNexting' = [jsNexting EXCEPT ![i] = TRUE]
    /\ UNCHANGED <<storeVars, priorityWork, life, attached, endedBy, jsEnd, main,
                   seeking, status, hostVars>>

\* end(): the callback is dropped when close() is already ending the iterator.
IteratorEnd(i) ==
    /\ UserCode
    /\ life[i] # "none" /\ jsEnd[i] = "no"
    /\ jsEnd' = [jsEnd EXCEPT ![i] = "waiting"]
    /\ \/ /\ ~IsEnding(i) /\ life[i] # "ended"
          /\ work' = EndWork({i})
          /\ endedBy' = [endedBy EXCEPT ![i] = "user"]
       \/ /\ IsEnding(i) \/ life[i] = "ended"
          /\ UNCHANGED <<work, endedBy>>
    /\ UNCHANGED <<storeVars, priorityWork, life, attached, nexting, jsNexting, main,
                   seeking, status, hostVars>>

\* seek() runs on the main thread while the pool works.  On an ending or ended
\* iterator it throws, but there is no return and it goes on to seek.
SeekBegin(i) ==
    /\ UserCode /\ JsReady(i)
    /\ SeekWhenEnding \/ (~IsEnding(i) /\ life[i] # "ended")
    /\ seeking' = {i}
    /\ UNCHANGED <<storeVars, priorityWork, work, iterVars, main, status, hostVars>>

SeekReturn(i) ==
    /\ i \in seeking
    /\ seeking' = {}
    /\ UNCHANGED <<storeVars, priorityWork, work, iterVars, main, status, hostVars>>
-----------------------------------------------------------------------------
(***************************************************************************)
(* The worker pool: BaseWorker::Execute, which runs DoExecute.             *)
(***************************************************************************)
Start(w) ==
    /\ work[w] = "queued"
    /\ work' = [work EXCEPT ![w] = "executing"]
    /\ UNCHANGED <<storeVars, priorityWork, iterVars, main, seeking, status, hostVars>>

\* DoExecute of a PriorityWorker.  Whether it fails changes nothing here.
ExecuteOp(w) ==
    /\ w[1] = "op"
    /\ work' = [work EXCEPT ![w] = "done"]
    /\ UNCHANGED <<storeVars, life>>

ExecuteOpen(w) ==
    /\ w = OpenW
    /\ \/ work' = [work EXCEPT ![w] = "done"] /\ db' = "open"
       \/ work' = [work EXCEPT ![w] = "failed"] /\ UNCHANGED db
    /\ UNCHANGED <<blockCache, life>>

\* CloseDatabase
ExecuteClose(w) ==
    /\ w = CloseW
    /\ work' = [work EXCEPT ![w] = "done"]
    /\ db' = "null"
    /\ blockCache' = FALSE
    /\ UNCHANGED life

\* SeekToRange and ReadMany, then the status of the leveldb iterator.
ExecuteNext(w) ==
    /\ w[1] \in {"next", "again"}
    /\ \/ work' = [work EXCEPT ![w] = "done"]
       \/ ReadErrors /\ work' = [work EXCEPT ![w] = "failed"]
    /\ UNCHANGED <<storeVars, life>>

\* BaseIterator::End
ExecuteEnd(w) ==
    /\ w[1] = "end"
    /\ work' = [work EXCEPT ![w] = "done"]
    /\ life' = [life EXCEPT ![w[2]] = "ended"]
    /\ UNCHANGED storeVars

Finish(w) ==
    /\ work[w] = "executing"
    /\ ExecuteOp(w) \/ ExecuteOpen(w) \/ ExecuteClose(w) \/ ExecuteNext(w) \/ ExecuteEnd(w)
    /\ UNCHANGED <<priorityWork, attached, nexting, endedBy, jsNexting, jsEnd, main,
                   seeking, status, hostVars>>
-----------------------------------------------------------------------------
(***************************************************************************)
(* Completion on the main thread: DoComplete calls back, DoFinally cleans  *)
(* up.  User code runs in between.                                         *)
(***************************************************************************)

\* What JavaScript does with the answer of w before the user's own callback runs.
StatusAfter(w) ==
    CASE w = OpenW  -> IF work[w] = "done" THEN "open" ELSE "closed"
      [] w = CloseW -> "closed"
      [] OTHER      -> status

DoComplete(w) ==
    /\ main = Idle /\ seeking = {}
    /\ work[w] \in {"done", "failed"}
    /\ main' = w
    /\ status' = StatusAfter(w)
    /\ jsEnd' = IF w[1] = "end" /\ endedBy[w[2]] = "user"
                THEN [jsEnd EXCEPT ![w[2]] = "called"] ELSE jsEnd
    /\ jsNexting' = IF w[1] \in {"next", "again"} /\ work[w] = "failed"
                    THEN [jsNexting EXCEPT ![w[2]] = FALSE] ELSE jsNexting
    /\ UNCHANGED <<storeVars, priorityWork, work, life, attached, nexting, endedBy,
                   seeking, hostVars>>

\* DecrementPriorityWork at the end of worker w.
\* Bug variants: the pending close is queued one worker early, or never.
BugReleasePriority(w) ==
    /\ priorityWork' = priorityWork - 1
    /\ work' = [work EXCEPT ![w] = "free",
                            ![CloseW] = IF priorityWork <= 2 /\ @ = "held"
                                        THEN "queued" ELSE @]
LostReleasePriority(w) ==
    /\ priorityWork' = priorityWork - 1
    /\ work' = [work EXCEPT ![w] = "free"]
ReleasePriority(w) ==
    /\ priorityWork' = priorityWork - 1
    /\ work' = [work EXCEPT ![w] = "free",
                            ![CloseW] = IF priorityWork = 1 /\ @ = "held"
                                        THEN "queued" ELSE @]

FinallyOp(w) ==
    /\ w[1] = "op"
    /\ ReleasePriority(w)
    /\ UNCHANGED iterVars

\* Detach: erase from iterators_, drop the priority and the reference.
\* Bug variant: the iterator is erased but keeps its priority.
BugFinallyEnd(w) ==
    /\ w[1] = "end"
    /\ work' = [work EXCEPT ![w] = "free"]
    /\ attached' = [attached EXCEPT ![w[2]] = FALSE]
    /\ UNCHANGED <<priorityWork, life, nexting, endedBy, jsNexting, jsEnd>>
FinallyEnd(w) ==
    /\ w[1] = "end"
    /\ ReleasePriority(w)
    /\ attached' = [attached EXCEPT ![w[2]] = FALSE]
    /\ UNCHANGED <<life, nexting, endedBy, jsNexting, jsEnd>>

\* The user's callback of a successful next() runs on the tick after this.
\* Bug variant: the deferred EndWorker is not queued.
BugFinallyNext(w) ==
    /\ w[1] \in {"next", "again"}
    /\ nexting' = [nexting EXCEPT ![w[2]] = FALSE]
    /\ jsNexting' = [jsNexting EXCEPT ![w[2]] = @ /\ work[w] = "failed"]
    /\ work' = [work EXCEPT ![w] = "free"]
    /\ UNCHANGED <<priorityWork, life, attached, endedBy, jsEnd>>
FinallyNext(w) ==
    /\ w[1] \in {"next", "again"}
    /\ nexting' = [nexting EXCEPT ![w[2]] = FALSE]
    /\ jsNexting' = [jsNexting EXCEPT ![w[2]] = @ /\ work[w] = "failed"]
    /\ work' = [work EXCEPT ![w] = "free",
                            ![EndW(w[2])] = IF @ = "held" THEN "queued" ELSE @]
    /\ UNCHANGED <<priorityWork, life, attached, endedBy, jsEnd>>

FinallyOpenClose(w) ==
    /\ w \in {OpenW, CloseW}
    /\ work' = [work EXCEPT ![w] = "free"]
    /\ UNCHANGED <<priorityWork, iterVars>>

DoFinally(w) ==
    /\ main = w /\ seeking = {}
    /\ main' = Idle
    /\ FinallyOp(w) \/ FinallyEnd(w) \/ FinallyNext(w) \/ FinallyOpenClose(w)
    /\ UNCHANGED <<storeVars, seeking, status, hostVars>>
-----------------------------------------------------------------------------
(***************************************************************************)
(* Garbage collection and the end of the environment.                      *)
(***************************************************************************)

\* The napi reference is gone and no callback of a NextWorker holds the object,
\* or the environment is gone, which finalizes attached iterators too.
Collectable(i) ==
    /\ life[i] # "none"
    /\ env = "exited" \/ (~attached[i] /\ ~NextInFlight(i))

\* The destructor.  At exit the entry of the iterator in iterators_ stays.
FinalizeIterator(i) ==
    /\ Collectable(i) /\ seeking = {}
    /\ life' = [life EXCEPT ![i] = "none"]
    /\ endedBy' = [endedBy EXCEPT ![i] = "no"]
    /\ jsEnd' = [jsEnd EXCEPT ![i] = "no"]
    /\ UNCHANGED <<storeVars, priorityWork, work, attached, nexting, jsNexting, main,
                   seeking, status, hostVars>>

\* The reference count ref_ is zero and no JavaScript closure holds the
\* LevelDOWN object: those of open(), close() and next() do.
FinalizeDatabase ==
    /\ dbObject = "live" /\ seeking = {}
    /\ \/ env = "exited"
       \/ /\ priorityWork = 0
          /\ ~InFlight(OpenW) /\ ~InFlight(CloseW)
          /\ \A i \in Iter : ~NextInFlight(i)
    /\ dbObject' = "deleted"
    /\ db' = "null"
    /\ UNCHANGED <<blockCache, priorityWork, work, iterVars, main, seeking, status, env>>

\* The process or worker thread starts to exit: no more user code.
EnvStop ==
    /\ env = "running"
    /\ main = Idle /\ seeking = {}
    /\ env' = "stopping"
    /\ UNCHANGED <<storeVars, priorityWork, work, iterVars, main, seeking, status, dbObject>>

\* env_cleanup_hook, once the work that was scheduled has finished.
\* Bug variant: the hook closes leveldb and leaves the iterators alone.
BugEnvCleanup ==
    /\ env = "stopping"
    /\ main = Idle /\ \A w \in Worker : ~Scheduled(w)
    /\ env' = "exited" /\ db' = "null" /\ blockCache' = FALSE
    /\ UNCHANGED <<priorityWork, work, iterVars, main, seeking, status, dbObject>>
EnvCleanup ==
    /\ env = "stopping"
    /\ main = Idle /\ \A w \in Worker : ~Scheduled(w)
    /\ env' = "exited"
    /\ \/ /\ dbObject = "live" /\ db # "null"
          /\ life' = [i \in Iter |-> IF i \in Attached THEN "ended" ELSE life[i]]
          /\ db' = "null"
          /\ blockCache' = FALSE
       \/ /\ dbObject = "deleted" \/ db = "null"
          /\ UNCHANGED <<life, storeVars>>
    /\ UNCHANGED <<priorityWork, work, attached, nexting, endedBy, jsNexting, jsEnd,
                   main, seeking, status, dbObject>>
-----------------------------------------------------------------------------
UserStep ==
    \/ DbOpen \/ DbClose
    \/ \E o \in Op : DbOp(o)
    \/ \E i \in Iter : \/ IteratorInit(i) \/ IteratorNext(i) \/ IteratorEnd(i)
                       \/ SeekBegin(i) \/ SeekReturn(i)

WorkerStep(w) == Start(w) \/ Finish(w) \/ DoComplete(w) \/ DoFinally(w)

EnvironmentStep ==
    \/ \E i \in Iter : FinalizeIterator(i)
    \/ FinalizeDatabase \/ EnvStop \/ EnvCleanup

Next == UserStep \/ (\E w \in Worker : WorkerStep(w)) \/ EnvironmentStep

Spec == Init /\ [][Next]_vars

\* The pool runs queued work and the loop completes it, each in FIFO order, so
\* a worker is never passed over for ever; a callback and a seek() return, so a
\* callback does not seek for ever either.
Fairness ==
    /\ \A w \in Worker :
        /\ WF_vars(Start(w)) /\ WF_vars(Finish(w))
        /\ SF_vars(DoComplete(w)) /\ SF_vars(DoFinally(w))
    /\ \A i \in Iter : WF_vars(SeekReturn(i))

FairSpec == Spec /\ Fairness
-----------------------------------------------------------------------------
(***************************************************************************)
(* Properties                                                              *)
(***************************************************************************)

\* priorityWork_ counts the attached iterators and the priority workers that
\* have not reached DoFinally, so neither close() nor the garbage collector
\* can overlook one (AttachIterator, PriorityWorker, Detach).
PriorityWorkCounts ==
    priorityWork = Cardinality(Attached) + Cardinality(PendingOps)

\* Once the CloseWorker is queued nothing else uses or will use leveldb: no
\* operation, no next(), no iterator still holding a snapshot (db_close,
\* DecrementPriorityWork; test/leveldown/segfault-test.js:5).
CloseRunsAlone ==
    Scheduled(CloseW) =>
        /\ PendingOps = {}
        /\ \A i \in Iter : ~NextInFlight(i) /\ ~InFlight(EndW(i)) /\ life[i] # "live"

\* leveldb is open, and its block cache allocated, while a worker that reads or
\* writes it is in the pool or will be, while the main thread seeks, and while an
\* iterator is live (a NextWorker also when its iterator has ended: it uses it).
StoreOutlivesUse ==
    \/ db = "open" /\ blockCache /\ dbObject = "live"
    \/ /\ \A o \in Op : ~WillRun(OpW(o))
       /\ \A i \in Iter :
            /\ ~WillRun(NextW(i)) /\ ~WillRun(AgainW(i))
            /\ life[i] # "live" /\ i \notin seeking

\* The leveldb iterator is used by one thread at a time and never after it is
\* deleted: once the EndWorker is queued neither a NextWorker nor a seek() can
\* touch it, and the two never overlap (nexting_, isEnding_ and endWorker_).
IteratorUsedAlone ==
    \A i \in Iter :
        /\ Scheduled(EndW(i)) \/ life[i] = "ended" =>
            ~WillRun(NextW(i)) /\ ~WillRun(AgainW(i)) /\ i \notin seeking
        /\ ~(WillRun(NextW(i)) /\ WillRun(AgainW(i)))
        /\ WillRun(NextW(i)) \/ WillRun(AgainW(i)) => i \notin seeking

\* A close() that waits is waiting for something that will end: there is
\* priority work, and every attached iterator already has its EndWorker.
PendingCloseIsServed ==
    work[CloseW] = "held" =>
        /\ HasPriorityWork
        /\ \A i \in Attached : IsEnding(i) /\ InFlight(EndW(i))

\* The destructor of an iterator asserts hasEnded_: whenever an object can be
\* collected it has ended and no worker points to it (Detach, FinalizeIterator).
CollectedHasEnded ==
    \A i \in Iter :
        Collectable(i) => life[i] = "ended" /\ ~NextInFlight(i) /\ ~InFlight(EndW(i))

\* The Database object is never deleted under a worker or an iterator that
\* still points to it (ref_, FinalizeDatabase).
DeletedWhenUnused ==
    dbObject = "deleted" /\ env # "exited" =>
        /\ \A w \in Worker : ~InFlight(w)
        /\ \A i \in Iter : life[i] # "live"

\* leveldb, its cache, the Database and the Iterator objects outlive all that can
\* reach them.
OutlivesUse == StoreOutlivesUse /\ DeletedWhenUnused /\ CollectedHasEnded

\* After the cleanup hook nothing of leveldb is left open, and no close() is
\* stranded waiting for priority work (env_cleanup_hook).
ExitLeavesNothing ==
    env = "exited" =>
        /\ db = "null"
        /\ \A i \in Iter : life[i] # "live"
        /\ \A w \in Worker : ~InFlight(w)

\* Calls on an iterator are answered, whatever follows them: a next() that reached
\* the binding, also when end() or close() come, and an end() that created the
\* EndWorker, also when it had to wait for a next() in flight.
CallsAnswered ==
    \A i \in Iter :
        /\ jsNexting[i] ~> ~jsNexting[i]
        /\ (endedBy[i] = "user" /\ jsEnd[i] = "waiting") ~> jsEnd[i] = "called"
=============================================================================
