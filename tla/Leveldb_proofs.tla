--------------------------- MODULE Leveldb_proofs ---------------------------
(***************************************************************************)
(* Proofs about the leveldb binding: Database, for any number of           *)
(* operations and iterators; and StoreData, for any number of operations,  *)
(* any writes, keys, batch sizes and limits.                               *)
(***************************************************************************)
EXTENDS DatabaseSession, StoreData, FiniteSetTheorems, TLAPS
-----------------------------------------------------------------------------
(***************************************************************************)
(* Database. First what holds whatever the user and leveldb do: types, and *)
(* the count of priority work.                                             *)
(***************************************************************************)
-----------------------------------------------------------------------------
\* The worker whose callback runs has been executed.
MainHasRun == main # Idle => work[main] \in {"done", "failed"}

\* An EndWorker belongs to an attached iterator that it is ending; an iterator
\* is detached only by its EndWorker; only the exit collects attached ones.
EndWorkerOwned ==
    \A i \in Iter :
        /\ InFlight(EndW(i)) => attached[i] /\ (IsEnding(i) \/ env = "exited")
        /\ life[i] # "none" /\ ~attached[i] => IsEnding(i)
        /\ life[i] = "none" /\ attached[i] => env = "exited"

\* The hook runs after all scheduled work, and nothing is scheduled afterwards.
ExitedQuiet == env = "exited" => \A w \in Worker : ~Scheduled(w)

CountInv == TypeOK /\ PriorityWorkCounts /\ MainHasRun /\ EndWorkerOwned /\ ExitedQuiet
-----------------------------------------------------------------------------
\* Every worker has one of the names below.
LEMMA WorkerFacts ==
    /\ OpenW \in Worker /\ CloseW \in Worker
    /\ \A o \in Op : OpW(o) \in Worker
    /\ \A i \in Iter : EndW(i) \in Worker /\ NextW(i) \in Worker /\ AgainW(i) \in Worker
    /\ Idle \notin Worker
BY DEF Worker, OpenW, CloseW, OpW, EndW, NextW, AgainW, Idle

LEMMA WorkerCases ==
    \A w \in Worker :
        \/ w = OpenW \/ w = CloseW
        \/ \E o \in Op : w = OpW(o)
        \/ \E i \in Iter : w = EndW(i) \/ w = NextW(i) \/ w = AgainW(i)
BY DEF Worker, OpenW, CloseW, OpW, EndW, NextW, AgainW

\* The names are all different.
LEMMA WorkerNames ==
    /\ \A o : OpW(o)[1] = "op" /\ OpW(o)[2] = o
    /\ \A i : EndW(i)[1] = "end" /\ EndW(i)[2] = i
    /\ \A i : NextW(i)[1] = "next" /\ NextW(i)[2] = i
    /\ \A i : AgainW(i)[1] = "again" /\ AgainW(i)[2] = i
    /\ OpenW[1] = "open" /\ CloseW[1] = "close"
BY DEF OpenW, CloseW, OpW, EndW, NextW, AgainW

LEMMA FiniteSubsets ==
    /\ \A S \in SUBSET Op : IsFiniteSet(S) /\ Cardinality(S) \in Nat
    /\ \A T \in SUBSET Iter : IsFiniteSet(T) /\ Cardinality(T) \in Nat
BY ConstantsAssumption, FS_Subset, FS_CardinalityType

LEMMA CountsAreNat ==
    /\ IsFiniteSet(Attached) /\ Cardinality(Attached) \in Nat
    /\ IsFiniteSet(PendingOps) /\ Cardinality(PendingOps) \in Nat
BY FiniteSubsets DEF Attached, PendingOps

LEMMA AddOne ==
    ASSUME NEW S, IsFiniteSet(S), NEW x, x \notin S
    PROVE  Cardinality(S \cup {x}) = Cardinality(S) + 1
BY FS_AddElement

LEMMA RemoveOne ==
    ASSUME NEW S, IsFiniteSet(S), NEW x, x \in S
    PROVE  Cardinality(S \ {x}) = Cardinality(S) - 1 /\ Cardinality(S) >= 1
<1>1. Cardinality(S \ {x}) = Cardinality(S) - 1 /\ IsFiniteSet(S \ {x})
  BY FS_RemoveElement
<1>2. Cardinality(S \ {x}) \in Nat /\ Cardinality(S) \in Nat
  BY <1>1, FS_CardinalityType
<1> QED BY <1>1, <1>2

\* A step that leaves the two sets and the counter alone keeps the count.
LEMMA CountUnchanged ==
    ASSUME PriorityWorkCounts, Attached' = Attached, PendingOps' = PendingOps,
           priorityWork' = priorityWork
    PROVE  PriorityWorkCounts'
BY DEF PriorityWorkCounts

LEMMA InitCount == Init => CountInv
<1> SUFFICES ASSUME Init PROVE CountInv
  OBVIOUS
<1>1. TypeOK
  BY DEF Init, TypeOK, WorkState
<1>2. Attached = {} /\ PendingOps = {}
  BY WorkerFacts DEF Init, Attached, PendingOps, InFlight
<1>3. PriorityWorkCounts
  BY <1>2, FS_EmptySet DEF Init, PriorityWorkCounts
<1>4. MainHasRun /\ EndWorkerOwned /\ ExitedQuiet
  BY WorkerFacts DEF Init, MainHasRun, EndWorkerOwned, ExitedQuiet, InFlight
<1> QED BY <1>1, <1>3, <1>4 DEF CountInv

\* What EndWork does to each worker.
LEMMA EndWorkFacts ==
    ASSUME NEW S \in SUBSET Iter, TypeOK
    PROVE  /\ EndWork(S) \in [Worker -> WorkState]
           /\ \A i \in S : EndWork(S)[EndW(i)] = IF nexting[i] THEN "held" ELSE "queued"
           /\ \A w \in Worker : (\A i \in S : w # EndW(i)) => EndWork(S)[w] = work[w]
<1>1. \A w \in Worker : w[1] = "end" => w[2] \in Iter /\ w = EndW(w[2])
  BY WorkerCases, WorkerNames
<1> QED BY <1>1, WorkerFacts, WorkerNames DEF EndWork, TypeOK, WorkState

LEMMA EndWorkOne ==
    ASSUME NEW i \in Iter, TypeOK
    PROVE  /\ EndWork({i}) \in [Worker -> WorkState]
           /\ EndWork({i})[EndW(i)] = IF nexting[i] THEN "held" ELSE "queued"
           /\ \A w \in Worker : w # EndW(i) => EndWork({i})[w] = work[w]
<1>1. {i} \in SUBSET Iter OBVIOUS
<1>2. \A S \in SUBSET Iter :
        /\ EndWork(S) \in [Worker -> WorkState]
        /\ \A j \in S : EndWork(S)[EndW(j)] = IF nexting[j] THEN "held" ELSE "queued"
        /\ \A w \in Worker : (\A j \in S : w # EndW(j)) => EndWork(S)[w] = work[w]
  BY EndWorkFacts
<1> QED BY <1>1, <1>2

LEMMA CountUserStep ==
    ASSUME CountInv, UserStep
    PROVE  CountInv'
<1> USE WorkerFacts, WorkerNames
<1> USE DEF CountInv, TypeOK, WorkState, InFlight, storeVars, iterVars, hostVars
<1>0. ExitedQuiet'
  BY DEF UserStep, UserCode, DbOpen, DbClose, DbOp, IteratorInit, IteratorNext, IteratorEnd,
         SeekBegin, SeekReturn, ExitedQuiet, Scheduled
<1>1. CASE DbOpen
  <2>1. TypeOK' BY <1>1 DEF DbOpen
  <2>2. Attached' = Attached /\ PendingOps' = PendingOps
    BY <1>1 DEF DbOpen, Attached, PendingOps
  <2>3. PriorityWorkCounts' BY <1>1, <2>2, CountUnchanged DEF DbOpen
  <2>4. MainHasRun' BY <1>1 DEF DbOpen, MainHasRun
  <2>5. EndWorkerOwned' BY <1>1 DEF DbOpen, EndWorkerOwned, IsEnding
  <2> QED BY <1>0, <2>1, <2>3, <2>4, <2>5
<1>2. CASE DbClose
  <2> DEFINE S == {i \in Attached : ~IsEnding(i) /\ life[i] # "ended"}
  <2>1. S \in SUBSET Iter BY DEF Attached
  <2>2. \A w \in Worker : work'[w] = work[w] \/ w = CloseW \/ \E i \in S : w = EndW(i)
    BY <1>2, <2>1, EndWorkFacts DEF DbClose
  <2>3. \A i \in S : ~InFlight(EndW(i)) /\ i \in Iter
    BY <1>2, <2>1 DEF DbClose, EndWorkerOwned, UserCode
  <2>4. TypeOK'
    BY <1>2, <2>1, EndWorkFacts, SMTT(30) DEF DbClose
  <2>5. Attached' = Attached
    BY <1>2 DEF DbClose, Attached
  <2>6. PendingOps' = PendingOps
    BY <2>2 DEF PendingOps
  <2>7. PriorityWorkCounts' BY <1>2, <2>5, <2>6, CountUnchanged DEF DbClose
  <2>8. MainHasRun'
    BY <1>2, <2>2, <2>3 DEF DbClose, MainHasRun
  <2>9. EndWorkerOwned'
    BY <1>2, <2>1, <2>2 DEF DbClose, EndWorkerOwned, IsEnding, Attached
  <2> QED BY <1>0, <2>4, <2>7, <2>8, <2>9
<1>3. ASSUME NEW o \in Op, DbOp(o)
      PROVE  CountInv'
  <2>1. TypeOK' BY <1>3 DEF DbOp
  <2>2. Attached' = Attached /\ PendingOps' = PendingOps \cup {o} /\ o \notin PendingOps
    BY <1>3 DEF DbOp, Attached, PendingOps
  <2>3. Cardinality(PendingOps') = Cardinality(PendingOps) + 1
    BY <2>2, CountsAreNat, AddOne
  <2>4. PriorityWorkCounts'
    <3>1. priorityWork' = priorityWork + 1 BY <1>3 DEF DbOp
    <3> QED BY <2>2, <2>3, <3>1, CountsAreNat DEF PriorityWorkCounts
  <2>5. MainHasRun' BY <1>3 DEF DbOp, MainHasRun
  <2>6. EndWorkerOwned' BY <1>3 DEF DbOp, EndWorkerOwned, IsEnding
  <2> QED BY <1>0, <2>1, <2>4, <2>5, <2>6
<1>4. ASSUME NEW i \in Iter, IteratorInit(i)
      PROVE  CountInv'
  <2>1. TypeOK' BY <1>4 DEF IteratorInit
  <2>2. ~attached[i] /\ ~InFlight(EndW(i))
    BY <1>4 DEF IteratorInit, EndWorkerOwned, UserCode
  <2>3. Attached' = Attached \cup {i} /\ i \notin Attached /\ PendingOps' = PendingOps
    BY <1>4, <2>2 DEF IteratorInit, Attached, PendingOps
  <2>4. Cardinality(Attached') = Cardinality(Attached) + 1
    BY <2>3, CountsAreNat, AddOne
  <2>5. PriorityWorkCounts'
    <3>1. priorityWork' = priorityWork + 1 BY <1>4 DEF IteratorInit
    <3> QED BY <2>3, <2>4, <3>1, CountsAreNat DEF PriorityWorkCounts
  <2>6. MainHasRun' BY <1>4 DEF IteratorInit, MainHasRun
  <2>7. EndWorkerOwned' BY <1>4, <2>2 DEF IteratorInit, EndWorkerOwned, IsEnding
  <2> QED BY <1>0, <2>1, <2>5, <2>6, <2>7
<1>5. ASSUME NEW i \in Iter, IteratorNext(i)
      PROVE  CountInv'
  <2>1. TypeOK' BY <1>5 DEF IteratorNext
  <2>2. Attached' = Attached /\ PendingOps' = PendingOps
    BY <1>5 DEF IteratorNext, Attached, PendingOps
  <2>3. PriorityWorkCounts' BY <1>5, <2>2, CountUnchanged DEF IteratorNext
  <2>4. MainHasRun' BY <1>5 DEF IteratorNext, MainHasRun
  <2>5. EndWorkerOwned' BY <1>5 DEF IteratorNext, EndWorkerOwned, IsEnding
  <2> QED BY <1>0, <2>1, <2>3, <2>4, <2>5
<1>6. ASSUME NEW i \in Iter, IteratorEnd(i)
      PROVE  CountInv'
  <2>1. \/ work' = EndWork({i}) /\ endedBy' = [endedBy EXCEPT ![i] = "user"]
           /\ ~IsEnding(i) /\ life[i] # "none"
        \/ work' = work /\ endedBy' = endedBy
    BY <1>6 DEF IteratorEnd
  <2>2. /\ EndWork({i}) \in [Worker -> WorkState]
        /\ \A w \in Worker : w # EndW(i) => EndWork({i})[w] = work[w]
    BY EndWorkOne
  <2>3. env = "running" BY <1>6 DEF IteratorEnd, UserCode
  <2>4. ~IsEnding(i) => ~InFlight(EndW(i)) BY <2>3 DEF EndWorkerOwned
  <2>5. \A w \in Worker : work'[w] = work[w] \/ (w = EndW(i) /\ ~InFlight(EndW(i)))
    <3>1. CASE work' = work BY <3>1
    <3>2. CASE work' = EndWork({i}) /\ ~IsEnding(i) BY <2>2, <2>4, <3>2
    <3> QED BY <2>1, <3>1, <3>2
  <2>6. TypeOK'
    <3>1. work' \in [Worker -> WorkState]
      <4>1. CASE work' = work BY <4>1
      <4>2. CASE work' = EndWork({i}) BY <2>2, <4>2
      <4> QED BY <2>1, <4>1, <4>2
    <3>2. endedBy' \in [Iter -> {"no", "user", "close"}] BY <2>1
    <3>3. jsEnd' \in [Iter -> {"no", "waiting", "called"}] BY <1>6 DEF IteratorEnd
    <3> QED BY <1>6, <3>1, <3>2, <3>3 DEF IteratorEnd
  <2>7. Attached' = Attached BY <1>6 DEF IteratorEnd, Attached
  <2>8. PendingOps' = PendingOps BY <2>5 DEF PendingOps
  <2>9. PriorityWorkCounts' BY <1>6, <2>7, <2>8, CountUnchanged DEF IteratorEnd
  <2>10. MainHasRun' BY <1>6, <2>5 DEF IteratorEnd, MainHasRun
  <2>11. EndWorkerOwned'
    BY <1>6, <2>1, <2>5 DEF IteratorEnd, EndWorkerOwned, IsEnding
  <2> QED BY <1>0, <2>6, <2>9, <2>10, <2>11
<1>7. ASSUME NEW i \in Iter, SeekBegin(i) \/ SeekReturn(i)
      PROVE  CountInv'
  <2>1. TypeOK' BY <1>7 DEF SeekBegin, SeekReturn
  <2>2. UNCHANGED <<priorityWork, work, life, attached, endedBy, main, env>>
    BY <1>7 DEF SeekBegin, SeekReturn
  <2>3. Attached' = Attached /\ PendingOps' = PendingOps
    BY <2>2 DEF Attached, PendingOps
  <2>4. PriorityWorkCounts' BY <2>2, <2>3, CountUnchanged
  <2>5. MainHasRun' /\ EndWorkerOwned' BY <2>2 DEF MainHasRun, EndWorkerOwned, IsEnding
  <2> QED BY <1>0, <2>1, <2>4, <2>5
<1> QED BY <1>1, <1>2, <1>3, <1>4, <1>5, <1>6, <1>7 DEF UserStep

LEMMA CountExecute ==
    ASSUME CountInv, NEW w \in Worker, Start(w) \/ Finish(w)
    PROVE  CountInv'
<1> USE WorkerFacts, WorkerNames
<1> USE DEF CountInv, TypeOK, WorkState, InFlight, storeVars, iterVars, hostVars
<1>1. /\ WillRun(w)
      /\ work' = [work EXCEPT ![w] = work'[w]]
      /\ work'[w] \in {"executing", "done", "failed"}
      /\ UNCHANGED <<priorityWork, attached, nexting, endedBy, jsNexting, jsEnd, main,
                     seeking, status, hostVars>>
  BY DEF Start, Finish, ExecuteOp, ExecuteOpen, ExecuteClose, ExecuteNext, ExecuteEnd, WillRun
<1>2. \A i \in Iter : life'[i] = life[i]
                      \/ (w = EndW(i) /\ life'[i] = "ended" /\ InFlight(EndW(i)))
  <2>1. life' = life \/ (w[1] = "end" /\ life' = [life EXCEPT ![w[2]] = "ended"])
    BY DEF Start, Finish, ExecuteOp, ExecuteOpen, ExecuteClose, ExecuteNext, ExecuteEnd
  <2>2. w[1] = "end" => \E j \in Iter : w = EndW(j)
    BY WorkerCases
  <2> QED BY <1>1, <2>1, <2>2 DEF WillRun
<1>3. TypeOK'
  <2>1. db' \in {"null", "open"} /\ blockCache' \in BOOLEAN
    BY DEF Start, Finish, ExecuteOp, ExecuteOpen, ExecuteClose, ExecuteNext, ExecuteEnd
  <2>2. life' \in [Iter -> {"none", "live", "ended"}]
    BY <1>2 DEF Start, Finish, ExecuteOp, ExecuteOpen, ExecuteClose, ExecuteNext, ExecuteEnd
  <2> QED BY <1>1, <2>1, <2>2
<1>4. Attached' = Attached /\ PendingOps' = PendingOps
  BY <1>1 DEF Attached, PendingOps, WillRun
<1>5. PriorityWorkCounts'
  BY <1>1, <1>4, CountUnchanged
<1>6. MainHasRun'
  BY <1>1 DEF MainHasRun, WillRun
<1>7. EndWorkerOwned'
  BY <1>1, <1>2 DEF EndWorkerOwned, IsEnding, WillRun
<1>8. ExitedQuiet'
  BY <1>1 DEF ExitedQuiet, Scheduled, WillRun
<1> QED BY <1>3, <1>5, <1>6, <1>7, <1>8

LEMMA CountDoComplete ==
    ASSUME CountInv, NEW w \in Worker, DoComplete(w)
    PROVE  CountInv'
<1> USE DEF CountInv, storeVars, hostVars
<1>1. TypeOK'
  <2>1. status' \in {"closed", "opening", "open", "closing"}
    BY DEF DoComplete, StatusAfter, TypeOK
  <2>2. jsEnd' \in [Iter -> {"no", "waiting", "called"}] /\ jsNexting' \in [Iter -> BOOLEAN]
    BY DEF DoComplete, TypeOK
  <2> QED BY <2>1, <2>2 DEF DoComplete, TypeOK
<1>2. UNCHANGED <<priorityWork, work, life, attached, endedBy, env>> /\ main' = w
  BY DEF DoComplete
<1>3. Attached' = Attached /\ PendingOps' = PendingOps
  BY <1>2 DEF Attached, PendingOps, InFlight
<1>4. PriorityWorkCounts' BY <1>2, <1>3, CountUnchanged
<1>5. MainHasRun' BY <1>2 DEF MainHasRun, DoComplete
<1>6. EndWorkerOwned' BY <1>2 DEF EndWorkerOwned, IsEnding, InFlight
<1>7. ExitedQuiet' BY <1>2 DEF ExitedQuiet, Scheduled
<1> QED BY <1>1, <1>4, <1>5, <1>6, <1>7

LEMMA CountDoFinally ==
    ASSUME CountInv, NEW w \in Worker, DoFinally(w)
    PROVE  CountInv'
<1> USE WorkerFacts, WorkerNames
<1> USE DEF CountInv, TypeOK, WorkState, InFlight, storeVars, iterVars, hostVars
<1>1. /\ work[w] \in {"done", "failed"} /\ main' = Idle
      /\ UNCHANGED <<storeVars, seeking, status, hostVars>>
  BY DEF DoFinally, MainHasRun
<1>2. MainHasRun' /\ env # "exited" /\ ExitedQuiet'
  BY <1>1 DEF MainHasRun, ExitedQuiet, Scheduled
<1>3. CASE FinallyOp(w)
  <2>1. PICK o \in Op : w = OpW(o)
    BY <1>3, WorkerCases DEF FinallyOp
  <2>2. /\ work' \in [Worker -> WorkState]
        /\ \A v \in Worker : v # CloseW /\ v # w => work'[v] = work[v]
        /\ work'[w] = "free" /\ priorityWork' = priorityWork - 1
    BY <1>3, <2>1 DEF FinallyOp, ReleasePriority
  <2>3. Attached' = Attached /\ PendingOps' = PendingOps \ {o} /\ o \in PendingOps
    BY <1>1, <1>3, <2>1, <2>2 DEF FinallyOp, Attached, PendingOps
  <2>4. /\ Cardinality(PendingOps') = Cardinality(PendingOps) - 1
        /\ Cardinality(PendingOps) >= 1
    BY <2>3, CountsAreNat, RemoveOne
  <2>5. PriorityWorkCounts' /\ priorityWork' \in Nat
    <3>1. priorityWork = Cardinality(Attached) + Cardinality(PendingOps)
      BY DEF PriorityWorkCounts
    <3>2. priorityWork' = Cardinality(Attached') + Cardinality(PendingOps')
      BY <2>2, <2>3, <2>4, <3>1, CountsAreNat
    <3>3. priorityWork' \in Nat
      BY <2>2, <2>4, <3>1, CountsAreNat
    <3> QED BY <3>2, <3>3 DEF PriorityWorkCounts
  <2>6. TypeOK' BY <1>1, <1>3, <2>2, <2>5 DEF FinallyOp
  <2>7. EndWorkerOwned'
    BY <1>1, <1>3, <2>1, <2>2 DEF FinallyOp, EndWorkerOwned, IsEnding
  <2> QED BY <1>2, <2>5, <2>6, <2>7
<1>4. CASE FinallyEnd(w)
  <2>1. PICK i \in Iter : w = EndW(i)
    BY <1>4, WorkerCases DEF FinallyEnd
  <2>2. /\ work' \in [Worker -> WorkState]
        /\ \A v \in Worker : v # CloseW /\ v # w => work'[v] = work[v]
        /\ work'[w] = "free" /\ priorityWork' = priorityWork - 1
        /\ attached' = [attached EXCEPT ![i] = FALSE]
    <3>1. ReleasePriority(w) BY <1>4 DEF FinallyEnd
    <3>2. /\ work' \in [Worker -> WorkState]
          /\ \A v \in Worker : v # CloseW /\ v # w => work'[v] = work[v]
      BY <3>1, SMT DEF ReleasePriority
    <3>3. work'[w] = "free" /\ priorityWork' = priorityWork - 1
      BY <3>1, <2>1, SMT DEF ReleasePriority
    <3>4. attached' = [attached EXCEPT ![i] = FALSE]
      <4>1. w[2] = i BY <2>1 DEF EndW
      <4>2. attached' = [attached EXCEPT ![w[2]] = FALSE] BY <1>4 DEF FinallyEnd
      <4> QED BY ONLY <4>1, <4>2
    <3> QED BY <3>2, <3>3, <3>4
  <2>3. attached[i] /\ (IsEnding(i) \/ env = "exited")
    BY <1>1, <2>1 DEF EndWorkerOwned
  <2>4. Attached' = Attached \ {i} /\ PendingOps' = PendingOps /\ i \in Attached
    BY <2>1, <2>2, <2>3 DEF Attached, PendingOps
  <2>5. /\ Cardinality(Attached') = Cardinality(Attached) - 1
        /\ Cardinality(Attached) >= 1
    BY <2>4, CountsAreNat, RemoveOne
  <2>6. PriorityWorkCounts' /\ priorityWork' \in Nat
    <3>1. priorityWork = Cardinality(Attached) + Cardinality(PendingOps)
      BY DEF PriorityWorkCounts
    <3>2. priorityWork' = Cardinality(Attached') + Cardinality(PendingOps')
      BY <2>2, <2>4, <2>5, <3>1, CountsAreNat
    <3>3. priorityWork' \in Nat
      BY <2>2, <2>5, <3>1, CountsAreNat
    <3> QED BY <3>2, <3>3 DEF PriorityWorkCounts
  <2>7. TypeOK' BY <1>1, <1>4, <2>2, <2>6 DEF FinallyEnd
  <2>8. EndWorkerOwned'
    BY <1>1, <1>2, <1>4, <2>1, <2>2, <2>3 DEF FinallyEnd, EndWorkerOwned, IsEnding
  <2> QED BY <1>2, <2>6, <2>7, <2>8
<1>5. CASE FinallyNext(w)
  <2>1. PICK i \in Iter : w = NextW(i) \/ w = AgainW(i)
    BY <1>5, WorkerCases DEF FinallyNext
  <2>2. /\ work' \in [Worker -> WorkState]
        /\ \A v \in Worker : v # EndW(i) /\ v # w => work'[v] = work[v]
        /\ work'[w] = "free" /\ (work'[EndW(i)] # "free" => work[EndW(i)] # "free")
    BY <1>5, <2>1 DEF FinallyNext
  <2>3. Attached' = Attached /\ PendingOps' = PendingOps
    BY <1>5, <2>1, <2>2 DEF FinallyNext, Attached, PendingOps
  <2>4. PriorityWorkCounts' BY <1>5, <2>3, CountUnchanged DEF FinallyNext
  <2>5. TypeOK' BY <1>1, <1>5, <2>1, <2>2 DEF FinallyNext
  <2>6. EndWorkerOwned'
    BY <1>1, <1>5, <2>1, <2>2 DEF FinallyNext, EndWorkerOwned, IsEnding
  <2> QED BY <1>2, <2>4, <2>5, <2>6
<1>6. CASE FinallyOpenClose(w)
  <2>1. w = OpenW \/ w = CloseW BY <1>6 DEF FinallyOpenClose
  <2>2. Attached' = Attached /\ PendingOps' = PendingOps
    BY <1>6, <2>1 DEF FinallyOpenClose, Attached, PendingOps
  <2>3. PriorityWorkCounts' BY <1>6, <2>2, CountUnchanged DEF FinallyOpenClose
  <2>4. TypeOK' BY <1>1, <1>6 DEF FinallyOpenClose
  <2>5. EndWorkerOwned'
    BY <1>1, <1>6, <2>1 DEF FinallyOpenClose, EndWorkerOwned, IsEnding
  <2> QED BY <1>2, <2>3, <2>4, <2>5
<1> QED BY <1>3, <1>4, <1>5, <1>6 DEF DoFinally

LEMMA CountEnvironment ==
    ASSUME CountInv, EnvironmentStep
    PROVE  CountInv'
<1> USE WorkerFacts, WorkerNames
<1> USE DEF CountInv, TypeOK, WorkState, InFlight, storeVars, iterVars, hostVars
<1>1. UNCHANGED <<priorityWork, work, attached, main>>
  BY DEF EnvironmentStep, FinalizeIterator, FinalizeDatabase, EnvStop, EnvCleanup
<1>2. Attached' = Attached /\ PendingOps' = PendingOps
  BY <1>1 DEF Attached, PendingOps
<1>3. PriorityWorkCounts' BY <1>1, <1>2, CountUnchanged
<1>4. MainHasRun' BY <1>1 DEF MainHasRun
<1>5. ASSUME NEW i \in Iter, FinalizeIterator(i)
      PROVE  TypeOK' /\ EndWorkerOwned'
  BY <1>1, <1>5 DEF FinalizeIterator, Collectable, EndWorkerOwned, IsEnding
<1>6. ASSUME FinalizeDatabase
      PROVE  TypeOK' /\ EndWorkerOwned'
  <2>1. TypeOK' BY <1>1, <1>6 DEF FinalizeDatabase
  <2>2. EndWorkerOwned' BY <1>1, <1>6 DEF FinalizeDatabase, EndWorkerOwned, IsEnding
  <2> QED BY <2>1, <2>2
<1>7. ASSUME EnvStop
      PROVE  TypeOK' /\ EndWorkerOwned'
  <2>1. TypeOK' BY <1>1, <1>7 DEF EnvStop
  <2>2. EndWorkerOwned' BY <1>1, <1>7 DEF EnvStop, EndWorkerOwned, IsEnding
  <2> QED BY <2>1, <2>2
<1>8. ASSUME EnvCleanup
      PROVE  TypeOK' /\ EndWorkerOwned'
  <2>1. \A i \in Iter : life'[i] = life[i] \/ (attached[i] /\ life'[i] = "ended")
    BY <1>8 DEF EnvCleanup, Attached
  <2>2. /\ life' \in [Iter -> {"none", "live", "ended"}]
        /\ db' \in {"null", "open"} /\ blockCache' \in BOOLEAN
    <3>1. [i \in Iter |-> IF i \in Attached THEN "ended" ELSE life[i]]
            \in [Iter -> {"none", "live", "ended"}]
      OBVIOUS
    <3>2. \/ life' = [i \in Iter |-> IF i \in Attached THEN "ended" ELSE life[i]]
          \/ life' = life
      BY <1>8 DEF EnvCleanup
    <3>3. life' \in [Iter -> {"none", "live", "ended"}]
      BY <3>1, <3>2
    <3>4. db' \in {"null", "open"} /\ blockCache' \in BOOLEAN
      BY <1>8 DEF EnvCleanup
    <3> QED BY <3>3, <3>4
  <2>3. TypeOK' BY <1>1, <1>8, <2>2 DEF EnvCleanup
  <2>4. EndWorkerOwned' BY <1>1, <1>8, <2>1 DEF EnvCleanup, EndWorkerOwned, IsEnding
  <2> QED BY <2>3, <2>4
<1>9. TypeOK' /\ EndWorkerOwned'
  BY <1>5, <1>6, <1>7, <1>8 DEF EnvironmentStep
<1>10. ExitedQuiet'
  BY <1>1 DEF EnvironmentStep, FinalizeIterator, FinalizeDatabase, EnvStop, EnvCleanup,
              ExitedQuiet, Scheduled
<1> QED BY <1>3, <1>4, <1>9, <1>10

LEMMA NextCount == CountInv /\ [Next]_vars => CountInv'
<1> SUFFICES ASSUME CountInv, [Next]_vars PROVE CountInv'
  OBVIOUS
<1>1. CASE UserStep BY <1>1, CountUserStep
<1>2. ASSUME NEW w \in Worker, WorkerStep(w)
      PROVE  CountInv'
  BY <1>2, CountExecute, CountDoComplete, CountDoFinally DEF WorkerStep
<1>3. CASE EnvironmentStep BY <1>3, CountEnvironment
<1>4. CASE UNCHANGED vars
  <2>1. UNCHANGED <<db, blockCache, priorityWork, work, life, attached, nexting, endedBy,
                    jsNexting, jsEnd, main, seeking, status, env, dbObject>>
    BY <1>4 DEF vars, storeVars, iterVars, hostVars
  <2>2. Attached' = Attached /\ PendingOps' = PendingOps
    BY <2>1 DEF Attached, PendingOps, InFlight
  <2> QED BY <2>1, <2>2 DEF CountInv, TypeOK, PriorityWorkCounts, MainHasRun,
                            EndWorkerOwned, ExitedQuiet, Scheduled, InFlight, IsEnding
<1> QED BY <1>1, <1>2, <1>3, <1>4 DEF Next

LEMMA CountAlways == Spec => []CountInv
BY InitCount, NextCount, PTL DEF Spec

\* The variables keep their types, priorityWork_ in particular never goes
\* below zero, whatever errors leveldb reports and whenever the user seeks.
THEOREM TypeCorrect == Spec => []TypeOK
<1>1. CountInv => TypeOK BY DEF CountInv
<1> QED BY <1>1, CountAlways, PTL

\* The count that decides whether close() may run, and whether the database may
\* be collected, is exact whatever errors leveldb reports.
THEOREM PriorityWorkIsExact == Spec => []PriorityWorkCounts
<1>1. CountInv => PriorityWorkCounts BY DEF CountInv
<1> QED BY <1>1, CountAlways, PTL
-----------------------------------------------------------------------------
(***************************************************************************)
(* The second part: the safety of Database when leveldb reports no read    *)
(* errors and the user does not seek an iterator that close() is ending.   *)
(***************************************************************************)
\* The worker of next() and the flags nexting_ and _nexting go together.
NextOwnedAt(i) ==
    /\ work[AgainW(i)] = "free"
    /\ work[NextW(i)] \notin {"held", "failed"}
    /\ nexting[i] <=> InFlight(NextW(i))
    /\ jsNexting[i] <=> InFlight(NextW(i))
    /\ InFlight(NextW(i)) => life[i] = "live" /\ work[EndW(i)] \in {"free", "held"}
    /\ i \in seeking => life[i] = "live" /\ ~IsEnding(i) /\ ~InFlight(NextW(i))
NextOwned == \A i \in Iter : NextOwnedAt(i)

\* The stages of ending an iterator.
EndStagesAt(i) ==
    /\ work[EndW(i)] # "failed"
    /\ work[EndW(i)] = "held" => InFlight(NextW(i))
    /\ work[EndW(i)] \in {"held", "queued", "executing"} => life[i] = "live"
    /\ work[EndW(i)] = "done" => life[i] = "ended"
    /\ life[i] = "ended" => IsEnding(i) /\ (attached[i] => work[EndW(i)] = "done")
    /\ life[i] = "live" => attached[i] /\ (IsEnding(i) => InFlight(EndW(i)))
    /\ life[i] = "none" => ~IsEnding(i) /\ ~attached[i]
EndStages == \A i \in Iter : EndStagesAt(i)

\* The stages of opening and closing, as status and db_ show them.
OpenStages ==
    /\ work[OpenW] # "held"
    /\ work[OpenW] \in {"queued", "executing"} => db = "null"
    /\ InFlight(OpenW) /\ main # OpenW => status = "opening"
    /\ status = "opening" =>
        /\ InFlight(OpenW) /\ main # OpenW /\ blockCache
        /\ work[OpenW] = "done" <=> db = "open"
        /\ InFlight(CloseW) => main = CloseW
    /\ db = "open" => blockCache

CloseStages ==
    /\ work[CloseW] # "failed"
    /\ InFlight(CloseW) /\ main # CloseW => status = "closing"
    /\ status = "closing" => InFlight(CloseW) /\ main # CloseW
    /\ main = CloseW => status \in {"closed", "opening"}
    /\ status = "closing" /\ work[CloseW] = "done" => db = "null"
    /\ status = "closed" => db = "null"
    /\ status = "open" /\ dbObject = "live" => db = "open"
    /\ work[CloseW] = "held" => HasPriorityWork /\ \A i \in Attached : IsEnding(i)

\* Priority work keeps leveldb open.
PriorityKeepsOpen ==
    HasPriorityWork =>
        /\ db = "open"
        /\ status = "open" \/ (status = "closing" /\ work[CloseW] = "held")

OpsNotHeld == \A o \in Op : work[OpW(o)] \notin {"held", "failed"}

SeekingWhileRunning == seeking # {} => env = "running" /\ dbObject = "live"

DeletedIsIdle ==
    dbObject = "deleted" =>
        db = "null" /\ priorityWork = 0 /\ \A w \in Worker : ~InFlight(w)

Core == /\ NextOwned /\ EndStages /\ OpenStages /\ CloseStages /\ PriorityKeepsOpen
        /\ OpsNotHeld /\ SeekingWhileRunning /\ DeletedIsIdle

ExitedInv == ExitLeavesNothing /\ (env = "exited" => seeking = {})

SafetyInv == CountInv /\ ExitedInv /\ (env # "exited" => Core)
-----------------------------------------------------------------------------
\* There is priority work exactly when an iterator is attached or an operation pending.
LEMMA PriorityWorkExists ==
    ASSUME TypeOK, PriorityWorkCounts
    PROVE  HasPriorityWork <=> (\E i \in Iter : attached[i]) \/ (\E o \in Op : InFlight(OpW(o)))
<1>1. Attached = {} <=> Cardinality(Attached) = 0
  BY CountsAreNat, FS_EmptySet
<1>2. PendingOps = {} <=> Cardinality(PendingOps) = 0
  BY CountsAreNat, FS_EmptySet
<1>3. HasPriorityWork <=> Attached # {} \/ PendingOps # {}
  BY <1>1, <1>2, CountsAreNat DEF PriorityWorkCounts, HasPriorityWork
<1> QED BY <1>3 DEF Attached, PendingOps

LEMMA CoreUserStep ==
    ASSUME ReadErrors = FALSE, SeekWhenEnding = FALSE,
           CountInv, Core, CountInv', UserStep
    PROVE  Core'
<1> USE WorkerFacts, WorkerNames
<1> USE DEF CountInv, TypeOK, WorkState, Core, MainHasRun, InFlight, UserCode, storeVars, iterVars, hostVars
<1>1. ASSUME DbOpen
      PROVE  Core'
  <2>1. NextOwned' BY <1>1 DEF DbOpen, NextOwned, EndStages, IsEnding, NextOwnedAt, EndStagesAt
  <2>2. EndStages' BY <1>1 DEF DbOpen, NextOwned, EndStages, IsEnding, NextOwnedAt, EndStagesAt
  <2>3. OpenStages' BY <1>1 DEF DbOpen, OpenStages, CloseStages
  <2>4. CloseStages' BY <1>1 DEF DbOpen, OpenStages, CloseStages, IsEnding, Attached, HasPriorityWork
  <2>5. PriorityKeepsOpen' BY <1>1 DEF DbOpen, PriorityKeepsOpen, CloseStages, OpenStages, HasPriorityWork
  <2>6. OpsNotHeld' BY <1>1 DEF DbOpen, OpsNotHeld
  <2>7. SeekingWhileRunning' BY <1>1 DEF DbOpen, SeekingWhileRunning
  <2>8. DeletedIsIdle' BY <1>1 DEF DbOpen, DeletedIsIdle
  <2> QED BY <2>1, <2>2, <2>3, <2>4, <2>5, <2>6, <2>7, <2>8 DEF Core
<1>2. ASSUME DbClose
      PROVE  Core'
  <2> DEFINE S == {i \in Attached : ~IsEnding(i) /\ life[i] # "ended"}
  <2>1. /\ S \in SUBSET Iter
        /\ \A i \in Iter : i \in S <=> attached[i] /\ ~IsEnding(i) /\ life[i] # "ended"
    BY DEF Attached
  <2>2. /\ status \in {"closed", "open"} /\ work[CloseW] = "free" /\ main # CloseW
        /\ status' = "closing" /\ seeking = {} /\ env = "running" /\ dbObject = "live"
        /\ UNCHANGED <<storeVars, priorityWork, life, attached, nexting, jsNexting,
                       jsEnd, main, seeking, hostVars>>
    BY <1>2 DEF DbClose
  <2>3. CASE ~HasPriorityWork
    <3>1. work' = [work EXCEPT ![CloseW] = "queued"] /\ endedBy' = endedBy
      BY <1>2, <2>3 DEF DbClose
    <3>2. NextOwned' BY <2>2, <3>1 DEF NextOwned, IsEnding, NextOwnedAt
    <3>3. EndStages' BY <2>2, <3>1 DEF EndStages, IsEnding, EndStagesAt
    <3>4. OpenStages' BY <2>2, <3>1 DEF OpenStages
    <3>5. CloseStages' BY <2>2, <3>1 DEF CloseStages
    <3>6. PriorityKeepsOpen' BY <2>2, <2>3 DEF PriorityKeepsOpen, HasPriorityWork
    <3>7. OpsNotHeld' BY <2>2, <3>1 DEF OpsNotHeld
    <3>8. SeekingWhileRunning' /\ DeletedIsIdle' BY <2>2 DEF SeekingWhileRunning, DeletedIsIdle
    <3> QED BY <3>2, <3>3, <3>4, <3>5, <3>6, <3>7, <3>8
  <2>4. CASE HasPriorityWork
    <3>1. /\ work' = [EndWork(S) EXCEPT ![CloseW] = "held"]
          /\ endedBy' = [i \in Iter |-> IF i \in S THEN "close" ELSE endedBy[i]]
      BY <1>2, <2>4 DEF DbClose
    <3> HIDE DEF S
    <3>2. /\ \A w \in Worker : w # CloseW => work'[w] = EndWork(S)[w]
          /\ work'[CloseW] = "held"
      <4>1. EndWork(S) \in [Worker -> WorkState] BY <2>1, EndWorkFacts
      <4> QED BY <3>1, <4>1
    <3>3. /\ \A i \in S : EndWork(S)[EndW(i)] = IF nexting[i] THEN "held" ELSE "queued"
          /\ \A w \in Worker : (\A i \in S : w # EndW(i)) => EndWork(S)[w] = work[w]
      <4> HIDE DEF TypeOK, WorkState, Core, MainHasRun, InFlight, UserCode, storeVars,
                   iterVars, hostVars
      <4>1. S \in SUBSET Iter /\ TypeOK BY <2>1
      <4> QED BY <4>1, EndWorkFacts
    <3>4. /\ \A i \in Iter : work'[NextW(i)] = work[NextW(i)] /\ work'[AgainW(i)] = work[AgainW(i)]
          /\ \A o \in Op : work'[OpW(o)] = work[OpW(o)]
          /\ work'[OpenW] = work[OpenW]
      <4>1. \A w \in Worker : w[1] # "end" /\ w # CloseW => work'[w] = work[w]
        BY <3>2, <3>3
      <4> QED BY <4>1
    <3>5. \A i \in Iter : work'[EndW(i)] = IF i \in S
                          THEN IF nexting[i] THEN "held" ELSE "queued" ELSE work[EndW(i)]
      <4>1. ASSUME NEW i \in Iter PROVE work'[EndW(i)] = EndWork(S)[EndW(i)] BY <3>2
      <4>2. ASSUME NEW i \in Iter, i \notin S PROVE EndWork(S)[EndW(i)] = work[EndW(i)]
        BY <2>1, <3>3, <4>2
      <4> QED BY <3>3, <4>1, <4>2
    <3>6. \A i \in Iter : IF i \in S THEN endedBy'[i] = "close" ELSE endedBy'[i] = endedBy[i]
      BY <3>1
    <3>7. NextOwned' BY <2>1, <2>2, <3>4, <3>5, <3>6 DEF NextOwned, EndStages, IsEnding, NextOwnedAt, EndStagesAt
    <3>8. EndStages' BY <2>1, <2>2, <3>4, <3>5, <3>6 DEF NextOwned, EndStages, IsEnding, NextOwnedAt, EndStagesAt
    <3>9. OpenStages' BY <2>2, <3>2, <3>4 DEF OpenStages
    <3>10. CloseStages'
      <4>1. \A i \in Iter : attached'[i] => IsEnding(i)'
        BY <2>1, <2>2, <3>6 DEF EndStages, IsEnding, EndStagesAt
      <4>2. HasPriorityWork' BY <2>2, <2>4 DEF HasPriorityWork
      <4> QED BY <2>2, <3>2, <4>1, <4>2 DEF CloseStages, Attached
    <3>11. PriorityKeepsOpen' BY <2>2, <2>4, <3>2 DEF PriorityKeepsOpen
    <3>12. OpsNotHeld' BY <3>4 DEF OpsNotHeld
    <3>13. SeekingWhileRunning' /\ DeletedIsIdle' BY <2>2 DEF SeekingWhileRunning, DeletedIsIdle
    <3> QED BY <3>7, <3>8, <3>9, <3>10, <3>11, <3>12, <3>13
  <2> QED BY <2>3, <2>4
<1>3. ASSUME NEW o \in Op, DbOp(o)
      PROVE  Core'
  <2>1. NextOwned' BY <1>3 DEF DbOp, NextOwned, EndStages, IsEnding, NextOwnedAt, EndStagesAt
  <2>2. EndStages' BY <1>3 DEF DbOp, NextOwned, EndStages, IsEnding, NextOwnedAt, EndStagesAt
  <2>3. OpenStages' BY <1>3 DEF DbOp, OpenStages, CloseStages
  <2>4. CloseStages' BY <1>3 DEF DbOp, OpenStages, CloseStages, IsEnding, Attached, HasPriorityWork
  <2>5. PriorityKeepsOpen' BY <1>3 DEF DbOp, PriorityKeepsOpen, CloseStages, OpenStages, HasPriorityWork
  <2>6. OpsNotHeld' BY <1>3 DEF DbOp, OpsNotHeld
  <2>7. SeekingWhileRunning' BY <1>3 DEF DbOp, SeekingWhileRunning
  <2>8. DeletedIsIdle' BY <1>3 DEF DbOp, DeletedIsIdle
  <2> QED BY <2>1, <2>2, <2>3, <2>4, <2>5, <2>6, <2>7, <2>8 DEF Core
<1>4. ASSUME NEW i \in Iter, IteratorInit(i)
      PROVE  Core'
  <2>1. NextOwned' BY <1>4 DEF IteratorInit, NextOwned, EndStages, IsEnding, NextOwnedAt, EndStagesAt
  <2>2. EndStages' BY <1>4 DEF IteratorInit, NextOwned, EndStages, IsEnding, NextOwnedAt, EndStagesAt
  <2>3. OpenStages' BY <1>4 DEF IteratorInit, OpenStages, CloseStages
  <2>4. CloseStages' BY <1>4 DEF IteratorInit, OpenStages, CloseStages, IsEnding, Attached, HasPriorityWork
  <2>5. PriorityKeepsOpen' BY <1>4 DEF IteratorInit, PriorityKeepsOpen, CloseStages, OpenStages, HasPriorityWork
  <2>6. OpsNotHeld' BY <1>4 DEF IteratorInit, OpsNotHeld
  <2>7. SeekingWhileRunning' BY <1>4 DEF IteratorInit, SeekingWhileRunning
  <2>8. DeletedIsIdle' BY <1>4 DEF IteratorInit, DeletedIsIdle
  <2> QED BY <2>1, <2>2, <2>3, <2>4, <2>5, <2>6, <2>7, <2>8 DEF Core
<1>5. ASSUME NEW i \in Iter, IteratorNext(i)
      PROVE  Core'
  <2>1. NextOwned' BY <1>5, SMTT(30) DEF IteratorNext, JsReady, EndWorkerOwned, NextOwned, EndStages, IsEnding, NextOwnedAt, EndStagesAt
  <2>2. EndStages' BY <1>5, SMTT(30) DEF IteratorNext, JsReady, EndWorkerOwned, NextOwned, EndStages, IsEnding, NextOwnedAt, EndStagesAt
  <2>3. OpenStages' BY <1>5 DEF IteratorNext, OpenStages, CloseStages
  <2>4. CloseStages' BY <1>5 DEF IteratorNext, OpenStages, CloseStages, IsEnding, Attached, HasPriorityWork
  <2>5. PriorityKeepsOpen' BY <1>5 DEF IteratorNext, PriorityKeepsOpen, CloseStages, OpenStages, HasPriorityWork
  <2>6. OpsNotHeld' BY <1>5 DEF IteratorNext, OpsNotHeld
  <2>7. SeekingWhileRunning' BY <1>5 DEF IteratorNext, SeekingWhileRunning
  <2>8. DeletedIsIdle' BY <1>5 DEF IteratorNext, DeletedIsIdle
  <2> QED BY <2>1, <2>2, <2>3, <2>4, <2>5, <2>6, <2>7, <2>8 DEF Core
<1>6. ASSUME NEW i \in Iter, IteratorEnd(i)
      PROVE  Core'
  <2>1. /\ seeking = {} /\ env = "running" /\ dbObject = "live" /\ life[i] # "none"
        /\ UNCHANGED <<storeVars, priorityWork, life, attached, nexting, jsNexting, main,
                       seeking, status, hostVars>>
    BY <1>6 DEF IteratorEnd
  <2>2. CASE work' = work /\ endedBy' = endedBy
    <3>1. NextOwned' BY <2>1, <2>2 DEF NextOwned, IsEnding, NextOwnedAt
    <3>2. EndStages' BY <2>1, <2>2 DEF EndStages, IsEnding, EndStagesAt
    <3>3. OpenStages' /\ OpsNotHeld' BY <2>1, <2>2 DEF OpenStages, OpsNotHeld
    <3>4. CloseStages' BY <2>1, <2>2 DEF CloseStages, IsEnding, Attached, HasPriorityWork
    <3>5. PriorityKeepsOpen' BY <2>1, <2>2 DEF PriorityKeepsOpen, HasPriorityWork
    <3>6. SeekingWhileRunning' /\ DeletedIsIdle' BY <2>1 DEF SeekingWhileRunning, DeletedIsIdle
    <3> QED BY <3>1, <3>2, <3>3, <3>4, <3>5, <3>6
  <2>3. CASE /\ ~IsEnding(i) /\ life[i] # "ended"
             /\ work' = EndWork({i}) /\ endedBy' = [endedBy EXCEPT ![i] = "user"]
    <3>1. /\ work'[EndW(i)] = IF nexting[i] THEN "held" ELSE "queued"
          /\ \A w \in Worker : w # EndW(i) => work'[w] = work[w]
      <4>1. /\ EndWork({i})[EndW(i)] = IF nexting[i] THEN "held" ELSE "queued"
            /\ \A w \in Worker : w # EndW(i) => EndWork({i})[w] = work[w]
        BY EndWorkOne
      <4> QED BY <2>3, <4>1
    <3>2. /\ \A j \in Iter : work'[NextW(j)] = work[NextW(j)] /\ work'[AgainW(j)] = work[AgainW(j)]
          /\ \A o \in Op : work'[OpW(o)] = work[OpW(o)]
          /\ work'[OpenW] = work[OpenW] /\ work'[CloseW] = work[CloseW]
      BY <3>1
    <3>3. \A j \in Iter : j # i => work'[EndW(j)] = work[EndW(j)] /\ endedBy'[j] = endedBy[j]
      <4>1. ASSUME NEW j \in Iter, j # i PROVE work'[EndW(j)] = work[EndW(j)] BY <3>1, <4>1
      <4>2. ASSUME NEW j \in Iter, j # i PROVE endedBy'[j] = endedBy[j] BY <2>3, <4>2
      <4> QED BY <4>1, <4>2
    <3>4. endedBy'[i] = "user" BY <2>3
    <3>5. /\ NextOwnedAt(i)' /\ EndStagesAt(i)'
          /\ \A j \in Iter : j # i => NextOwnedAt(j)' /\ EndStagesAt(j)'
      <4>1. NextOwnedAt(i) /\ EndStagesAt(i) BY DEF NextOwned, EndStages
      <4>2. NextOwnedAt(i)' /\ EndStagesAt(i)'
        <5>1. work[EndW(i)] = "free" BY <2>1, <2>3 DEF EndWorkerOwned
        <5>2. life[i] = "live" BY <2>1, <2>3
        <5>3. /\ nexting[i] => work'[EndW(i)] = "held"
              /\ ~nexting[i] => work'[EndW(i)] = "queued"
          BY <3>1
        <5>4. /\ nexting'[i] = nexting[i] /\ jsNexting'[i] = jsNexting[i]
              /\ life'[i] = life[i] /\ attached'[i] = attached[i] /\ i \notin seeking'
              /\ work'[NextW(i)] = work[NextW(i)] /\ work'[AgainW(i)] = work[AgainW(i)]
          BY <2>1, <3>2
        <5> QED BY <3>4, <4>1, <5>1, <5>2, <5>3, <5>4 DEF NextOwnedAt, EndStagesAt, IsEnding
      <4>3. ASSUME NEW j \in Iter, j # i PROVE NextOwnedAt(j)' /\ EndStagesAt(j)'
        BY <2>1, <3>2, <3>3, <4>3 DEF NextOwned, EndStages, NextOwnedAt, EndStagesAt, IsEnding
      <4> QED BY <4>2, <4>3
    <3>6. NextOwned' /\ EndStages' BY <3>5 DEF NextOwned, EndStages
    <3>7. OpenStages' /\ OpsNotHeld' BY <2>1, <3>2 DEF OpenStages, OpsNotHeld
    <3>8. CloseStages' BY <2>1, <3>2, <3>3, <3>4 DEF CloseStages, IsEnding, Attached, HasPriorityWork
    <3>9. PriorityKeepsOpen' BY <2>1, <3>2 DEF PriorityKeepsOpen, HasPriorityWork
    <3>10. SeekingWhileRunning' /\ DeletedIsIdle' BY <2>1 DEF SeekingWhileRunning, DeletedIsIdle
    <3> QED BY <3>6, <3>7, <3>8, <3>9, <3>10
  <2> QED BY <1>6, <2>2, <2>3 DEF IteratorEnd
<1>7. ASSUME NEW i \in Iter, SeekBegin(i)
      PROVE  Core'
  <2>1. NextOwned' BY <1>7 DEF SeekBegin, JsReady, NextOwned, EndStages, IsEnding, NextOwnedAt, EndStagesAt
  <2>2. EndStages' BY <1>7 DEF SeekBegin, JsReady, NextOwned, EndStages, IsEnding, NextOwnedAt, EndStagesAt
  <2>3. OpenStages' BY <1>7 DEF SeekBegin, OpenStages, CloseStages
  <2>4. CloseStages' BY <1>7 DEF SeekBegin, OpenStages, CloseStages, IsEnding, Attached, HasPriorityWork
  <2>5. PriorityKeepsOpen' BY <1>7 DEF SeekBegin, PriorityKeepsOpen, CloseStages, OpenStages, HasPriorityWork
  <2>6. OpsNotHeld' BY <1>7 DEF SeekBegin, OpsNotHeld
  <2>7. SeekingWhileRunning' BY <1>7 DEF SeekBegin, SeekingWhileRunning
  <2>8. DeletedIsIdle' BY <1>7 DEF SeekBegin, DeletedIsIdle
  <2> QED BY <2>1, <2>2, <2>3, <2>4, <2>5, <2>6, <2>7, <2>8 DEF Core
<1>8. ASSUME NEW i \in Iter, SeekReturn(i)
      PROVE  Core'
  <2>1. NextOwned' BY <1>8 DEF SeekReturn, NextOwned, EndStages, IsEnding, NextOwnedAt, EndStagesAt
  <2>2. EndStages' BY <1>8 DEF SeekReturn, NextOwned, EndStages, IsEnding, NextOwnedAt, EndStagesAt
  <2>3. OpenStages' BY <1>8 DEF SeekReturn, OpenStages, CloseStages
  <2>4. CloseStages' BY <1>8 DEF SeekReturn, OpenStages, CloseStages, IsEnding, Attached, HasPriorityWork
  <2>5. PriorityKeepsOpen' BY <1>8 DEF SeekReturn, PriorityKeepsOpen, CloseStages, OpenStages, HasPriorityWork
  <2>6. OpsNotHeld' BY <1>8 DEF SeekReturn, OpsNotHeld
  <2>7. SeekingWhileRunning' BY <1>8 DEF SeekReturn, SeekingWhileRunning
  <2>8. DeletedIsIdle' BY <1>8 DEF SeekReturn, DeletedIsIdle
  <2> QED BY <2>1, <2>2, <2>3, <2>4, <2>5, <2>6, <2>7, <2>8 DEF Core
<1> QED BY <1>1, <1>2, <1>3, <1>4, <1>5, <1>6, <1>7, <1>8 DEF UserStep

LEMMA CoreStart ==
    ASSUME CountInv, Core, NEW w \in Worker, Start(w)
    PROVE  Core'
<1> USE WorkerFacts, WorkerNames
<1> USE DEF CountInv, TypeOK, WorkState, Core, MainHasRun, InFlight, storeVars, iterVars, hostVars
<1>1. /\ work[w] = "queued" /\ work'[w] = "executing"
      /\ \A v \in Worker : v # w => work'[v] = work[v]
      /\ UNCHANGED <<storeVars, priorityWork, iterVars, main, seeking, status, hostVars>>
  BY DEF Start
<1>2. NextOwned' BY <1>1 DEF NextOwned, NextOwnedAt, IsEnding
<1>3. EndStages' BY <1>1 DEF EndStages, EndStagesAt, IsEnding
<1>4. OpenStages' BY <1>1 DEF OpenStages
<1>5. CloseStages' BY <1>1 DEF CloseStages, IsEnding, Attached, HasPriorityWork
<1>6. PriorityKeepsOpen' BY <1>1 DEF PriorityKeepsOpen, HasPriorityWork
<1>7. OpsNotHeld' BY <1>1 DEF OpsNotHeld
<1>8. SeekingWhileRunning' /\ DeletedIsIdle' BY <1>1 DEF SeekingWhileRunning, DeletedIsIdle
<1> QED BY <1>2, <1>3, <1>4, <1>5, <1>6, <1>7, <1>8

LEMMA CoreFinish ==
    ASSUME ReadErrors = FALSE, CountInv, Core, env # "exited", NEW w \in Worker, Finish(w)
    PROVE  Core'
<1> USE WorkerFacts, WorkerNames
<1> USE DEF CountInv, TypeOK, WorkState, Core, MainHasRun, InFlight, storeVars, iterVars, hostVars
<1>1. /\ work[w] = "executing" /\ main # w /\ dbObject = "live"
      /\ UNCHANGED <<priorityWork, attached, nexting, endedBy, jsNexting, jsEnd, main,
                     seeking, status, hostVars>>
  BY DEF Finish, DeletedIsIdle
<1>2. SeekingWhileRunning' /\ DeletedIsIdle' BY <1>1 DEF SeekingWhileRunning, DeletedIsIdle
<1>3. CASE ExecuteOp(w) \/ ExecuteNext(w)
  <2>1. /\ work'[w] = "done"
        /\ \A v \in Worker : v # w => work'[v] = work[v]
        /\ UNCHANGED <<storeVars, life>>
        /\ w # OpenW /\ w # CloseW /\ w[1] # "end"
    BY <1>3 DEF ExecuteOp, ExecuteNext
  <2>2. NextOwned' BY <1>1, <2>1 DEF NextOwned, NextOwnedAt, IsEnding
  <2>3. EndStages' BY <1>1, <2>1 DEF EndStages, EndStagesAt, IsEnding
  <2>4. OpenStages' BY <1>1, <2>1 DEF OpenStages
  <2>5. CloseStages' BY <1>1, <2>1 DEF CloseStages, IsEnding, Attached, HasPriorityWork
  <2>6. PriorityKeepsOpen' BY <1>1, <2>1 DEF PriorityKeepsOpen, HasPriorityWork
  <2>7. OpsNotHeld' BY <1>1, <2>1 DEF OpsNotHeld
  <2> QED BY <1>2, <2>2, <2>3, <2>4, <2>5, <2>6, <2>7
<1>4. CASE ExecuteOpen(w)
  <2>1. /\ w = OpenW
        /\ \/ work'[w] = "done" /\ db' = "open"
           \/ work'[w] = "failed" /\ db' = db
        /\ \A v \in Worker : v # w => work'[v] = work[v]
        /\ UNCHANGED <<blockCache, life>>
    BY <1>4 DEF ExecuteOpen
  <2>2. status = "opening" /\ db = "null" /\ blockCache /\ ~HasPriorityWork
    BY <1>1, <2>1 DEF OpenStages, PriorityKeepsOpen
  <2>3. NextOwned'
    <3>1. \A i \in Iter : /\ work'[NextW(i)] = work[NextW(i)]
                          /\ work'[AgainW(i)] = work[AgainW(i)]
                          /\ work'[EndW(i)] = work[EndW(i)]
      BY <2>1
    <3> QED BY <1>1, <2>1, <3>1 DEF NextOwned, NextOwnedAt, IsEnding
  <2>4. EndStages' BY <1>1, <2>1 DEF EndStages, EndStagesAt, IsEnding
  <2>5. OpenStages' BY <1>1, <2>1, <2>2 DEF OpenStages
  <2>6. CloseStages' BY <1>1, <2>1, <2>2 DEF CloseStages
  <2>7. PriorityKeepsOpen' BY <1>1, <2>1, <2>2 DEF PriorityKeepsOpen, HasPriorityWork
  <2>8. OpsNotHeld' BY <1>1, <2>1 DEF OpsNotHeld
  <2> QED BY <1>2, <2>3, <2>4, <2>5, <2>6, <2>7, <2>8
<1>5. CASE ExecuteClose(w)
  <2>1. /\ w = CloseW /\ work'[w] = "done"
        /\ db' = "null" /\ blockCache' = FALSE
        /\ \A v \in Worker : v # w => work'[v] = work[v]
        /\ UNCHANGED life
    BY <1>5 DEF ExecuteClose
  <2>2. status = "closing" /\ ~HasPriorityWork
    BY <1>1, <2>1 DEF CloseStages, PriorityKeepsOpen
  <2>3. NextOwned' BY <1>1, <2>1 DEF NextOwned, NextOwnedAt, IsEnding
  <2>4. EndStages' BY <1>1, <2>1 DEF EndStages, EndStagesAt, IsEnding
  <2>5. OpenStages' BY <1>1, <2>1, <2>2 DEF OpenStages
  <2>6. CloseStages' BY <1>1, <2>1, <2>2 DEF CloseStages
  <2>7. PriorityKeepsOpen' BY <1>1, <2>1, <2>2 DEF PriorityKeepsOpen, HasPriorityWork
  <2>8. OpsNotHeld' BY <1>1, <2>1 DEF OpsNotHeld
  <2> QED BY <1>2, <2>3, <2>4, <2>5, <2>6, <2>7, <2>8
<1>6. CASE ExecuteEnd(w)
  <2>1. PICK i \in Iter : w = EndW(i)
    BY <1>6, WorkerCases DEF ExecuteEnd
  <2>2. /\ work'[EndW(i)] = "done" /\ life'[i] = "ended"
        /\ \A j \in Iter : j # i => life'[j] = life[j]
        /\ \A v \in Worker : v # EndW(i) => work'[v] = work[v]
        /\ UNCHANGED storeVars
    BY <1>6, <2>1 DEF ExecuteEnd
  <2>3. IsEnding(i) /\ work[EndW(i)] = "executing"
    BY <1>1, <2>1 DEF EndWorkerOwned
  <2>4. NextOwned'
    BY <1>1, <2>2, <2>3 DEF NextOwned, NextOwnedAt, IsEnding
  <2>5. EndStages'
    BY <1>1, <2>2, <2>3 DEF EndStages, EndStagesAt, IsEnding
  <2>6. OpenStages' BY <1>1, <2>2 DEF OpenStages
  <2>7. CloseStages' BY <1>1, <2>2 DEF CloseStages, IsEnding, Attached, HasPriorityWork
  <2>8. PriorityKeepsOpen' BY <1>1, <2>2 DEF PriorityKeepsOpen, HasPriorityWork
  <2>9. OpsNotHeld' BY <1>1, <2>2 DEF OpsNotHeld
  <2> QED BY <1>2, <2>4, <2>5, <2>6, <2>7, <2>8, <2>9
<1> QED BY <1>3, <1>4, <1>5, <1>6 DEF Finish

LEMMA CoreDoComplete ==
    ASSUME CountInv, Core, NEW w \in Worker, DoComplete(w)
    PROVE  Core'
<1> USE WorkerFacts, WorkerNames
<1> USE DEF CountInv, TypeOK, WorkState, Core, MainHasRun, InFlight, storeVars, iterVars, hostVars
<1>1. /\ main = Idle /\ main' = w /\ work[w] \in {"done", "failed"} /\ dbObject = "live"
      /\ UNCHANGED <<storeVars, priorityWork, work, life, attached, nexting, endedBy,
                     seeking, hostVars>>
  BY DEF DoComplete, DeletedIsIdle
<1>2. jsNexting' = jsNexting
  <2>1. w[1] \in {"next", "again"} => work[w] # "failed"
    BY WorkerCases DEF NextOwned, NextOwnedAt
  <2> QED BY <2>1 DEF DoComplete
<1>3. /\ w = OpenW => status' = IF work[w] = "done" THEN "open" ELSE "closed"
      /\ w = CloseW => status' = "closed"
      /\ w # OpenW /\ w # CloseW => status' = status
  BY DEF DoComplete, StatusAfter
<1>4. w = OpenW => /\ status = "opening" /\ ~InFlight(CloseW) /\ ~HasPriorityWork
                   /\ work[w] = "done" <=> db = "open"
  BY <1>1 DEF OpenStages, PriorityKeepsOpen
<1>5. w = CloseW => /\ status = "closing" /\ ~HasPriorityWork /\ db = "null"
                    /\ work[w] = "done"
  BY <1>1 DEF CloseStages, PriorityKeepsOpen
<1>6. NextOwned' BY <1>1, <1>2 DEF NextOwned, NextOwnedAt, IsEnding
<1>7. EndStages' BY <1>1 DEF EndStages, EndStagesAt, IsEnding
<1>8. OpenStages' BY <1>1, <1>3, <1>4, <1>5 DEF OpenStages
<1>9. CloseStages'
  BY <1>1, <1>3, <1>4, <1>5 DEF OpenStages, CloseStages, IsEnding, Attached, HasPriorityWork
<1>10. PriorityKeepsOpen' BY <1>1, <1>3, <1>4, <1>5 DEF PriorityKeepsOpen, HasPriorityWork
<1>11. OpsNotHeld' BY <1>1 DEF OpsNotHeld
<1>12. SeekingWhileRunning' /\ DeletedIsIdle' BY <1>1 DEF SeekingWhileRunning, DeletedIsIdle
<1> QED BY <1>6, <1>7, <1>8, <1>9, <1>10, <1>11, <1>12

LEMMA CoreDoFinally ==
    ASSUME CountInv, Core, CountInv', env # "exited", NEW w \in Worker, DoFinally(w)
    PROVE  Core'
<1> USE WorkerFacts, WorkerNames
<1> USE DEF CountInv, TypeOK, WorkState, Core, MainHasRun, InFlight, storeVars, iterVars, hostVars
<1>1. /\ main = w /\ work[w] \in {"done", "failed"} /\ main' = Idle /\ dbObject = "live"
      /\ seeking = {}
      /\ UNCHANGED <<storeVars, seeking, status, hostVars>>
  BY DEF DoFinally, DeletedIsIdle
<1>2. SeekingWhileRunning' /\ DeletedIsIdle' BY <1>1 DEF SeekingWhileRunning, DeletedIsIdle
<1>3. ASSUME w # CloseW, ReleasePriority(w)
      PROVE  /\ work'[w] = "free"
             /\ \A v \in Worker : v # w /\ v # CloseW => work'[v] = work[v]
             /\ work'[CloseW] = work[CloseW]
                  \/ (work[CloseW] = "held" /\ work'[CloseW] = "queued")
             /\ work'[CloseW] = "held" => HasPriorityWork'
             /\ HasPriorityWork' => HasPriorityWork /\ work'[CloseW] = work[CloseW]
  <2>1. /\ work'[w] = "free"
        /\ \A v \in Worker : v # w /\ v # CloseW => work'[v] = work[v]
        /\ work'[CloseW] = IF priorityWork = 1 /\ work[CloseW] = "held"
                           THEN "queued" ELSE work[CloseW]
    BY <1>3 DEF ReleasePriority
  <2>2. priorityWork' = priorityWork - 1 /\ priorityWork \in Nat /\ priorityWork' \in Nat
    BY <1>3 DEF ReleasePriority
  <2> QED BY <2>1, <2>2 DEF HasPriorityWork
<1>4. CASE FinallyOp(w)
  <2>1. PICK o \in Op : w = OpW(o) BY <1>4, WorkerCases DEF FinallyOp
  <2>2. w # CloseW /\ ReleasePriority(w) /\ UNCHANGED iterVars
    BY <1>4, <2>1 DEF FinallyOp
  <2>3. NextOwned' BY <1>1, <1>3, <2>1, <2>2 DEF NextOwned, NextOwnedAt, IsEnding
  <2>4. EndStages' BY <1>1, <1>3, <2>1, <2>2 DEF EndStages, EndStagesAt, IsEnding
  <2>5. OpenStages' BY <1>1, <1>3, <2>1, <2>2 DEF OpenStages
  <2>6. CloseStages' BY <1>1, <1>3, <2>1, <2>2 DEF CloseStages, IsEnding, Attached
  <2>7. PriorityKeepsOpen' BY <1>1, <1>3, <2>1, <2>2 DEF PriorityKeepsOpen
  <2>8. OpsNotHeld' BY <1>1, <1>3, <2>1, <2>2 DEF OpsNotHeld
  <2> QED BY <1>2, <2>3, <2>4, <2>5, <2>6, <2>7, <2>8
<1>5. CASE FinallyEnd(w)
  <2>1. PICK i \in Iter : w = EndW(i) BY <1>5, WorkerCases DEF FinallyEnd
  <2>2. /\ w # CloseW /\ ReleasePriority(w)
        /\ ~attached'[i] /\ \A j \in Iter : j # i => attached'[j] = attached[j]
        /\ UNCHANGED <<life, nexting, endedBy, jsNexting, jsEnd>>
    <3>1. attached' = [attached EXCEPT ![i] = FALSE]
      <4>1. w[2] = i BY <2>1 DEF EndW
      <4>2. attached' = [attached EXCEPT ![w[2]] = FALSE] BY <1>5 DEF FinallyEnd
      <4> QED BY ONLY <4>1, <4>2
    <3>2. w # CloseW /\ ReleasePriority(w) BY <1>5, <2>1 DEF FinallyEnd
    <3>3. UNCHANGED <<life, nexting, endedBy, jsNexting, jsEnd>> BY <1>5 DEF FinallyEnd
    <3> QED BY <3>1, <3>2, <3>3
  <2>3. life[i] = "ended" /\ IsEnding(i)
    BY <1>1, <2>1 DEF EndStages, EndStagesAt
  <2>4. NextOwned' BY <1>1, <1>3, <2>1, <2>2 DEF NextOwned, NextOwnedAt, IsEnding
  <2>5. EndStages' BY <1>1, <1>3, <2>1, <2>2, <2>3 DEF EndStages, EndStagesAt, IsEnding
  <2>6. OpenStages' BY <1>1, <1>3, <2>1, <2>2 DEF OpenStages
  <2>7. CloseStages' BY <1>1, <1>3, <2>1, <2>2 DEF CloseStages, IsEnding, Attached
  <2>8. PriorityKeepsOpen' BY <1>1, <1>3, <2>1, <2>2 DEF PriorityKeepsOpen
  <2>9. OpsNotHeld' BY <1>1, <1>3, <2>1, <2>2 DEF OpsNotHeld
  <2> QED BY <1>2, <2>4, <2>5, <2>6, <2>7, <2>8, <2>9
<1>6. CASE FinallyNext(w)
  <2>1. PICK i \in Iter : w = NextW(i)
    BY <1>1, <1>6, WorkerCases DEF FinallyNext, NextOwned, NextOwnedAt
  <2>2. /\ ~nexting'[i] /\ ~jsNexting'[i]
        /\ \A j \in Iter : j # i => nexting'[j] = nexting[j] /\ jsNexting'[j] = jsNexting[j]
        /\ UNCHANGED <<priorityWork, life, attached, endedBy, jsEnd>>
    <3>1. (work[w] = "failed") = FALSE /\ w[2] = i BY <2>1 DEF NextOwned, NextOwnedAt
    <3>2. nexting' = [nexting EXCEPT ![i] = FALSE]
      <4>1. nexting' = [nexting EXCEPT ![w[2]] = FALSE] BY <1>6 DEF FinallyNext
      <4> QED BY <3>1, <4>1
    <3>3. jsNexting'[i] = FALSE /\ \A j \in Iter : j # i => jsNexting'[j] = jsNexting[j]
      <4>1. jsNexting' = [jsNexting EXCEPT ![w[2]] = @ /\ work[w] = "failed"]
        BY <1>6 DEF FinallyNext
      <4>2. jsNexting' = [jsNexting EXCEPT ![i] = jsNexting[i] /\ work[w] = "failed"]
        BY <3>1, <4>1
      <4>3. (jsNexting[i] /\ work[w] = "failed") = FALSE BY <3>1
      <4>4. jsNexting' = [jsNexting EXCEPT ![i] = FALSE] BY <4>2, <4>3, Zenon
      <4> QED BY <4>4
    <3>4. UNCHANGED <<priorityWork, life, attached, endedBy, jsEnd>> BY <1>6 DEF FinallyNext
    <3> QED BY <3>1, <3>2, <3>3, <3>4
  <2>3. /\ work'[NextW(i)] = "free"
        /\ work'[EndW(i)] = IF work[EndW(i)] = "held" THEN "queued" ELSE work[EndW(i)]
        /\ \A v \in Worker : v # NextW(i) /\ v # EndW(i) => work'[v] = work[v]
    BY <1>6, <2>1 DEF FinallyNext
  <2>4. life[i] = "live" BY <1>1, <2>1 DEF NextOwned, NextOwnedAt
  <2>5. NextOwned' BY <1>1, <2>2, <2>3 DEF NextOwned, NextOwnedAt, IsEnding
  <2>6. EndStages' BY <1>1, <2>2, <2>3, <2>4 DEF EndStages, EndStagesAt, IsEnding
  <2>7. OpenStages' BY <1>1, <2>1, <2>2, <2>3 DEF OpenStages
  <2>8. CloseStages'
    BY <1>1, <2>1, <2>2, <2>3 DEF CloseStages, IsEnding, Attached, HasPriorityWork
  <2>9. PriorityKeepsOpen' BY <1>1, <2>2, <2>3 DEF PriorityKeepsOpen, HasPriorityWork
  <2>10. OpsNotHeld' BY <2>3 DEF OpsNotHeld
  <2> QED BY <1>2, <2>5, <2>6, <2>7, <2>8, <2>9, <2>10
<1>7. CASE FinallyOpenClose(w)
  <2>1. /\ w = OpenW \/ w = CloseW
        /\ work'[w] = "free" /\ \A v \in Worker : v # w => work'[v] = work[v]
        /\ UNCHANGED <<priorityWork, iterVars>>
    BY <1>7 DEF FinallyOpenClose
  <2>2. NextOwned'
    <3>1. \A i \in Iter : /\ work'[NextW(i)] = work[NextW(i)]
                          /\ work'[AgainW(i)] = work[AgainW(i)]
                          /\ work'[EndW(i)] = work[EndW(i)]
      BY <2>1
    <3> QED BY <1>1, <2>1, <3>1 DEF NextOwned, NextOwnedAt, IsEnding
  <2>3. EndStages' BY <1>1, <2>1 DEF EndStages, EndStagesAt, IsEnding
  <2>4. OpenStages' BY <1>1, <2>1 DEF OpenStages, CloseStages
  <2>5. CloseStages'
    BY <1>1, <2>1 DEF OpenStages, CloseStages, IsEnding, Attached, HasPriorityWork
  <2>6. PriorityKeepsOpen' BY <1>1, <2>1 DEF PriorityKeepsOpen, HasPriorityWork
  <2>7. OpsNotHeld' BY <2>1 DEF OpsNotHeld
  <2> QED BY <1>2, <2>2, <2>3, <2>4, <2>5, <2>6, <2>7
<1> QED BY <1>4, <1>5, <1>6, <1>7 DEF DoFinally

LEMMA CoreEnvironment ==
    ASSUME CountInv, Core, CountInv', env' # "exited", EnvironmentStep
    PROVE  Core'
<1> USE WorkerFacts, WorkerNames
<1> USE DEF CountInv, TypeOK, WorkState, Core, MainHasRun, InFlight, storeVars, iterVars, hostVars
<1>1. ASSUME NEW i \in Iter, FinalizeIterator(i)
      PROVE  Core'
  <2>1. /\ env # "exited" /\ life[i] # "none" /\ ~attached[i] /\ ~NextInFlight(i) /\ seeking = {}
        /\ life'[i] = "none" /\ endedBy'[i] = "no"
        /\ \A j \in Iter : j # i => life'[j] = life[j] /\ endedBy'[j] = endedBy[j]
        /\ UNCHANGED <<storeVars, priorityWork, work, attached, nexting, jsNexting, main,
                       seeking, status, hostVars>>
    BY <1>1 DEF FinalizeIterator, Collectable
  <2>2. life[i] = "ended" /\ work[EndW(i)] = "free"
    BY <2>1 DEF EndStages, EndStagesAt, EndWorkerOwned
  <2>3. NextOwned' BY <2>1, <2>2 DEF NextOwned, NextOwnedAt, NextInFlight, IsEnding
  <2>4. EndStages' BY <2>1, <2>2 DEF EndStages, EndStagesAt, IsEnding
  <2>5. OpenStages' BY <2>1 DEF OpenStages
  <2>6. CloseStages' BY <2>1 DEF CloseStages, IsEnding, Attached, HasPriorityWork
  <2>7. PriorityKeepsOpen' BY <2>1 DEF PriorityKeepsOpen, HasPriorityWork
  <2>8. OpsNotHeld' BY <2>1 DEF OpsNotHeld
  <2>9. SeekingWhileRunning' /\ DeletedIsIdle' BY <2>1 DEF SeekingWhileRunning, DeletedIsIdle
  <2> QED BY <2>3, <2>4, <2>5, <2>6, <2>7, <2>8, <2>9
<1>2. ASSUME FinalizeDatabase
      PROVE  Core'
  <2>1. /\ env # "exited" /\ seeking = {} /\ priorityWork = 0
        /\ ~InFlight(OpenW) /\ ~InFlight(CloseW) /\ \A i \in Iter : ~NextInFlight(i)
        /\ dbObject' = "deleted" /\ db' = "null"
        /\ UNCHANGED <<blockCache, priorityWork, work, iterVars, main, seeking, status, env>>
    BY <1>2 DEF FinalizeDatabase
  <2>2. (\A i \in Iter : ~attached[i]) /\ \A o \in Op : ~InFlight(OpW(o))
    BY <2>1, PriorityWorkExists DEF HasPriorityWork
  <2>3. \A v \in Worker : ~InFlight(v)
    BY <2>1, <2>2, WorkerCases DEF EndWorkerOwned, NextInFlight
  <2>4. NextOwned' BY <2>1 DEF NextOwned, NextOwnedAt, IsEnding
  <2>5. EndStages' BY <2>1 DEF EndStages, EndStagesAt, IsEnding
  <2>6. OpenStages' BY <2>1 DEF OpenStages
  <2>7. CloseStages' BY <2>1 DEF CloseStages, IsEnding, Attached, HasPriorityWork
  <2>8. PriorityKeepsOpen' BY <2>1 DEF PriorityKeepsOpen, HasPriorityWork
  <2>9. OpsNotHeld' BY <2>1 DEF OpsNotHeld
  <2>10. SeekingWhileRunning' /\ DeletedIsIdle'
    BY <2>1, <2>3 DEF SeekingWhileRunning, DeletedIsIdle
  <2> QED BY <2>4, <2>5, <2>6, <2>7, <2>8, <2>9, <2>10
<1>3. ASSUME EnvStop
      PROVE  Core'
  <2>1. /\ seeking = {} /\ env' = "stopping"
        /\ UNCHANGED <<storeVars, priorityWork, work, iterVars, main, seeking, status, dbObject>>
    BY <1>3 DEF EnvStop
  <2>2. NextOwned' BY <2>1 DEF NextOwned, NextOwnedAt, IsEnding
  <2>3. EndStages' BY <2>1 DEF EndStages, EndStagesAt, IsEnding
  <2>4. OpenStages' BY <2>1 DEF OpenStages
  <2>5. CloseStages' BY <2>1 DEF CloseStages, IsEnding, Attached, HasPriorityWork
  <2>6. PriorityKeepsOpen' BY <2>1 DEF PriorityKeepsOpen, HasPriorityWork
  <2>7. OpsNotHeld' BY <2>1 DEF OpsNotHeld
  <2>8. SeekingWhileRunning' /\ DeletedIsIdle' BY <2>1 DEF SeekingWhileRunning, DeletedIsIdle
  <2> QED BY <2>2, <2>3, <2>4, <2>5, <2>6, <2>7, <2>8
<1>4. ~EnvCleanup BY DEF EnvCleanup
<1> QED BY <1>1, <1>2, <1>3, <1>4 DEF EnvironmentStep

\* The cleanup hook finds nothing that is still to run.
LEMMA CleanupLeavesNothing ==
    ASSUME CountInv, Core, EnvCleanup
    PROVE  ExitedInv'
<1> USE WorkerFacts, WorkerNames
<1> USE DEF CountInv, TypeOK, WorkState, Core, InFlight, Scheduled, storeVars
<1>1. /\ env = "stopping" /\ seeking = {} /\ seeking' = seeking /\ work' = work
      /\ \A w \in Worker : work[w] \in {"free", "held"}
  BY DEF EnvCleanup, SeekingWhileRunning
<1>2. \A i \in Iter : ~InFlight(NextW(i)) /\ ~InFlight(AgainW(i)) /\ ~InFlight(EndW(i))
  BY <1>1 DEF NextOwned, NextOwnedAt, EndStages, EndStagesAt
<1>3. \A o \in Op : ~InFlight(OpW(o))
  BY <1>1 DEF OpsNotHeld
<1>4. ~InFlight(OpenW) BY <1>1 DEF OpenStages
<1>5. ~InFlight(CloseW)
  <2>1. SUFFICES ASSUME work[CloseW] = "held" PROVE FALSE BY <1>1
  <2>2. PICK i \in Iter : attached[i]
    BY <1>3, <2>1, PriorityWorkExists DEF CloseStages
  <2>3. IsEnding(i) BY <2>1, <2>2 DEF CloseStages, Attached
  <2> QED BY <1>2, <2>2, <2>3 DEF EndStages, EndStagesAt
<1>6. \A w \in Worker : ~InFlight(w)
  BY <1>2, <1>3, <1>4, <1>5, WorkerCases
<1>7. db' = "null" BY DEF EnvCleanup, DeletedIsIdle
<1>8. \A i \in Iter : life'[i] # "live"
  <2>1. \A i \in Iter : life[i] = "live" => attached[i]
    BY DEF EndStages, EndStagesAt
  <2>2. CASE life' = [i \in Iter |-> IF i \in Attached THEN "ended" ELSE life[i]]
    BY <2>1, <2>2 DEF Attached
  <2>3. CASE life' = life /\ (dbObject = "deleted" \/ db = "null")
    <3>1. ~HasPriorityWork
      BY <2>3 DEF PriorityKeepsOpen, DeletedIsIdle
    <3> QED BY <2>1, <2>3, <3>1, PriorityWorkExists
  <2> QED BY <2>2, <2>3 DEF EnvCleanup
<1> QED BY <1>1, <1>6, <1>7, <1>8 DEF ExitedInv, ExitLeavesNothing

\* After it nothing starts again.
LEMMA ExitedStays ==
    ASSUME CountInv, ExitedInv, env = "exited", Next
    PROVE  ExitedInv'
<1> USE WorkerFacts, WorkerNames
<1> USE DEF CountInv, TypeOK, WorkState, InFlight, storeVars, iterVars, hostVars
<1>1. /\ db = "null" /\ seeking = {} /\ \A i \in Iter : life[i] # "live"
      /\ \A w \in Worker : work[w] = "free"
  BY DEF ExitedInv, ExitLeavesNothing
<1>2. ~UserStep
  BY <1>1 DEF UserStep, UserCode, DbOpen, DbClose, DbOp, IteratorInit, IteratorNext,
              IteratorEnd, SeekBegin, SeekReturn
<1>3. ASSUME NEW w \in Worker PROVE ~WorkerStep(w)
  BY <1>1 DEF WorkerStep, Start, Finish, DoComplete, DoFinally, MainHasRun
<1>4. ASSUME NEW i \in Iter, FinalizeIterator(i)
      PROVE  ExitedInv'
  BY <1>1, <1>4 DEF FinalizeIterator, ExitedInv, ExitLeavesNothing
<1>5. ASSUME FinalizeDatabase
      PROVE  ExitedInv'
  BY <1>1, <1>5 DEF FinalizeDatabase, ExitedInv, ExitLeavesNothing
<1>6. ~EnvStop /\ ~EnvCleanup
  BY DEF EnvStop, EnvCleanup
<1> QED BY <1>2, <1>3, <1>4, <1>5, <1>6 DEF Next, EnvironmentStep

LEMMA InitSafety == Init => SafetyInv
<1> SUFFICES ASSUME Init PROVE SafetyInv
  OBVIOUS
<1> USE WorkerFacts, WorkerNames DEF Init
<1>1. CountInv BY InitCount
<1>2. ~HasPriorityWork BY DEF HasPriorityWork
<1>3. NextOwned /\ EndStages
  BY DEF NextOwned, NextOwnedAt, EndStages, EndStagesAt, InFlight, IsEnding
<1>4. OpenStages /\ CloseStages
  BY DEF OpenStages, CloseStages, InFlight, CloseW, Idle
<1>5. PriorityKeepsOpen /\ OpsNotHeld /\ SeekingWhileRunning /\ DeletedIsIdle
  BY <1>2 DEF PriorityKeepsOpen, OpsNotHeld, SeekingWhileRunning, DeletedIsIdle
<1>6. ExitedInv BY DEF ExitedInv, ExitLeavesNothing
<1> QED BY <1>1, <1>3, <1>4, <1>5, <1>6 DEF SafetyInv, Core

LEMMA NextSafety ==
    ASSUME ReadErrors = FALSE, SeekWhenEnding = FALSE, SafetyInv, [Next]_vars
    PROVE  SafetyInv'
<1>1. CountInv' BY NextCount DEF SafetyInv
<1>2. CASE UNCHANGED vars
  <2>1. UNCHANGED <<db, blockCache, priorityWork, work, life, attached, nexting, endedBy,
                    jsNexting, jsEnd, main, seeking, status, env, dbObject>>
    BY <1>2 DEF vars, storeVars, iterVars, hostVars
  <2>2. Core => Core'
    BY <2>1 DEF Core, NextOwned, NextOwnedAt, EndStages, EndStagesAt, OpenStages, CloseStages,
                PriorityKeepsOpen, OpsNotHeld, SeekingWhileRunning, DeletedIsIdle, InFlight,
                IsEnding, Attached, HasPriorityWork
  <2>3. ExitedInv'
    BY <2>1 DEF SafetyInv, ExitedInv, ExitLeavesNothing, InFlight
  <2> QED BY <1>1, <2>1, <2>2, <2>3 DEF SafetyInv
<1>3. CASE Next /\ env = "exited"
  <2>1. ExitedInv' BY <1>3, ExitedStays DEF SafetyInv
  <2>2. env' = "exited"
    <3>1. ~UserStep
      <4>1. seeking = {} BY <1>3 DEF SafetyInv, ExitedInv
      <4> QED BY <1>3, <4>1 DEF UserStep, UserCode, DbOpen, DbClose, DbOp, IteratorInit,
                IteratorNext, IteratorEnd, SeekBegin, SeekReturn
    <3> QED BY <1>3, <3>1 DEF Next, WorkerStep, Start, Finish, DoComplete, DoFinally, hostVars,
                EnvironmentStep, FinalizeIterator, FinalizeDatabase, EnvStop, EnvCleanup
  <2> QED BY <1>1, <2>1, <2>2 DEF SafetyInv
<1>4. CASE Next /\ env # "exited"
  <2>1. CountInv /\ Core BY <1>4 DEF SafetyInv
  <2>2. CASE EnvCleanup
    <3>1. env' = "exited" BY <2>2 DEF EnvCleanup
    <3> QED BY <1>1, <2>1, <2>2, <3>1, CleanupLeavesNothing DEF SafetyInv
  <2>3. CASE ~EnvCleanup
    <3>1. env' # "exited"
      BY <1>4, <2>3 DEF Next, UserStep, UserCode, DbOpen, DbClose, DbOp, IteratorInit,
         IteratorNext, IteratorEnd, SeekBegin, SeekReturn, WorkerStep, Start, Finish,
         DoComplete, DoFinally, hostVars, EnvironmentStep, FinalizeIterator,
         FinalizeDatabase, EnvStop
    <3>2. Core'
      <4>1. UserStep => Core' BY <1>1, <2>1, CoreUserStep
      <4>2. ASSUME NEW w \in Worker, WorkerStep(w) PROVE Core'
        BY <1>1, <1>4, <2>1, <4>2, CoreStart, CoreFinish, CoreDoComplete, CoreDoFinally
           DEF WorkerStep
      <4>3. EnvironmentStep => Core' BY <1>1, <2>1, <3>1, CoreEnvironment
      <4> QED BY <1>4, <4>1, <4>2, <4>3 DEF Next
    <3>3. ExitedInv' BY <3>1 DEF ExitedInv, ExitLeavesNothing
    <3> QED BY <1>1, <3>1, <3>2, <3>3 DEF SafetyInv
  <2> QED BY <2>2, <2>3
<1> QED BY <1>2, <1>3, <1>4

LEMMA SafetyAlways ==
    ASSUME ReadErrors = FALSE, SeekWhenEnding = FALSE
    PROVE  Spec => []SafetyInv
<1>1. Init => SafetyInv BY InitSafety
<1>2. SafetyInv /\ [Next]_vars => SafetyInv' BY NextSafety
<1> QED BY <1>1, <1>2, PTL DEF Spec
-----------------------------------------------------------------------------
\* What the invariant says of the use of leveldb.
LEMMA SafetyImplies ==
    ASSUME SafetyInv
    PROVE  CloseRunsAlone /\ IteratorUsedAlone /\ StoreOutlivesUse /\ PendingCloseIsServed
<1> USE WorkerFacts
<1> USE DEF InFlight, Scheduled, WillRun, NextInFlight
<1>1. CASE env = "exited"
  <2>1. /\ \A w \in Worker : work[w] = "free"
        /\ \A i \in Iter : life[i] # "live"
        /\ seeking = {}
    BY <1>1 DEF SafetyInv, ExitedInv, ExitLeavesNothing
  <2> QED BY <2>1 DEF CloseRunsAlone, IteratorUsedAlone, StoreOutlivesUse, PendingCloseIsServed
<1>2. CASE env # "exited"
  <2>1. CountInv /\ Core BY <1>2 DEF SafetyInv
  <2>2. /\ HasPriorityWork <=>
             (\E i \in Iter : attached[i]) \/ (\E o \in Op : InFlight(OpW(o)))
        /\ \A i \in Iter : InFlight(EndW(i)) => attached[i] /\ IsEnding(i)
        /\ priorityWork \in Nat /\ seeking \in SUBSET Iter
    BY <1>2, <2>1, PriorityWorkExists DEF CountInv, EndWorkerOwned, TypeOK
  <2>3. \A i \in Iter : NextOwnedAt(i) /\ EndStagesAt(i)
    BY <2>1 DEF Core, NextOwned, EndStages
  <2>4. CloseRunsAlone
    <3>1. Scheduled(CloseW) => ~HasPriorityWork
      BY <2>1 DEF Core, CloseStages, PriorityKeepsOpen
    <3> QED BY <2>2, <2>3, <3>1 DEF CloseRunsAlone, PendingOps, NextOwnedAt, EndStagesAt
  <2>5. IteratorUsedAlone
    BY <2>2, <2>3 DEF IteratorUsedAlone, NextOwnedAt, EndStagesAt
  <2>6. StoreOutlivesUse
    <3>1. HasPriorityWork => db = "open" /\ blockCache /\ dbObject # "deleted"
      BY <2>1 DEF Core, PriorityKeepsOpen, OpenStages, DeletedIsIdle, HasPriorityWork
    <3>2. dbObject \in {"live", "deleted"} BY <2>1 DEF CountInv, TypeOK
    <3>3. CASE HasPriorityWork BY <3>1, <3>2, <3>3 DEF StoreOutlivesUse
    <3>4. CASE ~HasPriorityWork
      <4>1. /\ \A i \in Iter : ~attached[i]
            /\ \A o \in Op : ~InFlight(OpW(o))
        BY <2>2, <3>4
      <4>2. \A i \in Iter : life[i] # "live" /\ i \notin seeking
        BY <2>3, <4>1 DEF EndStagesAt, NextOwnedAt
      <4>3. \A i \in Iter : ~WillRun(NextW(i)) /\ ~WillRun(AgainW(i))
        BY <2>3, <4>2 DEF NextOwnedAt
      <4> QED BY <4>1, <4>2, <4>3 DEF StoreOutlivesUse
    <3> QED BY <3>3, <3>4
  <2>7. PendingCloseIsServed
    <3>1. work[CloseW] = "held" => HasPriorityWork /\ \A i \in Attached : IsEnding(i)
      BY <2>1 DEF Core, CloseStages
    <3>2. \A i \in Iter : life[i] \in {"none", "live", "ended"}
      BY <2>1 DEF CountInv, TypeOK
    <3> QED BY <2>3, <3>1, <3>2 DEF PendingCloseIsServed, Attached, EndStagesAt
  <2> QED BY <2>4, <2>5, <2>6, <2>7
<1> QED BY <1>1, <1>2

\* While leveldb reports no read errors, nothing uses the database once its
\* CloseWorker is queued, for any number of operations and iterators (db_close,
\* DecrementPriorityWork).  With read errors the run retry_after_read_error
\* shows how this fails.
THEOREM CloseIsAlone ==
    ASSUME ReadErrors = FALSE, SeekWhenEnding = FALSE
    PROVE  Spec => []CloseRunsAlone
<1>1. SafetyInv => CloseRunsAlone BY SafetyImplies
<1> QED BY <1>1, SafetyAlways, PTL

\* The leveldb iterator is never shared by two threads nor used after it is
\* deleted (nexting_, isEnding_, endWorker_).
THEOREM IteratorsAreUsedAlone ==
    ASSUME ReadErrors = FALSE, SeekWhenEnding = FALSE
    PROVE  Spec => []IteratorUsedAlone
<1>1. SafetyInv => IteratorUsedAlone BY SafetyImplies
<1> QED BY <1>1, SafetyAlways, PTL

\* leveldb and its block cache outlive whatever can touch them (priorityWork_, ref_).
THEOREM StoreOutlivesItsUse ==
    ASSUME ReadErrors = FALSE, SeekWhenEnding = FALSE
    PROVE  Spec => []StoreOutlivesUse
<1>1. SafetyInv => StoreOutlivesUse BY SafetyImplies
<1> QED BY <1>1, SafetyAlways, PTL

\* A close() that waits always has something to wait for (pendingCloseWorker_).
THEOREM PendingCloseServed ==
    ASSUME ReadErrors = FALSE, SeekWhenEnding = FALSE
    PROVE  Spec => []PendingCloseIsServed
<1>1. SafetyInv => PendingCloseIsServed BY SafetyImplies
<1> QED BY <1>1, SafetyAlways, PTL

\* The cleanup hook leaves nothing open and strands no close() (env_cleanup_hook).
THEOREM ExitIsClean ==
    ASSUME ReadErrors = FALSE, SeekWhenEnding = FALSE
    PROVE  Spec => []ExitLeavesNothing
<1>1. SafetyInv => ExitLeavesNothing BY DEF SafetyInv, ExitedInv
<1> QED BY <1>1, SafetyAlways, PTL

\* The Database object is deleted only when no worker or iterator points to it
\* (ref_, FinalizeDatabase).
THEOREM DatabaseDeletedUnused ==
    ASSUME ReadErrors = FALSE, SeekWhenEnding = FALSE
    PROVE  Spec => []DeletedWhenUnused
<1>1. ASSUME SafetyInv PROVE DeletedWhenUnused
  <2>1. SUFFICES ASSUME dbObject = "deleted", env # "exited"
                 PROVE  (\A w \in Worker : ~InFlight(w)) /\ \A i \in Iter : life[i] # "live"
    BY DEF DeletedWhenUnused
  <2>2. CountInv /\ priorityWork = 0 /\ \A w \in Worker : ~InFlight(w)
    BY <1>1, <2>1 DEF SafetyInv, Core, DeletedIsIdle
  <2>3. \A i \in Iter : ~attached[i]
    BY <2>2, PriorityWorkExists DEF CountInv, HasPriorityWork
  <2> QED BY <1>1, <2>1, <2>2, <2>3 DEF SafetyInv, Core, EndStages, EndStagesAt
<1> QED BY <1>1, SafetyAlways, PTL

\* Whenever an iterator object can be collected it has ended and no worker of its
\* own is left: the assertion in its destructor (FinalizeIterator, Detach).
THEOREM CollectedIteratorsHaveEnded ==
    ASSUME ReadErrors = FALSE, SeekWhenEnding = FALSE
    PROVE  Spec => []CollectedHasEnded
<1>1. ASSUME SafetyInv, NEW i \in Iter, Collectable(i)
      PROVE  life[i] = "ended" /\ ~NextInFlight(i) /\ ~InFlight(EndW(i))
  <2>1. CountInv /\ life[i] \in {"live", "ended"}
    BY <1>1 DEF SafetyInv, CountInv, TypeOK, Collectable
  <2>2. CASE env = "exited"
    BY <1>1, <2>1, <2>2, WorkerFacts DEF SafetyInv, ExitedInv, ExitLeavesNothing,
       NextInFlight
  <2>3. CASE env # "exited"
    <3>1. ~attached[i] /\ ~NextInFlight(i) BY <1>1, <2>3 DEF Collectable
    <3>2. ~InFlight(EndW(i)) BY <2>1, <3>1 DEF CountInv, EndWorkerOwned
    <3> QED BY <1>1, <2>1, <2>3, <3>1, <3>2 DEF SafetyInv, Core, EndStages, EndStagesAt
  <2> QED BY <2>2, <2>3
<1>2. SafetyInv => CollectedHasEnded BY <1>1 DEF CollectedHasEnded
<1> QED BY <1>2, SafetyAlways, PTL

\* leveldb, its cache, the Database and the Iterator objects outlive all that can
\* reach them (priorityWork_, ref_, FinalizeDatabase).
THEOREM NothingUsedAfterItsEnd ==
    ASSUME ReadErrors = FALSE, SeekWhenEnding = FALSE
    PROVE  Spec => []OutlivesUse
BY StoreOutlivesItsUse, DatabaseDeletedUnused, CollectedIteratorsHaveEnded, PTL
   DEF OutlivesUse
-----------------------------------------------------------------------------
(***************************************************************************)
(* The third part: Database implements StoreSession.  Every step of the    *)
(* database is a step of the session, or leaves the session alone.         *)
(***************************************************************************)
\* The requests are workers, and which ones.
LEMMA RequestFacts ==
    /\ SessionRequest \subseteq Worker
    /\ \A o \in Op : OpW(o) \in SessionRequest
    /\ \A i \in Iter : NextW(i) \in SessionRequest /\ AgainW(i) \in SessionRequest
    /\ OpenW \notin SessionRequest /\ CloseW \notin SessionRequest
    /\ \A w \in SessionRequest : w[1] # "end"
BY DEF SessionRequest, Worker, OpW, NextW, AgainW, OpenW, CloseW

\* Priority work or nothing: an operation or next() in flight keeps the count above zero.
LEMMA PendingHasPriority ==
    ASSUME CountInv, Core
    PROVE  ~HasPriorityWork => SessionPending = {}
<1> SUFFICES ASSUME ~HasPriorityWork, NEW w \in SessionRequest, InFlight(w) PROVE FALSE
  BY DEF SessionPending
<1> USE WorkerFacts, WorkerNames, RequestFacts
<1>1. (\A i \in Iter : ~attached[i]) /\ \A o \in Op : ~InFlight(OpW(o))
  BY PriorityWorkExists DEF CountInv
<1>2. (\E o \in Op : w = OpW(o)) \/ \E i \in Iter : w = NextW(i) \/ w = AgainW(i)
  BY WorkerCases
<1>3. \A i \in Iter : ~InFlight(NextW(i)) /\ ~InFlight(AgainW(i))
  BY <1>1 DEF Core, NextOwned, NextOwnedAt, EndStages, EndStagesAt, InFlight
<1> QED BY <1>1, <1>2, <1>3

\* The four ways a step can look to the session.
LEMMA StutterSession ==
    ASSUME SessionPhase' = SessionPhase, SessionPending' = SessionPending
    PROVE  [Session!SessionNext]_(Session!sessionVars)
BY DEF Session!sessionVars

LEMMA AcceptStep ==
    ASSUME NEW r \in SessionRequest, SessionPhase = "open", r \notin SessionPending,
           SessionPending' = SessionPending \cup {r}, SessionPhase' = SessionPhase
    PROVE  [Session!SessionNext]_(Session!sessionVars)
BY DEF Session!SessionNext, Session!Accept

LEMMA AnswerStep ==
    ASSUME NEW r \in SessionRequest, r \in SessionPending,
           SessionPending' = SessionPending \ {r}, SessionPhase' = SessionPhase
    PROVE  [Session!SessionNext]_(Session!sessionVars)
BY DEF Session!SessionNext, Session!Answer

LEMMA EmptyStep ==
    ASSUME SessionPending = {}, SessionPending' = {},
           \/ SessionPhase = "closed" /\ SessionPhase' = "open"
           \/ SessionPhase' = "closed"
    PROVE  [Session!SessionNext]_(Session!sessionVars)
BY DEF Session!SessionNext, Session!OpenStore, Session!CloseStore, Session!sessionVars

LEMMA CloseRequestStep ==
    ASSUME SessionPhase = "open", SessionPhase' = "closing", SessionPending' = SessionPending
    PROVE  [Session!SessionNext]_(Session!sessionVars)
BY DEF Session!SessionNext, Session!CloseRequest
-----------------------------------------------------------------------------
\* A step that leaves the requests' workers, db_ and the closing status alone.
LEMMA SamePending ==
    ASSUME \A r \in SessionRequest : InFlight(r)' <=> InFlight(r)
    PROVE  SessionPending' = SessionPending
BY DEF SessionPending

LEMMA SamePhase ==
    ASSUME db' = db, status' = status
    PROVE  SessionPhase' = SessionPhase
BY DEF SessionPhase

LEMMA UserSession ==
    ASSUME SeekWhenEnding = FALSE, CountInv, Core, UserStep
    PROVE  [Session!SessionNext]_(Session!sessionVars)
<1> USE WorkerFacts, WorkerNames, RequestFacts
<1> USE DEF storeVars, iterVars, hostVars
<1>0. TypeOK /\ work \in [Worker -> WorkState] BY DEF CountInv, TypeOK
<1>1. CASE DbOpen
  <2>1. SessionPending' = SessionPending
    BY <1>0, <1>1, SamePending DEF DbOpen, InFlight
  <2>2. db = "null" /\ db' = db
    BY <1>1 DEF DbOpen, Core, CloseStages
  <2>3. SessionPhase' = SessionPhase BY <2>2 DEF SessionPhase
  <2> QED BY <2>1, <2>3, StutterSession
<1>2. CASE DbClose
  <2> DEFINE S == {i \in Attached : ~IsEnding(i) /\ life[i] # "ended"}
  <2>1. S \in SUBSET Iter BY DEF Attached
  <2>2. \A w \in Worker : w[1] # "end" /\ w # CloseW => work'[w] = work[w]
    <3>1. CASE ~HasPriorityWork BY <1>0, <1>2, <3>1 DEF DbClose
    <3>2. CASE HasPriorityWork
      <4>1. work' = [EndWork(S) EXCEPT ![CloseW] = "held"]
        BY <1>2, <3>2 DEF DbClose
      <4> HIDE DEF S
      <4>2. \A w \in Worker : w[1] # "end" => EndWork(S)[w] = work[w]
        BY <1>0, <2>1, EndWorkFacts
      <4>3. EndWork(S) \in [Worker -> WorkState] BY <1>0, <2>1, EndWorkFacts
      <4> QED BY <4>1, <4>2, <4>3
    <3> QED BY <3>1, <3>2
  <2>3. SessionPending' = SessionPending BY <2>2, SamePending DEF InFlight
  <2>4. db' = db /\ status' = "closing" /\ status \in {"closed", "open"}
    BY <1>2 DEF DbClose
  <2>5. CASE db = "null"
    <3>1. SessionPhase' = SessionPhase BY <2>4, <2>5 DEF SessionPhase
    <3> QED BY <2>3, <3>1, StutterSession
  <2>6. CASE db # "null"
    <3>1. SessionPhase = "open" /\ SessionPhase' = "closing"
      BY <2>4, <2>6 DEF SessionPhase
    <3> QED BY <2>3, <3>1, CloseRequestStep
  <2> QED BY <2>5, <2>6
<1>3. ASSUME NEW o \in Op, DbOp(o)
      PROVE  [Session!SessionNext]_(Session!sessionVars)
  <2>1. SessionPending' = SessionPending \cup {OpW(o)} /\ OpW(o) \notin SessionPending
    BY <1>0, <1>3 DEF DbOp, SessionPending, InFlight
  <2>2. SessionPhase = "open"
    BY <1>3 DEF DbOp, UserCode, Core, CloseStages, SessionPhase
  <2>3. SessionPhase' = SessionPhase BY <1>3, SamePhase DEF DbOp
  <2> QED BY <2>1, <2>2, <2>3, AcceptStep
<1>4. ASSUME NEW i \in Iter, IteratorNext(i)
      PROVE  [Session!SessionNext]_(Session!sessionVars)
  <2>1. /\ life[i] # "none" /\ life[i] # "ended" /\ ~IsEnding(i)
        /\ ~jsNexting[i] /\ life[i] \in {"none", "live", "ended"}
    BY <1>0, <1>4 DEF IteratorNext, JsReady, TypeOK
  <2>2. attached[i] /\ ~InFlight(NextW(i)) /\ ~InFlight(AgainW(i))
    BY <2>1 DEF Core, NextOwned, NextOwnedAt, EndStages, EndStagesAt, InFlight
  <2>3. work' = [work EXCEPT ![NextW(i)] = "queued"]
    BY <1>4, <2>2 DEF IteratorNext
  <2>4. SessionPending' = SessionPending \cup {NextW(i)} /\ NextW(i) \notin SessionPending
    BY <1>0, <2>2, <2>3 DEF SessionPending, InFlight
  <2>5. HasPriorityWork BY <2>2, PriorityWorkExists DEF CountInv
  <2>6. db = "open" /\ status # "closing"
    BY <2>1, <2>2, <2>5 DEF Core, PriorityKeepsOpen, CloseStages, Attached
  <2>7. SessionPhase = "open" BY <2>6 DEF SessionPhase
  <2>8. SessionPhase' = SessionPhase BY <1>4, SamePhase DEF IteratorNext
  <2> QED BY <2>4, <2>7, <2>8, AcceptStep
<1>5. ASSUME NEW i \in Iter, IteratorEnd(i)
      PROVE  [Session!SessionNext]_(Session!sessionVars)
  <2>1. \A w \in Worker : w # EndW(i) => EndWork({i})[w] = work[w]
    BY <1>0, EndWorkOne
  <2>2. work' = work \/ work' = EndWork({i}) BY <1>5 DEF IteratorEnd
  <2>3. \A w \in Worker : w[1] # "end" => work'[w] = work[w] BY <2>1, <2>2
  <2>4. SessionPending' = SessionPending BY <2>3, SamePending DEF InFlight
  <2>5. SessionPhase' = SessionPhase BY <1>5, SamePhase DEF IteratorEnd
  <2> QED BY <2>4, <2>5, StutterSession
<1>6. ASSUME NEW i \in Iter, IteratorInit(i) \/ SeekBegin(i) \/ SeekReturn(i)
      PROVE  [Session!SessionNext]_(Session!sessionVars)
  <2>1. work' = work /\ db' = db /\ status' = status
    BY <1>6 DEF IteratorInit, SeekBegin, SeekReturn
  <2> QED BY <2>1, SamePending, SamePhase, StutterSession DEF InFlight
<1> QED BY <1>1, <1>2, <1>3, <1>4, <1>5, <1>6 DEF UserStep

LEMMA WorkerSession ==
    ASSUME ReadErrors = FALSE, CountInv, Core, env # "exited", NEW w \in Worker, WorkerStep(w)
    PROVE  [Session!SessionNext]_(Session!sessionVars)
<1> USE WorkerFacts, WorkerNames, RequestFacts
<1> USE DEF storeVars, iterVars, hostVars
<1>0. TypeOK /\ work \in [Worker -> WorkState] /\ MainHasRun BY DEF CountInv, TypeOK
<1>1. CASE Start(w)
  <2>1. work' = [work EXCEPT ![w] = "executing"] /\ work[w] = "queued"
    BY <1>1 DEF Start
  <2>2. SessionPending' = SessionPending BY <1>0, <2>1, SamePending DEF InFlight
  <2>3. SessionPhase' = SessionPhase BY <1>1, SamePhase DEF Start
  <2> QED BY <2>2, <2>3, StutterSession
<1>2. CASE Finish(w)
  <2>1. /\ work[w] = "executing" /\ status' = status /\ work'[w] \in {"done", "failed"}
        /\ \A v \in Worker : v # w => work'[v] = work[v]
    BY <1>0, <1>2 DEF Finish, ExecuteOp, ExecuteOpen, ExecuteClose, ExecuteNext, ExecuteEnd
  <2>2. SessionPending' = SessionPending BY <1>0, <2>1, SamePending DEF InFlight
  <2>3. CASE db' = db
    BY <2>1, <2>2, <2>3, SamePhase, StutterSession
  <2>4. CASE w = OpenW /\ db' # db
    <3>1. ~HasPriorityWork /\ db = "null" /\ main # OpenW
      BY <1>0, <2>1, <2>4 DEF MainHasRun, Core, OpenStages, PriorityKeepsOpen
    <3>2. SessionPending = {} BY <3>1, PendingHasPriority
    <3>3. status = "opening" BY <2>1, <2>4, <3>1 DEF Core, OpenStages, InFlight
    <3>4. db' = "open"
      BY <1>2, <2>4 DEF Finish, ExecuteOp, ExecuteOpen, ExecuteClose, ExecuteNext, ExecuteEnd
    <3>5. SessionPhase = "closed" /\ SessionPhase' = "open"
      BY <2>1, <3>1, <3>3, <3>4 DEF SessionPhase
    <3> QED BY <2>2, <3>2, <3>5, EmptyStep
  <2>5. CASE w = CloseW /\ db' # db
    <3>1. ~HasPriorityWork
      BY <1>0, <2>1, <2>5 DEF MainHasRun, Core, CloseStages, PriorityKeepsOpen, InFlight
    <3>2. SessionPending = {} BY <3>1, PendingHasPriority
    <3>3. db' = "null"
      BY <1>2, <2>5 DEF Finish, ExecuteOp, ExecuteOpen, ExecuteClose, ExecuteNext, ExecuteEnd
    <3>4. SessionPhase' = "closed" BY <3>3 DEF SessionPhase
    <3> QED BY <2>2, <3>2, <3>4, EmptyStep
  <2>6. w # OpenW /\ w # CloseW => db' = db
    BY <1>2 DEF Finish, ExecuteOp, ExecuteOpen, ExecuteClose, ExecuteNext, ExecuteEnd
  <2> QED BY <2>3, <2>4, <2>5, <2>6
<1>3. CASE DoComplete(w)
  <2>1. work' = work /\ db' = db /\ main = Idle /\ work[w] \in {"done", "failed"}
    BY <1>3 DEF DoComplete
  <2>2. SessionPending' = SessionPending BY <2>1, SamePending DEF InFlight
  <2>3. CASE w = OpenW
    <3>1. status = "opening" BY <2>1, <2>3 DEF Core, OpenStages, InFlight
    <3>2. status' \in {"open", "closed"} BY <1>3, <2>3 DEF DoComplete, StatusAfter
    <3>3. SessionPhase' = SessionPhase BY <2>1, <3>1, <3>2 DEF SessionPhase
    <3> QED BY <2>2, <3>3, StutterSession
  <2>4. CASE w = CloseW
    <3>1. db = "null" BY <2>1, <2>4 DEF Core, CloseStages, InFlight
    <3>2. SessionPhase' = SessionPhase BY <2>1, <3>1 DEF SessionPhase
    <3> QED BY <2>2, <3>2, StutterSession
  <2>5. CASE w # OpenW /\ w # CloseW
    <3>1. status' = status BY <1>3, <2>5 DEF DoComplete, StatusAfter
    <3> QED BY <2>1, <2>2, <3>1, SamePhase, StutterSession
  <2> QED BY <2>3, <2>4, <2>5
<1>4. CASE DoFinally(w)
  <2>1. /\ work[w] \in {"done", "failed"} /\ SessionPhase' = SessionPhase
        /\ FinallyOp(w) \/ FinallyEnd(w) \/ FinallyNext(w) \/ FinallyOpenClose(w)
    BY <1>0, <1>4, SamePhase DEF DoFinally, MainHasRun
  <2>2. /\ work'[w] = "free"
        /\ \A v \in SessionRequest : v # w => work'[v] = work[v]
    <3>1. CASE FinallyOp(w) \/ FinallyEnd(w)
      BY <1>0, <3>1 DEF FinallyOp, FinallyEnd, ReleasePriority
    <3>2. CASE FinallyNext(w)
      <4>1. PICK i \in Iter : w = NextW(i) \/ w = AgainW(i)
        BY <3>2, WorkerCases DEF FinallyNext
      <4>2. w[2] = i BY <4>1
      <4>3. work' = [work EXCEPT ![w] = "free",
                                 ![EndW(i)] = IF @ = "held" THEN "queued" ELSE @]
        BY <3>2, <4>2 DEF FinallyNext
      <4> QED BY <1>0, <4>1, <4>3
    <3>3. CASE FinallyOpenClose(w)
      BY <1>0, <3>3 DEF FinallyOpenClose
    <3> QED BY <2>1, <3>1, <3>2, <3>3
  <2>3. CASE w \in SessionRequest
    <3>1. SessionPending' = SessionPending \ {w} /\ w \in SessionPending
      BY <2>1, <2>2, <2>3 DEF SessionPending, InFlight
    <3> QED BY <2>1, <2>3, <3>1, AnswerStep
  <2>4. CASE w \notin SessionRequest
    <3>1. SessionPending' = SessionPending BY <2>2, <2>4, SamePending DEF InFlight
    <3> QED BY <2>1, <3>1, StutterSession
  <2> QED BY <2>3, <2>4
<1> QED BY <1>1, <1>2, <1>3, <1>4 DEF WorkerStep

LEMMA EnvironmentSession ==
    ASSUME CountInv, Core, env # "exited", EnvironmentStep
    PROVE  [Session!SessionNext]_(Session!sessionVars)
<1> USE DEF storeVars, iterVars, hostVars
<1>1. work' = work /\ status' = status
  BY DEF EnvironmentStep, FinalizeIterator, FinalizeDatabase, EnvStop, EnvCleanup
<1>2. SessionPending' = SessionPending BY <1>1, SamePending DEF InFlight
<1>3. CASE db' = db BY <1>1, <1>2, <1>3, SamePhase, StutterSession
<1>4. CASE db' # db
  <2>1. db' = "null" /\ (FinalizeDatabase \/ EnvCleanup)
    BY <1>4 DEF EnvironmentStep, FinalizeIterator, FinalizeDatabase, EnvStop, EnvCleanup
  <2>2. SessionPhase' = "closed" BY <2>1 DEF SessionPhase
  <2>3. SessionPending = {}
    <3>1. CASE FinalizeDatabase
      <4>1. ~HasPriorityWork BY <3>1 DEF FinalizeDatabase, HasPriorityWork
      <4> QED BY <4>1, PendingHasPriority
    <3>2. CASE EnvCleanup
      <4>1. \A w \in Worker : ~InFlight(w)
        BY <3>2, CleanupLeavesNothing DEF EnvCleanup, ExitedInv, ExitLeavesNothing, InFlight
      <4> QED BY <4>1, RequestFacts DEF SessionPending
    <3> QED BY <2>1, <3>1, <3>2
  <2> QED BY <1>2, <2>2, <2>3, EmptyStep
<1> QED BY <1>3, <1>4

LEMMA NextSession ==
    ASSUME ReadErrors = FALSE, SeekWhenEnding = FALSE, SafetyInv, [Next]_vars
    PROVE  [Session!SessionNext]_(Session!sessionVars)
<1>1. CASE UNCHANGED vars
  <2>1. work' = work /\ db' = db /\ status' = status BY <1>1 DEF vars, storeVars
  <2> QED BY <2>1, SamePending, SamePhase, StutterSession DEF InFlight
<1>2. CASE Next /\ env # "exited"
  <2>1. CountInv /\ Core BY <1>2 DEF SafetyInv
  <2>2. ASSUME NEW w \in Worker, WorkerStep(w)
        PROVE  [Session!SessionNext]_(Session!sessionVars)
    BY <1>2, <2>1, <2>2, WorkerSession
  <2> QED BY <1>2, <2>1, <2>2, UserSession, EnvironmentSession DEF Next
<1>3. CASE Next /\ env = "exited"
  <2>1. ExitedInv /\ ExitedInv' /\ CountInv BY <1>3, ExitedStays DEF SafetyInv
  <2>2. /\ \A w \in Worker : ~InFlight(w)
        /\ env' = "exited" => \A w \in Worker : ~InFlight(w)'
        /\ db = "null"
    BY <1>3, <2>1 DEF ExitedInv, ExitLeavesNothing, InFlight
  <2>3. SafetyInv' BY NextSafety
  <2>4. work' = work /\ db' = db
    <3>1. ~UserStep
      BY <1>3, <2>1 DEF ExitedInv, UserStep, UserCode, DbOpen, DbClose, DbOp, IteratorInit,
         IteratorNext, IteratorEnd, SeekBegin, SeekReturn
    <3>2. ASSUME NEW w \in Worker PROVE ~WorkerStep(w)
      BY <2>1, <2>2, WorkerFacts DEF WorkerStep, Start, Finish, DoComplete, DoFinally,
         CountInv, MainHasRun, InFlight
    <3> QED BY <1>3, <2>2, <3>1, <3>2 DEF Next, EnvironmentStep, FinalizeIterator,
         FinalizeDatabase, EnvStop, EnvCleanup, storeVars
  <2>5. SessionPending' = SessionPending /\ SessionPhase' = SessionPhase
    BY <2>2, <2>4, SamePending DEF SessionPhase, InFlight
  <2> QED BY <2>5, StutterSession
<1> QED BY <1>1, <1>2, <1>3

\* For any number of operations and iterators, and while leveldb reports no
\* read errors: nothing is accepted after close() is called, and the store is
\* closed only when every accepted request has been answered.
THEOREM DatabaseIsASession ==
    ASSUME ReadErrors = FALSE, SeekWhenEnding = FALSE
    PROVE  Spec => ImplementsSession
<1>1. Init => Session!SessionInit
  <2> SUFFICES ASSUME Init PROVE SessionPhase = "closed" /\ SessionPending = {}
    BY DEF Session!SessionInit
  <2> QED BY RequestFacts DEF Init, SessionPhase, SessionPending, InFlight
<1>2. SafetyInv /\ [Next]_vars => [Session!SessionNext]_(Session!sessionVars)
  BY NextSession
<1> QED BY <1>1, <1>2, SafetyAlways, PTL DEF Spec, ImplementsSession, Session!SessionSpec
-----------------------------------------------------------------------------
(***************************************************************************)
(* StoreData: getMany() and clear() keep to the moment of their call. The  *)
(* iterator of clear() is that of RangeIterator, so what is known of where *)
(* it starts and moves to is cited from there.                             *)
(*                                                                         *)
(* The invariant of clear() is that it has deleted the front of its range, *)
(* and that just the rest of the range is ahead of its iterator.           *)
(***************************************************************************)
\* The proofs about the iteration, read for the iterator of clear().
P == INSTANCE RangeIterator_proofs WITH
    options <- within, snapshot <- seen, pos <- at, count <- counted,
    didSeek <- FALSE, landed <- FALSE, cache <- <<>>, finished <- FALSE, answer <- Nothing,
    OptionSets <- ClearOptions

\* They are about the operators that StoreData uses,
LEMMA Same ==
    /\ \A p : It!Valid(p) = P!Valid(p)
    /\ \A p : It!Moved(p) = P!Moved(p)
    /\ \A p, k : It!Precedes(p, k) = P!Precedes(p, k)
    /\ It!InRange = P!InRange /\ It!Limited = P!Limited
<1>1. \A p : It!OutOfRange(p) = P!OutOfRange(p)
  BY DEF It!OutOfRange, P!OutOfRange
<1>2. \A p : It!Valid(p) = P!Valid(p)
  BY <1>1 DEF It!Valid, P!Valid
<1>3. It!InRange = P!InRange
  BY <1>1 DEF It!InRange, P!InRange, It!Keys, P!Keys
<1>4. \A p : It!Moved(p) = P!Moved(p)
  BY DEF It!Moved, P!Moved, It!DbNext, P!DbNext, It!DbPrev, P!DbPrev,
         It!Least, P!Least, It!Greatest, P!Greatest
<1>5. \A p, k : It!Precedes(p, k) = P!Precedes(p, k)
  BY DEF It!Precedes, P!Precedes
<1>6. It!Limited = P!Limited
  BY DEF It!Limited, P!Limited
<1> QED  BY <1>2, <1>3, <1>4, <1>5, <1>6

\* the start of the range among them,
LEMMA SameStart == It!ToRange = P!ToRange
BY DEF It!ToRange, P!ToRange, It!AtOrAfter, P!AtOrAfter, It!Below, P!Below, It!ToFirst, P!ToFirst,
       It!DbNext, P!DbNext, It!DbPrev, P!DbPrev, It!Least, P!Least, It!Greatest, P!Greatest

\* and under the same assumptions.
LEMMA Assumed ==
    /\ MaxKey \in Nat /\ MaxBatch \in Nat \ {0}
    /\ {None, Undefined, NoMore, Nothing} \cap Int = {} /\ None # Undefined
    /\ ClearOptions \subseteq P!Options
BY RangeAssumption, DataAssumption DEF Options, P!Options, Bound, P!Bound, Keys, P!Keys
-----------------------------------------------------------------------------
\* What marks no key is none.
LEMMA NoneIsNoKey == None \notin Int
BY Assumed

\* The kinds of the options and the keys of clear().
LEMMA FitsAre ==
    ASSUME P!Fits
    PROVE  /\ within.limit \in Int /\ seen \subseteq Keys /\ Keys \subseteq Int /\ None \notin seen
<1>1. within.limit \in Int
  BY Assumed, P!OptionsAre
<1>2. seen \subseteq Keys
  BY DEF P!Fits, P!Keys, Keys
<1>3. Keys \subseteq Int
  BY Assumed DEF Keys
<1> QED  BY <1>1, <1>2, <1>3, NoneIsNoKey

\* Moving on leaves behind just the key the iterator was at,
LEMMA AheadAfterMove ==
    ASSUME P!Fits, NEW p \in seen, ~P!OutOfRange(p)
    PROVE  P!AheadOf(P!Moved(p), FALSE) = P!AheadOf(p, TRUE)
BY Assumed, P!AheadAfterMove

\* goes from key to key or off the end,
LEMMA MovedIs ==
    ASSUME P!Fits, NEW p \in seen
    PROVE  P!Moved(p) \in seen \cup {None}
BY Assumed, P!MovedIs

\* and at the start the whole range is ahead.
LEMMA StartIsAhead ==
    ASSUME P!Fits, P!OneBoundEach(within)
    PROVE  /\ P!ToRange \in seen \cup {None}
           /\ P!AheadOf(P!ToRange, FALSE) = seen \cap P!InRange
BY Assumed, P!ToRangeIs, P!AllAhead

\* No key comes before itself.
LEMMA Order ==
    ASSUME NEW k \in Int
    PROVE  ~P!Precedes(k, k)
BY DEF P!Precedes
-----------------------------------------------------------------------------
\* The range, as it was stored when clear() was called.
InOrder == seen \cap P!InRange

\* D is the front of the range, in the order of the iteration, within the limit.
Front(D) ==
    /\ D \subseteq InOrder
    /\ \A k \in D, l \in InOrder \ D : P!Precedes(k, l)
    /\ P!Limited => Cardinality(D) <= within.limit

\* A turn has read s.batch: with what was deleted before it is the front, counted, and
\* the rest is ahead.
Reading(s) ==
    /\ s \in [pos: seen \cup {None}, count: Nat, batch: SUBSET seen]
    /\ Front(deleted \cup s.batch) /\ s.count = Cardinality(deleted \cup s.batch)
    /\ P!AheadOf(s.pos, FALSE) = InOrder \ (deleted \cup s.batch)

\* What a turn begins with, and whether it can read one more key.
Begin == [pos |-> IF clear = "queued" THEN It!ToRange ELSE at, count |-> counted, batch |-> {}]
CanPull(s) == P!Valid(s.pos) /\ (P!Limited => s.count < within.limit)

\* What clear() has done so far; an error leaves it where it was.
ClearInv ==
    /\ clear \in {"no", "queued", "running", "ok", "error"}
    /\ clear # "no" => P!Fits /\ P!OneBoundEach(within) /\ Front(deleted)
    /\ clear = "queued" => deleted = {} /\ counted = 0
    /\ clear = "running" =>
         /\ at \in seen \cup {None} /\ counted = Cardinality(deleted)
         /\ P!AheadOf(at, FALSE) = InOrder \ deleted
    /\ clear = "ok" => deleted = ToClear
-----------------------------------------------------------------------------
\* What is in the range can be counted.
LEMMA InOrderIsFinite ==
    ASSUME P!Fits, NEW D \in SUBSET InOrder
    PROVE  IsFiniteSet(D) /\ Cardinality(D) \in Nat
<1>1. IsFiniteSet(Keys)
  BY Assumed, FS_Interval DEF Keys
<1>2. D \subseteq Keys
  BY FitsAre DEF InOrder
<1> QED  BY <1>1, <1>2, FS_Subset, FS_CardinalityType

\* One key read, in the words of this module.
LEMMA PullIs ==
    ASSUME NEW s
    PROVE  ClearPull(s) = IF CanPull(s)
                          THEN [pos |-> P!Moved(s.pos), count |-> s.count + 1, batch |-> s.batch \cup {s.pos}]
                          ELSE s
BY Same DEF ClearPull, CanPull

\* It adds the next key of the range to the front, and goes on.
LEMMA PullReads == ASSUME P!Fits, NEW s, Reading(s) PROVE Reading(ClearPull(s))
<1> DEFINE p == s.pos
           D == deleted \cup s.batch
           E == D \cup {p}
           d == [pos |-> P!Moved(p), count |-> s.count + 1, batch |-> s.batch \cup {p}]
<1>1. CASE ~CanPull(s)
  BY <1>1, PullIs
<1>2. CASE CanPull(s)
  <2>1. ClearPull(s) = d
    BY <1>2, PullIs
  <2>2. p \in seen /\ ~P!OutOfRange(p) /\ P!Valid(p) /\ p \in Keys /\ p \in InOrder /\ p \in Int
    BY <1>2, FitsAre DEF CanPull, P!Valid, InOrder, P!InRange, P!Keys, Keys
  <2>3. P!AheadOf(p, FALSE) = InOrder \ D
    BY DEF Reading
  <2>4. P!AheadOf(p, FALSE) = {k \in InOrder : k = p \/ P!Precedes(p, k)}
    BY <2>2 DEF P!AheadOf, InOrder
  <2>5. P!AheadOf(p, TRUE) = {k \in InOrder : P!Precedes(p, k)}
    BY <2>2 DEF P!AheadOf, InOrder
  <2>6. p \notin D
    BY <2>2, <2>3, <2>4
  <2>7. P!AheadOf(P!Moved(p), FALSE) = InOrder \ E
    <3>1. P!AheadOf(P!Moved(p), FALSE) = P!AheadOf(p, TRUE)
      BY <2>2, AheadAfterMove
    <3>2. ~P!Precedes(p, p)
      BY <2>2, Order
    <3> HIDE DEF p, D
    <3> QED  BY <3>1, <3>2, <2>3, <2>4, <2>5
  <2>8. D \subseteq InOrder /\ \A k \in D, l \in InOrder \ D : P!Precedes(k, l)
    BY DEF Reading, Front
  <2>9. \A k \in E, l \in InOrder \ E : P!Precedes(k, l)
    <3> HIDE DEF p, D
    <3> QED  BY <2>3, <2>4, <2>8
  <2>10. s.count = Cardinality(D) /\ IsFiniteSet(D) /\ Cardinality(D) \in Nat
    BY <2>8, InOrderIsFinite DEF Reading
  <2>11. Cardinality(E) = s.count + 1
    <3> HIDE DEF p, D
    <3> QED  BY <2>6, <2>10, FS_AddElement
  <2>12. P!Limited => Cardinality(E) <= within.limit
    <3>1. P!Limited => s.count < within.limit
      BY <1>2 DEF CanPull
    <3> HIDE DEF E
    <3> QED  BY <3>1, <2>10, <2>11, FitsAre
  <2>13. Front(E)
    <3> HIDE DEF p, D
    <3> QED  BY <2>2, <2>8, <2>9, <2>12 DEF Front
  <2>14. deleted \cup d.batch = E
    OBVIOUS
  <2>15. d \in [pos: seen \cup {None}, count: Nat, batch: SUBSET seen]
    <3>1. P!Moved(p) \in seen \cup {None}
      BY <2>2, MovedIs
    <3>2. s.batch \in SUBSET seen
      BY DEF Reading
    <3> QED  BY <2>2, <2>10, <3>1, <3>2
  <2>16. d.pos = P!Moved(p) /\ d.count = s.count + 1
    OBVIOUS
  <2> HIDE DEF d, E
  <2>17. Reading(d)
    BY <2>7, <2>11, <2>13, <2>14, <2>15, <2>16 DEF Reading
  <2> QED  BY <2>1, <2>17
<1> QED  BY <1>1, <1>2
-----------------------------------------------------------------------------
\* Induction over a set of numbers.
LEMMA Upwards ==
    ASSUME NEW T, 0 \in T, \A n \in Nat : n \in T => n + 1 \in T
    PROVE  Nat \subseteq T
BY Assumed, P!Upwards

\* ClearRead computes the turns of its loop one after the other,
Turning(f, n) == f = [i \in 0..n |-> IF i = 0 THEN Begin ELSE ClearPull(f[i - 1])]

LEMMA ClearReadIs == \A n : ClearRead(n) = (CHOOSE f : Turning(f, n))[n]
BY DEF ClearRead, Turning, Begin

\* and there is a function of them.
LEMMA TurningExists == \A n \in Nat : \E f : Turning(f, n)
<1> DEFINE T == {n \in Nat : \E f : Turning(f, n)}
<1>1. 0 \in T
  <2> DEFINE f == [i \in 0..0 |-> Begin]
  <2>1. Turning(f, 0)
    BY DEF Turning
  <2> QED  BY <2>1
<1>2. ASSUME NEW n \in Nat, n \in T PROVE n + 1 \in T
  <2>1. PICK g : Turning(g, n)
    BY <1>2
  <2> DEFINE f == [i \in 0..(n + 1) |-> IF i = n + 1 THEN ClearPull(g[n]) ELSE g[i]]
  <2>2. \A i \in 0..(n + 1) : f[i] = IF i = 0 THEN Begin ELSE ClearPull(f[i - 1])
    <3> TAKE i \in 0..(n + 1)
    <3>1. CASE i = n + 1
      <4>1. i # 0 /\ i - 1 = n /\ n \in 0..(n + 1) /\ n # n + 1
        BY <3>1
      <4>2. f[i - 1] = g[n] /\ f[i] = ClearPull(g[n])
        BY <3>1, <4>1
      <4> QED  BY <4>1, <4>2
    <3>2. CASE i # n + 1
      <4>1. i \in 0..n /\ (i # 0 => i - 1 \in 0..n /\ i - 1 \in 0..(n + 1) /\ i - 1 # n + 1)
        BY <3>2
      <4>2. f[i] = g[i] /\ (i # 0 => f[i - 1] = g[i - 1])
        BY <3>2, <4>1
      <4>3. g[i] = IF i = 0 THEN Begin ELSE ClearPull(g[i - 1])
        BY <2>1, <4>1 DEF Turning
      <4> QED  BY <4>2, <4>3
    <3> QED  BY <3>1, <3>2
  <2> HIDE DEF f
  <2>3. f = [i \in 0..(n + 1) |-> IF i = 0 THEN Begin ELSE ClearPull(f[i - 1])]
    <3>1. f = [i \in 0..(n + 1) |-> f[i]]
      BY DEF f
    <3> QED  BY <2>2, <3>1
  <2> QED  BY <2>3 DEF Turning
<1> HIDE DEF T
<1>3. Nat \subseteq T
  BY <1>1, <1>2, Upwards
<1> QED  BY <1>3 DEF T

\* A batch extends the front, and is empty only when nothing can be read.
LEMMA ReadIs ==
    ASSUME P!Fits, Reading(Begin), NEW n \in Nat, n # 0
    PROVE  /\ Reading(ClearRead(n))
           /\ ClearRead(n).batch = {} => ~CanPull(Begin)
<1> DEFINE f == CHOOSE f : Turning(f, n)
<1>1. Turning(f, n)
  BY TurningExists
<1> HIDE DEF f
<1>2. \A i \in 0..n : f[i] = IF i = 0 THEN Begin ELSE ClearPull(f[i - 1])
  BY <1>1 DEF Turning
<1> DEFINE Right(i) == /\ Reading(f[i])
                       /\ f[i].batch = {} => f[i] = Begin /\ (i > 0 => ~CanPull(Begin))
           S == {i \in Nat : i <= n => Right(i)}
<1>3. 0 \in S
  <2>1. f[0] = Begin
    BY <1>2
  <2> QED  BY <2>1
<1>4. ASSUME NEW i \in Nat, i \in S PROVE i + 1 \in S
  <2> SUFFICES ASSUME i + 1 <= n PROVE Right(i + 1)
    OBVIOUS
  <2>1. Right(i)
    BY <1>4
  <2>2. i + 1 \in 0..n /\ i + 1 # 0 /\ (i + 1) - 1 = i
    OBVIOUS
  <2>3. f[i + 1] = ClearPull(f[i])
    BY <1>2, <2>2
  <2>4. Reading(f[i + 1])
    BY <2>1, <2>3, PullReads
  <2>5. CASE CanPull(f[i])
    <3>1. f[i].pos \in f[i + 1].batch
      BY <2>3, <2>5, PullIs
    <3> QED  BY <2>4, <3>1
  <2>6. CASE ~CanPull(f[i])
    <3>1. f[i + 1] = f[i]
      BY <2>3, <2>6, PullIs
    <3>2. f[i + 1].batch = {} => f[i + 1] = Begin /\ ~CanPull(Begin)
      BY <2>1, <2>6, <3>1
    <3> QED  BY <2>4, <3>2
  <2> QED  BY <2>5, <2>6
<1>5. n \in S
  <2> HIDE DEF S
  <2> QED  BY <1>3, <1>4, Upwards
<1>6. Right(n)
  BY <1>5
<1> QED  BY <1>6, ClearReadIs DEF f

\* Every turn begins with the rest of the range ahead of it.
LEMMA BeginReads ==
    ASSUME ClearInv, clear \in {"queued", "running"}
    PROVE  Reading(Begin)
<1>1. P!Fits /\ P!OneBoundEach(within) /\ Front(deleted)
  BY DEF ClearInv
<1>2. deleted \cup Begin.batch = deleted
  BY DEF Begin
<1>3. IsFiniteSet(deleted) /\ Cardinality(deleted) \in Nat
  BY <1>1, InOrderIsFinite DEF Front
<1>4. Begin.pos \in seen \cup {None} /\ P!AheadOf(Begin.pos, FALSE) = InOrder \ deleted
  <2>1. CASE clear = "queued"
    BY <1>1, <2>1, StartIsAhead, SameStart DEF Begin, ClearInv, InOrder
  <2>2. CASE clear = "running"
    BY <2>2 DEF Begin, ClearInv
  <2> QED  BY <2>1, <2>2
<1>5. Begin.count = Cardinality(deleted)
  BY FS_EmptySet DEF Begin, ClearInv
<1>6. Begin \in [pos: seen \cup {None}, count: Nat, batch: SUBSET seen]
  <2>1. counted \in Nat
    BY <1>3, <1>5 DEF Begin
  <2> QED  BY <1>4, <2>1 DEF Begin
<1> QED  BY <1>1, <1>2, <1>4, <1>5, <1>6 DEF Reading
-----------------------------------------------------------------------------
\* What clear() should delete, in the words of this module.
LEMMA ToClearIs ==
    ToClear = {k \in InOrder : P!Limited => Cardinality({l \in InOrder : P!Precedes(l, k)}) < within.limit}
BY Same DEF ToClear, InOrder

\* The front is part of it, and comes first.
LEMMA FrontIsToClear ==
    ASSUME P!Fits, NEW D, Front(D)
    PROVE  D \subseteq ToClear /\ \A k \in D, l \in ToClear \ D : P!Precedes(k, l)
<1>1. InOrder \subseteq Int
  BY FitsAre DEF InOrder
<1>2. ASSUME NEW k \in D, P!Limited
      PROVE  Cardinality({l \in InOrder : P!Precedes(l, k)}) < within.limit
  <2> DEFINE B == {l \in InOrder : P!Precedes(l, k)}
  <2>1. k \in InOrder /\ k \in Int
    BY <1>1 DEF Front
  <2>2. B \subseteq D \ {k}
    <3> SUFFICES ASSUME NEW l \in B PROVE l \in D /\ l # k
      OBVIOUS
    <3>1. l # k
      BY <2>1, Order
    <3>2. ASSUME l \notin D PROVE FALSE
      <4>1. P!Precedes(k, l) /\ P!Precedes(l, k) /\ l \in Int
        BY <1>1, <3>2 DEF Front
      <4> QED  BY <2>1, <4>1 DEF P!Precedes
    <3> QED  BY <3>1, <3>2
  <2>3. IsFiniteSet(D) /\ Cardinality(D) \in Nat /\ Cardinality(D) <= within.limit
    BY <1>2, InOrderIsFinite DEF Front
  <2>4. IsFiniteSet(D \ {k}) /\ Cardinality(D \ {k}) = Cardinality(D) - 1
    BY <2>3, FS_RemoveElement
  <2> HIDE DEF B
  <2>5. Cardinality(B) \in Nat /\ Cardinality(B) <= Cardinality(D \ {k})
    BY <2>2, <2>4, FS_Subset, FS_CardinalityType
  <2>6. Cardinality(B) < within.limit
    BY <2>3, <2>4, <2>5, FitsAre
  <2> QED  BY <2>6 DEF B
<1> QED  BY <1>2, ToClearIs DEF Front

\* Once nothing is left of the range, or the limit is met, the front is all of it.
LEMMA FrontIsAll ==
    ASSUME P!Fits, NEW D, Front(D),
           D = InOrder \/ (P!Limited /\ ~(Cardinality(D) < within.limit))
    PROVE  D = ToClear
<1>1. D \subseteq ToClear
  BY FrontIsToClear
<1>2. CASE D = InOrder
  BY <1>1, <1>2, ToClearIs
<1>3. CASE P!Limited /\ ~(Cardinality(D) < within.limit)
  <2> SUFFICES ASSUME NEW k \in ToClear, k \notin D PROVE FALSE
    BY <1>1
  <2> DEFINE B == {l \in InOrder : P!Precedes(l, k)}
  <2>1. k \in InOrder /\ Cardinality(B) < within.limit
    BY <1>3, ToClearIs
  <2>2. D \subseteq B
    BY <2>1 DEF Front
  <2>3. IsFiniteSet(B) /\ Cardinality(B) \in Nat /\ Cardinality(D) \in Nat
    BY InOrderIsFinite DEF Front
  <2> HIDE DEF B
  <2>4. Cardinality(D) <= Cardinality(B)
    BY <2>2, <2>3, FS_Subset
  <2> QED  BY <1>3, <2>1, <2>3, <2>4, FitsAre
<1> QED  BY <1>2, <1>3
-----------------------------------------------------------------------------
\* While the ClearWorker is at work its range stays.
LEMMA RangeIsKept ==
    ASSUME UNCHANGED <<within, seen>>
    PROVE  /\ P!Fits' <=> P!Fits
           /\ P!OneBoundEach(within)' <=> P!OneBoundEach(within)
           /\ InOrder' = InOrder
           /\ P!Limited' <=> P!Limited
BY DEF P!Fits, P!Keys, P!OneBoundEach, InOrder, P!InRange, P!OutOfRange, P!Limited

\* so that the front,
LEMMA FrontIsKept ==
    ASSUME UNCHANGED <<within, seen>>
    PROVE  Front(deleted)' <=> Front(deleted')
BY RangeIsKept DEF Front, P!Precedes

\* what is ahead of a position
LEMMA AheadIsKept ==
    ASSUME UNCHANGED <<within, seen>>
    PROVE  P!AheadOf(at, FALSE)' = P!AheadOf(at', FALSE)
BY DEF P!AheadOf, P!Valid, P!OutOfRange, P!InRange, P!Precedes, P!Keys

\* and what is to be deleted change only with the rest.
LEMMA ToClearIsKept ==
    ASSUME UNCHANGED <<within, seen>>
    PROVE  ToClear' = ToClear
BY DEF ToClear, It!InRange, It!OutOfRange, It!Limited, It!Precedes, It!Keys

\* One turn, with what it read for a value.
LEMMA TurnIs ==
    ASSUME ClearTurn
    PROVE  /\ clear \in {"queued", "running"} /\ UNCHANGED <<ops, within, seen>>
           /\ \E n \in 1..MaxBatch : \E r : 
                /\ r = ClearRead(n) /\ at' = r.pos /\ counted' = r.count
                /\ \/ r.batch = {} /\ clear' = "ok" /\ deleted' = deleted
                   \/ r.batch # {} /\ clear' = "running" /\ deleted' = deleted \cup r.batch
                   \/ clear' = "error" /\ deleted' = deleted
BY DEF ClearTurn

\* It keeps the invariant: the batch extends the front, and clear() ends when it is all.
LEMMA TurnIsKept == ASSUME ClearInv, ClearTurn PROVE ClearInv'
<1>1. clear \in {"queued", "running"} /\ UNCHANGED <<within, seen>>
  BY TurnIs
<1>2. PICK n \in 1..MaxBatch : \E r :
        /\ r = ClearRead(n) /\ at' = r.pos /\ counted' = r.count
        /\ \/ r.batch = {} /\ clear' = "ok" /\ deleted' = deleted
           \/ r.batch # {} /\ clear' = "running" /\ deleted' = deleted \cup r.batch
           \/ clear' = "error" /\ deleted' = deleted
  BY TurnIs
<1>3. PICK r :
        /\ r = ClearRead(n) /\ at' = r.pos /\ counted' = r.count
        /\ \/ r.batch = {} /\ clear' = "ok" /\ deleted' = deleted
           \/ r.batch # {} /\ clear' = "running" /\ deleted' = deleted \cup r.batch
           \/ clear' = "error" /\ deleted' = deleted
  BY <1>2
<1>4. P!Fits /\ P!OneBoundEach(within) /\ Front(deleted)
  BY <1>1 DEF ClearInv
<1>5. Reading(r) /\ (r.batch = {} => ~CanPull(Begin))
  <2>1. n \in Nat /\ n # 0
    BY Assumed
  <2> QED  BY <1>1, <1>3, <1>4, <2>1, BeginReads, ReadIs
<1>6. /\ P!Fits' /\ P!OneBoundEach(within)' /\ ToClear' = ToClear /\ InOrder' = InOrder
      /\ Front(deleted)' <=> Front(deleted')
      /\ P!AheadOf(at, FALSE)' = P!AheadOf(at', FALSE)
  BY <1>1, <1>4, RangeIsKept, FrontIsKept, AheadIsKept, ToClearIsKept
<1>7. CASE r.batch = {} /\ clear' = "ok" /\ deleted' = deleted
  <2>1. Reading(Begin) /\ ~CanPull(Begin)
    BY <1>1, <1>5, <1>7, BeginReads
  <2>2. deleted \cup Begin.batch = deleted
    BY DEF Begin
  <2>3. deleted = InOrder \/ (P!Limited /\ ~(Cardinality(deleted) < within.limit))
    <3>1. CASE P!Valid(Begin.pos)
      <4>1. Begin.count = Cardinality(deleted)
        BY <2>1, <2>2 DEF Reading
      <4> QED  BY <2>1, <3>1, <4>1 DEF CanPull
    <3>2. CASE ~P!Valid(Begin.pos)
      <4>1. InOrder \ deleted = {}
        BY <2>1, <2>2, <3>2 DEF Reading, P!AheadOf
      <4> QED  BY <1>4, <4>1 DEF Front
    <3> QED  BY <3>1, <3>2
  <2>4. deleted = ToClear
    BY <1>4, <2>3, FrontIsAll
  <2>5. Front(deleted')
    BY <1>4, <1>7
  <2> QED  BY <1>6, <1>7, <2>4, <2>5 DEF ClearInv
<1>8. CASE r.batch # {} /\ clear' = "running" /\ deleted' = deleted \cup r.batch
  <2>1. /\ Front(deleted') /\ counted' = Cardinality(deleted')
        /\ at' \in seen \cup {None} /\ P!AheadOf(at', FALSE) = InOrder \ deleted'
    BY <1>3, <1>5, <1>8 DEF Reading
  <2>2. counted' = Cardinality(deleted)'
    BY <2>1
  <2> QED  BY <1>1, <1>6, <1>8, <2>1, <2>2 DEF ClearInv
<1>9. CASE clear' = "error" /\ deleted' = deleted
  <2>1. Front(deleted')
    BY <1>4, <1>9
  <2> QED  BY <1>6, <1>9, <2>1 DEF ClearInv
<1> QED  BY <1>3, <1>7, <1>8, <1>9

\* The call establishes it for a range with at most one bound at each end.
LEMMA CallIsKept ==
    ASSUME \A o \in ClearOptions : OneBoundEach(o), NEW o \in ClearOptions, CallClear(o)
    PROVE  ClearInv'
<1>1. within' = o /\ seen' = Stored(contents) /\ deleted' = {} /\ clear' = "queued" /\ counted' = 0
  BY DEF CallClear
<1>2. P!Fits' /\ P!OneBoundEach(within)'
  BY <1>1 DEF P!Fits, P!Keys, Keys, Stored, P!OneBoundEach, OneBoundEach
<1>3. within.limit' >= 0 => Cardinality({}) <= within.limit'
  BY FS_EmptySet
<1>4. Front(deleted)'
  BY <1>1, FS_EmptySet DEF Front, P!Limited
<1> QED  BY <1>1, <1>2, <1>4 DEF ClearInv

\* Writes do not matter: the snapshot is clear()'s own.
LEMMA RestIsKept ==
    ASSUME ClearInv, UNCHANGED clearVars
    PROVE  ClearInv'
<1>1. /\ UNCHANGED <<within, seen, deleted, clear, at, counted>>
  BY DEF clearVars
<1>2. /\ P!Fits' <=> P!Fits
      /\ P!OneBoundEach(within)' <=> P!OneBoundEach(within)
      /\ InOrder' = InOrder /\ ToClear' = ToClear
      /\ Front(deleted)' <=> Front(deleted')
      /\ P!AheadOf(at, FALSE)' = P!AheadOf(at', FALSE)
  BY <1>1, RangeIsKept, FrontIsKept, AheadIsKept, ToClearIsKept
<1>3. Front(deleted') <=> Front(deleted)
  BY <1>1
<1>4. P!AheadOf(at', FALSE) = P!AheadOf(at, FALSE)
  BY <1>1
<1>5. Cardinality(deleted)' = Cardinality(deleted)
  BY <1>1
<1> QED  BY <1>1, <1>2, <1>3, <1>4, <1>5 DEF ClearInv
-----------------------------------------------------------------------------
\* An operation that reads many keys has read them from the view of its call.
IsOp(r) ==
    /\ "kind" \in DOMAIN r
    /\ r.kind = "getMany" =>
         /\ "got" \in DOMAIN r /\ "view" \in DOMAIN r
         /\ \A k \in DOMAIN r.got : r.got[k] = r.view[k]

\* So has every one.
OpsInv == ops = [o \in DataOp |-> ops[o]] /\ \A o \in DataOp : IsOp(ops[o])

\* A step of one operation leaves the others.
LEMMA OneIsSet ==
    ASSUME OpsInv, NEW o \in DataOp, NEW r, IsOp(r), ops' = [ops EXCEPT ![o] = r]
    PROVE  OpsInv'
<1>1. ops' = [p \in DataOp |-> IF p = o THEN r ELSE ops[p]]
  BY DEF OpsInv
<1>2. ops' = [p \in DataOp |-> ops'[p]]
  BY <1>1
<1>3. \A p \in DataOp : IsOp(ops'[p])
  BY <1>1 DEF OpsInv
<1> QED  BY <1>2, <1>3 DEF OpsInv, IsOp

\* One key is read, whatever has been written since the call,
LEMMA ReadIsKept ==
    ASSUME OpsInv, NEW o \in DataOp, NEW k, ReadKey(o, k)
    PROVE  OpsInv'
<1> DEFINE v == View(o)[k]
           q == ops[o]
           got == [l \in DOMAIN q.got \cup {k} |-> IF l = k THEN v ELSE q.got[l]]
           s == IF DOMAIN got = q.keys THEN "executed" ELSE q.stage
           r == [q EXCEPT !.got = got, !.stage = s]
<1>1. ops' = [ops EXCEPT ![o] = r]
  BY DEF ReadKey, OpsInv
<1>2. IsOp(q)
  BY DEF OpsInv
<1>3. "kind" \in DOMAIN r /\ r.kind = q.kind
  <2> HIDE DEF q, got, s
  <2> QED  BY <1>2 DEF IsOp
<1>4. ASSUME q.kind = "getMany"
      PROVE  /\ "got" \in DOMAIN r /\ "view" \in DOMAIN r
             /\ \A l \in DOMAIN r.got : r.got[l] = r.view[l]
  <2>1. v = q.view[k]
    BY <1>4 DEF View
  <2> HIDE DEF v, q
  <2>2. \A l \in DOMAIN got : got[l] = q.view[l]
    BY <1>2, <1>4, <2>1 DEF IsOp
  <2> HIDE DEF got, s
  <2>3. "got" \in DOMAIN r /\ "view" \in DOMAIN r /\ r.got = got /\ r.view = q.view
    BY <1>2, <1>4 DEF IsOp
  <2> HIDE DEF r
  <2> QED  BY <2>2, <2>3
<1> HIDE DEF r, q
<1>5. IsOp(r)
  BY <1>3, <1>4 DEF IsOp
<1> QED  BY <1>1, <1>5, OneIsSet

\* a write executes,
LEMMA ExecuteIsKept == ASSUME OpsInv, NEW o \in DataOp, ExecuteWrite(o) PROVE OpsInv'
<1> DEFINE q == ops[o]
           r == [q EXCEPT !.stage = "executed"]
<1>1. ops' = [ops EXCEPT ![o] = r] /\ q.kind = "write" /\ IsOp(q)
  BY DEF ExecuteWrite, OpsInv
<1> HIDE DEF q
<1>2. "kind" \in DOMAIN r /\ r.kind = "write"
  BY <1>1 DEF IsOp
<1> HIDE DEF r
<1>3. IsOp(r)
  BY <1>2 DEF IsOp
<1> QED  BY <1>1, <1>3, OneIsSet

\* operations are called and answered.
LEMMA CallsAreKept ==
    ASSUME OpsInv, NEW o \in DataOp,
           (\E w : QueueWrite(o, w)) \/ (\E K : CallGetMany(o, K)) \/ (\E k : CallGet(o, k)) \/ Answered(o)
    PROVE  OpsInv'
<1>1. CASE \E w : QueueWrite(o, w)
  <2>1. PICK w : ops' = [ops EXCEPT ![o] = [kind |-> "write", writes |-> w, stage |-> "queued"]]
    BY <1>1 DEF QueueWrite
  <2>2. IsOp([kind |-> "write", writes |-> w, stage |-> "queued"])
    BY DEF IsOp
  <2> QED  BY <2>1, <2>2, OneIsSet
<1>2. CASE \E K : CallGetMany(o, K)
  <2>1. PICK K : ops' = [ops EXCEPT ![o] = [kind |-> "getMany", keys |-> K, view |-> contents,
                                            got |-> <<>>, stage |-> "queued"]]
    BY <1>2 DEF CallGetMany
  <2>2. IsOp([kind |-> "getMany", keys |-> K, view |-> contents, got |-> <<>>, stage |-> "queued"])
    <3>1. \A k \in DOMAIN <<>> : <<>>[k] = contents[k]
      OBVIOUS
    <3> QED  BY <3>1 DEF IsOp
  <2> QED  BY <2>1, <2>2, OneIsSet
<1>3. CASE \E k : CallGet(o, k)
  <2>1. PICK k : ops' = [ops EXCEPT ![o] = [kind |-> "get", keys |-> {k}, got |-> <<>>, stage |-> "queued"]]
    BY <1>3 DEF CallGet
  <2>2. IsOp([kind |-> "get", keys |-> {k}, got |-> <<>>, stage |-> "queued"])
    BY DEF IsOp
  <2> QED  BY <2>1, <2>2, OneIsSet
<1>4. CASE Answered(o)
  <2>1. ops' = [ops EXCEPT ![o] = Free]
    BY <1>4 DEF Answered
  <2>2. IsOp(Free)
    BY DEF IsOp, Free
  <2> QED  BY <2>1, <2>2, OneIsSet
<1> QED  BY <1>1, <1>2, <1>3, <1>4
-----------------------------------------------------------------------------
\* The inductive invariant.
DataInv == ClearInv /\ OpsInv

\* It holds of an open database,
LEMMA DataInvInit == ASSUME DataInit PROVE DataInv
<1>1. ClearInv
  BY DEF DataInit, ClearInv
<1>2. OpsInv
  BY DEF DataInit, OpsInv, IsOp, Free
<1> QED  BY <1>1, <1>2 DEF DataInv

\* every step keeps it,
LEMMA DataInvNext ==
    ASSUME \A o \in ClearOptions : OneBoundEach(o), DataInv, [DataNext]_dataVars
    PROVE  DataInv'
<1>0. ClearInv /\ OpsInv
  BY DEF DataInv
<1>1. ASSUME UNCHANGED ops PROVE OpsInv'
  BY <1>0, <1>1 DEF OpsInv, IsOp
<1>2. CASE \E o \in ClearOptions : CallClear(o)
  <2>1. UNCHANGED ops
    BY <1>2 DEF CallClear
  <2>2. ClearInv'
    BY <1>2, CallIsKept
  <2> QED  BY <1>1, <2>1, <2>2 DEF DataInv
<1>3. CASE ClearTurn
  <2>1. UNCHANGED ops
    BY <1>3, TurnIs
  <2>2. ClearInv'
    BY <1>0, <1>3, TurnIsKept
  <2> QED  BY <1>1, <2>1, <2>2 DEF DataInv
<1>4. ASSUME NEW o \in DataOp,
             \/ \E w : QueueWrite(o, w) \/ \E K : CallGetMany(o, K) \/ \E k : CallGet(o, k)
             \/ Answered(o) \/ ExecuteWrite(o) \/ \E k : ReadKey(o, k)
      PROVE  DataInv'
  <2>1. UNCHANGED clearVars
    BY <1>4 DEF QueueWrite, CallGetMany, CallGet, Answered, ExecuteWrite, ReadKey
  <2>2. ClearInv'
    BY <1>0, <2>1, RestIsKept
  <2>3. OpsInv'
    BY <1>0, <1>4, CallsAreKept, ExecuteIsKept, ReadIsKept
  <2> QED  BY <2>2, <2>3 DEF DataInv
<1>5. CASE UNCHANGED dataVars
  <2>1. UNCHANGED ops /\ UNCHANGED clearVars
    BY <1>5 DEF dataVars
  <2>2. ClearInv'
    BY <1>0, <2>1, RestIsKept
  <2> QED  BY <1>1, <2>1, <2>2 DEF DataInv
<1> QED  BY <1>2, <1>3, <1>4, <1>5 DEF DataNext, DbPut, DbDel, BatchDo, BatchWrite

\* and with it what was promised at the call.
LEMMA MomentFollows == DataInv => MomentIsKept
<1> SUFFICES ASSUME ClearInv, OpsInv PROVE MomentIsKept
  BY DEF DataInv
<1>1. ASSUME NEW o \in DataOp, ops[o].kind = "getMany", NEW k \in DOMAIN ops[o].got
      PROVE  ops[o].got[k] = ops[o].view[k]
  BY <1>1 DEF OpsInv, IsOp
<1>2. ASSUME clear # "no"
      PROVE  /\ deleted \subseteq ToClear
             /\ \A k \in deleted, l \in ToClear \ deleted : P!Precedes(k, l)
             /\ clear = "ok" => deleted = ToClear
  BY <1>2, FrontIsToClear DEF ClearInv
<1>3. ClearDeletesItsRange
  BY <1>2, Same DEF ClearDeletesItsRange
<1> QED  BY <1>1, <1>3 DEF MomentIsKept, GetManyIsOneMoment

\* getMany() answers from the moment of its call, and clear() deletes its range in
\* order, nothing else, and all of it when it succeeds, if users clear ranges with at
\* most one bound at each end.
THEOREM MomentsAreKept == (\A o \in ClearOptions : OneBoundEach(o)) => (DataSpec => []MomentIsKept)
<1> SUFFICES ASSUME \A o \in ClearOptions : OneBoundEach(o) PROVE DataSpec => []MomentIsKept
  OBVIOUS
<1>1. DataInit => DataInv
  BY DataInvInit
<1>2. DataInv /\ [DataNext]_dataVars => DataInv'
  BY DataInvNext
<1> QED  BY <1>1, <1>2, MomentFollows, PTL DEF DataSpec
=============================================================================
