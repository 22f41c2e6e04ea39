--------------------------- MODULE Threads_proofs ---------------------------
(***************************************************************************)
(* Proofs about the threads and the transactions they share: Worker, for   *)
(* any set of callers that take turns, whether the work ends by itself or  *)
(* not; Farm, for any number of callers, miners and headers; ChainClient,  *)
(* for any tree of blocks, what the blocks hold, and any rivals;           *)
(* TransactionQueue, for any transactions and limits.                      *)
(*                                                                         *)
(* In the farm setWork(), stop() and submitProof() go over the miners one  *)
(* by one, and wait for each one's thread, while others call and the       *)
(* miners hash on. The invariant says what holds of the miners that such a *)
(* loop has passed; when it is past the last one that is what the farm     *)
(* promises.                                                               *)
(*                                                                         *)
(* The loops of the transaction queue over sequences and sets are folds,   *)
(* for which instances of FoldFacts say what holds from turn to turn.      *)
(***************************************************************************)
EXTENDS Worker, Farm, ChainClient, TransactionQueue, Integers, BlockTree_proofs
-----------------------------------------------------------------------------
(***************************************************************************)
(* The worker thread.                                                      *)
(***************************************************************************)
\* One call at a time.
OneCall == \A c, d \in Caller : pc[c] # "idle" /\ pc[d] # "idle" => c = d

\* A request in m_state has a caller who waits for it.
Starting(c) == pc[c] \in {"startWaits", "startWoken"}
Stopping(c) == pc[c] \in {"stopWaits", "stopWoken"}
Killing(c) == pc[c] \in {"terminateNotifies", "joins", "resets"}
RequestsAreHeld ==
    thread # "none" =>
        /\ state = "Starting" => \E c \in Caller : Starting(c)
        /\ state = "Stopping" => \E c \in Caller : Stopping(c)
        /\ state = "Killing" => \E c \in Caller : Killing(c)

\* What m_state can be, by where the worker thread is.
StateOfThread ==
    /\ thread = "head" => state \in {"Starting", "Killing"}
    /\ thread = "starts" => state = "Starting"
    /\ thread \in {"started", "works", "stops"} => state \in {"Started", "Stopping", "Killing"}
    /\ thread \in {"stopped", "rests", "sleeps"} => state \in {"Stopped", "Starting", "Killing"}
    /\ thread = "exited" => state = "Killing"

TurnInv == WorkerTypeOK /\ OneCall /\ RequestsAreHeld /\ StateOfThread

LEMMA WokenFacts ==
    \A p \in CallerAt :
        /\ Woken(p) \in CallerAt
        /\ (Woken(p) = "idle") <=> (p = "idle")
        /\ p \in {"startWaits", "startWoken"} <=> Woken(p) \in {"startWaits", "startWoken"}
        /\ p \in {"stopWaits", "stopWoken"} <=> Woken(p) \in {"stopWaits", "stopWoken"}
        /\ p \in {"terminateNotifies", "joins", "resets"} => Woken(p) = p
        /\ Woken(p) \in {"terminateNotifies", "joins", "resets"} => Woken(p) = p
BY DEF Woken, CallerAt

LEMMA ThreadWoken ==
    ASSUME thread \in ThreadAt
    PROVE  IF thread = "sleeps" THEN Woken(thread) = "rests" ELSE Woken(thread) = thread
BY DEF Woken, ThreadAt

\* Waking the callers leaves each in the call it is in.
LEMMA NotifiedFacts ==
    ASSUME pc \in [Caller -> CallerAt]
    PROVE  /\ Notified(pc) \in [Caller -> CallerAt]
           /\ \A c \in Caller :
                /\ (Notified(pc)[c] = "idle") <=> (pc[c] = "idle")
                /\ pc[c] \in {"startWaits", "startWoken"} <=> Notified(pc)[c] \in {"startWaits", "startWoken"}
                /\ pc[c] \in {"stopWaits", "stopWoken"} <=> Notified(pc)[c] \in {"stopWaits", "stopWoken"}
                /\ pc[c] \in {"terminateNotifies", "joins", "resets"} => Notified(pc)[c] = pc[c]
                /\ Notified(pc)[c] \in {"terminateNotifies", "joins", "resets"} => Notified(pc)[c] = pc[c]
<1>1. \A c \in Caller : Notified(pc)[c] = Woken(pc[c]) BY DEF Notified
<1>2. \A c \in Caller : pc[c] \in CallerAt OBVIOUS
<1>3. Notified(pc) \in [Caller -> CallerAt]
  <2>1. \A c \in Caller : Woken(pc[c]) \in CallerAt BY <1>2, WokenFacts
  <2> QED BY <2>1 DEF Notified
<1> QED BY <1>1, <1>2, <1>3, WokenFacts
-----------------------------------------------------------------------------
LEMMA InitTurn == WorkerInit => TurnInv
BY DEF WorkerInit, TurnInv, WorkerTypeOK, OneCall, RequestsAreHeld, StateOfThread, WorkerState, ThreadAt, CallerAt

USE DEF WorkerState, ThreadAt, CallerAt, Starting, Stopping, Killing

\* The worker thread's own steps.
LEMMA RunsTurn ==
    ASSUME TurnInv, Runs \/ WorkEnds
    PROVE  TurnInv'
<1> USE DEF TurnInv, WorkerTypeOK, OneCall, RequestsAreHeld, StateOfThread
<1>1. CASE LoopHead BY <1>1 DEF LoopHead
<1>2. CASE Starts BY <1>2 DEF Starts
<1>3. CASE NotifiesStarted BY <1>3, NotifiedFacts DEF NotifiesStarted
<1>4. CASE WorkEnds BY <1>4 DEF WorkEnds
<1>5. CASE Stops BY <1>5 DEF Stops
<1>6. CASE NotifiesStopped BY <1>6, NotifiedFacts DEF NotifiesStopped
<1>7. CASE Rests BY <1>7 DEF Rests
<1> QED BY <1>1, <1>2, <1>3, <1>4, <1>5, <1>6, <1>7 DEF Runs

\* A caller's steps.
LEMMA StepsTurn ==
    ASSUME TurnInv, NEW c \in Caller, Steps(c)
    PROVE  TurnInv'
<1> USE DEF TurnInv, WorkerTypeOK, OneCall, RequestsAreHeld, StateOfThread
<1>0. \A d \in Caller : d # c /\ pc[c] # "idle" => pc[d] = "idle" OBVIOUS
<1>1. CASE StartFirst(c) BY <1>0, <1>1, NotifiedFacts DEF StartFirst
<1>2. CASE StartAgain(c) BY <1>0, <1>2, NotifiedFacts, ThreadWoken DEF StartAgain
<1>3. CASE StartLooks(c) BY <1>0, <1>3 DEF StartLooks
<1>4. CASE Stop(c) BY <1>0, <1>4, NotifiedFacts, ThreadWoken DEF Stop
<1>5. CASE StopNothing(c) BY <1>0, <1>5 DEF StopNothing
<1>6. CASE StopLooks(c) BY <1>0, <1>6 DEF StopLooks
<1>7. CASE Terminate(c) BY <1>0, <1>7 DEF Terminate
<1>8. CASE TerminateNothing(c) BY <1>0, <1>8 DEF TerminateNothing
<1>9. CASE TerminateNotifies(c) BY <1>0, <1>9, NotifiedFacts, ThreadWoken DEF TerminateNotifies
<1>10. CASE Joins(c) BY <1>0, <1>10 DEF Joins
<1>11. CASE Resets(c) BY <1>0, <1>11 DEF Resets
<1> QED BY <1>1, <1>2, <1>3, <1>4, <1>5, <1>6, <1>7, <1>8, <1>9, <1>10, <1>11 DEF Steps

LEMMA CallTurn ==
    ASSUME TurnInv, Serial, NEW c \in Caller, NEW op \in {"start", "stop", "terminate"}, Call(c, op)
    PROVE  TurnInv'
BY DEF TurnInv, WorkerTypeOK, OneCall, RequestsAreHeld, StateOfThread, Call

LEMMA NextTurn ==
    ASSUME Serial, TurnInv, [WorkerNext]_workerVars
    PROVE  TurnInv'
<1>1. CASE Runs \/ WorkEnds BY <1>1, RunsTurn
<1>2. ASSUME NEW c \in Caller, Steps(c) PROVE TurnInv' BY <1>2, StepsTurn
<1>3. ASSUME NEW c \in Caller, NEW op \in {"start", "stop", "terminate"}, Call(c, op) PROVE TurnInv'
  BY <1>3, CallTurn
<1>4. CASE UNCHANGED workerVars
  BY <1>4 DEF workerVars, TurnInv, WorkerTypeOK, OneCall, RequestsAreHeld, StateOfThread
<1> QED BY <1>1, <1>2, <1>3, <1>4 DEF WorkerNext
-----------------------------------------------------------------------------
\* Callers that take turns keep the invariant: a request in m_state always has
\* its caller (startWorking, stopWorking, terminate).
THEOREM TurnsHold == ASSUME Serial PROVE WorkerSpec => []TurnInv
<1>1. WorkerInit => TurnInv BY InitTurn
<1>2. TurnInv /\ [WorkerNext]_workerVars => TurnInv' BY NextTurn
<1> QED BY <1>1, <1>2, PTL DEF WorkerSpec

\* Types, and m_work is reset only after its thread has exited (terminate).
THEOREM WorkerTypes == ASSUME Serial PROVE WorkerSpec => []WorkerTypeOK
<1>1. TurnInv => WorkerTypeOK BY DEF TurnInv
<1> QED BY <1>1, TurnsHold, PTL

\* The steps that look at m_state without the mutex cannot overwrite Killing.
LEMMA KillStep ==
    ASSUME TurnInv, [WorkerNext]_workerVars
    PROVE  thread # "none" /\ state = "Killing" => state' = "Killing"
<1> SUFFICES ASSUME thread # "none", state = "Killing" PROVE state' = "Killing" OBVIOUS
<1> USE DEF TurnInv, StateOfThread
<1>1. CASE Runs \/ WorkEnds
  BY <1>1 DEF Runs, LoopHead, Starts, NotifiesStarted, Stops, NotifiesStopped, Rests, WorkEnds
<1>2. ASSUME NEW c \in Caller, Steps(c) PROVE state' = "Killing"
  BY <1>2 DEF Steps, StartFirst, StartAgain, StartLooks, Stop, StopNothing, StopLooks, Terminate,
              TerminateNothing, TerminateNotifies, Joins, Resets
<1>3. ASSUME NEW c \in Caller, NEW op \in {"start", "stop", "terminate"}, Call(c, op) PROVE state' = "Killing"
  BY <1>3 DEF Call
<1>4. CASE UNCHANGED workerVars BY <1>4 DEF workerVars
<1> QED BY <1>1, <1>2, <1>3, <1>4 DEF WorkerNext

\* A thread that is asked to go is never told that it has started (terminate).
THEOREM KillFinal == ASSUME Serial PROVE WorkerSpec => KillIsFinal
<1>1. TurnInv /\ [WorkerNext]_workerVars => [thread # "none" /\ state = "Killing" => state' = "Killing"]_workerVars
  BY KillStep
<1> QED BY <1>1, TurnsHold, PTL DEF WorkerSpec, KillIsFinal

\* Who returns from stopWorking() finds the work at rest: a request of another
\* caller that could have hidden it is excluded by turns.
LEMMA StopStep ==
    ASSUME TurnInv, [WorkerNext]_workerVars, NEW c \in Caller,
           pc[c] \in {"stop", "stopWoken"}, pc'[c] = "idle"
    PROVE  thread' \notin {"works", "started", "starts"}
<1> USE DEF TurnInv, WorkerTypeOK, OneCall, RequestsAreHeld, StateOfThread
<1>0. pc[c] # "idle" /\ pc' # pc OBVIOUS
<1>1. CASE Runs \/ WorkEnds
  <2>1. Notified(pc)[c] # "idle" BY <1>0, NotifiedFacts
  <2> QED BY <1>0, <1>1, <2>1
        DEF Runs, LoopHead, Starts, NotifiesStarted, Stops, NotifiesStopped, Rests, WorkEnds
<1>2. ASSUME NEW d \in Caller, Steps(d) PROVE thread' \notin {"works", "started", "starts"}
  <2>1. d = c
    <3>1. pc[d] # "idle"
      BY <1>2 DEF Steps, StartFirst, StartAgain, StartLooks, Stop, StopNothing, StopLooks, Terminate,
                  TerminateNothing, TerminateNotifies, Joins, Resets
    <3> QED BY <1>0, <3>1
  <2>2. StopNothing(c) \/ StopLooks(c) \/ Stop(c)
    BY <1>2, <2>1 DEF Steps, StartFirst, StartAgain, StartLooks, Terminate, TerminateNothing,
                      TerminateNotifies, Joins, Resets
  <2>3. CASE StopNothing(c) BY <1>0, <2>3 DEF StopNothing
  <2>4. CASE StopLooks(c) BY <2>4 DEF StopLooks
  <2>5. CASE Stop(c)
    <3>1. Notified(pc) \in [Caller -> CallerAt] BY NotifiedFacts
    <3>2. pc'[c] = "stopWaits" BY <2>5, <3>1 DEF Stop
    <3> QED BY <3>2
  <2> QED BY <2>2, <2>3, <2>4, <2>5
<1>3. ASSUME NEW d \in Caller, NEW op \in {"start", "stop", "terminate"}, Call(d, op)
      PROVE  thread' \notin {"works", "started", "starts"}
  BY <1>0, <1>3 DEF Call
<1>4. CASE UNCHANGED workerVars BY <1>0, <1>4 DEF workerVars
<1> QED BY <1>1, <1>2, <1>3, <1>4 DEF WorkerNext

\* No work runs when stopWorking() returns.
THEOREM StopStops == ASSUME Serial PROVE WorkerSpec => StopMeansStopped
<1>1. TurnInv /\ [WorkerNext]_workerVars =>
        [\A c \in Caller : pc[c] \in {"stop", "stopWoken"} /\ pc'[c] = "idle" =>
           thread' \notin {"works", "started", "starts"}]_workerVars
  BY StopStep
<1> QED BY <1>1, TurnsHold, PTL DEF WorkerSpec, StopMeansStopped

\* Who returns from terminate() has joined the thread, or found none.
LEMMA TerminateStep ==
    ASSUME TurnInv, [WorkerNext]_workerVars, NEW c \in Caller,
           pc[c] \in {"terminate", "resets"}, pc'[c] = "idle"
    PROVE  thread' = "none"
<1> USE DEF TurnInv, WorkerTypeOK, OneCall, RequestsAreHeld
<1>0. pc[c] # "idle" /\ pc' # pc OBVIOUS
<1>1. CASE Runs \/ WorkEnds
  <2>1. Notified(pc)[c] # "idle" BY <1>0, NotifiedFacts
  <2> QED BY <1>0, <1>1, <2>1
        DEF Runs, LoopHead, Starts, NotifiesStarted, Stops, NotifiesStopped, Rests, WorkEnds
<1>2. ASSUME NEW d \in Caller, Steps(d) PROVE thread' = "none"
  <2>1. d = c
    <3>1. pc[d] # "idle"
      BY <1>2 DEF Steps, StartFirst, StartAgain, StartLooks, Stop, StopNothing, StopLooks, Terminate,
                  TerminateNothing, TerminateNotifies, Joins, Resets
    <3> QED BY <1>0, <3>1
  <2>2. Terminate(c) \/ TerminateNothing(c) \/ Resets(c)
    BY <1>2, <2>1 DEF Steps, StartFirst, StartAgain, StartLooks, Stop, StopNothing, StopLooks,
                      TerminateNotifies, Joins
  <2>3. CASE Terminate(c)
    <3>1. pc'[c] = "terminateNotifies" BY <2>3 DEF Terminate
    <3> QED BY <3>1
  <2>4. CASE TerminateNothing(c) BY <1>0, <2>4 DEF TerminateNothing
  <2>5. CASE Resets(c) BY <2>5 DEF Resets
  <2> QED BY <2>2, <2>3, <2>4, <2>5
<1>3. ASSUME NEW d \in Caller, NEW op \in {"start", "stop", "terminate"}, Call(d, op) PROVE thread' = "none"
  BY <1>0, <1>3 DEF Call
<1>4. CASE UNCHANGED workerVars BY <1>0, <1>4 DEF workerVars
<1> QED BY <1>1, <1>2, <1>3, <1>4 DEF WorkerNext

\* terminate() in a destructor: no thread is left to look at the object.
THEOREM TerminateLeavesNone == ASSUME Serial PROVE WorkerSpec => TerminateMeansGone
<1>1. TurnInv /\ [WorkerNext]_workerVars =>
        [\A c \in Caller : pc[c] \in {"terminate", "resets"} /\ pc'[c] = "idle" =>
           thread' = "none"]_workerVars
  BY TerminateStep
<1> QED BY <1>1, TurnsHold, PTL DEF WorkerSpec, TerminateMeansGone

\* What callers of stopWorking() and terminate() may rely on.
THEOREM CallersRely == ASSUME Serial PROVE WorkerSpec => CallersCanRely
BY KillFinal, StopStops, TerminateLeavesNone DEF CallersCanRely
-----------------------------------------------------------------------------
(***************************************************************************)
(* The farm.                                                               *)
(***************************************************************************)
\* Where callers and miners' threads can be.
ClientAt == {"idle", "generates", "cancels", "found", "sets", "starts", "setsAgain", "returns",
             "put", "verified", "sealed", "solves"}
MinerAt == {"none", "created", "tests", "hashes", "found", "put", "verified", "sealed", "solves",
            "accepted", "exited"}

\* The kinds of the variables.
FarmTypes ==
    /\ at \in [Thread -> ClientAt \cup MinerAt]
    /\ \A c \in Client : at[c] \in ClientAt
    /\ \A m \in Miner : at[m] \in MinerAt
    /\ minerWork \in [Miner -> Header \cup {NoHeader}] /\ job \in [Thread -> Header \cup {NoHeader}]
    /\ ending \in [Miner -> BOOLEAN]
    /\ round \in Rounds \cup {NoOne}
    /\ farmed \in BOOLEAN /\ farmWork \in Header \cup {NoHeader}

\* Whoever has the farm's lock is in the call that took it.
RoundIsHeld ==
    round # NoOne =>
        /\ round.kind = "set" => round.by \in Client /\ at[round.by] \in {"sets", "setsAgain"}
        /\ round.kind = "start" => round.by \in Client /\ at[round.by] = "starts"
        /\ round.kind = "stop" => round.by \in Client /\ at[round.by] = "cancels"
        /\ round.kind = "solved" => at[round.by] = "solves"
        /\ round.told => round.miner \in Miner /\ round.kind # "start"

\* A miner's thread is told to stop only while it is waited for.
EndingIsWaitedFor == \A m \in Miner : ending[m] => round # NoOne /\ round.told /\ round.miner = m

\* A miner's thread that may still hash has the work of the miner.
Alive(m) == at[m] \in {"created", "tests", "hashes", "found", "put", "verified", "sealed"}
WorksOnItsOwn ==
    \A m \in Miner : Alive(m) /\ ~ending[m] => at[m] = "created" \/ job[m] = minerWork[m]

\* It is on that work, or on none.
IsOn(m, w) == Alive(m) /\ ~ending[m] => minerWork[m] \in {w, NoHeader}
Gone(m) == at[m] = "none"

\* How far the loop over the miners has come.
RoundInv ==
    IF round = NoOne
    THEN \A m \in Miner : IsOn(m, farmWork) /\ (~farmed => Gone(m))
    ELSE /\ round.kind = "set" =>
              /\ \A m \in Miner : m < round.miner => IsOn(m, farmWork)
              /\ round.told => minerWork[round.miner] \in {farmWork, NoHeader}
         /\ round.kind = "start" =>
              \A m \in Miner : IF m < round.miner THEN IsOn(m, farmWork) ELSE Gone(m)
         /\ round.kind = "stop" => \A m \in Miner : m < round.miner => Gone(m)
         /\ round.kind = "solved" => \A m \in Miner : m < round.miner => IsOn(m, NoHeader)
         /\ round.kind # "start" /\ ~farmed => round.miner \notin Miner /\ \A m \in Miner : Gone(m)

FarmInv == FarmTypes /\ RoundIsHeld /\ EndingIsWaitedFor /\ WorksOnItsOwn /\ RoundInv

\* The invariant is enough.
LEMMA InvFollows == FarmInv => MinersFollowFarm
BY DEF FarmInv, MinersFollowFarm, RoundInv, IsOn, WorksOnItsOwn, EndingIsWaitedFor, Alive

\* It holds before the first call,
LEMMA InvInit == FarmInit => FarmInv
BY FarmAssumption, ThreadAssumption
   DEF FarmInit, FarmInv, FarmTypes, RoundIsHeld, EndingIsWaitedFor, WorksOnItsOwn, RoundInv, IsOn, Alive,
       Gone, Thread, ClientAt, MinerAt


\* Callers are not miners, and the loop over the miners counts through them.
LEMMA FarmPlaces ==
    /\ Client \cap Miner = {} /\ \A t \in Thread : t \in Client \/ t \in Miner
    /\ NoOne \notin Rounds /\ NoHeader \notin Header
    /\ \A m \in Miner : m \in Int /\ m + 1 \in 1..MinerCount + 1
    /\ \A i \in 1..MinerCount + 1 : i \in Int /\ (i \in Miner \/ \A m \in Miner : m < i)
BY FarmAssumption, ThreadAssumption DEF Thread, Miner

\* A loop starts at the first miner, or is at its end if there are none.
LEMMA Begun ==
    ASSUME NEW t \in Thread, NEW kind \in {"set", "start", "stop", "solved"}, BeginRound(t, kind)
    PROVE  /\ round' \in Rounds /\ round' # NoOne
           /\ round'.by = t /\ round'.kind = kind /\ round'.told = FALSE
           /\ \A m \in Miner : m >= round'.miner
                 \/ (~farmed /\ kind # "start" /\ round'.miner \notin Miner)
           /\ farmed \/ kind = "start" => \A m \in Miner : ~(m < round'.miner)
           /\ ~farmed /\ kind # "start" => round'.miner \notin Miner
<1> DEFINE k == IF farmed \/ kind = "start" THEN 1 ELSE MinerCount + 1
           r == [by |-> t, kind |-> kind, miner |-> k, told |-> FALSE]
<1>1. k \in 1..MinerCount + 1 /\ (\A m \in Miner : m >= 1) /\ MinerCount + 1 \notin Miner
  BY FarmAssumption DEF Miner
<1>2. round' = r
  BY DEF BeginRound
<1>3. r \in Rounds
  BY <1>1 DEF Rounds
<1>4. round' # NoOne
  BY <1>2, <1>3, FarmPlaces
<1> QED BY <1>1, <1>2, <1>3, <1>4, FarmAssumption DEF Miner

\* The kinds of a loop's parts.
LEMMA RoundIs ==
    ASSUME FarmTypes, round # NoOne
    PROVE  /\ round.by \in Thread /\ round.miner \in 1..MinerCount + 1 /\ round.told \in BOOLEAN
           /\ round.kind \in {"set", "start", "stop", "solved"}
BY DEF FarmTypes, Rounds

\* A thread goes to a place of its kind.
LEMMA Passes ==
    ASSUME FarmTypes, NEW t \in Thread, NEW place, GoTo(t, place),
           t \in Client => place \in ClientAt, t \in Miner => place \in MinerAt
    PROVE  /\ at' \in [Thread -> ClientAt \cup MinerAt]
           /\ \A c \in Client : at'[c] \in ClientAt
           /\ \A m \in Miner : at'[m] \in MinerAt
<1>1. place \in ClientAt \cup MinerAt
  BY FarmPlaces
<1>2. at' = [at EXCEPT ![t] = place] /\ at \in [Thread -> ClientAt \cup MinerAt]
  BY DEF GoTo, FarmTypes
<1> HIDE DEF ClientAt, MinerAt
<1>3. at' \in [Thread -> ClientAt \cup MinerAt] /\ \A u \in Thread : at'[u] = IF u = t THEN place ELSE at[u]
  BY <1>1, <1>2
<1> QED BY <1>3 DEF FarmTypes, Thread

\* and every step keeps it: calls that only begin,
LEMMA CallKeeps ==
    ASSUME FarmInv, NEW c \in Client, NEW place \in {"generates", "cancels", "found"},
           NEW h \in Header \cup {NoHeader}, CallFarm(c, place, h)
    PROVE  FarmInv'
<1> USE FarmPlaces DEF CallFarm, GoTo, FarmInv
<1>0. c \in Thread /\ \A m \in Miner : m # c /\ m \in Thread
  BY DEF Thread
<1>1. FarmTypes' BY <1>0 DEF FarmTypes, ClientAt
<1>2. RoundIsHeld' BY <1>0 DEF FarmTypes, RoundIsHeld
<1>3. EndingIsWaitedFor' BY DEF EndingIsWaitedFor
<1>4. WorksOnItsOwn' BY <1>0 DEF WorksOnItsOwn, FarmTypes, Alive
<1>5. RoundInv' BY <1>0 DEF RoundInv, FarmTypes, IsOn, Alive, Gone
<1> QED BY <1>1, <1>2, <1>3, <1>4, <1>5

\* getWork(),
LEMMA GetWorkKeeps == ASSUME FarmInv, NEW c \in Client, NEW h \in Header, GetWork(c, h) PROVE FarmInv'
BY DEF GetWork, FarmInv, FarmTypes, RoundIsHeld, EndingIsWaitedFor, WorksOnItsOwn, RoundInv, IsOn, Alive, Gone

\* generateSeal() when it gets m_submitLock,
LEMMA LockKeeps == ASSUME FarmInv, NEW c \in Client, LockSubmit(c) PROVE FarmInv'
<1> USE FarmPlaces DEF LockSubmit, GoTo, FarmInv
<1>0. c \in Thread /\ \A m \in Miner : m # c /\ m \in Thread
  BY DEF Thread
<1>1. FarmTypes' BY <1>0 DEF FarmTypes, ClientAt, MinerAt, Rounds, Miner
<1>2. RoundIsHeld' BY <1>0 DEF FarmTypes, RoundIsHeld
<1>3. EndingIsWaitedFor' BY <1>0 DEF EndingIsWaitedFor, FarmTypes
<1>4. WorksOnItsOwn' BY <1>0 DEF WorksOnItsOwn, FarmTypes, Alive, EndingIsWaitedFor
<1>5. RoundInv' BY <1>0 DEF RoundInv, FarmTypes, IsOn, Alive, Gone, EndingIsWaitedFor, RoundIsHeld
<1> QED BY <1>1, <1>2, <1>3, <1>4, <1>5

\* setWork(), which begins a loop if the work is new,
LEMMA SetWorkKeeps == ASSUME FarmInv, NEW c \in Client, SetWork(c) PROVE FarmInv'
<1> USE FarmPlaces DEF SetWork, After, FarmFree, FarmInv
<1>0. c \in Thread /\ \A m \in Miner : m # c /\ m \in Thread
  BY DEF Thread
<1>b. BeginRound(c, "set") => /\ round' \in Rounds /\ round' # NoOne
           /\ round'.by = c /\ round'.kind = "set" /\ round'.told = FALSE
           /\ (farmed \/ "set" = "start" => \A m \in Miner : ~(m < round'.miner))
           /\ (~farmed /\ "set" # "start" => round'.miner \notin Miner)
  BY <1>0, Begun
<1>h. round # NoOne => round.by \in Thread
  BY RoundIs
<1>1. FarmTypes' BY <1>0, <1>b, Passes DEF FarmTypes, ClientAt, MinerAt
<1>2. RoundIsHeld' BY <1>0, <1>b, <1>h DEF GoTo, FarmTypes, RoundIsHeld
<1>3. EndingIsWaitedFor' BY <1>0, <1>b, <1>h DEF GoTo, EndingIsWaitedFor, FarmTypes
<1>4. WorksOnItsOwn' BY <1>0, <1>h DEF GoTo, WorksOnItsOwn, FarmTypes, Alive, EndingIsWaitedFor
<1>5. RoundInv' BY <1>0, <1>b, <1>h DEF GoTo, RoundInv, FarmTypes, IsOn, Alive, Gone, EndingIsWaitedFor, RoundIsHeld
<1> QED BY <1>1, <1>2, <1>3, <1>4, <1>5

\* start(), which begins one if there are no miners,
LEMMA StartKeeps == ASSUME FarmInv, NEW c \in Client, StartMiners(c) PROVE FarmInv'
<1> USE FarmPlaces DEF StartMiners, After, FarmFree, FarmInv
<1>0. c \in Thread /\ \A m \in Miner : m # c /\ m \in Thread
  BY DEF Thread
<1>b. BeginRound(c, "start") => /\ round' \in Rounds /\ round' # NoOne
           /\ round'.by = c /\ round'.kind = "start" /\ round'.told = FALSE
           /\ (farmed \/ "start" = "start" => \A m \in Miner : ~(m < round'.miner))
           /\ (~farmed /\ "start" # "start" => round'.miner \notin Miner)
  BY <1>0, Begun
<1>h. round # NoOne => round.by \in Thread
  BY RoundIs
<1>1. FarmTypes' BY <1>0, <1>b, Passes DEF FarmTypes, ClientAt, MinerAt
<1>2. RoundIsHeld' BY <1>0, <1>b, <1>h DEF GoTo, FarmTypes, RoundIsHeld
<1>3. EndingIsWaitedFor' BY <1>0, <1>b, <1>h DEF GoTo, EndingIsWaitedFor, FarmTypes
<1>4. WorksOnItsOwn' BY <1>0, <1>h DEF GoTo, WorksOnItsOwn, FarmTypes, Alive, EndingIsWaitedFor
<1>5. RoundInv' BY <1>0, <1>b, <1>h DEF GoTo, RoundInv, FarmTypes, IsOn, Alive, Gone, EndingIsWaitedFor, RoundIsHeld
<1> QED BY <1>1, <1>2, <1>3, <1>4, <1>5

\* the end of generateSeal(),
LEMMA UnlockKeeps == ASSUME FarmInv, NEW c \in Client, UnlockSubmit(c) PROVE FarmInv'
<1> USE FarmPlaces DEF UnlockSubmit, GoTo, FarmInv
<1>0. c \in Thread /\ \A m \in Miner : m # c /\ m \in Thread
  BY DEF Thread
<1>1. FarmTypes' BY <1>0 DEF FarmTypes, ClientAt, MinerAt, Rounds, Miner
<1>2. RoundIsHeld' BY <1>0 DEF FarmTypes, RoundIsHeld
<1>3. EndingIsWaitedFor' BY <1>0 DEF EndingIsWaitedFor, FarmTypes
<1>4. WorksOnItsOwn' BY <1>0 DEF WorksOnItsOwn, FarmTypes, Alive, EndingIsWaitedFor
<1>5. RoundInv' BY <1>0 DEF RoundInv, FarmTypes, IsOn, Alive, Gone, EndingIsWaitedFor, RoundIsHeld
<1> QED BY <1>1, <1>2, <1>3, <1>4, <1>5

\* stop(),
LEMMA StopKeeps == ASSUME FarmInv, NEW c \in Client, StopMiners(c) PROVE FarmInv'
<1> USE FarmPlaces DEF StopMiners, FarmFree, GoTo, FarmInv
<1>0. c \in Thread /\ \A m \in Miner : m # c /\ m \in Thread
  BY DEF Thread
<1>b. BeginRound(c, "stop") => /\ round' \in Rounds /\ round' # NoOne
           /\ round'.by = c /\ round'.kind = "stop" /\ round'.told = FALSE
           /\ (farmed \/ "stop" = "start" => \A m \in Miner : ~(m < round'.miner))
           /\ (~farmed /\ "stop" # "start" => round'.miner \notin Miner)
  BY <1>0, Begun
<1>1. FarmTypes' BY <1>0, <1>b DEF FarmTypes, ClientAt, MinerAt
<1>2. RoundIsHeld' BY <1>0, <1>b DEF FarmTypes, RoundIsHeld
<1>3. EndingIsWaitedFor' BY <1>0, <1>b DEF EndingIsWaitedFor, FarmTypes
<1>4. WorksOnItsOwn' BY <1>0 DEF WorksOnItsOwn, FarmTypes, Alive, EndingIsWaitedFor
<1>5. RoundInv' BY <1>0, <1>b DEF RoundInv, FarmTypes, IsOn, Alive, Gone, EndingIsWaitedFor, RoundIsHeld
<1> QED BY <1>1, <1>2, <1>3, <1>4, <1>5

\* The loop goes on to the next miner, or waits for the one it told.
LEMMA Onward ==
    ASSUME FarmTypes, round # NoOne, round.miner \in Miner
    PROVE  /\ NextMiner => /\ round' \in Rounds /\ round' # NoOne
                           /\ round'.by = round.by /\ round'.kind = round.kind
                           /\ round'.miner = round.miner + 1 /\ round'.told = FALSE
                           /\ \A n \in Miner : n < round'.miner <=> n < round.miner \/ n = round.miner
           /\ round' = [round EXCEPT !.told = TRUE] =>
                           /\ round' \in Rounds /\ round' # NoOne
                           /\ round'.by = round.by /\ round'.kind = round.kind
                           /\ round'.miner = round.miner /\ round'.told = TRUE
<1>1. round \in Rounds
  BY DEF FarmTypes
<1>2. ASSUME NextMiner
      PROVE  /\ round' \in Rounds /\ round'.by = round.by /\ round'.kind = round.kind
             /\ round'.miner = round.miner + 1 /\ round'.told = FALSE
  BY <1>1, <1>2, FarmPlaces DEF NextMiner, Rounds
<1>3. ASSUME round' = [round EXCEPT !.told = TRUE]
      PROVE  /\ round' \in Rounds /\ round'.by = round.by /\ round'.kind = round.kind
             /\ round'.miner = round.miner /\ round'.told = TRUE
  BY <1>1, <1>3 DEF Rounds
<1>4. \A n \in Miner : n < round.miner + 1 <=> n < round.miner \/ n = round.miner
  BY FarmPlaces
<1> QED BY <1>2, <1>3, <1>4, FarmPlaces

\* a miner that is told its work,
LEMMA TellKeeps == ASSUME FarmInv, Tell PROVE FarmInv'
<1> DEFINE m == round.miner
<1>0. /\ m \in Miner /\ round # NoOne /\ ~round.told /\ round.by \in Thread
      /\ \A n \in Miner : n \in Thread /\ n \notin Client /\ n \in Int
      /\ UNCHANGED <<farmed, farmWork, job>> /\ FarmTypes
      /\ \A n \in Miner : ~ending[n]
  BY RoundIs, FarmPlaces DEF Tell, FarmInv, Thread, EndingIsWaitedFor
<1> HIDE DEF m
<1>1. CASE round.kind = "set"
  <2>1. /\ UNCHANGED at /\ round' = [round EXCEPT !.told = TRUE]
        /\ minerWork' = [minerWork EXCEPT ![m] = farmWork] /\ EndThread(m)
    BY <1>1 DEF Tell, m
  <2>2. /\ round' \in Rounds /\ round' # NoOne
        /\ round'.by = round.by /\ round'.kind = round.kind
        /\ round'.miner = m /\ round'.told = TRUE
    BY <1>0, <2>1, Onward DEF m
  <2>3. FarmTypes' BY <1>0, <2>1, <2>2 DEF FarmTypes, EndThread
  <2>4. RoundIsHeld' BY <1>0, <1>1, <2>1, <2>2 DEF FarmInv, FarmTypes, RoundIsHeld, m
  <2>5. EndingIsWaitedFor' BY <1>0, <2>1, <2>2 DEF FarmInv, EndingIsWaitedFor, FarmTypes, EndThread
  <2>6. WorksOnItsOwn' BY <1>0, <1>1, <2>1, <2>2 DEF FarmInv, WorksOnItsOwn, FarmTypes, Alive, EndThread
  <2>7. RoundInv' BY <1>0, <2>1, <2>2, <1>1 DEF FarmInv, RoundInv, FarmTypes, IsOn, Alive, Gone, EndThread, m
  <2> QED BY <2>3, <2>4, <2>5, <2>6, <2>7 DEF FarmInv
<1>2. CASE round.kind = "start"
  <2>1. /\ minerWork' = [minerWork EXCEPT ![m] = farmWork] /\ NextMiner
        /\ IF farmWork = NoHeader THEN UNCHANGED <<at, ending>>
           ELSE GoTo(m, "created") /\ ending' = [ending EXCEPT ![m] = FALSE]
    BY <1>2 DEF Tell, m
  <2>2. /\ round' \in Rounds /\ round' # NoOne
        /\ round'.by = round.by /\ round'.kind = round.kind
        /\ round'.miner = m + 1 /\ round'.told = FALSE
        /\ \A n \in Miner : n < round'.miner <=> n < m \/ n = m
    BY <1>0, <2>1, Onward DEF m
  <2>3. FarmTypes' BY <1>0, <2>1, <2>2, Passes DEF FarmTypes, EndThread, ClientAt, MinerAt
  <2>4. RoundIsHeld' BY <1>0, <1>2, <2>1, <2>2 DEF FarmInv, FarmTypes, RoundIsHeld, m, GoTo
  <2>5. EndingIsWaitedFor' BY <1>0, <2>1, <2>2 DEF FarmInv, EndingIsWaitedFor, FarmTypes, EndThread
  <2>0. at[m] = "none"
    BY <1>0, <1>2 DEF FarmInv, RoundInv, Gone, m
  <2>6. WorksOnItsOwn' BY <1>0, <2>0, <2>1 DEF FarmInv, WorksOnItsOwn, FarmTypes, Alive, GoTo
  <2>7. RoundInv' BY <1>0, <2>1, <2>2, <1>2 DEF FarmInv, RoundInv, FarmTypes, IsOn, Alive, Gone, EndThread, m, GoTo, RoundIsHeld
  <2> QED BY <2>3, <2>4, <2>5, <2>6, <2>7 DEF FarmInv
<1>3. CASE round.kind = "stop"
  <2>1. UNCHANGED <<at, minerWork>> /\ round' = [round EXCEPT !.told = TRUE] /\ EndThread(m)
    BY <1>3 DEF Tell, m
  <2>2. /\ round' \in Rounds /\ round' # NoOne
        /\ round'.by = round.by /\ round'.kind = round.kind
        /\ round'.miner = m /\ round'.told = TRUE
    BY <1>0, <2>1, Onward DEF m
  <2>3. FarmTypes' BY <1>0, <2>1, <2>2 DEF FarmTypes, EndThread
  <2>4. RoundIsHeld' BY <1>0, <1>3, <2>1, <2>2 DEF FarmInv, FarmTypes, RoundIsHeld, m
  <2>5. EndingIsWaitedFor' BY <1>0, <2>1, <2>2 DEF FarmInv, EndingIsWaitedFor, FarmTypes, EndThread
  <2>6. WorksOnItsOwn' BY <1>0, <1>3, <2>1, <2>2 DEF FarmInv, WorksOnItsOwn, FarmTypes, Alive, EndThread
  <2>7. RoundInv' BY <1>0, <2>1, <2>2, <1>3 DEF FarmInv, RoundInv, FarmTypes, IsOn, Alive, Gone, EndThread, m
  <2> QED BY <2>3, <2>4, <2>5, <2>6, <2>7 DEF FarmInv
<1>4. CASE round.kind = "solved"
  <2>1. /\ UNCHANGED at
        /\ minerWork' = IF m = round.by THEN minerWork ELSE [minerWork EXCEPT ![m] = NoHeader]
        /\ IF Pauses(m)
           THEN EndThread(m) /\ round' = [round EXCEPT !.told = TRUE]
           ELSE NextMiner /\ UNCHANGED ending
    BY <1>4 DEF Tell, m
  <2>2. /\ round' \in Rounds /\ round' # NoOne
        /\ round'.by = round.by /\ round'.kind = round.kind
        /\ IF Pauses(m) THEN round'.miner = m /\ round'.told = TRUE
           ELSE /\ round'.miner = m + 1 /\ round'.told = FALSE
                /\ \A n \in Miner : n < round'.miner <=> n < m \/ n = m
    BY <1>0, <2>1, Onward DEF m
  <2>3. FarmTypes' BY <1>0, <2>1, <2>2 DEF FarmTypes, EndThread, Pauses, RoundIsHeld
  <2>4. RoundIsHeld' BY <1>0, <1>4, <2>1, <2>2 DEF FarmInv, FarmTypes, RoundIsHeld, m
  <2>5. EndingIsWaitedFor' BY <1>0, <2>1, <2>2 DEF FarmInv, EndingIsWaitedFor, FarmTypes, EndThread, Pauses, RoundIsHeld
  <2>6. WorksOnItsOwn' BY <1>0, <1>4, <2>1, <2>2 DEF FarmInv, WorksOnItsOwn, FarmTypes, Alive, EndThread, Pauses, RoundIsHeld
  <2>7. RoundInv' BY <1>0, <2>1, <2>2, <1>4 DEF FarmInv, RoundInv, FarmTypes, IsOn, Alive, Gone, EndThread, m, Pauses, RoundIsHeld
  <2> QED BY <2>3, <2>4, <2>5, <2>6, <2>7 DEF FarmInv
<1> QED BY <1>0, <1>1, <1>2, <1>3, <1>4, RoundIs

\* a miner that was waited for,
LEMMA JoinKeeps == ASSUME FarmInv, Join PROVE FarmInv'
<1> DEFINE m == round.miner
<1>0. /\ m \in Miner /\ round # NoOne /\ round.told /\ round.by \in Thread /\ round.kind # "start"
      /\ \A n \in Miner : n \in Thread /\ n \notin Client /\ n \in Int
      /\ UNCHANGED <<farmed, farmWork, job>> /\ FarmTypes
      /\ at[m] \in {"none", "exited"} /\ m # round.by
      /\ \A n \in Miner : n # m => ~ending[n]
  BY RoundIs, FarmPlaces DEF Join, FarmInv, Thread, EndingIsWaitedFor, RoundIsHeld
<1>1. /\ GoTo(m, IF round.kind = "set" THEN "created" ELSE "none")
      /\ ending' = [ending EXCEPT ![m] = FALSE] /\ NextMiner
      /\ minerWork' = IF round.kind = "stop" THEN [minerWork EXCEPT ![m] = NoHeader] ELSE minerWork
  BY DEF Join, m
<1> HIDE DEF m
<1>2. /\ round' \in Rounds /\ round' # NoOne
      /\ round'.by = round.by /\ round'.kind = round.kind
      /\ round'.miner = m + 1 /\ round'.told = FALSE
      /\ \A n \in Miner : n < round'.miner <=> n < m \/ n = m
  BY <1>0, <1>1, Onward DEF m
<1>3. FarmTypes'
  BY <1>0, <1>1, <1>2, Passes DEF FarmTypes, ClientAt, MinerAt
<1>4. RoundIsHeld' BY <1>0, <1>1, <1>2 DEF FarmInv, FarmTypes, RoundIsHeld, GoTo
<1>5. EndingIsWaitedFor' BY <1>0, <1>1, <1>2 DEF FarmInv, EndingIsWaitedFor, FarmTypes
<1>6. WorksOnItsOwn' BY <1>0, <1>1, <1>2 DEF FarmInv, WorksOnItsOwn, FarmTypes, Alive, GoTo
<1>7. RoundInv' BY <1>0, <1>1, <1>2 DEF FarmInv, RoundInv, FarmTypes, IsOn, Alive, Gone, GoTo, m
<1> QED BY <1>3, <1>4, <1>5, <1>6, <1>7 DEF FarmInv

\* the end of a loop, when all miners are past,
LEMMA EndKeeps == ASSUME FarmInv, EndRound PROVE FarmInv'
<1>0. /\ round # NoOne /\ round.by \in Thread /\ ~round.told /\ FarmTypes /\ round' = NoOne
      /\ \A n \in Miner : n \in Thread /\ n \notin Client /\ n \in Int /\ ~ending[n] /\ n < round.miner
      /\ round.kind \in {"set", "start", "stop", "solved"}
      /\ UNCHANGED <<minerWork, ending, job>>
  BY RoundIs, FarmPlaces DEF EndRound, FarmInv, Thread, EndingIsWaitedFor, RoundIsHeld
<1>1. \E place : /\ GoTo(round.by, place)
                 /\ place \in {"starts", "setsAgain", "returns", "idle", "accepted"}
                 /\ round.by \in Client => place \in ClientAt
                 /\ round.by \in Miner => place = "accepted"
  <2>1. round.kind \in {"set", "start"} =>
          round.by \in Client /\ After(at[round.by]) \in {"starts", "setsAgain", "returns"}
    BY <1>0 DEF FarmInv, RoundIsHeld, After
  <2>2. ~(round.by \in Client /\ round.by \in Miner)
    BY FarmPlaces
  <2> HIDE DEF After
  <2> QED BY <1>0, <2>1, <2>2 DEF EndRound, ClientAt
<1>2. PICK place : /\ GoTo(round.by, place)
                   /\ place \in {"starts", "setsAgain", "returns", "idle", "accepted"}
                   /\ round.by \in Client => place \in ClientAt
                   /\ round.by \in Miner => place = "accepted"
  BY <1>1
<1>3. /\ farmed' = (round.kind = "start" \/ (farmed /\ round.kind # "stop"))
      /\ farmWork' = IF round.kind \in {"stop", "solved"} THEN NoHeader ELSE farmWork
  BY DEF EndRound
<1>4. FarmTypes'
  <2>1. place \in ClientAt \cup MinerAt /\ (round.by \in Miner => place \in MinerAt)
    BY <1>0, <1>2, FarmPlaces DEF MinerAt
  <2> QED BY <1>0, <1>2, <1>3, <2>1, Passes DEF FarmTypes
<1>5. RoundIsHeld' BY <1>0 DEF RoundIsHeld
<1>6. EndingIsWaitedFor' BY <1>0 DEF FarmInv, EndingIsWaitedFor
<1>7. \A n \in Miner : at'[n] = at[n] \/ at'[n] = "accepted"
  BY <1>0, <1>2 DEF GoTo, FarmTypes
<1>8. WorksOnItsOwn' BY <1>0, <1>7 DEF FarmInv, WorksOnItsOwn, Alive
<1>9. RoundInv'
  <2>1. \A n \in Miner : IsOn(n, farmWork)'
    BY <1>0, <1>3, <1>7 DEF FarmInv, RoundInv, IsOn, Alive, Gone
  <2>2. ~farmed' => \A n \in Miner : Gone(n)'
    <3>1. ~farmed' => \A n \in Miner : Gone(n)
      BY <1>0, <1>3 DEF FarmInv, RoundInv
    <3>2. round.by \in Miner => ~Gone(round.by)
      BY <1>0 DEF FarmInv, RoundIsHeld, Gone, FarmPlaces
    <3> QED BY <1>0, <1>2, <3>1, <3>2 DEF Gone, GoTo, FarmTypes
  <2> QED BY <1>0, <2>1, <2>2 DEF RoundInv
<1> QED BY <1>4, <1>5, <1>6, <1>8, <1>9 DEF FarmInv

\* a miner's thread that begins,
LEMMA TakeWorkKeeps == ASSUME FarmInv, NEW m \in Miner, TakeWork(m) PROVE FarmInv'
<1> USE FarmPlaces DEF TakeWork, FarmInv
<1>0. m \in Thread /\ m \notin Client /\ \A n \in Miner : n \in Thread
  BY DEF Thread
<1>h. round # NoOne => round.by \in Thread
  BY RoundIs
<1>1. FarmTypes' BY <1>0, Passes DEF FarmTypes, ClientAt, MinerAt
<1>2. RoundIsHeld' BY <1>0, <1>h DEF GoTo, FarmTypes, RoundIsHeld
<1>3. EndingIsWaitedFor' BY <1>0, <1>h DEF GoTo, EndingIsWaitedFor, FarmTypes
<1>4. WorksOnItsOwn' BY <1>0, <1>h DEF GoTo, WorksOnItsOwn, FarmTypes, Alive, EndingIsWaitedFor
<1>5. RoundInv' BY <1>0, <1>h DEF GoTo, RoundInv, FarmTypes, IsOn, Alive, Gone, EndingIsWaitedFor, RoundIsHeld
<1> QED BY <1>1, <1>2, <1>3, <1>4, <1>5

\* looks whether it should stop,
LEMMA TestKeeps == ASSUME FarmInv, NEW m \in Miner, TestEnding(m) PROVE FarmInv'
<1> USE FarmPlaces DEF TestEnding, FarmInv
<1>0. m \in Thread /\ m \notin Client /\ \A n \in Miner : n \in Thread
  BY DEF Thread
<1>h. round # NoOne => round.by \in Thread
  BY RoundIs
<1>1. FarmTypes' BY <1>0, Passes DEF FarmTypes, ClientAt, MinerAt
<1>2. RoundIsHeld' BY <1>0, <1>h DEF GoTo, FarmTypes, RoundIsHeld
<1>3. EndingIsWaitedFor' BY <1>0, <1>h DEF GoTo, EndingIsWaitedFor, FarmTypes
<1>4. WorksOnItsOwn' BY <1>0, <1>h DEF GoTo, WorksOnItsOwn, FarmTypes, Alive, EndingIsWaitedFor
<1>5. RoundInv' BY <1>0, <1>h DEF GoTo, RoundInv, FarmTypes, IsOn, Alive, Gone, EndingIsWaitedFor, RoundIsHeld
<1> QED BY <1>1, <1>2, <1>3, <1>4, <1>5

\* hashes,
LEMMA HashKeeps == ASSUME FarmInv, NEW m \in Miner, HashOnce(m) PROVE FarmInv'
<1> USE FarmPlaces DEF HashOnce, FarmInv
<1>0. m \in Thread /\ m \notin Client /\ \A n \in Miner : n \in Thread
  BY DEF Thread
<1>h. round # NoOne => round.by \in Thread
  BY RoundIs
<1>1. FarmTypes' BY <1>0, Passes DEF FarmTypes, ClientAt, MinerAt
<1>2. RoundIsHeld' BY <1>0, <1>h DEF GoTo, FarmTypes, RoundIsHeld
<1>3. EndingIsWaitedFor' BY <1>0, <1>h DEF GoTo, EndingIsWaitedFor, FarmTypes
<1>4. WorksOnItsOwn' BY <1>0, <1>h DEF GoTo, WorksOnItsOwn, FarmTypes, Alive, EndingIsWaitedFor
<1>5. RoundInv' BY <1>0, <1>h DEF GoTo, RoundInv, FarmTypes, IsOn, Alive, Gone, EndingIsWaitedFor, RoundIsHeld
<1> QED BY <1>1, <1>2, <1>3, <1>4, <1>5

\* or drops its work, its solution being taken;
LEMMA DropKeeps == ASSUME FarmInv, NEW m \in Miner, DropWork(m) PROVE FarmInv'
<1> USE FarmPlaces DEF DropWork, FarmInv
<1>0. m \in Thread /\ m \notin Client /\ \A n \in Miner : n \in Thread
  BY DEF Thread
<1>h. round # NoOne => round.by \in Thread
  BY RoundIs
<1>1. FarmTypes' BY <1>0, Passes DEF FarmTypes, ClientAt, MinerAt
<1>2. RoundIsHeld' BY <1>0, <1>h DEF GoTo, FarmTypes, RoundIsHeld
<1>3. EndingIsWaitedFor' BY <1>0, <1>h DEF GoTo, EndingIsWaitedFor, FarmTypes
<1>4. WorksOnItsOwn' BY <1>0, <1>h DEF GoTo, WorksOnItsOwn, FarmTypes, Alive, EndingIsWaitedFor
<1>5. RoundInv' BY <1>0, <1>h DEF GoTo, RoundInv, FarmTypes, IsOn, Alive, Gone, EndingIsWaitedFor, RoundIsHeld
<1> QED BY <1>1, <1>2, <1>3, <1>4, <1>5

\* and a solution that is put into the header,
LEMMA PutKeeps == ASSUME FarmInv, NEW t \in Thread, PutSolution(t) PROVE FarmInv'
<1> USE FarmPlaces DEF PutSolution, FarmInv
<1>0. (t \in Client \/ t \in Miner) /\ ~(t \in Client /\ t \in Miner) /\ \A n \in Miner : n \in Thread
  BY DEF Thread
<1>h. round # NoOne => round.by \in Thread
  BY RoundIs
<1>1. FarmTypes' BY <1>0, Passes DEF FarmTypes, ClientAt, MinerAt
<1>2. RoundIsHeld' BY <1>0, <1>h DEF GoTo, FarmTypes, RoundIsHeld
<1>3. EndingIsWaitedFor' BY <1>0, <1>h DEF GoTo, EndingIsWaitedFor, FarmTypes
<1>4. WorksOnItsOwn' BY <1>0, <1>h DEF GoTo, WorksOnItsOwn, FarmTypes, Alive, EndingIsWaitedFor
<1>5. RoundInv' BY <1>0, <1>h DEF GoTo, RoundInv, FarmTypes, IsOn, Alive, Gone, EndingIsWaitedFor, RoundIsHeld
<1> QED BY <1>1, <1>2, <1>3, <1>4, <1>5

\* verified,
LEMMA VerifyKeeps == ASSUME FarmInv, NEW t \in Thread, VerifySeal(t) PROVE FarmInv'
<1> USE FarmPlaces DEF VerifySeal, Refused, FarmInv
<1>0. (t \in Client \/ t \in Miner) /\ ~(t \in Client /\ t \in Miner) /\ \A n \in Miner : n \in Thread
  BY DEF Thread
<1>h. round # NoOne => round.by \in Thread
  BY RoundIs
<1>1. FarmTypes' BY <1>0, Passes DEF FarmTypes, ClientAt, MinerAt
<1>2. RoundIsHeld' BY <1>0, <1>h DEF GoTo, FarmTypes, RoundIsHeld
<1>3. EndingIsWaitedFor' BY <1>0, <1>h DEF GoTo, EndingIsWaitedFor, FarmTypes
<1>4. WorksOnItsOwn' BY <1>0, <1>h DEF GoTo, WorksOnItsOwn, FarmTypes, Alive, EndingIsWaitedFor
<1>5. RoundInv' BY <1>0, <1>h DEF GoTo, RoundInv, FarmTypes, IsOn, Alive, Gone, EndingIsWaitedFor, RoundIsHeld
<1> QED BY <1>1, <1>2, <1>3, <1>4, <1>5

\* given away,
LEMMA SealKeeps == ASSUME FarmInv, NEW t \in Thread, Seal(t) PROVE FarmInv'
<1> USE FarmPlaces DEF Seal, FarmInv
<1>0. (t \in Client \/ t \in Miner) /\ ~(t \in Client /\ t \in Miner) /\ \A n \in Miner : n \in Thread
  BY DEF Thread
<1>h. round # NoOne => round.by \in Thread
  BY RoundIs
<1>1. FarmTypes' BY <1>0, Passes DEF FarmTypes, ClientAt, MinerAt
<1>2. RoundIsHeld' BY <1>0, <1>h DEF GoTo, FarmTypes, RoundIsHeld
<1>3. EndingIsWaitedFor' BY <1>0, <1>h DEF GoTo, EndingIsWaitedFor, FarmTypes
<1>4. WorksOnItsOwn' BY <1>0, <1>h DEF GoTo, WorksOnItsOwn, FarmTypes, Alive, EndingIsWaitedFor
<1>5. RoundInv' BY <1>0, <1>h DEF GoTo, RoundInv, FarmTypes, IsOn, Alive, Gone, EndingIsWaitedFor, RoundIsHeld
<1> QED BY <1>1, <1>2, <1>3, <1>4, <1>5

\* and handed to the farm if its lock is free.
LEMMA TryKeeps == ASSUME FarmInv, NEW t \in Thread, TryFarm(t) PROVE FarmInv'
<1> USE FarmPlaces DEF TryFarm, FarmFree, Refused, FarmInv
<1>0. (t \in Client \/ t \in Miner) /\ ~(t \in Client /\ t \in Miner) /\ \A n \in Miner : n \in Thread
  BY DEF Thread
<1>b. BeginRound(t, "solved") => /\ round' \in Rounds /\ round' # NoOne
           /\ round'.by = t /\ round'.kind = "solved" /\ round'.told = FALSE
           /\ (farmed \/ "solved" = "start" => \A m \in Miner : ~(m < round'.miner))
           /\ (~farmed /\ "solved" # "start" => round'.miner \notin Miner)
  BY <1>0, Begun
<1>h. round # NoOne => round.by \in Thread
  BY RoundIs
<1>1. FarmTypes' BY <1>0, <1>b, Passes DEF FarmTypes, ClientAt, MinerAt
<1>2. RoundIsHeld' BY <1>0, <1>b, <1>h DEF GoTo, FarmTypes, RoundIsHeld
<1>3. EndingIsWaitedFor' BY <1>0, <1>b, <1>h DEF GoTo, EndingIsWaitedFor, FarmTypes
<1>4. WorksOnItsOwn' BY <1>0, <1>h DEF GoTo, WorksOnItsOwn, FarmTypes, Alive, EndingIsWaitedFor
<1>5. RoundInv' BY <1>0, <1>b, <1>h DEF GoTo, RoundInv, FarmTypes, IsOn, Alive, Gone, EndingIsWaitedFor, RoundIsHeld
<1> QED BY <1>1, <1>2, <1>3, <1>4, <1>5

\* So the invariant is inductive.
LEMMA InvNext == ASSUME FarmInv, [FarmNext]_farmVars PROVE FarmInv'
<1>1. CASE \E c \in Client, h \in Header : GenerateSeal(c, h) \/ SubmitEthashWork(c, h)
  BY <1>1, CallKeeps DEF GenerateSeal, SubmitEthashWork
<1>2. CASE \E c \in Client, h \in Header : GetWork(c, h)
  BY <1>2, GetWorkKeeps
<1>3. CASE \E c \in Client : CancelGeneration(c) \/ ClientSteps(c)
  BY <1>3, CallKeeps, LockKeeps, SetWorkKeeps, StartKeeps, UnlockKeeps, StopKeeps
     DEF CancelGeneration, ClientSteps
<1>4. CASE Watch \/ Watched \/ UNCHANGED farmVars
  BY <1>4 DEF Watch, Watched, farmVars, FarmInv, FarmTypes, RoundIsHeld, EndingIsWaitedFor, WorksOnItsOwn,
              RoundInv, IsOn, Alive, Gone
<1>5. CASE RoundSteps
  BY <1>5, TellKeeps, JoinKeeps, EndKeeps DEF RoundSteps
<1>6. CASE \E m \in Miner : MinerSteps(m)
  BY <1>6, TakeWorkKeeps, TestKeeps, HashKeeps, DropKeeps DEF MinerSteps
<1>7. CASE \E t \in Thread : SolutionSteps(t)
  BY <1>7, PutKeeps, VerifyKeeps, SealKeeps, TryKeeps DEF SolutionSteps
<1> QED BY <1>1, <1>2, <1>3, <1>4, <1>5, <1>6, <1>7 DEF FarmNext

\* Whenever x_minerWork is free, every miner that goes on hashing does so for the work of
\* the farm or for none: setWork(), stop() and submitProof() leave none on old work, for any
\* number of miners and callers (GenericFarm.h, GenericMiner.h).
THEOREM NobodyOnOldWork == FarmSpec => []MinersFollowFarm
<1>1. FarmInit /\ [][FarmNext]_farmVars => []FarmInv
  BY InvInit, InvNext, PTL
<1> QED BY <1>1, InvFollows, PTL DEF FarmSpec
-----------------------------------------------------------------------------
\* Whoever is between taking and releasing m_submitLock has it. What is about to be
\* given away as sealed has its own solution, or is what getWork() has put there since.
Locks(t) == at[t] \in {"sets", "starts", "setsAgain", "returns", "put", "verified"}
SealInv ==
    /\ \A t \in Thread :
        /\ Locks(t) => submitLock = t
        /\ at[t] = "verified" => \/ sealing.solution = sealing.header /\ ~replaced
                                 \/ sealing.solution = NoHeader /\ replaced
    /\ replaced => \E t \in Thread : at[t] = "verified"

\* A thread that goes on without the lock, or keeps it.
LEMMA MovesOn ==
    ASSUME FarmTypes, SealInv, NEW t \in Thread, NEW place, GoTo(t, place),
           UNCHANGED <<submitLock, sealing, replaced>>, at[t] # "verified", place # "verified",
           place \in {"sets", "starts", "setsAgain", "returns", "put"} => Locks(t)
    PROVE  SealInv'
<1>1. at' = [at EXCEPT ![t] = place] /\ at \in [Thread -> ClientAt \cup MinerAt]
  BY DEF FarmTypes, GoTo
<1>2. \A u \in Thread : at'[u] = IF u = t THEN place ELSE at[u]
  BY <1>1
<1>3. \A u \in Thread : at'[u] = "verified" <=> at[u] = "verified"
  BY <1>2
<1>4. \A u \in Thread : Locks(u)' => Locks(u)
  BY <1>2 DEF Locks
<1> QED BY <1>3, <1>4 DEF SealInv

\* While m_submitLock is free, nothing is verified and nothing replaced.
LEMMA FreeLock ==
    ASSUME SealInv, submitLock = NoOne
    PROVE  ~replaced /\ \A t \in Thread : ~Locks(t) /\ at[t] # "verified"
<1>1. NoOne \notin Thread
  BY ThreadAssumption
<1> QED BY <1>1 DEF SealInv, Locks

\* This holds before the first call, and every step keeps it.
LEMMA SealInvInit == FarmInit => SealInv
BY DEF FarmInit, SealInv, Locks

LEMMA SealInvPut == ASSUME FarmTypes, SealInv, NEW t \in Thread, PutSolution(t) PROVE SealInv'
<1>1. /\ ~replaced /\ ~replaced' /\ submitLock' = t
      /\ \A u \in Thread : at'[u] = IF u = t THEN "put" ELSE at[u]
      /\ \A u \in Thread : ~Locks(u) /\ at[u] # "verified"
  BY FreeLock DEF PutSolution, GoTo, FarmTypes
<1> QED BY <1>1 DEF SealInv, Locks

\* What is verified is what was put, unless getWork() came between.
LEMMA SealInvVerify == ASSUME FarmTypes, SealInv, NEW t \in Thread, VerifySeal(t) PROVE SealInv'
<1>1. /\ submitLock = t /\ UNCHANGED <<sealing, replaced>>
      /\ \A u \in Thread : Locks(u) => u = t
  BY DEF VerifySeal, SealInv, Locks
<1>2. ~replaced
  BY <1>1 DEF VerifySeal, SealInv, Locks
<1>3. CASE sealing.solution = sealing.header /\ sealing.header # NoHeader
  <2>1. submitLock' = t /\ \A u \in Thread : at'[u] = IF u = t THEN "verified" ELSE at[u]
    BY <1>1, <1>3 DEF VerifySeal, GoTo, FarmTypes
  <2> QED BY <1>1, <1>2, <1>3, <2>1 DEF SealInv, Locks
<1>4. CASE ~(sealing.solution = sealing.header /\ sealing.header # NoHeader)
  <2>1. \E place \in {"idle", "tests"} : \A u \in Thread : at'[u] = IF u = t THEN place ELSE at[u]
    BY <1>4 DEF VerifySeal, Refused, GoTo, FarmTypes
  <2>2. \A u \in Thread : ~Locks(u)' /\ at'[u] # "verified"
    BY <1>1, <2>1 DEF Locks
  <2> QED BY <1>1, <1>2, <2>2 DEF SealInv
<1> QED BY <1>3, <1>4

LEMMA SealInvSeal == ASSUME FarmTypes, SealInv, NEW t \in Thread, Seal(t) PROVE SealInv'
<1>1. /\ submitLock = t /\ ~replaced' /\ \A u \in Thread : Locks(u) => u = t
      /\ \A u \in Thread : at'[u] = IF u = t THEN "sealed" ELSE at[u]
  BY DEF Seal, SealInv, Locks, GoTo, FarmTypes
<1>2. \A u \in Thread : ~Locks(u)' /\ at'[u] # "verified"
  BY <1>1 DEF Locks
<1> QED BY <1>1, <1>2 DEF SealInv

\* getWork() writes m_sealing without the lock.
LEMMA SealInvGetWork ==
    ASSUME SealInv, NEW c \in Client, NEW h \in Header, GetWork(c, h)
    PROVE  SealInv'
<1>1. /\ sealing'.solution = NoHeader /\ UNCHANGED <<submitLock, at>>
      /\ replaced' <=> replaced \/ \E t \in Thread : at[t] = "verified"
  BY DEF GetWork
<1> QED BY <1>1 DEF SealInv, Locks

LEMMA SealInvNext ==
    ASSUME FarmInv, SealInv, [FarmNext]_farmVars
    PROVE  SealInv'
<1> USE DEF FarmInv
<1>0. (\A m \in Miner : m \in Thread) /\ (\A c \in Client : c \in Thread) /\ NoOne \notin Thread
  BY ThreadAssumption DEF Thread
<1>1. ASSUME NEW c \in Client, NEW place \in {"generates", "cancels", "found"}, NEW h, CallFarm(c, place, h)
      PROVE  SealInv'
  BY <1>0, <1>1, MovesOn DEF CallFarm
<1>2. ASSUME NEW c \in Client, NEW h \in Header, GetWork(c, h) PROVE SealInv'
  BY <1>2, SealInvGetWork
<1>3. ASSUME NEW c \in Client, LockSubmit(c) PROVE SealInv'
  <2>1. /\ ~replaced /\ ~replaced' /\ submitLock' = c /\ c \in Thread
        /\ \A u \in Thread : at'[u] = IF u = c THEN "sets" ELSE at[u]
        /\ \A u \in Thread : ~Locks(u) /\ at[u] # "verified"
    BY <1>0, <1>3, FreeLock DEF LockSubmit, GoTo, FarmTypes
  <2> QED BY <2>1 DEF SealInv, Locks
<1>4. ASSUME NEW c \in Client, SetWork(c) PROVE SealInv'
  <2>1. /\ at[c] \in {"sets", "setsAgain"} /\ (UNCHANGED at \/ GoTo(c, After(at[c])))
        /\ UNCHANGED <<submitLock, sealing, replaced>>
    BY <1>4 DEF SetWork
  <2>2. After(at[c]) \in {"starts", "returns"} /\ Locks(c)
    BY <2>1 DEF After, Locks
  <2>3. CASE UNCHANGED at BY <2>1, <2>3 DEF SealInv, Locks
  <2> QED BY <1>0, <2>1, <2>2, <2>3, MovesOn
<1>5. ASSUME NEW c \in Client, StartMiners(c) PROVE SealInv'
  <2>1. /\ at[c] = "starts" /\ (UNCHANGED at \/ GoTo(c, After(at[c])))
        /\ UNCHANGED <<submitLock, sealing, replaced>>
    BY <1>5 DEF StartMiners
  <2>2. After(at[c]) = "setsAgain" /\ Locks(c)
    BY <2>1 DEF After, Locks
  <2>3. CASE UNCHANGED at BY <2>1, <2>3 DEF SealInv, Locks
  <2> QED BY <1>0, <2>1, <2>2, <2>3, MovesOn
<1>6. ASSUME NEW c \in Client, UnlockSubmit(c) PROVE SealInv'
  <2>1. /\ submitLock = c /\ UNCHANGED <<sealing, replaced>> /\ c \in Thread /\ at[c] = "returns"
        /\ \A u \in Thread : Locks(u) => u = c
        /\ \A u \in Thread : at'[u] = IF u = c THEN "idle" ELSE at[u]
    BY <1>0, <1>6 DEF UnlockSubmit, SealInv, Locks, GoTo, FarmTypes
  <2>2. ~replaced
    BY <2>1 DEF SealInv, Locks
  <2>3. \A u \in Thread : ~Locks(u)' /\ at'[u] # "verified"
    BY <2>1 DEF Locks
  <2> QED BY <2>1, <2>2, <2>3 DEF SealInv
<1>7. CASE (\E c \in Client : StopMiners(c)) \/ Watch \/ Watched \/ UNCHANGED farmVars
  <2>1. UNCHANGED <<submitLock, sealing, replaced, at>>
    BY <1>7 DEF StopMiners, Watch, Watched, farmVars
  <2> QED BY <2>1 DEF SealInv, Locks
<1>8. CASE Tell
  <2>1. /\ UNCHANGED <<submitLock, sealing, replaced>> /\ round # NoOne /\ round.miner \in Miner
        /\ UNCHANGED at \/ (round.kind = "start" /\ GoTo(round.miner, "created"))
    BY <1>8 DEF Tell
  <2>2. CASE UNCHANGED at BY <2>1, <2>2 DEF SealInv, Locks
  <2>3. CASE round.kind = "start" /\ GoTo(round.miner, "created")
    <3>1. at[round.miner] = "none"
      BY <2>1, <2>3 DEF RoundInv, Gone, Miner
    <3> QED BY <1>0, <2>1, <2>3, <3>1, MovesOn
  <2> QED BY <2>1, <2>2, <2>3
<1>9. CASE Join
  <2>1. /\ UNCHANGED <<submitLock, sealing, replaced>> /\ round.miner \in Miner
        /\ at[round.miner] \in {"none", "exited"}
        /\ GoTo(round.miner, IF round.kind = "set" THEN "created" ELSE "none")
    BY <1>9 DEF Join, RoundIsHeld
  <2> QED BY <1>0, <2>1, MovesOn
<1>10. CASE EndRound
  <2>1. /\ UNCHANGED <<submitLock, sealing, replaced>> /\ round # NoOne
        /\ round.by \in Thread /\ round.kind \in {"set", "start", "stop", "solved"}
        /\ GoTo(round.by, IF round.kind \in {"set", "start"} THEN After(at[round.by])
                          ELSE IF round.by \in Miner THEN "accepted" ELSE "idle")
    BY <1>10, RoundIs DEF EndRound
  <2>2. at[round.by] # "verified"
    BY <2>1 DEF RoundIsHeld
  <2>3. CASE round.kind \in {"set", "start"}
    <3>1. After(at[round.by]) \in {"starts", "setsAgain", "returns"} /\ Locks(round.by)
      BY <2>1, <2>3 DEF RoundIsHeld, After, Locks
    <3> QED BY <2>1, <2>2, <2>3, <3>1, MovesOn
  <2>4. CASE round.kind \notin {"set", "start"}
    BY <2>1, <2>2, <2>4, MovesOn
  <2> QED BY <2>3, <2>4
<1>11. ASSUME NEW m \in Miner, MinerSteps(m) PROVE SealInv'
  <2>1. /\ UNCHANGED <<submitLock, sealing, replaced>> /\ at[m] # "verified"
        /\ \E place \in {"tests", "exited", "hashes", "found"} : GoTo(m, place)
    BY <1>11 DEF MinerSteps, TakeWork, TestEnding, HashOnce, DropWork
  <2> QED BY <1>0, <2>1, MovesOn
<1>12. ASSUME NEW t \in Thread, PutSolution(t) \/ VerifySeal(t) \/ Seal(t) PROVE SealInv'
  BY <1>12, SealInvPut, SealInvVerify, SealInvSeal
<1>13. ASSUME NEW t \in Thread, TryFarm(t) PROVE SealInv'
  <2>1. /\ UNCHANGED <<submitLock, sealing, replaced>> /\ at[t] # "verified"
        /\ \E place \in {"idle", "tests", "solves"} : GoTo(t, place)
    BY <1>13 DEF TryFarm, Refused
  <2> QED BY <2>1, MovesOn
<1>14. \A c \in Client : \A h : GenerateSeal(c, h) \/ SubmitEthashWork(c, h) \/ CancelGeneration(c) => SealInv'
  BY <1>1 DEF GenerateSeal, SubmitEthashWork, CancelGeneration
<1> HIDE DEF FarmInv
<1> QED BY <1>2, <1>3, <1>4, <1>5, <1>6, <1>7, <1>8, <1>9, <1>10, <1>11, <1>12, <1>13, <1>14
        DEF FarmNext, ClientSteps, RoundSteps, SolutionSteps

\* What is given away as sealed is the header that was verified, with a solution of its
\* own, or the header without one that getWork() has put in its place; for any miners and
\* callers, whenever getWork() comes (Ethash.cpp, Ethash.h).
THEOREM SealsAreSolved == FarmSpec => SealIsSolved
<1>1. FarmInit => FarmInv /\ SealInv
  BY InvInit, SealInvInit
<1>2. FarmInv /\ SealInv /\ [FarmNext]_farmVars => (FarmInv /\ SealInv)'
  BY InvNext, SealInvNext
<1>3. SealInv => [\A t \in Thread : at[t] = "verified" /\ at'[t] = "sealed" =>
                    \/ sealing.solution = sealing.header /\ ~replaced
                    \/ sealing.solution = NoHeader /\ replaced]_farmVars
  BY DEF SealInv
<1> QED BY <1>1, <1>2, <1>3, PTL DEF FarmSpec, SealIsSolved
-----------------------------------------------------------------------------
(***************************************************************************)
(* The client's thread: accepted transactions are kept.                    *)
(*                                                                         *)
(* A transaction moves from the queue to the chain, back by a route that   *)
(* has its block dead, and out of the queue with the good ones of a route. *)
(* The property holds through a round of doWork() only because of the      *)
(* order in it: the dead are given back before the good are dropped, and   *)
(* the block that is worked on is brought to the head before transactions  *)
(* that are on its chain are dropped.  ClientInv says so by stage.         *)
(***************************************************************************)
\* A finite set of transactions.
Txs(S) == S \subseteq ClientTx /\ IsFiniteSet(S)

\* A block that is worked on.
WorkShaped(w) == {"on", "txs"} \subseteq DOMAIN w /\ Txs(w.txs)

\* The route: there are dead blocks only if there are live ones.
RouteShaped(r) ==
    /\ {"dead", "live", "good"} \subseteq DOMAIN r
    /\ r.dead \in Seq(Tree) /\ (r.live = {} => r.dead = <<>>)

\* What of the client is looked at,
Fields == {"head", "ready", "queued", "pre", "working", "post", "route"}

\* and what it has.
ClientShaped(n) ==
    /\ Fields \subseteq DOMAIN n
    /\ n.head \in Tree /\ n.ready \in Seq(Block) /\ Txs(n.queued)
    /\ WorkShaped(n.pre) /\ WorkShaped(n.working) /\ WorkShaped(n.post)
    /\ RouteShaped(n.route)
    /\ n.pre.on = n.working.on

\* The transactions of blocks that left the chain.
DeadTxs(n) == UNION {Contents(b) : b \in Range(n.route.dead)}

\* The second has in its queue a rival of all that the first has one of.
Grows(n, m) ==
    /\ Fields \subseteq DOMAIN m
    /\ m.head = n.head /\ m.ready = n.ready /\ m.route = n.route
    /\ m.pre = n.pre /\ m.working = n.working /\ m.post = n.post
    /\ Txs(m.queued)
    /\ \A u \in ClientTx : Rivals(u) \cap n.queued # {} => Rivals(u) \cap m.queued # {}

\* t or a rival of it is queued.
Queues(n, t) == Rivals(t) \cap n.queued # {}

\* Rivals have the same rivals.
LEMMA RivalFacts ==
    /\ \A t \in ClientTx : t \in Rivals(t)
    /\ \A t, u \in ClientTx : u \in Rivals(t) => Rivals(u) = Rivals(t)
BY DEF Rivals

\* A transaction is taken in, or a rival of it is there.
LEMMA TakeInGrows ==
    ASSUME NEW n, Fields \subseteq DOMAIN n, Txs(n.queued), NEW t \in ClientTx
    PROVE  Grows(n, TakeIn(n, t)) /\ Queues(TakeIn(n, t), t)
<1> DEFINE m == TakeIn(n, t)
<1>1. CASE m = n
  <2>1. t \in n.queued \/ Outbid(n, t) # {} \/ t \in m.queued
    <3>1. CASE t \in n.queued \/ Outbid(n, t) # {}
      BY <3>1
    <3>2. CASE ~ (t \in n.queued \/ Outbid(n, t) # {})
      <4>1. m.queued = (n.queued \ Rivals(t)) \cup {t}
        BY <3>2 DEF TakeIn, Fields
      <4> QED  BY <4>1
    <3> QED  BY <3>1, <3>2
  <2>2. Queues(n, t)
    BY <1>1, <2>1, RivalFacts DEF Outbid, Queues, Rivals, Txs
  <2> QED  BY <1>1, <2>2 DEF Grows
<1>2. CASE m # n
  <2>1. m = [n EXCEPT !.queued = (@ \ Rivals(t)) \cup {t}, !.syncTxs = TRUE,
                      !.needReset = @ \/ Rivals(t) \cap n.queued # {}]
    BY <1>2 DEF TakeIn
  <2> HIDE DEF m
  <2>2. /\ DOMAIN m = DOMAIN n /\ m.queued = (n.queued \ Rivals(t)) \cup {t}
        /\ m.head = n.head /\ m.ready = n.ready /\ m.route = n.route
        /\ m.pre = n.pre /\ m.working = n.working /\ m.post = n.post
    BY <2>1 DEF Fields
  <2>3. Txs(m.queued)
    <3>1. IsFiniteSet(n.queued \ Rivals(t))
      BY FS_Subset DEF Txs
    <3>2. IsFiniteSet((n.queued \ Rivals(t)) \cup {t})
      BY <3>1, FS_AddElement
    <3> QED  BY <2>2, <3>2 DEF Txs
  <2>4. ASSUME NEW u \in ClientTx, Rivals(u) \cap n.queued # {} PROVE Rivals(u) \cap m.queued # {}
    <3>1. PICK v \in n.queued : v \in Rivals(u)
      BY <2>4
    <3>2. CASE v \in Rivals(t)
      <4>1. Rivals(u) = Rivals(v) /\ Rivals(v) = Rivals(t)
        BY <3>1, <3>2, RivalFacts DEF Txs
      <4> QED  BY <2>2, <4>1, RivalFacts
    <3> QED  BY <2>2, <3>1, <3>2
  <2>5. Queues(m, t)
    BY <2>2, RivalFacts DEF Queues
  <2> QED  BY <2>2, <2>3, <2>4, <2>5 DEF Grows, m
<1> QED  BY <1>1, <1>2

\* What grows, grows on.
LEMMA GrowsOn ==
    ASSUME NEW n, NEW m, NEW o, Grows(n, m), Grows(m, o)
    PROVE  Grows(n, o)
BY DEF Grows

\* Many are taken in, one by one: the queue has grown, and has all that were.
TakeOne(t, m) == TakeIn(m, t)
TakenIn(n, m, D) == Grows(n, m) /\ \A t \in D : Queues(m, t)
Itself(p, t) == t
Taken == INSTANCE FoldFacts WITH op <- TakeOne, val <- Itself,
            Holds <- TakenIn

\* Of each transaction of T, the queue then has it or a rival.
LEMMA TakeAllGrows ==
    ASSUME NEW n, Fields \subseteq DOMAIN n, Txs(n.queued), NEW T, Txs(T)
    PROVE  Grows(n, TakeAll(n, T)) /\ \A t \in T : Queues(TakeAll(n, T), t)
<1>1. TakeAll(n, T) = Taken!SetFold(n, n, T)
  BY DEF TakeAll, FoldSet, MapThenFoldSet, Taken!SetFold, Taken!SetTurns, Taken!Chosen, TakeOne, Itself
<1>2. Grows(n, n) /\ \A t \in {} : Queues(n, t)
  BY DEF Grows
<1>3. ASSUME NEW D \in SUBSET T, NEW e \in T, NEW m, Grows(n, m), \A t \in D : Queues(m, t)
      PROVE  Grows(n, TakeOne(e, m)) /\ \A t \in D \cup {e} : Queues(TakeOne(e, m), t)
  <2>1. Fields \subseteq DOMAIN m /\ Txs(m.queued) /\ e \in ClientTx /\ D \subseteq ClientTx
    BY <1>3 DEF Grows, Txs
  <2>2. Grows(m, TakeIn(m, e)) /\ Queues(TakeIn(m, e), e)
    BY <2>1, TakeInGrows
  <2>3. \A t \in D : Queues(TakeIn(m, e), t)
    BY <1>3, <2>1, <2>2 DEF Grows, Queues
  <2> QED  BY <1>3, <2>2, <2>3, GrowsOn DEF TakeOne
<1>4. TakenIn(n, n, {}) /\ IsFiniteSet(T)
  BY <1>2 DEF TakenIn, Txs
<1>5. \A D \in SUBSET T : \A e \in T : \A m : TakenIn(n, m, D) => TakenIn(n, TakeOne(Itself(n, e), m), D \cup {e})
  BY <1>3 DEF TakenIn, Itself
<1>6. TakenIn(n, Taken!SetFold(n, n, T), T)
  <2>1. Taken!IsFiniteSet(T)
    BY <1>4 DEF IsFiniteSet, Taken!IsFiniteSet
  <2> QED  BY <1>4, <1>5, <2>1, Taken!SetFoldHolds
<1> QED  BY <1>1, <1>6 DEF TakenIn

\* The transactions of dead blocks are taken in, block by block.
TakeBlock(m, b) == TakeAll(m, Contents(b))
Reviving == INSTANCE FoldFacts WITH op <- TakeBlock, val <- Itself,
               Holds <- LAMBDA p, m, k : Grows(p[1], m) /\ \A i \in 1..k : \A t \in Contents(p[2][i]) : Queues(m, t)

\* So it is with each transaction of each dead block.
LEMMA ReviveGrows ==
    ASSUME NEW n, Fields \subseteq DOMAIN n, Txs(n.queued), NEW dead \in Seq(Tree)
    PROVE  LET m == FoldLeft(LAMBDA x, b : TakeAll(x, Contents(b)), n, dead)
           IN  Grows(n, m) /\ \A b \in Range(dead) : \A t \in Contents(b) : Queues(m, t)
<1> DEFINE m == FoldLeft(LAMBDA x, b : TakeAll(x, Contents(b)), n, dead)
           f == Reviving!LeftFold(n, dead)
           p == <<n, dead>>
           H(x, k) == Grows(p[1], x) /\ \A i \in 1..k : \A t \in Contents(p[2][i]) : Queues(x, t)
<1>1. m = f
  BY DEF FoldLeft, MapThenFoldSet, Max, Reviving!LeftFold, Reviving!Turns, Reviving!Highest, TakeBlock
<1>2. Len(dead) \in Nat /\ DOMAIN dead = 1..Len(dead) /\ \A i \in 1..Len(dead) : dead[i] \in Tree
  OBVIOUS
<1>3. H(n, 0)
  BY DEF Grows
<1>4. ASSUME NEW k \in Nat, NEW x, k < Len(dead), H(x, k)
      PROVE  H(TakeBlock(x, dead[k + 1]), k + 1)
  <2> DEFINE T == Contents(dead[k + 1])
             y == TakeAll(x, T)
  <2>1. Txs(T) /\ \A i \in 1..k : Contents(dead[i]) \subseteq ClientTx
    BY <1>2, <1>4, ClientAssumption DEF Txs
  <2>2. Grows(n, x) /\ Fields \subseteq DOMAIN x /\ Txs(x.queued) /\ \A i \in 1..k : \A t \in Contents(dead[i]) : Queues(x, t)
    BY <1>4 DEF Grows
  <2>3. Grows(x, y) /\ \A t \in T : Queues(y, t)
    BY <2>1, <2>2, TakeAllGrows
  <2> HIDE DEF y
  <2>4. ASSUME NEW i \in 1..k + 1, NEW t \in Contents(dead[i]) PROVE Queues(y, t)
    <3>1. CASE i \in 1..k
      <4>1. t \in ClientTx /\ Queues(x, t)
        BY <2>1, <2>2, <3>1
      <4> QED  BY <2>3, <4>1 DEF Grows, Queues
    <3>2. CASE i = k + 1
      BY <2>3, <3>2
    <3> QED  BY <3>1, <3>2
  <2>5. Grows(n, y)
    BY <2>2, <2>3, GrowsOn
  <2> QED  BY <2>4, <2>5 DEF TakeBlock, y
<1>5. H(f, Len(dead))
  BY <1>2, <1>3, <1>4, Reviving!LeftFoldHolds
<1> HIDE DEF m, f
<1>6. Grows(n, m) /\ \A i \in 1..Len(dead) : \A t \in Contents(dead[i]) : Queues(m, t)
  BY <1>1, <1>5
<1> QED  BY <1>2, <1>6 DEF m, Range
-----------------------------------------------------------------------------
\* The blocks of S with a higher number.
Above(S, x) == {y \in S : Number(y) > Number(x)}

\* On a branch no two blocks have as many above them, and so each block of a part
\* of it has its place in the order.
LEMMA DownwardsIs ==
    ASSUME NEW h \in Tree, NEW S, S \subseteq Branch(h)
    PROVE  Downwards(S) \in Seq(Tree) /\ S \subseteq Range(Downwards(S))
<1> DEFINE n == Cardinality(S)
           d == Downwards(S)
           f == [x \in S |-> Cardinality(Above(S, x))]
<1>1. IsFiniteSet(S) /\ n \in Nat
  BY BranchFinite, FS_Subset, FS_CardinalityType
<1>2. \A x \in S : x \in Tree /\ Number(x) \in Nat
  BY BranchIn, BlockFacts
<1>3. \A x \in S : /\ Above(S, x) \subseteq S \ {x} /\ IsFiniteSet(Above(S, x))
                   /\ Cardinality(Above(S, x)) \in Nat /\ x \notin Above(S, x)
  BY <1>1, <1>2, FS_Subset, FS_CardinalityType DEF Above
<1>4. \A x \in S : f[x] \in 0..n - 1
  <2> TAKE x \in S
  <2>1. IsFiniteSet(S \ {x}) /\ Cardinality(S \ {x}) = n - 1
    BY <1>1, FS_RemoveElement
  <2>2. Cardinality(Above(S, x)) <= n - 1
    BY <2>1, <1>3, FS_Subset
  <2> QED  BY <1>1, <1>3, <2>2
<1>5. ASSUME NEW x \in S, NEW y \in S, Number(x) < Number(y) PROVE f[y] < f[x]
  <2>1. Above(S, y) \cup {y} \subseteq Above(S, x)
    BY <1>2, <1>5 DEF Above
  <2>2. Cardinality(Above(S, y) \cup {y}) = Cardinality(Above(S, y)) + 1
    BY <1>3, FS_AddElement
  <2>3. Cardinality(Above(S, y) \cup {y}) <= Cardinality(Above(S, x))
    BY <1>3, <2>1, FS_Subset
  <2> QED  BY <1>3, <2>2, <2>3
<1>6. \A x, y \in S : f[x] = f[y] => x = y
  <2> SUFFICES ASSUME NEW x \in S, NEW y \in S, f[x] = f[y], x # y PROVE FALSE
    OBVIOUS
  <2>1. Number(x) # Number(y)
    BY BranchUnique
  <2>2. f[x] \in Int /\ (Number(x) < Number(y) \/ Number(y) < Number(x))
    BY <1>2, <1>4, <2>1
  <2>3. f[y] < f[x] \/ f[x] < f[y]
    BY <1>5, <2>2
  <2> HIDE DEF f
  <2> QED  BY <2>2, <2>3
<1>7. \A k \in 0..n - 1 : \E x \in S : f[x] = k
  <2>1. f \in Injection(S, 0..n - 1)
    BY <1>4, <1>6 DEF Injection, IsInjective
  <2>2. IsFiniteSet(0..n - 1) /\ Cardinality(0..n - 1) = n
    BY <1>1, FS_Interval
  <2>3. f \in Surjection(S, 0..n - 1)
    BY <2>1, <2>2, FS_Injection
  <2> HIDE DEF f
  <2> QED  BY <2>3 DEF Surjection
<1>8. d = [i \in 1..n |-> CHOOSE x \in S : Cardinality(Above(S, x)) = i - 1]
  BY DEF Downwards, InOrder, Above
<1>9. \A i \in 1..n : d[i] \in S /\ Cardinality(Above(S, d[i])) = i - 1
  <2> TAKE i \in 1..n
  <2>1. i - 1 \in 0..n - 1
    BY <1>1
  <2>2. \E x \in S : Cardinality(Above(S, x)) = i - 1
    BY <1>7, <2>1
  <2> QED  BY <1>8, <2>2
<1>10. d \in Seq(Tree)
  <2> HIDE DEF d
  <2>1. d \in [1..n -> Tree]
    BY <1>2, <1>8, <1>9
  <2> QED  BY <1>1, <2>1
<1>11. ASSUME NEW x \in S PROVE x \in Range(d)
  <2> DEFINE i == Cardinality(Above(S, x)) + 1
  <2>1. i \in 1..n /\ i - 1 = Cardinality(Above(S, x))
    BY <1>1, <1>3, <1>4
  <2> HIDE DEF i
  <2>2. d[i] = x
    BY <1>6, <1>9, <2>1
  <2> HIDE DEF d
  <2>3. i \in DOMAIN d
    BY <1>8, <2>1
  <2> QED  BY <2>2, <2>3 DEF Range
<1> QED  BY <1>10, <1>11

\* The weight of a chain is a sum.
Plus(x, y) == x + y
WeightOf(p, b) == Difficulty(b)
NoClaim(p, x, D) == TRUE
Weighing == INSTANCE FoldFacts WITH op <- Plus, val <- WeightOf, Holds <- NoClaim

\* A block on a chain has no more difficulty below it than the chain.
LEMMA WeightGrows ==
    ASSUME NEW h \in Tree, NEW b \in Branch(h)
    PROVE  ChainDifficulty(b) <= ChainDifficulty(h)
<1>1. b \in Tree /\ Branch(b) \subseteq Branch(h)
  BY BranchNested
<1>2. \A c \in Tree : ChainDifficulty(c) = Weighing!Sum(0, Branch(c))
  BY DEF ChainDifficulty, MapThenSumSet, MapThenFoldSet, Weighing!Sum, Weighing!SetFold,
         Weighing!SetTurns, Weighing!Chosen, Plus, WeightOf
<1>3. IsFiniteSet(Branch(h)) /\ \A c \in Branch(h) : WeightOf(0, c) \in Nat
  BY BranchFinite, BranchIn, BlockAssumption DEF WeightOf, Tree
<1>4. Weighing!IsFiniteSet(Branch(h))
  BY <1>3 DEF IsFiniteSet, Weighing!IsFiniteSet
<1>5. Weighing!Adds
  BY DEF Weighing!Adds, Plus
<1>6. Weighing!Sum(0, Branch(b)) <= Weighing!Sum(0, Branch(h))
  BY <1>1, <1>3, <1>4, <1>5, Weighing!SumGrows
<1> QED  BY <1>1, <1>2, <1>6
-----------------------------------------------------------------------------
\* What two sequences have, one after the other.
LEMMA RangeJoins ==
    ASSUME NEW S, NEW x \in Seq(S), NEW y \in Seq(S)
    PROVE  x \o y \in Seq(S) /\ Range(x \o y) = Range(x) \cup Range(y)
<1>1. /\ x \o y \in Seq(S) /\ Len(x) \in Nat /\ Len(y) \in Nat /\ Len(x \o y) = Len(x) + Len(y)
      /\ DOMAIN x = 1..Len(x) /\ DOMAIN y = 1..Len(y) /\ DOMAIN (x \o y) = 1..Len(x) + Len(y)
      /\ \A i \in 1..Len(x) + Len(y) : (x \o y)[i] = IF i <= Len(x) THEN x[i] ELSE y[i - Len(x)]
  OBVIOUS
<1> DEFINE z == x \o y
<1>2. ASSUME NEW v \in Range(z) PROVE v \in Range(x) \cup Range(y)
  <2>1. PICK i \in 1..Len(x) + Len(y) : v = z[i]
    BY <1>1 DEF Range
  <2>2. CASE i <= Len(x)
    <3>1. i \in 1..Len(x) /\ v = x[i]
      BY <1>1, <2>1, <2>2
    <3> QED  BY <1>1, <3>1 DEF Range
  <2>3. CASE ~ (i <= Len(x))
    <3>1. i - Len(x) \in 1..Len(y) /\ v = y[i - Len(x)]
      BY <1>1, <2>1, <2>3
    <3> QED  BY <1>1, <3>1 DEF Range
  <2> QED  BY <2>2, <2>3
<1>3. ASSUME NEW v \in Range(x) PROVE v \in Range(z)
  <2>1. PICK i \in 1..Len(x) : v = x[i]
    BY <1>1, <1>3 DEF Range
  <2>2. i \in 1..Len(x) + Len(y) /\ z[i] = v
    BY <1>1, <2>1
  <2> HIDE DEF z
  <2> QED  BY <1>1, <2>2 DEF Range, z
<1>4. ASSUME NEW v \in Range(y) PROVE v \in Range(z)
  <2>1. PICK i \in 1..Len(y) : v = y[i]
    BY <1>1, <1>4 DEF Range
  <2>2. i + Len(x) \in 1..Len(x) + Len(y) /\ ~ (i + Len(x) <= Len(x)) /\ (i + Len(x)) - Len(x) = i
    BY <1>1
  <2>3. z[i + Len(x)] = v
    BY <1>1, <2>1, <2>2
  <2> HIDE DEF z
  <2> QED  BY <1>1, <2>2, <2>3 DEF Range, z
<1> QED  BY <1>1, <1>2, <1>3, <1>4
-----------------------------------------------------------------------------
\* What importing blocks keeps, from p to m: the queue, the blocks that are worked
\* on, and the transactions that are on the chain or dead.
BlockImported(p, m) ==
    /\ Fields \subseteq DOMAIN m
    /\ m.ready = p.ready /\ m.queued = p.queued
    /\ m.pre = p.pre /\ m.working = p.working /\ m.post = p.post
    /\ m.head \in Tree /\ RouteShaped(m.route)
    /\ ChainTxs(p.head) \cup DeadTxs(p) \subseteq ChainTxs(m.head) \cup DeadTxs(m)

\* A block with more difficulty makes others dead, and is itself live.
LEMMA ImportKeeps ==
    ASSUME NEW n, BlockImported(n, n), NEW b \in Tree
    PROVE  BlockImported(n, ImportBlock(n, b))
<1> DEFINE m == ImportBlock(n, b)
           good == [n EXCEPT !.route.good = @ \cup Contents(b)]
           off == Branch(n.head) \ Branch(b)
           new == Branch(b) \ Branch(n.head)
<1>1. /\ Fields \subseteq DOMAIN n /\ n.head \in Tree /\ RouteShaped(n.route)
  BY DEF BlockImported
<1>2. CASE ChainDifficulty(b) <= ChainDifficulty(n.head)
  <2>1. m = good
    BY <1>2 DEF ImportBlock
  <2> DEFINE r == [n.route EXCEPT !.good = @ \cup Contents(b)]
  <2>2. m.route = r /\ Fields \subseteq DOMAIN m
    BY <1>1, <2>1 DEF Fields
  <2>3. r.dead = n.route.dead /\ RouteShaped(r)
    BY <1>1 DEF RouteShaped
  <2> HIDE DEF r, m
  <2>4. /\ m.ready = n.ready /\ m.queued = n.queued /\ m.head = n.head
        /\ m.pre = n.pre /\ m.working = n.working /\ m.post = n.post
    BY <2>1
  <2>5. DeadTxs(m) = DeadTxs(n)
    BY <2>2, <2>3 DEF DeadTxs
  <2>6. BlockImported(n, m)
    BY <1>1, <2>2, <2>3, <2>4, <2>5 DEF BlockImported
  <2> QED  BY <2>6 DEF m
<1>3. CASE ~ (ChainDifficulty(b) <= ChainDifficulty(n.head))
  <2> DEFINE r == [n.route EXCEPT !.good = @ \cup Contents(b), !.dead = @ \o Downwards(off), !.live = @ \cup new]
  <2>1. m = [good EXCEPT !.head = b, !.route.dead = @ \o Downwards(off), !.route.live = @ \cup new]
    BY <1>3 DEF ImportBlock
  <2>2. /\ m.route = r /\ Fields \subseteq DOMAIN m /\ m.head = b
        /\ m.ready = n.ready /\ m.queued = n.queued
        /\ m.pre = n.pre /\ m.working = n.working /\ m.post = n.post
    BY <1>1, <2>1 DEF Fields, RouteShaped
  <2>3. r.dead = n.route.dead \o Downwards(off) /\ r.live = n.route.live \cup new /\ {"dead", "live", "good"} \subseteq DOMAIN r
    BY <1>1 DEF RouteShaped
  <2>4. b \in new
    <3>1. b \in Branch(b)
      BY BranchIn
    <3>2. b \notin Branch(n.head)
      BY <1>1, <1>3, WeightGrows
    <3> QED  BY <3>1, <3>2
  <2> HIDE DEF m, r
  <2>5. n.route.dead \in Seq(Tree) /\ Downwards(off) \in Seq(Tree) /\ off \subseteq Range(Downwards(off))
    BY <1>1, DownwardsIs DEF RouteShaped
  <2>6. r.dead \in Seq(Tree) /\ Range(r.dead) = Range(n.route.dead) \cup Range(Downwards(off))
    <3> DEFINE x == n.route.dead
               y == Downwards(off)
    <3>1. x \in Seq(Tree) /\ y \in Seq(Tree)
      BY <2>5
    <3> HIDE DEF x, y
    <3>2. x \o y \in Seq(Tree) /\ Range(x \o y) = Range(x) \cup Range(y)
      BY <3>1, RangeJoins
    <3> QED  BY <2>3, <3>2 DEF x, y
  <2>7. RouteShaped(r)
    BY <2>3, <2>4, <2>6 DEF RouteShaped
  <2>8. DeadTxs(n) \subseteq DeadTxs(m) /\ \A c \in off : Contents(c) \subseteq DeadTxs(m)
    BY <2>2, <2>5, <2>6 DEF DeadTxs
  <2>9. ChainTxs(n.head) \subseteq ChainTxs(m.head) \cup DeadTxs(m)
    BY <2>2, <2>8 DEF ChainTxs
  <2>10. BlockImported(n, m)
    BY <1>1, <2>2, <2>7, <2>8, <2>9 DEF BlockImported
  <2> QED  BY <2>10 DEF m
<1> QED  BY <1>2, <1>3

\* So does a fold of it.
ImportedAll(p, m, k) == BlockImported(p, m)
Importing == INSTANCE FoldFacts WITH op <- ImportBlock, val <- Itself, Holds <- ImportedAll

\* As many as the queue gives are imported one after the other.
LEMMA ImportAllKeeps ==
    ASSUME NEW n, BlockImported(n, n), NEW blocks \in Seq(Block)
    PROVE  BlockImported(n, FoldLeft(ImportBlock, n, blocks))
<1> DEFINE f == Importing!LeftFold(n, blocks)
<1>1. FoldLeft(ImportBlock, n, blocks) = f
  BY DEF FoldLeft, MapThenFoldSet, Max, Importing!LeftFold, Importing!Turns, Importing!Highest
<1>2. Len(blocks) \in Nat /\ DOMAIN blocks = 1..Len(blocks) /\ \A k \in 1..Len(blocks) : blocks[k] \in Tree
  BY DEF Tree
<1>3. ASSUME NEW k \in Nat, NEW x, k < Len(blocks), BlockImported(n, x)
      PROVE  BlockImported(n, ImportBlock(x, blocks[k + 1]))
  <2>1. blocks[k + 1] \in Tree /\ BlockImported(x, x)
    BY <1>2, <1>3 DEF BlockImported
  <2>2. BlockImported(x, ImportBlock(x, blocks[k + 1]))
    BY <2>1, ImportKeeps
  <2> QED  BY <1>3, <2>2 DEF BlockImported
<1>4. ImportedAll(n, n, 0)
  BY DEF ImportedAll
<1>5. \A k \in Nat : \A x : k < Len(blocks) /\ ImportedAll(n, x, k)
                               => ImportedAll(n, ImportBlock(x, blocks[k + 1]), k + 1)
  BY <1>3 DEF ImportedAll
<1>6. ImportedAll(n, f, Len(blocks))
  BY <1>2, <1>4, <1>5, Importing!LeftFoldHolds
<1> QED  BY <1>1, <1>6 DEF ImportedAll
-----------------------------------------------------------------------------
(* The invariant. *)

\* Of each accepted transaction a rival is somewhere.
Kept(a, n, mis) ==
    \A t \in a : Rivals(t) \cap (n.queued \cup ChainTxs(n.head) \cup mis \cup DeadTxs(n)) # {}

\* With the shape of what the client has: before transactions are executed the block
\* that is worked on is on the head, and the dead blocks are given back before the
\* good transactions are dropped.
ClientInv ==
    /\ ClientShaped(client) /\ accepted \subseteq ClientTx
    /\ stage = "executes" => client.working.on = client.head
    /\ stage = "resubmitted" => client.route.dead = <<>>
    /\ Kept(accepted, client, misled)

\* The invariant says what is promised.
LEMMA ClientMeans == ClientInv => TransactionsAreKept
BY DEF ClientInv, Kept, TransactionsAreKept, DeadTxs

\* Transactions stay kept when the queue grows,
LEMMA KeptGrows ==
    ASSUME NEW a, a \subseteq ClientTx, NEW n, NEW m, NEW mis, Kept(a, n, mis), Grows(n, m)
    PROVE  Kept(a, m, mis)
BY DEF Kept, Grows, DeadTxs

\* and when queue, head and route stay as they are.
LEMMA KeptAlike ==
    ASSUME NEW a, NEW n, NEW m, NEW mis, Kept(a, n, mis),
           m.head = n.head, m.queued = n.queued, m.route = n.route
    PROVE  Kept(a, m, mis)
BY DEF Kept, DeadTxs

\* What grows has the shape.
LEMMA GrowsShaped ==
    ASSUME NEW n, NEW m, ClientShaped(n), Grows(n, m)
    PROVE  ClientShaped(m)
BY DEF ClientShaped, Grows

\* It holds at the start.
LEMMA ClientStart == ClientInit => ClientInv
<1> SUFFICES ASSUME ClientInit PROVE ClientInv
  OBVIOUS
<1>1. Genesis \in Tree /\ IsFiniteSet({})
  BY BlockFacts, FS_EmptySet
<1>2. ClientShaped(client)
  <2>1. WorkShaped(Work(Genesis)) /\ Txs({}) /\ RouteShaped(NoRoute)
    BY <1>1 DEF WorkShaped, Txs, RouteShaped, Work, NoRoute
  <2> DEFINE w == Work(Genesis)
             r == NoRoute
  <2>2. /\ Fields \subseteq DOMAIN client /\ client.head = Genesis /\ client.ready = <<>>
        /\ client.queued = {} /\ client.pre = w /\ client.working = w /\ client.post = w /\ client.route = r
    BY DEF ClientInit, Fields
  <2> HIDE DEF w, r
  <2> QED  BY <1>1, <2>1, <2>2 DEF ClientShaped, w, r
<1>3. accepted = {} /\ stage = "blocks"
  BY DEF ClientInit
<1> QED  BY <1>2, <1>3 DEF ClientInv, Kept

\* Import: what is dropped from the ready blocks is what is imported.
LEMMA SyncBlockQueueGood == ClientInv /\ SyncBlockQueue => ClientInv'
<1> SUFFICES ASSUME ClientInv, SyncBlockQueue PROVE ClientInv'
  OBVIOUS
<1> DEFINE count == IF Len(client.ready) < SyncAmount THEN Len(client.ready) ELSE SyncAmount
           n == [client EXCEPT !.syncBlocks = FALSE, !.ready = SubSeq(@, count + 1, Len(@))]
           blocks == SubSeq(client.ready, 1, count)
<1>1. ClientShaped(client) /\ client.ready \in Seq(Block)
  BY DEF ClientInv, ClientShaped
<1>2. count \in Nat /\ count <= Len(client.ready)
  BY <1>1, ClientAssumption
<1>3. blocks \in Seq(Block) /\ SubSeq(client.ready, count + 1, Len(client.ready)) \in Seq(Block)
  <2> HIDE DEF count
  <2>1. Len(client.ready) \in Nat /\ \A k \in 1..Len(client.ready) : client.ready[k] \in Block
    BY <1>1
  <2>2. blocks \in Seq(Block)
    BY <1>1, <1>2, <2>1
  <2>3. SubSeq(client.ready, count + 1, Len(client.ready)) \in Seq(Block)
    BY <1>1, <1>2, <2>1
  <2> QED  BY <2>2, <2>3
<1>4. /\ Fields \subseteq DOMAIN n /\ n.head = client.head /\ n.queued = client.queued
      /\ n.pre = client.pre /\ n.working = client.working /\ n.post = client.post
      /\ n.route = client.route /\ n.ready = SubSeq(client.ready, count + 1, Len(client.ready))
  <2> HIDE DEF count
  <2> QED  BY <1>1 DEF ClientShaped, Fields
<1>5. client' = FoldLeft(ImportBlock, n, blocks) /\ stage' = "imported"
      /\ accepted' = accepted /\ misled' = misled
  BY DEF SyncBlockQueue, Goes
<1> HIDE DEF count, n, blocks
<1>6. BlockImported(n, n) /\ ClientShaped(n) /\ Kept(accepted, n, misled)
  <2>1. ClientShaped(n)
    BY <1>1, <1>3, <1>4 DEF ClientShaped
  <2>2. BlockImported(n, n)
    BY <2>1 DEF BlockImported, ClientShaped
  <2>3. Kept(accepted, n, misled)
    BY <1>4, KeptAlike DEF ClientInv
  <2> QED  BY <2>1, <2>2, <2>3
<1>7. BlockImported(n, client')
  BY <1>3, <1>5, <1>6, ImportAllKeeps
<1>8. ClientShaped(client')
  BY <1>6, <1>7 DEF BlockImported, ClientShaped
<1>9. Kept(accepted, client', misled)
  BY <1>6, <1>7 DEF BlockImported, Kept
<1> QED  BY <1>5, <1>8, <1>9 DEF ClientInv, ClientShaped, Kept, DeadTxs

\* A step of the round that takes no route away and adds no transaction.
LEMMA NoBlocksGood == ClientInv /\ (NoBlocks \/ NoTxs) => ClientInv'
BY DEF ClientInv, ClientShaped, NoBlocks, NoTxs, Goes, Kept, DeadTxs

\* Nor does it when it looks whether more blocks are ready.
LEMMA DrainDoneGood == ClientInv /\ DrainDone => ClientInv'
<1> SUFFICES ASSUME ClientInv, DrainDone PROVE ClientInv'
  OBVIOUS
<1>1. /\ \A f \in Fields : client'[f] = client[f]
      /\ DOMAIN client' = DOMAIN client /\ stage' = "drained" /\ accepted' = accepted /\ misled' = misled
  BY DEF DrainDone, Goes, Fields, ClientInv, ClientShaped
<1> QED  BY <1>1 DEF ClientInv, ClientShaped, Fields, Kept, DeadTxs

\* A route without live blocks has no dead ones to forget.
LEMMA AfterDrainGood == ClientInv /\ AfterDrain => ClientInv'
<1> SUFFICES ASSUME ClientInv, AfterDrain PROVE ClientInv'
  OBVIOUS
<1>1. ClientShaped(client)
  BY DEF ClientInv
<1> DEFINE r == IF client.route.live = {} THEN NoRoute ELSE client.route
<1>2. /\ client' = [client EXCEPT !.syncBlocks = client.more, !.route = r]
      /\ stage' \in {"reset", "changed"} /\ accepted' = accepted /\ misled' = misled
  BY DEF AfterDrain, Goes
<1>3. RouteShaped(r) /\ r.dead = client.route.dead
  BY <1>1 DEF ClientShaped, RouteShaped, NoRoute
<1> HIDE DEF r
<1>4. /\ \A f \in Fields \ {"route"} : client'[f] = client[f]
      /\ DOMAIN client' = DOMAIN client /\ client'.route = r
  BY <1>1, <1>2 DEF Fields, ClientShaped
<1>5. ClientShaped(client')
  BY <1>1, <1>3, <1>4 DEF ClientShaped, Fields
<1>6. Kept(accepted, client', misled)
  BY <1>3, <1>4 DEF ClientInv, Kept, DeadTxs, Fields
<1> QED  BY <1>2, <1>5, <1>6 DEF ClientInv, ClientShaped, Kept, DeadTxs

\* Of each transaction of a dead block a rival is in the queue after.
LEMMA OnDeadBlocksGood == ClientInv /\ OnDeadBlocks => ClientInv'
<1> SUFFICES ASSUME ClientInv, OnDeadBlocks PROVE ClientInv'
  OBVIOUS
<1> DEFINE n == FoldLeft(LAMBDA x, b : TakeAll(x, Contents(b)), client, client.route.dead)
           r == [client.route EXCEPT !.dead = <<>>]
<1>1. ClientShaped(client) /\ accepted \subseteq ClientTx
  BY DEF ClientInv
<1>2. /\ client' = [n EXCEPT !.route.dead = <<>>]
      /\ stage' = "resubmitted" /\ accepted' = accepted /\ misled' = misled
  BY DEF OnDeadBlocks, Goes
<1>3. client.route.dead \in Seq(Tree) /\ Fields \subseteq DOMAIN client /\ Txs(client.queued)
  BY <1>1 DEF ClientShaped, RouteShaped
<1>4. Grows(client, n) /\ \A b \in Range(client.route.dead) : \A t \in Contents(b) : Queues(n, t)
  BY <1>3, ReviveGrows
<1> HIDE DEF n
<1>5. ClientShaped(n)
  BY <1>1, <1>4, GrowsShaped
<1>6. /\ \A f \in Fields \ {"route"} : client'[f] = n[f]
      /\ DOMAIN client' = DOMAIN n /\ client'.route = r
  BY <1>2, <1>4, <1>5 DEF Fields, ClientShaped, Grows
<1>7. RouteShaped(r) /\ r.dead = <<>>
  BY <1>1 DEF ClientShaped, RouteShaped
<1> HIDE DEF r
<1>8. ClientShaped(client')
  BY <1>5, <1>6, <1>7 DEF ClientShaped, Fields
<1>9. ASSUME NEW t \in accepted
      PROVE  Rivals(t) \cap (client'.queued \cup ChainTxs(client'.head) \cup misled \cup DeadTxs(client')) # {}
  <2>1. client'.queued = n.queued /\ client'.head = client.head
    BY <1>4, <1>6 DEF Fields, Grows
  <2>2. t \in ClientTx
    BY <1>1
  <2>3. CASE Rivals(t) \cap (ChainTxs(client.head) \cup misled) # {}
    BY <2>1, <2>3
  <2>4. CASE Rivals(t) \cap client.queued # {}
    BY <1>4, <2>1, <2>2, <2>4 DEF Grows
  <2>5. CASE Rivals(t) \cap DeadTxs(client) # {}
    <3>1. PICK b \in Range(client.route.dead) : \E v \in Contents(b) : v \in Rivals(t)
      BY <2>5 DEF DeadTxs
    <3>2. PICK u \in Contents(b) : u \in Rivals(t)
      BY <3>1
    <3>3. Queues(n, u) /\ Rivals(u) = Rivals(t)
      BY <1>4, <2>2, <3>2, RivalFacts DEF Rivals
    <3> QED  BY <2>1, <3>3 DEF Queues
  <2> QED  BY <2>3, <2>4, <2>5 DEF ClientInv, Kept
<1> QED  BY <1>1, <1>2, <1>6, <1>7, <1>8, <1>9 DEF ClientInv, ClientShaped, Kept, DeadTxs

\* A transaction that is dropped as good is on the chain, or misled.
LEMMA DropGoodTxsGood == ClientInv /\ DropGoodTxs => ClientInv'
<1> SUFFICES ASSUME ClientInv, DropGoodTxs PROVE ClientInv'
  OBVIOUS
<1> DEFINE rest == client.queued \ client.route.good
<1>1. ClientShaped(client) /\ client.route.dead = <<>>
  BY DEF ClientInv, DropGoodTxs, Goes
<1>2. /\ client' = [client EXCEPT !.queued = rest, !.route = NoRoute] /\ stage' = "dropped"
      /\ accepted' = accepted /\ misled' = misled \cup (client.route.good \ ChainTxs(client.head))
  BY DEF DropGoodTxs, Goes
<1> HIDE DEF rest
<1>3. /\ \A f \in Fields \ {"route", "queued"} : client'[f] = client[f]
      /\ DOMAIN client' = DOMAIN client /\ client'.route = NoRoute /\ client'.queued = rest
  BY <1>1, <1>2 DEF Fields, ClientShaped
<1>4. Txs(rest) /\ RouteShaped(NoRoute) /\ DeadTxs(client) = {}
  BY <1>1, FS_Subset DEF ClientShaped, Txs, RouteShaped, NoRoute, DeadTxs, Range, rest
<1>5. ClientShaped(client')
  BY <1>1, <1>3, <1>4 DEF ClientShaped, Fields
<1>6. \A t \in accepted : Rivals(t) \cap (rest \cup ChainTxs(client.head) \cup misled') # {}
  BY <1>2, <1>4 DEF ClientInv, Kept, rest
<1>7. Kept(accepted', client', misled')
  BY <1>2, <1>3, <1>6 DEF Kept, Fields
<1> QED  BY <1>2, <1>5, <1>7 DEF ClientInv, ClientShaped, Kept, DeadTxs

\* A block that is worked on anew is on the head, and the transactions of the one
\* given up are in the queue.
LEMMA ResyncKeeps ==
    ASSUME NEW n, NEW a, a \subseteq ClientTx, NEW mis, ClientShaped(n), Kept(a, n, mis)
    PROVE  LET m == ResyncStateFromChain(n)
           IN  /\ ClientShaped(m) /\ Kept(a, m, mis) /\ m.route = n.route
               /\ m.head = n.head /\ m.working.on = n.head
<1> DEFINE m == ResyncStateFromChain(n)
<1>1. CASE n.working.on = n.head
  BY <1>1 DEF ResyncStateFromChain
<1>2. CASE n.working.on # n.head
  <2> DEFINE o == IF n.post.sealed = n.head THEN n ELSE TakeAll(n, n.post.txs)
             new == Work(n.head)
  <2>1. m = [o EXCEPT !.pre = new, !.working = new, !.post = new, !.syncTxs = TRUE]
    BY <1>2 DEF ResyncStateFromChain, RestartMining, ClientShaped
  <2>2. Grows(n, o)
    <3>1. Grows(n, n)
      BY DEF Grows, ClientShaped
    <3>2. Grows(n, TakeAll(n, n.post.txs))
      BY TakeAllGrows DEF ClientShaped, WorkShaped
    <3> QED  BY <3>1, <3>2
  <2> HIDE DEF o, m
  <2>3. ClientShaped(o) /\ Kept(a, o, mis) /\ o.head = n.head /\ o.route = n.route
    BY <2>2, GrowsShaped, KeptGrows DEF Grows
  <2>4. WorkShaped(new) /\ new.on = n.head
    BY FS_EmptySet DEF Work, WorkShaped, Txs
  <2> HIDE DEF new
  <2>5. /\ \A f \in Fields \ {"pre", "working", "post"} : m[f] = o[f]
        /\ DOMAIN m = DOMAIN o /\ m.pre = new /\ m.working = new /\ m.post = new
    BY <2>1, <2>3 DEF Fields, ClientShaped
  <2>6. ClientShaped(m)
    BY <2>3, <2>4, <2>5 DEF ClientShaped, Fields
  <2>7. Kept(a, m, mis)
    BY <2>3, <2>5, KeptAlike DEF Fields
  <2>8. m.route = n.route /\ m.head = n.head /\ m.working.on = n.head
    BY <2>3, <2>4, <2>5 DEF Fields
  <2> QED  BY <2>6, <2>7, <2>8 DEF m
<1> QED  BY <1>1, <1>2

\* The invariant only asks of the stage what it is.
LEMMA InvFrom ==
    ASSUME ClientShaped(client'), Kept(accepted', client', misled'), accepted' \subseteq ClientTx,
           stage' = "executes" => client'.working.on = client'.head,
           stage' = "resubmitted" => client'.route.dead = <<>>
    PROVE  ClientInv'
BY DEF ClientInv, ClientShaped, Kept, DeadTxs

\* Both ways to a new block to work on: when the chain changed, and before execution.
LEMMA ResyncsGood == ClientInv /\ (OnChainChanged \/ SyncTransactionQueue) => ClientInv'
<1> SUFFICES ASSUME ClientInv PROVE OnChainChanged \/ SyncTransactionQueue => ClientInv'
  OBVIOUS
<1>1. ClientShaped(client) /\ Kept(accepted, client, misled) /\ accepted \subseteq ClientTx
  BY DEF ClientInv
<1>2. ASSUME OnChainChanged PROVE ClientInv'
  <2> DEFINE m == ResyncStateFromChain(client)
  <2>1. ClientShaped(m) /\ Kept(accepted, m, misled)
    BY <1>1, ResyncKeeps
  <2>2. client' \in {client, m} /\ stage' = "reset" /\ accepted' = accepted /\ misled' = misled
    BY <1>2 DEF OnChainChanged, Goes
  <2> HIDE DEF m
  <2>3. ClientShaped(client') /\ Kept(accepted, client', misled)
    BY <1>1, <2>1, <2>2
  <2> QED  BY <1>1, <2>2, <2>3, InvFrom
<1>3. ASSUME SyncTransactionQueue PROVE ClientInv'
  <2> DEFINE n == [client EXCEPT !.syncTxs = FALSE]
             m == ResyncStateFromChain(n)
  <2>1. (\A f \in Fields : n[f] = client[f]) /\ DOMAIN n = DOMAIN client
    BY <1>1 DEF Fields, ClientShaped
  <2>2. client' = m /\ stage' = "executes" /\ accepted' = accepted /\ misled' = misled
    BY <1>3 DEF SyncTransactionQueue, Goes
  <2> HIDE DEF n
  <2>3. ClientShaped(n)
    BY <1>1, <2>1 DEF ClientShaped, Fields
  <2>4. Kept(accepted, n, misled)
    BY <1>1, <2>1, KeptAlike DEF Fields
  <2>5. ClientShaped(m) /\ Kept(accepted, m, misled) /\ m.head = n.head /\ m.working.on = n.head
    BY <1>1, <2>3, <2>4, ResyncKeeps
  <2> HIDE DEF m
  <2> QED  BY <1>1, <2>2, <2>5, InvFrom
<1> QED  BY <1>2, <1>3

\* A reset of the block that is worked on leaves the block below it.
LEMMA ResetsGood == ClientInv /\ (ResetIfNeeded \/ HasReset) => ClientInv'
<1> SUFFICES ASSUME ClientInv PROVE ResetIfNeeded \/ HasReset => ClientInv'
  OBVIOUS
<1>1. ClientShaped(client) /\ Kept(accepted, client, misled) /\ accepted \subseteq ClientTx
  BY DEF ClientInv
<1>2. ASSUME ResetIfNeeded PROVE ClientInv'
  <2> DEFINE n == ResetState(client)
  <2>1. /\ \A f \in Fields \ {"working", "post"} : n[f] = client[f]
        /\ DOMAIN n = DOMAIN client /\ n.working = client.pre /\ n.post = client.pre
    BY <1>1 DEF ResetState, Fields, ClientShaped
  <2>2. client' \in {client, n} /\ stage' \in {"hasReset", "txs"} /\ accepted' = accepted /\ misled' = misled
    BY <1>2 DEF ResetIfNeeded, Goes
  <2> HIDE DEF n
  <2>3. ClientShaped(n)
    BY <1>1, <2>1 DEF ClientShaped, Fields
  <2>4. Kept(accepted, n, misled)
    BY <1>1, <2>1, KeptAlike DEF Fields
  <2>5. ClientShaped(client') /\ Kept(accepted, client', misled)
    BY <1>1, <2>2, <2>3, <2>4
  <2> QED  BY <1>1, <2>2, <2>5, InvFrom
<1>3. ASSUME HasReset PROVE ClientInv'
  <2>1. /\ \A f \in Fields : client'[f] = client[f]
        /\ DOMAIN client' = DOMAIN client /\ stage' = "txs" /\ accepted' = accepted /\ misled' = misled
    BY <1>1, <1>3 DEF HasReset, Goes, Fields, ClientShaped
  <2>2. ClientShaped(client')
    BY <1>1, <2>1 DEF ClientShaped, Fields
  <2>3. Kept(accepted, client', misled)
    BY <1>1, <2>1, KeptAlike DEF Fields
  <2> QED  BY <1>1, <2>1, <2>2, <2>3, InvFrom
<1> QED  BY <1>2, <1>3

\* What execution drops has a rival on the chain of the block that is worked on,
\* which is the head's.
LEMMA ExecuteGood == ClientInv /\ Execute => ClientInv'
<1> SUFFICES ASSUME ClientInv, Execute PROVE ClientInv'
  OBVIOUS
<1> DEFINE old == {t \in client.queued : Rivals(t) \cap ChainTxs(client.working.on) # {}}
           fit == {t \in client.queued \ old : Rivals(t) \cap client.working.txs = {}}
           worked(T) == [client.working EXCEPT !.txs = @ \cup T, !.committed = @ /\ T = {}]
           rest == client.queued \ old
<1>1. /\ ClientShaped(client) /\ Kept(accepted, client, misled) /\ accepted \subseteq ClientTx
      /\ client.working.on = client.head
  BY DEF ClientInv, Execute, Goes
<1>2. stage' = "seals" /\ accepted' = accepted /\ misled' = misled
  BY DEF Execute, Goes
<1>3. CASE client.working.sealed # Unsealed
  <2>1. client' = client
    BY <1>3 DEF Execute
  <2> QED  BY <1>1, <1>2, <2>1, InvFrom
<1>4. CASE client.working.sealed = Unsealed
  <2>1. PICK T \in SUBSET fit, more \in BOOLEAN :
           client' = [client EXCEPT !.queued = @ \ old, !.dropped = @ \cup old, !.working = worked(T),
                                    !.post = IF T = {} THEN @ ELSE worked(T), !.syncTxs = more]
    BY <1>4 DEF Execute
  <2>2. T \subseteq client.queued
    OBVIOUS
  <2> DEFINE w == worked(T)
  <2>3. WorkShaped(w) /\ w.on = client.working.on
    <3>1. T \subseteq ClientTx /\ IsFiniteSet(T) /\ Txs(client.working.txs) /\ {"on", "txs"} \subseteq DOMAIN client.working
      BY <1>1, <2>2, FS_Subset DEF ClientShaped, Txs, WorkShaped
    <3>2. Txs(client.working.txs \cup T)
      BY <3>1, FS_Union DEF Txs
    <3>3. DOMAIN w = DOMAIN client.working /\ w.txs = client.working.txs \cup T /\ w.on = client.working.on
      BY <3>1
    <3> QED  BY <3>1, <3>2, <3>3 DEF WorkShaped
  <2> HIDE DEF old, fit, rest, w
  <2>4. /\ \A f \in Fields \ {"queued", "working", "post"} : client'[f] = client[f]
        /\ DOMAIN client' = DOMAIN client /\ client'.queued = rest /\ client'.working = w
        /\ client'.post \in {client.post, w}
    BY <1>1, <2>1 DEF Fields, ClientShaped, rest, w
  <2>5. Txs(rest)
    BY <1>1, FS_Subset DEF ClientShaped, Txs, rest
  <2>6. ClientShaped(client')
    BY <1>1, <2>3, <2>4, <2>5 DEF ClientShaped, Fields
  <2>7. ASSUME NEW t \in accepted
        PROVE  Rivals(t) \cap (rest \cup ChainTxs(client.head) \cup misled \cup DeadTxs(client)) # {}
    <3>1. CASE Rivals(t) \cap (ChainTxs(client.head) \cup misled \cup DeadTxs(client)) # {}
      BY <3>1
    <3>2. CASE Rivals(t) \cap client.queued # {}
      <4>1. PICK u \in client.queued : u \in Rivals(t)
        BY <3>2
      <4>2. CASE u \in old
        <5>1. Rivals(u) \cap ChainTxs(client.head) # {}
          BY <1>1, <4>2 DEF old
        <5>2. Rivals(u) = Rivals(t)
          BY <1>1, <4>1, RivalFacts DEF Rivals
        <5> QED  BY <5>1, <5>2
      <4>3. CASE u \notin old
        BY <4>1, <4>3 DEF rest
      <4> QED  BY <4>2, <4>3
    <3> QED  BY <1>1, <3>1, <3>2 DEF Kept
  <2>8. client'.head = client.head /\ DeadTxs(client') = DeadTxs(client)
    BY <2>4 DEF Fields, DeadTxs
  <2>9. Kept(accepted, client', misled)
    BY <2>4, <2>7, <2>8 DEF Kept
  <2> QED  BY <1>1, <1>2, <2>6, <2>9, InvFrom
<1> QED  BY <1>3, <1>4

\* Sealing changes neither the block below nor the transactions.
LEMMA RejigSealingGood == ClientInv /\ RejigSealing => ClientInv'
<1> SUFFICES ASSUME ClientInv, RejigSealing PROVE ClientInv'
  OBVIOUS
<1> DEFINE w == [client.working EXCEPT !.committed = TRUE]
<1>1. ClientShaped(client) /\ Kept(accepted, client, misled) /\ accepted \subseteq ClientTx
  BY DEF ClientInv
<1>2. /\ client' = client \/ client' = [client EXCEPT !.working = w, !.post = w, !.sealing = w]
      /\ stage' = "blocks" /\ accepted' = accepted /\ misled' = misled
  BY DEF RejigSealing, Goes
<1>3. WorkShaped(w) /\ w.on = client.working.on
  BY <1>1 DEF ClientShaped, WorkShaped
<1> HIDE DEF w
<1>4. CASE client' = client
  BY <1>1, <1>2, <1>4, InvFrom
<1>5. CASE client' # client
  <2>1. /\ \A f \in Fields \ {"working", "post"} : client'[f] = client[f]
        /\ DOMAIN client' = DOMAIN client /\ client'.working = w /\ client'.post = w
    BY <1>1, <1>2, <1>5 DEF Fields, ClientShaped
  <2>2. ClientShaped(client')
    BY <1>1, <1>3, <2>1 DEF ClientShaped, Fields
  <2>3. Kept(accepted, client', misled)
    BY <1>1, <2>1, KeptAlike DEF Fields
  <2> QED  BY <1>1, <1>2, <2>2, <2>3, InvFrom
<1> QED  BY <1>4, <1>5

\* Nor does a seal that comes in,
LEMMA SubmitSealedGood == ASSUME NEW b PROVE ClientInv /\ SubmitSealed(b) => ClientInv'
<1> SUFFICES ASSUME ClientInv, SubmitSealed(b) PROVE ClientInv'
  OBVIOUS
<1> DEFINE w == [client.working EXCEPT !.sealed = b]
<1>1. ClientShaped(client) /\ Kept(accepted, client, misled) /\ accepted \subseteq ClientTx
  BY DEF ClientInv
<1>2. /\ client' = [client EXCEPT !.working = w, !.post = w, !.made = @ \cup {b}]
      /\ stage' = stage /\ accepted' = accepted /\ misled' = misled
  BY DEF SubmitSealed
<1>3. WorkShaped(w) /\ w.on = client.working.on
  BY <1>1 DEF ClientShaped, WorkShaped
<1> HIDE DEF w
<1>4. /\ \A f \in Fields \ {"working", "post"} : client'[f] = client[f]
      /\ DOMAIN client' = DOMAIN client /\ client'.working = w /\ client'.post = w
  BY <1>1, <1>2 DEF Fields, ClientShaped
<1>5. ClientShaped(client')
  BY <1>1, <1>3, <1>4 DEF ClientShaped, Fields
<1>6. Kept(accepted, client', misled)
  BY <1>1, <1>4, KeptAlike DEF Fields
<1>7. /\ client'.working.on = client.working.on /\ client'.head = client.head
      /\ client'.route = client.route
  BY <1>3, <1>4 DEF Fields
<1> QED  BY <1>1, <1>2, <1>5, <1>6, <1>7, InvFrom DEF ClientInv

\* or a block that gets ready, in the midst of a round.
LEMMA BlockReadyGood == ASSUME NEW b PROVE ClientInv /\ BlockReady(b) => ClientInv'
<1> SUFFICES ASSUME ClientInv, BlockReady(b) PROVE ClientInv'
  OBVIOUS
<1>1. ClientShaped(client) /\ Kept(accepted, client, misled) /\ accepted \subseteq ClientTx
  BY DEF ClientInv
<1>2. /\ client' = [client EXCEPT !.arrived = @ \cup {b}, !.ready = Append(@, b), !.syncBlocks = TRUE]
      /\ stage' = stage /\ accepted' = accepted /\ misled' = misled /\ b \in Block
  BY DEF BlockReady
<1>3. /\ \A f \in Fields \ {"ready"} : client'[f] = client[f]
      /\ DOMAIN client' = DOMAIN client /\ client'.ready = Append(client.ready, b)
  BY <1>1, <1>2 DEF Fields, ClientShaped
<1>4. client'.ready \in Seq(Block)
  BY <1>1, <1>2, <1>3 DEF ClientShaped
<1>5. ClientShaped(client')
  BY <1>1, <1>3, <1>4 DEF ClientShaped, Fields
<1>6. Kept(accepted, client', misled)
  BY <1>1, <1>3, KeptAlike DEF Fields
<1>7. /\ client'.working.on = client.working.on /\ client'.head = client.head
      /\ client'.route = client.route
  BY <1>3 DEF Fields
<1> QED  BY <1>1, <1>2, <1>5, <1>6, <1>7, InvFrom DEF ClientInv

\* One that comes in is queued, and those it outbids are rivals of it.
LEMMA ImportTransactionGood ==
    ASSUME NEW t \in ClientTx PROVE ClientInv /\ ImportTransaction(t) => ClientInv'
<1> SUFFICES ASSUME ClientInv, ImportTransaction(t) PROVE ClientInv'
  OBVIOUS
<1>1. ClientShaped(client) /\ Kept(accepted, client, misled) /\ accepted \subseteq ClientTx
  BY DEF ClientInv
<1>2. /\ client' = TakeIn(client, t) /\ stage' = stage /\ misled' = misled
      /\ accepted' = (accepted \ Rivals(t)) \cup {t}
  BY DEF ImportTransaction
<1>3. Grows(client, client') /\ Queues(client', t)
  BY <1>1, <1>2, TakeInGrows DEF ClientShaped
<1>4. ClientShaped(client') /\ Kept(accepted, client', misled)
  BY <1>1, <1>3, GrowsShaped, KeptGrows
<1>5. Kept(accepted', client', misled') /\ accepted' \subseteq ClientTx
  BY <1>1, <1>2, <1>3, <1>4 DEF Kept, Queues
<1> QED  BY <1>2, <1>3, <1>4, <1>5, InvFrom DEF ClientInv, Grows

\* Every step keeps the invariant.
LEMMA ClientStep == ClientInv /\ [ClientNext]_clientVars => ClientInv'
<1> SUFFICES ASSUME ClientInv, [ClientNext]_clientVars PROVE ClientInv'
  OBVIOUS
<1>1. CASE DoWork
  BY <1>1, SyncBlockQueueGood, NoBlocksGood, DrainDoneGood, AfterDrainGood, OnDeadBlocksGood,
     DropGoodTxsGood, ResyncsGood, ResetsGood, ExecuteGood, RejigSealingGood DEF DoWork
<1>2. CASE \E b \in Block : BlockReady(b) \/ SubmitSealed(b)
  BY <1>2, BlockReadyGood, SubmitSealedGood
<1>3. CASE \E t \in ClientTx : ImportTransaction(t)
  BY <1>3, ImportTransactionGood
<1>4. CASE UNCHANGED clientVars
  BY <1>4 DEF ClientInv, ClientShaped, Kept, DeadTxs, clientVars
<1> QED  BY <1>1, <1>2, <1>3, <1>4 DEF ClientNext

\* No transaction that was taken in is lost: it or one that outbid it is queued, on
\* the chain, in a block that is about to be given back, or was dropped as good with
\* a side branch, whichever way import, reorganisation, sealing and execution fall.
THEOREM AcceptedIsKept == ClientSpec => []TransactionsAreKept
<1>1. ClientInit => ClientInv
  BY ClientStart
<1>2. ClientInv /\ [ClientNext]_clientVars => ClientInv'
  BY ClientStep
<1>3. ClientInv => TransactionsAreKept
  BY ClientMeans
<1> QED  BY <1>1, <1>2, <1>3, PTL DEF ClientSpec
-----------------------------------------------------------------------------
(***************************************************************************)
(* TransactionQueue: the indices agree after every operation.              *)
(***************************************************************************)

\* A queue of transactions in every part.
QueueType ==
    [current : Seq(Tx), byHash : SUBSET Tx, byNonce : SUBSET Tx, future : SUBSET Tx,
     futureSize : Nat, known : SUBSET Tx, dropped : Seq(Tx)]

\* c lists the transactions of h, each once.
Lists(c, h) == c \in Seq(Tx) /\ h \in SUBSET Tx /\ ToSet(c) = h /\ IsInjective(c)

\* No transaction, and no nonce of an account, is twice in h and f.
Distinct(h, f) ==
    /\ h \in SUBSET Tx /\ f \in SUBSET Tx /\ IsFiniteSet(h) /\ IsFiniteSet(f)
    /\ h \cap f = {}
    /\ \A t, u \in h \cup f : SameKey(t, u) => t = u

\* The indices of s agree, and what is queued is known or in K.
Agrees(s, K) ==
    /\ s \in QueueType
    /\ Lists(s.current, s.byHash) /\ s.byNonce = s.byHash
    /\ Distinct(s.byHash, s.future) /\ s.futureSize = Cardinality(s.future)
    /\ s.byHash \cup s.future \subseteq s.known \cup K

\* No transaction of T has the account and nonce of t.
Fresh(t, T) == ~ \E u \in T : SameKey(t, u)

\* A transaction is put anywhere into a listing.
LEMMA InsertLists ==
    ASSUME NEW c, NEW h, Lists(c, h), NEW t \in Tx, t \notin h, NEW i \in 0..Len(c)
    PROVE  Lists(InsertAt(c, i + 1, t), h \cup {t})
<1> DEFINE n == Len(c)
           d == InsertAt(c, i + 1, t)
<1>1. n \in Nat /\ i \in Nat /\ i <= n /\ c \in Seq(Tx) /\ DOMAIN c = 1..n
  BY DEF Lists
<1>2. SubSeq(c, 1, i) \in Seq(Tx) /\ Len(SubSeq(c, 1, i)) = i /\ \A j \in 1..i : SubSeq(c, 1, i)[j] = c[j]
  BY <1>1
<1>3. /\ SubSeq(c, i + 1, n) \in Seq(Tx) /\ Len(SubSeq(c, i + 1, n)) = n - i
      /\ \A j \in 1..(n - i) : SubSeq(c, i + 1, n)[j] = c[i + j]
  <2> HIDE DEF n
  <2> DEFINE m == i + 1
  <2>1. m \in Int /\ n \in Int /\ n - m + 1 = n - i /\ (m <= n \/ n - i = 0) /\ \A k \in m..n : c[k] \in Tx
    BY <1>1
  <2>2. \A j \in 1..(n - i) : m + j - 1 = i + j
    BY <1>1
  <2> HIDE DEF m
  <2>3. /\ SubSeq(c, m, n) \in Seq(Tx) /\ Len(SubSeq(c, m, n)) = IF m <= n THEN n - m + 1 ELSE 0
        /\ \A j \in 1..(n - m + 1) : SubSeq(c, m, n)[j] = c[m + j - 1]
    BY <2>1, SubSeqProperties
  <2>4. Len(SubSeq(c, m, n)) = n - i
    BY <1>1, <2>1, <2>3
  <2>5. \A j \in 1..(n - i) : SubSeq(c, m, n)[j] = c[i + j]
    BY <2>1, <2>2, <2>3
  <2> QED  BY <2>3, <2>4, <2>5 DEF m
<1>4. d = (SubSeq(c, 1, i) \o <<t>>) \o SubSeq(c, i + 1, n)
  <2>1. (i + 1) - 1 = i
    BY <1>1
  <2> QED  BY <2>1 DEF InsertAt
<1> DEFINE a == SubSeq(c, 1, i)
           b == SubSeq(c, i + 1, n)
<1> HIDE DEF a, b, d, n
<1>5. /\ a \in Seq(Tx) /\ b \in Seq(Tx) /\ Len(a) = i /\ Len(b) = n - i /\ d = (a \o <<t>>) \o b
      /\ \A j \in 1..i : a[j] = c[j]
      /\ \A j \in 1..(n - i) : b[j] = c[i + j]
  BY <1>2, <1>3, <1>4 DEF a, b
<1> DEFINE upTo == a \o <<t>>
<1>0. /\ upTo \in Seq(Tx) /\ Len(upTo) = i + 1 /\ upTo[i + 1] = t
      /\ \A j \in 1..i : upTo[j] = a[j]
  <2>1. <<t>> \in Seq(Tx) /\ Len(<<t>>) = 1 /\ <<t>>[1] = t
    OBVIOUS
  <2>2. /\ upTo \in Seq(Tx) /\ Len(upTo) = Len(a) + Len(<<t>>)
        /\ \A j \in 1..(Len(a) + Len(<<t>>)) : upTo[j] = IF j <= Len(a) THEN a[j] ELSE <<t>>[j - Len(a)]
    BY <1>5, <2>1, ConcatProperties
  <2> HIDE DEF upTo
  <2>3. \A j \in 1..(i + 1) : upTo[j] = IF j <= i THEN a[j] ELSE <<t>>[j - i]
    BY <1>5, <2>1, <2>2
  <2>4. i + 1 \in 1..(i + 1) /\ ~(i + 1 <= i) /\ (i + 1) - i = 1
    BY <1>1
  <2>5. \A j \in 1..i : j \in 1..(i + 1) /\ j <= i
    BY <1>1
  <2> QED  BY <1>5, <2>1, <2>2, <2>3, <2>4, <2>5
<1> HIDE DEF upTo
<1>6. /\ d \in Seq(Tx) /\ Len(d) = n + 1
      /\ \A j \in 1..(n + 1) : d[j] = IF j <= i + 1 THEN upTo[j] ELSE b[j - (i + 1)]
  <2>1. d = upTo \o b
    BY <1>5 DEF upTo
  <2>2. /\ upTo \o b \in Seq(Tx) /\ Len(upTo \o b) = Len(upTo) + Len(b)
        /\ \A j \in 1..(Len(upTo) + Len(b)) : (upTo \o b)[j] = IF j <= Len(upTo) THEN upTo[j] ELSE b[j - Len(upTo)]
    BY <1>0, <1>5, ConcatProperties
  <2>3. Len(upTo) + Len(b) = n + 1
    BY <1>0, <1>1, <1>5
  <2> QED  BY <1>0, <2>1, <2>2, <2>3
<1>7. \A j \in 1..i : d[j] = c[j]
  <2>1. \A j \in 1..i : j \in 1..(n + 1) /\ j <= i + 1
    BY <1>1
  <2> QED  BY <1>0, <1>5, <1>6, <2>1
<1>8. d[i + 1] = t
  <2>1. i + 1 \in 1..(n + 1) /\ i + 1 <= i + 1
    BY <1>1
  <2> QED  BY <1>0, <1>6, <2>1
<1>9. \A j \in (i + 2)..(n + 1) : d[j] = c[j - 1]
  <2> SUFFICES ASSUME NEW j \in (i + 2)..(n + 1)  PROVE d[j] = c[j - 1]
    OBVIOUS
  <2>1. j \in Nat /\ j > i + 1 /\ j <= n + 1 /\ j - (i + 1) \in 1..(n - i) /\ i + (j - (i + 1)) = j - 1
    BY <1>1
  <2>2. d[j] = b[j - (i + 1)]
    BY <1>1, <1>6, <2>1
  <2> QED  BY <1>5, <2>1, <2>2
<1>10. DOMAIN d = 1..(n + 1)
  BY <1>6
<1>11. \A j \in 1..n : c[j] # t /\ c[j] \in h
  BY <1>1 DEF Lists, ToSet
<1>12. \A j \in 1..(n + 1) : j \in 1..i \/ j = i + 1 \/ (j \in (i + 2)..(n + 1) /\ j - 1 \in (i + 1)..n)
  BY <1>1
<1>13. ToSet(d) \subseteq h \cup {t}
  <2> SUFFICES ASSUME NEW j \in 1..(n + 1)  PROVE d[j] \in h \cup {t}
    BY <1>10 DEF ToSet
  <2>1. CASE j \in 1..i
    BY <1>1, <1>7, <1>11, <2>1
  <2>2. CASE j = i + 1
    BY <1>8, <2>2
  <2>3. CASE j \in (i + 2)..(n + 1) /\ j - 1 \in (i + 1)..n
    BY <1>1, <1>9, <1>11, <2>3
  <2> QED  BY <1>12, <2>1, <2>2, <2>3
<1>14. h \cup {t} \subseteq ToSet(d)
  <2>1. t \in ToSet(d)
    BY <1>1, <1>8, <1>10 DEF ToSet
  <2>2. ASSUME NEW u \in h PROVE u \in ToSet(d)
    <3>1. PICK j \in 1..n : c[j] = u
      BY <1>1 DEF Lists, ToSet
    <3>2. CASE j <= i
      <4>1. d[j] = u /\ j \in 1..(n + 1)
        BY <1>1, <1>7, <3>1, <3>2
      <4> QED  BY <1>10, <4>1 DEF ToSet
    <3>3. CASE j > i
      <4>1. j + 1 \in (i + 2)..(n + 1) /\ (j + 1) - 1 = j /\ j + 1 \in 1..(n + 1)
        BY <1>1, <3>3
      <4>2. d[j + 1] = u
        BY <1>9, <3>1, <4>1
      <4> QED  BY <1>10, <4>1, <4>2 DEF ToSet
    <3> QED  BY <1>1, <3>2, <3>3
  <2> QED  BY <2>1, <2>2
<1>15. IsInjective(d)
  <2> DEFINE from(j) == IF j <= i THEN j ELSE j - 1
  <2>1. \A j \in 1..(n + 1) : j # i + 1 => d[j] = c[from(j)] /\ from(j) \in 1..n
    BY <1>1, <1>7, <1>9, <1>12
  <2>2. \A j, k \in 1..(n + 1) : j # i + 1 /\ k # i + 1 /\ from(j) = from(k) => j = k
    BY <1>1
  <2> HIDE DEF from
  <2>3. \A j, k \in 1..n : c[j] = c[k] => j = k
    BY <1>1 DEF Lists, IsInjective
  <2>4. ASSUME NEW j \in 1..(n + 1), NEW k \in 1..(n + 1), d[j] = d[k] PROVE j = k
    BY <1>8, <1>11, <2>1, <2>2, <2>3, <2>4
  <2> QED  BY <1>10, <2>4 DEF IsInjective
<1>16. h \cup {t} \in SUBSET Tx /\ d \in Seq(Tx)
  BY <1>6 DEF Lists
<1> QED  BY <1>13, <1>14, <1>15, <1>16 DEF Lists, d

\* Some are taken out of a listing.
LEMMA WithoutLists ==
    ASSUME NEW c, NEW h, Lists(c, h), NEW out
    PROVE  Lists(Without(c, out), h \ out)
<1>1. c \in Seq(Tx) /\ h \in SUBSET Tx /\ ToSet(c) = h /\ IsInjective(c)
  BY DEF Lists
<1>2. /\ Without(c, out) \in Seq(Tx) /\ ToSet(Without(c, out)) = ToSet(c) \ out
      /\ IsPart(Without(c, out), c)
  BY <1>1, WithoutIs
<1>3. IsInjective(Without(c, out))
  BY <1>1, <1>2, PartInjective
<1> QED  BY <1>1, <1>2, <1>3 DEF Lists

\* A set that has no more members than another.
LEMMA DistinctPart ==
    ASSUME NEW h, NEW f, Distinct(h, f), NEW g \in SUBSET h, NEW e \in SUBSET f
    PROVE  Distinct(g, e)
<1>1. IsFiniteSet(g) /\ IsFiniteSet(e)
  BY FS_Subset DEF Distinct
<1> QED  BY <1>1 DEF Distinct

\* A transaction with a new nonce is put to the current ones.
LEMMA DistinctMore ==
    ASSUME NEW h, NEW f, Distinct(h, f), NEW t \in Tx, Fresh(t, h \cup f)
    PROVE  Distinct(h \cup {t}, f)
<1>1. IsFiniteSet(h \cup {t})
  BY FS_AddElement DEF Distinct
<1>2. \A u \in h \cup f : ~SameKey(t, u) /\ ~SameKey(u, t)
  BY DEF Fresh, SameKey
<1>3. t \notin h \cup f
  BY <1>2 DEF SameKey
<1> QED  BY <1>1, <1>2, <1>3 DEF Distinct

\* One is removed: the current ones are without it, the future ones the same.
LEMMA RemovedAgrees ==
    ASSUME NEW s, NEW K, Agrees(s, K), NEW t
    PROVE  /\ Agrees(Removed(s, t), K) /\ Removed(s, t).future = s.future
           /\ Removed(s, t).byHash = s.byHash \ {t}
           /\ Removed(s, t).known \subseteq s.known
<1>1. CASE t \notin s.byHash
  BY <1>1 DEF Removed
<1>2. CASE t \in s.byHash
  <2> DEFINE r == Removed(s, t)
  <2>1. r = [s EXCEPT !.byNonce = {u \in @ : ~SameKey(t, u)}, !.current = Without(@, {t}),
                      !.byHash = @ \ {t}, !.known = @ \ {t}]
    BY <1>2 DEF Removed
  <2>2. s \in QueueType /\ s.byNonce = s.byHash /\ Lists(s.current, s.byHash) /\ Distinct(s.byHash, s.future)
    BY DEF Agrees
  <2>3. {u \in s.byNonce : ~SameKey(t, u)} = s.byHash \ {t}
    BY <1>2, <2>2 DEF Distinct, SameKey
  <2>4. Lists(Without(s.current, {t}), s.byHash \ {t})
    BY <2>2, WithoutLists
  <2>5. Distinct(s.byHash \ {t}, s.future) /\ t \notin s.future
    <3>1. Distinct(s.byHash \ {t}, s.future)
      BY <2>2, DistinctPart
    <3> QED  BY <1>2, <2>2, <3>1 DEF Distinct
  <2>6. r = [s EXCEPT !.byNonce = s.byHash \ {t}, !.current = Without(s.current, {t}),
                      !.byHash = s.byHash \ {t}, !.known = s.known \ {t}]
    BY <2>1, <2>2, <2>3 DEF QueueType
  <2> HIDE DEF r
  <2>7. /\ r.byNonce = s.byHash \ {t} /\ r.current = Without(s.current, {t}) /\ r.byHash = s.byHash \ {t}
        /\ r.known = s.known \ {t} /\ r.future = s.future /\ r.futureSize = s.futureSize
    BY <2>2, <2>6 DEF QueueType
  <2>8. r \in QueueType
    BY <2>2, <2>4, <2>6 DEF QueueType, Lists
  <2>9. r.byHash \cup r.future \subseteq r.known \cup K
    BY <2>5, <2>7 DEF Agrees
  <2>10. Agrees(r, K)
    BY <2>4, <2>5, <2>7, <2>8, <2>9 DEF Agrees
  <2> QED  BY <2>7, <2>10 DEF r
<1> QED  BY <1>1, <1>2

\* A transaction with a new nonce is placed.
IsMore(s, t, r) == r.byHash = s.byHash \cup {t} /\ r.future = s.future /\ r.known = s.known

LEMMA PlacedAgrees ==
    ASSUME NEW s, NEW K, Agrees(s, K), NEW t \in s.known \cup K, t \in Tx, Fresh(t, s.byHash \cup s.future),
           NEW r \in Placed(s, t)
    PROVE  Agrees(r, K) /\ IsMore(s, t, r)
<1> DEFINE e == [s EXCEPT !.byNonce = {u \in @ : ~SameKey(t, u)} \cup {t}, !.byHash = @ \cup {t}]
<1>1. PICK i \in Places(e, t) : r = [e EXCEPT !.current = InsertAt(@, i + 1, t)]
  BY DEF Placed
<1>2. s \in QueueType /\ s.byNonce = s.byHash /\ Lists(s.current, s.byHash) /\ Distinct(s.byHash, s.future)
  BY DEF Agrees
<1>3. e.current = s.current
  BY <1>2 DEF QueueType
<1>4. i \in 0..Len(s.current)
  BY <1>1, <1>3 DEF Places
<1>5. {u \in s.byNonce : ~SameKey(t, u)} = s.byHash /\ t \notin s.byHash
  BY <1>2 DEF Fresh, SameKey
<1>6. Lists(InsertAt(s.current, i + 1, t), s.byHash \cup {t})
  BY <1>2, <1>4, <1>5, InsertLists
<1>7. Distinct(s.byHash \cup {t}, s.future)
  BY <1>2, DistinctMore
<1>8. r = [s EXCEPT !.byNonce = s.byHash \cup {t}, !.byHash = s.byHash \cup {t},
                    !.current = InsertAt(s.current, i + 1, t)]
  BY <1>1, <1>2, <1>5 DEF QueueType
<1> HIDE DEF e
<1>9. /\ r.byNonce = s.byHash \cup {t} /\ r.current = InsertAt(s.current, i + 1, t) /\ r.byHash = s.byHash \cup {t}
      /\ r.known = s.known /\ r.future = s.future /\ r.futureSize = s.futureSize
  BY <1>2, <1>8 DEF QueueType
<1>10. r \in QueueType
  BY <1>2, <1>6, <1>8 DEF QueueType, Lists
<1>11. r.byHash \cup r.future \subseteq r.known \cup K
  BY <1>9 DEF Agrees
<1>12. Agrees(r, K)
  BY <1>6, <1>7, <1>9, <1>10, <1>11 DEF Agrees
<1> QED  BY <1>9, <1>12 DEF IsMore

\* A future transaction is given up.
LEMMA EvictedAgrees ==
    ASSUME NEW s, NEW K, Agrees(s, K), NEW r \in Evicted(s)
    PROVE  Agrees(r, K) /\ r.byHash = s.byHash /\ r.known = s.known
<1>1. PICK t \in s.future : r = [s EXCEPT !.futureSize = @ - 1, !.future = @ \ {t}]
  BY DEF Evicted
<1>2. s \in QueueType /\ Distinct(s.byHash, s.future) /\ s.futureSize = Cardinality(s.future)
  BY DEF Agrees
<1>3. /\ Cardinality(s.future \ {t}) = s.futureSize - 1 /\ Cardinality(s.future \ {t}) \in Nat
  BY <1>2, FS_RemoveElement, FS_CardinalityType DEF Distinct
<1>4. Distinct(s.byHash, s.future \ {t})
  BY <1>2, DistinctPart
<1>5. /\ r.byNonce = s.byNonce /\ r.current = s.current /\ r.byHash = s.byHash
      /\ r.known = s.known /\ r.future = s.future \ {t} /\ r.futureSize = s.futureSize - 1
  BY <1>1, <1>2 DEF QueueType
<1>6. r \in QueueType
  BY <1>1, <1>2, <1>3 DEF QueueType
<1>7. Agrees(r, K)
  BY <1>3, <1>4, <1>5, <1>6 DEF Agrees
<1> QED  BY <1>5, <1>7

\* Future transactions are taken out of the future, with the count of them.
LessBy(s, out) == [s EXCEPT !.future = @ \ out, !.futureSize = @ - Cardinality(out)]
IsLess(s, out, r) == r.byHash = s.byHash /\ r.known = s.known /\ r.future = s.future \ out

LEMMA LessFuture ==
    ASSUME NEW s, NEW K, Agrees(s, K), NEW out \in SUBSET s.future
    PROVE  Agrees(LessBy(s, out), K) /\ IsLess(s, out, LessBy(s, out))
<1> DEFINE r == LessBy(s, out)
<1>0. r = [s EXCEPT !.future = @ \ out, !.futureSize = @ - Cardinality(out)]
  BY DEF LessBy
<1> HIDE DEF r
<1>1. s \in QueueType /\ Distinct(s.byHash, s.future) /\ s.futureSize = Cardinality(s.future)
  BY DEF Agrees
<1>2. IsFiniteSet(s.future) /\ IsFiniteSet(out) /\ IsFiniteSet(s.future \ out)
  BY <1>1, FS_Subset DEF Distinct
<1>3. /\ Cardinality(s.future \ out) = s.futureSize - Cardinality(out) /\ Cardinality(s.future \ out) \in Nat
  <2>1. Cardinality(s.future \ out) = Cardinality(s.future) - Cardinality(s.future \cap out)
    BY <1>2, FS_Difference
  <2>2. s.future \cap out = out
    OBVIOUS
  <2> QED  BY <1>1, <1>2, <2>1, <2>2, FS_CardinalityType
<1>4. Distinct(s.byHash, s.future \ out)
  BY <1>1, DistinctPart
<1>5. /\ r.byNonce = s.byNonce /\ r.current = s.current /\ r.byHash = s.byHash
      /\ r.known = s.known /\ r.future = s.future \ out /\ r.futureSize = s.futureSize - Cardinality(out)
  BY <1>0, <1>1 DEF QueueType
<1>6. r \in QueueType
  BY <1>0, <1>1, <1>3 DEF QueueType
<1>7. Agrees(r, K)
  BY <1>3, <1>4, <1>5, <1>6 DEF Agrees
<1> QED  BY <1>5, <1>7 DEF r, IsLess


\* The greater of nothing and a number is a natural number.
LEMMA MaxOfNothing ==
    ASSUME NEW x \in Int
    PROVE  Max({0, x}) \in Nat
<1>1. \E y \in {0, x} : y >= 0 /\ y >= x
  BY SMT
<1>2. \A y \in {0, x} : y >= 0 <=> y \in Nat
  BY SMT
<1>3. \E y \in {0, x} : \A z \in {0, x} : y >= z
  BY <1>1
<1>4. Max({0, x}) \in {0, x} /\ \A z \in {0, x} : Max({0, x}) >= z
  BY <1>3 DEF Max
<1> QED  BY <1>2, <1>4

\* Transactions with different nonces, by nonce.
LEMMA NoncesInOrder ==
    ASSUME NEW S \in SUBSET Tx, IsFiniteSet(S), \A u, w \in S : u.nonce = w.nonce => u = w
    PROVE  Enumerates(InOrder(S, LAMBDA u, w : u.nonce < w.nonce), S)
<1> DEFINE R == {pair \in S \X S : pair[1].nonce < pair[2].nonce}
           f == InOrder(S, LAMBDA u, w : u.nonce < w.nonce)
           n == Cardinality(S)
<1>1. \A u, w \in S : <<u, w>> \in R <=> u.nonce < w.nonce
  OBVIOUS
<1>2. \A u \in S : u.nonce \in Nat
  BY TxAssumption
<1>3. \A x \in S : {y \in S : y.nonce < x.nonce} = Below(R, S, x)
  BY <1>1 DEF Below
<1> HIDE DEF R
<1>4. Ordered(R, S)
  BY <1>1, <1>2 DEF Ordered
<1>5. Ranked(R, S)
  <2> HIDE DEF f
  <2> QED  BY <1>4, Ranks
<1>6. DOMAIN f = 1..n
  BY DEF InOrder
<1>7. \A i \in 1..n : f[i] \in S /\ Cardinality(Below(R, S, f[i])) = i - 1
  <2> SUFFICES ASSUME NEW i \in 1..n  PROVE f[i] \in S /\ Cardinality(Below(R, S, f[i])) = i - 1
    OBVIOUS
  <2>1. f[i] = CHOOSE x \in S : Cardinality({y \in S : y.nonce < x.nonce}) = i - 1
    BY DEF InOrder
  <2>2. \E x \in S : Cardinality(Below(R, S, x)) = i - 1
    BY <1>5 DEF Ranked
  <2>3. \E x \in S : Cardinality({y \in S : y.nonce < x.nonce}) = i - 1
    BY <1>3, <2>2
  <2>4. f[i] \in S /\ Cardinality({y \in S : y.nonce < f[i].nonce}) = i - 1
    BY <2>1, <2>3
  <2> QED  BY <1>3, <2>4
<1> HIDE DEF f
<1>8. DOMAIN f = 1..Cardinality(S) /\ \A i \in DOMAIN f : f[i] \in S /\ Cardinality(Below(R, S, f[i])) = i - 1
  BY <1>6, <1>7
<1>9. Enumerates(f, S)
  BY <1>4, <1>8, Listed
<1> QED  BY <1>9 DEF f

\* Future transactions are placed one after the other.
Placing(states, t) == UNION {Placed(r, t) : r \in states}
PlacedSoFar(p, states, k) ==
    \A r \in states : /\ Agrees(r, p.K) /\ r.future = p.from.future \ p.ready /\ r.known = p.from.known
                      /\ r.byHash = p.from.byHash \cup {p.order[i] : i \in 1..k}
PlacingAll == INSTANCE FoldFacts WITH op <- Placing, val <- LAMBDA p, x : x, Holds <- PlacedSoFar

LEMMA PlacedAllAgree ==
    ASSUME NEW s, NEW K, Agrees(s, K), NEW ready \in SUBSET s.future, NEW order, Enumerates(order, ready),
           NEW m, Agrees(m, K), m.future = s.future \ ready, m.byHash = s.byHash, m.known = s.known,
           NEW r \in PlacedAll(m, order)
    PROVE  Agrees(r, K)
<1> DEFINE p == [K |-> K, from |-> s, ready |-> ready, order |-> order]
           f == PlacingAll!LeftFold({m}, order)
           n == Cardinality(ready)
<1>1. PlacedAll(m, order) = f
  BY DEF PlacedAll, FoldLeft, MapThenFoldSet, Max, PlacingAll!LeftFold, PlacingAll!Turns, PlacingAll!Highest, Placing
<1>2. /\ n \in Nat /\ DOMAIN order = 1..n /\ \A i \in 1..n : order[i] \in ready
      /\ \A i, j \in 1..n : order[i] = order[j] => i = j
  BY DEF Enumerates
<1>3. p.K = K /\ p.from = s /\ p.ready = ready /\ p.order = order
  OBVIOUS
<1> HIDE DEF p, n
<1>4. PlacedSoFar(p, {m}, 0)
  BY <1>3 DEF PlacedSoFar
<1>5. ASSUME NEW k \in Nat, NEW x, k < n, PlacedSoFar(p, x, k)
      PROVE  PlacedSoFar(p, Placing(x, order[k + 1]), k + 1)
  <2> SUFFICES ASSUME NEW y \in x, NEW z \in Placed(y, order[k + 1])
               PROVE  /\ Agrees(z, K) /\ z.future = s.future \ ready /\ z.known = s.known
                      /\ z.byHash = s.byHash \cup {order[i] : i \in 1..(k + 1)}
    BY <1>3 DEF PlacedSoFar, Placing
  <2> DEFINE t == order[k + 1]
  <2>1. /\ Agrees(y, K) /\ y.future = s.future \ ready /\ y.known = s.known
        /\ y.byHash = s.byHash \cup {order[i] : i \in 1..k}
    BY <1>3, <1>5 DEF PlacedSoFar
  <2>2. k + 1 \in 1..n /\ \A i \in 1..k : i \in 1..n /\ i # k + 1
    BY <1>2, <1>5
  <2>3. t \in s.future /\ t \in Tx /\ t \in ready /\ Distinct(s.byHash, s.future) /\ t \in s.known \cup K
    BY <1>2, <2>2 DEF Agrees, Distinct
  <2>4. t \notin y.byHash \cup y.future /\ y.byHash \cup y.future \subseteq s.byHash \cup s.future
    BY <1>2, <2>1, <2>2, <2>3 DEF Distinct
  <2>5. Fresh(t, y.byHash \cup y.future)
    BY <2>3, <2>4 DEF Distinct, Fresh
  <2>6. t \in y.known \cup K
    BY <2>1, <2>3
  <2> HIDE DEF t
  <2>7. z \in Placed(y, t)
    BY DEF t
  <2>8. Agrees(z, K) /\ IsMore(y, t, z)
    BY <2>1, <2>3, <2>5, <2>6, <2>7, PlacedAgrees
  <2>9. {order[i] : i \in 1..(k + 1)} = {order[i] : i \in 1..k} \cup {t}
    <3>1. 1..(k + 1) = (1..k) \cup {k + 1}
      OBVIOUS
    <3> QED  BY <3>1 DEF t
  <2> QED  BY <2>1, <2>8, <2>9 DEF IsMore
<1>6. PlacedSoFar(p, f, n)
  <2> HIDE DEF PlacedSoFar, Placing
  <2>1. \A k \in Nat : \A x : k < n /\ PlacedSoFar(p, x, k) => PlacedSoFar(p, Placing(x, order[k + 1]), k + 1)
    BY <1>5
  <2> QED  BY <1>2, <1>4, <2>1, PlacingAll!LeftFoldHolds
<1> HIDE DEF f
<1>7. r \in f
  BY <1>1
<1> QED  BY <1>3, <1>6, <1>7 DEF PlacedSoFar

\* The future transactions above the limit are given up one after the other.
Evicting(states, n) == UNION {Evicted(r) : r \in states}
AllAgree(K, states, k) == \A r \in states : Agrees(r, K)
EvictingAll == INSTANCE FoldFacts WITH op <- Evicting, val <- LAMBDA p, x : x, Holds <- AllAgree

LEMMA EvictingAgrees ==
    ASSUME NEW K, NEW states, AllAgree(K, states, 0), NEW n \in Nat,
           NEW r \in FoldLeft(LAMBDA some, i : UNION {Evicted(s) : s \in some}, states, [i \in 1..n |-> i])
    PROVE  Agrees(r, K)
<1> DEFINE turns == [i \in 1..n |-> i]
           f == EvictingAll!LeftFold(states, turns)
<1>1. FoldLeft(LAMBDA some, i : UNION {Evicted(s) : s \in some}, states, turns) = f
  BY DEF FoldLeft, MapThenFoldSet, Max, EvictingAll!LeftFold, EvictingAll!Turns, EvictingAll!Highest, Evicting
<1>2. ASSUME NEW k \in Nat, NEW x, AllAgree(K, x, k), NEW i PROVE AllAgree(K, Evicting(x, i), k + 1)
  BY <1>2, EvictedAgrees DEF AllAgree, Evicting
<1>3. DOMAIN turns = 1..n
  OBVIOUS
<1> HIDE DEF turns
<1>4. AllAgree(K, f, n)
  BY <1>2, <1>3, EvictingAll!LeftFoldHolds
<1> HIDE DEF f
<1>5. r \in f
  BY <1>1 DEF turns
<1> QED  BY <1>4, <1>5 DEF AllAgree

\* What follows on a transaction is made current.
LEMMA MakeCurrentAgrees ==
    ASSUME NEW s, NEW K, Agrees(s, K), NEW t \in Tx, NEW r \in MakeCurrent(s, t)
    PROVE  Agrees(r, K)
<1> DEFINE ready == Following(s, t)
           moved == [s EXCEPT !.future = @ \ ready, !.futureSize = @ - Cardinality(ready)]
           excess == Max({0, moved.futureSize - FutureLimit})
           inOrder == InOrder(ready, LAMBDA u, w : u.nonce < w.nonce)
           placed == PlacedAll(moved, inOrder)
<1>1. Distinct(s.byHash, s.future) /\ ready \in SUBSET s.future
  BY DEF Agrees, Following, Of
<1>2. ready \in SUBSET Tx /\ IsFiniteSet(ready) /\ \A u, w \in ready : u.nonce = w.nonce => u = w
  <2>1. \A u \in ready : u.from = t.from
    BY DEF Following, Of
  <2>2. \A u, w \in ready : u.nonce = w.nonce => SameKey(u, w)
    BY <2>1 DEF SameKey
  <2> HIDE DEF ready
  <2>3. IsFiniteSet(ready) /\ ready \in SUBSET Tx
    BY <1>1, FS_Subset DEF Distinct
  <2> QED  BY <1>1, <2>2, <2>3 DEF Distinct
<1> HIDE DEF ready
<1>3. Enumerates(inOrder, ready)
  BY <1>2, NoncesInOrder
<1>4. Agrees(moved, K) /\ moved.byHash = s.byHash /\ moved.known = s.known /\ moved.future = s.future \ ready
  <2>1. moved = LessBy(s, ready)
    BY DEF LessBy
  <2> HIDE DEF moved
  <2> QED  BY <1>1, <2>1, LessFuture DEF IsLess
<1>5. excess \in Nat
  <2> HIDE DEF moved
  <2>1. moved.futureSize \in Nat
    BY <1>4 DEF Agrees, QueueType
  <2>2. moved.futureSize - FutureLimit \in Int
    BY <2>1, TxAssumption
  <2> QED  BY <2>2, MaxOfNothing
<1>6. r \in FoldLeft(LAMBDA some, n : UNION {Evicted(x) : x \in some}, placed, [n \in 1..excess |-> n])
  BY DEF MakeCurrent, ready
<1> HIDE DEF moved, inOrder
<1>7. AllAgree(K, placed, 0)
  <2> SUFFICES ASSUME NEW x \in placed PROVE Agrees(x, K)
    BY DEF AllAgree
  <2> QED  BY <1>1, <1>3, <1>4, PlacedAllAgree
<1> HIDE DEF placed, excess
<1> QED  BY <1>5, <1>6, <1>7, EvictingAgrees

\* The transactions of the same nonce are removed one after the other.
RemovedNext(u, r) == Removed(r, u)
RemovedSoFar(s, r, D) ==
    Agrees(r, {}) /\ r.future = s.future /\ r.byHash = s.byHash \ D /\ r.known \subseteq s.known
Freeing == INSTANCE FoldFacts WITH op <- RemovedNext, val <- LAMBDA p, x : x, Holds <- RemovedSoFar

LEMMA FreedAgrees ==
    ASSUME NEW s, Agrees(s, {}), NEW S \in SUBSET s.byHash
    PROVE  RemovedSoFar(s, FoldSet(LAMBDA u, r : Removed(r, u), s, S), S)
<1> DEFINE f == Freeing!SetFold(s, s, S)
<1>1. FoldSet(LAMBDA u, r : Removed(r, u), s, S) = f
  BY DEF FoldSet, MapThenFoldSet, Freeing!SetFold, Freeing!SetTurns, Freeing!Chosen, RemovedNext
<1>2. IsFiniteSet(S)
  BY FS_Subset DEF Agrees, Distinct
<1>3. Freeing!IsFiniteSet(S)
  BY <1>2 DEF IsFiniteSet, Freeing!IsFiniteSet
<1>4. RemovedSoFar(s, s, {})
  BY DEF RemovedSoFar
<1>5. ASSUME NEW D \in SUBSET S, NEW u \in S, NEW r, RemovedSoFar(s, r, D)
      PROVE  RemovedSoFar(s, RemovedNext(u, r), D \cup {u})
  <2>1. Agrees(r, {}) /\ r.future = s.future /\ r.byHash = s.byHash \ D /\ r.known \subseteq s.known
    BY <1>5 DEF RemovedSoFar
  <2>2. /\ Agrees(Removed(r, u), {}) /\ Removed(r, u).future = r.future
        /\ Removed(r, u).byHash = r.byHash \ {u} /\ Removed(r, u).known \subseteq r.known
    BY <2>1, RemovedAgrees
  <2> QED  BY <2>1, <2>2 DEF RemovedSoFar, RemovedNext
<1>6. RemovedSoFar(s, f, S)
  BY <1>3, <1>4, <1>5, Freeing!SetFoldHolds
<1> QED  BY <1>1, <1>6

\* The last ones go until the queue is within its limit.
Trimming(r, n) == Removed(r, Last(r.current))
Trimmed(K, r, n) == Agrees(r, K)
TrimmingAll == INSTANCE FoldFacts WITH op <- Trimming, val <- LAMBDA p, x : x, Holds <- Trimmed

LEMMA TrimAgrees ==
    ASSUME NEW s, Agrees(s, {})
    PROVE  Agrees(Trim(s), {})
<1> DEFINE n == Max({0, Len(s.current) - Limit})
           turns == [i \in 1..n |-> i]
           f == TrimmingAll!LeftFold(s, turns)
<1>1. Trim(s) = f
  BY DEF Trim, FoldLeft, MapThenFoldSet, Max, TrimmingAll!LeftFold, TrimmingAll!Turns, TrimmingAll!Highest, Trimming
<1>2. n \in Nat
  <2>1. Len(s.current) \in Nat
    BY DEF Agrees, Lists
  <2>2. Len(s.current) - Limit \in Int
    BY <2>1, TxAssumption
  <2> QED  BY <2>2, MaxOfNothing
<1> HIDE DEF n
<1>3. DOMAIN turns = 1..n
  OBVIOUS
<1>4. ASSUME NEW k \in Nat, NEW x, Trimmed({}, x, k), NEW i PROVE Trimmed({}, Trimming(x, i), k + 1)
  BY <1>4, RemovedAgrees DEF Trimmed, Trimming
<1>5. Trimmed({}, s, 0)
  BY DEF Trimmed
<1> HIDE DEF turns
<1>6. Trimmed({}, f, n)
  BY <1>2, <1>3, <1>4, <1>5, TrimmingAll!LeftFoldHolds
<1> QED  BY <1>1, <1>6 DEF Trimmed

\* A transaction that is not known comes in, or not.
LEMMA ManageAgrees ==
    ASSUME NEW s, Agrees(s, {}), NEW t \in Tx, t \notin s.known, NEW r \in Manage(s, t)
    PROVE  Agrees(r, {})
<1> DEFINE same == {u \in s.byNonce : SameKey(t, u)}
           freed == FoldSet(LAMBDA u, x : Removed(x, u), s, same)
           alone == WithoutFuture(freed, t)
<1>1. r = s \/ r = freed \/ \E x \in InsertCurrent(alone, t) : r = Trim(x)
  BY DEF Manage
<1>2. s.byNonce = s.byHash
  BY DEF Agrees
<1>3. same \in SUBSET s.byHash
  BY <1>2
<1>4. RemovedSoFar(s, freed, same)
  <2> HIDE DEF same
  <2> QED  BY <1>3, FreedAgrees
<1> HIDE DEF freed
<1>5. Agrees(freed, {}) /\ freed.byHash = s.byHash \ same
  BY <1>4 DEF RemovedSoFar
<1>6. Fresh(t, freed.byHash)
  BY <1>2, <1>5 DEF Fresh
<1>7. Agrees(alone, {}) /\ Fresh(t, alone.byHash \cup alone.future)
  <2> DEFINE out == {u \in freed.future : SameKey(t, u)}
  <2>1. alone = LessBy(freed, out)
    BY DEF WithoutFuture, LessBy
  <2>2. \A u \in freed.future \ out : ~SameKey(t, u)
    OBVIOUS
  <2>3. out \in SUBSET freed.future
    OBVIOUS
  <2> HIDE DEF out, alone
  <2>4. Agrees(alone, {}) /\ alone.byHash = freed.byHash /\ alone.future = freed.future \ out
    BY <1>5, <2>1, <2>3, LessFuture DEF IsLess
  <2> QED  BY <1>6, <2>2, <2>4 DEF Fresh
<1> HIDE DEF alone, same
<1>8. ASSUME NEW x \in InsertCurrent(alone, t) PROVE Agrees(x, {})
  <2>0. PICK p \in Placed(alone, t) : \E y \in MakeCurrent(p, t) : x = [y EXCEPT !.known = @ \cup {t}]
    BY DEF InsertCurrent
  <2>1. PICK y \in MakeCurrent(p, t) : x = [y EXCEPT !.known = @ \cup {t}]
    BY <2>0
  <2>2. Agrees(alone, {t})
    BY <1>7 DEF Agrees
  <2>3. t \in alone.known \cup {t}
    OBVIOUS
  <2>4. Agrees(p, {t})
    BY <1>7, <2>2, <2>3, PlacedAgrees
  <2>5. Agrees(y, {t})
    BY <2>4, MakeCurrentAgrees
  <2>6. y \in QueueType
    BY <2>5 DEF Agrees
  <2>7. /\ x.byNonce = y.byNonce /\ x.current = y.current /\ x.byHash = y.byHash
        /\ x.known = y.known \cup {t} /\ x.future = y.future /\ x.futureSize = y.futureSize
    BY <2>1, <2>6 DEF QueueType
  <2>8. x \in QueueType
    BY <2>1, <2>6 DEF QueueType
  <2> QED  BY <2>5, <2>7, <2>8 DEF Agrees
<1> QED  BY <1>1, <1>5, <1>8, TrimAgrees

\* The cache of what was dropped does not matter to the indices.
LEMMA DroppedAgrees ==
    ASSUME NEW s, NEW K, Agrees(s, K), NEW d \in Seq(Tx)
    PROVE  Agrees([s EXCEPT !.dropped = d], K) /\ [s EXCEPT !.dropped = d].known = s.known
<1> DEFINE r == [s EXCEPT !.dropped = d]
<1>1. s \in QueueType
  BY DEF Agrees
<1>2. /\ r.byNonce = s.byNonce /\ r.current = s.current /\ r.byHash = s.byHash
      /\ r.known = s.known /\ r.future = s.future /\ r.futureSize = s.futureSize
  BY <1>1 DEF QueueType
<1>3. r \in QueueType
  BY <1>1 DEF QueueType
<1> HIDE DEF r
<1>4. Agrees(r, K)
  BY <1>2, <1>3 DEF Agrees
<1> QED  BY <1>2, <1>4 DEF r

LEMMA TouchedIs ==
    ASSUME NEW d \in Seq(Tx), NEW t \in Tx
    PROVE  Touched(d, t) \in Seq(Tx) /\ Inserted(d, t) \in Seq(Tx)
<1>1. Without(d, {t}) \in Seq(Tx) /\ <<t>> \in Seq(Tx)
  BY WithoutIs
<1>2. Touched(d, t) \in Seq(Tx)
  BY <1>1 DEF Touched
<1>3. Front(d) \in Seq(Tx)
  <2>1. Len(d) \in Nat /\ \A i \in 1..(Len(d) - 1) : d[i] \in Tx
    OBVIOUS
  <2>2. 1 \in Int /\ Len(d) - 1 \in Int
    BY <2>1
  <2>3. SubSeq(d, 1, Len(d) - 1) \in Seq(Tx)
    BY <2>1, <2>2, SubSeqProperties
  <2> QED  BY <2>3 DEF Front
<1>4. Inserted(d, t) \in Seq(Tx)
  BY <1>1, <1>2, <1>3 DEF Inserted
<1> QED  BY <1>2, <1>4

LEMMA ImportedAgrees ==
    ASSUME NEW s, Agrees(s, {}), NEW t \in Tx, NEW retry, NEW r \in Imported(s, t, retry)
    PROVE  Agrees(r, {})
<1> DEFINE touched == [s EXCEPT !.dropped = Touched(@, t)]
<1>1. r = s \/ r = touched \/ (t \notin s.known /\ r \in Manage(touched, t))
  BY DEF Imported
<1>2. Touched(s.dropped, t) \in Seq(Tx)
  BY TouchedIs DEF Agrees, QueueType
<1>3. touched = [s EXCEPT !.dropped = Touched(s.dropped, t)]
  OBVIOUS
<1> HIDE DEF touched
<1>4. Agrees(touched, {}) /\ touched.known = s.known
  BY <1>2, <1>3, DroppedAgrees
<1> QED  BY <1>1, <1>4, ManageAgrees

\* The indices agree, and what is on its way to the queue is a transaction.
QueueInv ==
    /\ Agrees(q, {})
    /\ unverified \in Seq(Tx) /\ checking \in [TxVerifier -> Tx \cup {NoTx}]

\* t and what follows on it become future ones.
LEMMA SetFutureAgrees ==
    ASSUME Agrees(q, {}), NEW t \in Tx, SetFuture(t)
    PROVE  Agrees(q', {})
<1> DEFINE moving == {u \in Of(t.from, q.byNonce) : u.nonce >= t.nonce}
           new == {u \in moving : ~\E w \in q.future : SameKey(u, w)}
<1>1. q \in QueueType /\ q.byNonce = q.byHash /\ Lists(q.current, q.byHash) /\ Distinct(q.byHash, q.future)
      /\ q.futureSize = Cardinality(q.future)
  BY DEF Agrees
<1>2. moving \in SUBSET q.byHash
  BY <1>1 DEF Of
<1>3. new = moving
  BY <1>1, <1>2 DEF Distinct
<1>4. q' = [q EXCEPT !.byHash = @ \ moving, !.byNonce = @ \ moving, !.current = Without(@, moving),
                     !.future = @ \cup moving, !.futureSize = @ + Cardinality(moving)]
  BY <1>3 DEF SetFuture
<1> HIDE DEF moving, new
<1>5. /\ IsFiniteSet(moving) /\ IsFiniteSet(q.future) /\ IsFiniteSet(q.byHash \ moving)
      /\ IsFiniteSet(q.future \cup moving)
  BY <1>1, <1>2, FS_Subset, FS_Union DEF Distinct
<1>6. Cardinality(q.future \cup moving) = q.futureSize + Cardinality(moving)
  <2>1. q.future \cap moving = {}
    BY <1>1, <1>2 DEF Distinct
  <2>2. Cardinality(q.future \cup moving) = Cardinality(q.future) + Cardinality(moving) - Cardinality(q.future \cap moving)
    BY <1>5, FS_Union
  <2>3. Cardinality(q.future \cap moving) = 0
    BY <2>1, FS_EmptySet
  <2>4. Cardinality(q.future) \in Nat /\ Cardinality(moving) \in Nat
    BY <1>5, FS_CardinalityType
  <2> QED  BY <1>1, <2>2, <2>3, <2>4
<1>7. Distinct(q.byHash \ moving, q.future \cup moving)
  BY <1>1, <1>2, <1>5 DEF Distinct
<1>8. Lists(Without(q.current, moving), q.byHash \ moving)
  BY <1>1, WithoutLists
<1> DEFINE r == q'
<1>9. /\ r.byNonce = q.byHash \ moving /\ r.current = Without(q.current, moving) /\ r.byHash = q.byHash \ moving
      /\ r.known = q.known /\ r.future = q.future \cup moving /\ r.futureSize = q.futureSize + Cardinality(moving)
  BY <1>1, <1>4 DEF QueueType
<1>10. q.futureSize + Cardinality(moving) \in Nat
  BY <1>5, <1>6, FS_CardinalityType
<1>11. r \in QueueType
  BY <1>1, <1>4, <1>7, <1>8, <1>10 DEF QueueType, Lists, Distinct
<1>12. r.byHash \cup r.future \subseteq r.known \cup {}
  BY <1>2, <1>9 DEF Agrees
<1> QED  BY <1>6, <1>7, <1>8, <1>9, <1>11, <1>12 DEF Agrees

LEMMA QueueInitially == QueueInit => QueueInv
<1> SUFFICES ASSUME QueueInit PROVE QueueInv
  OBVIOUS
<1>1. q = EmptyQueue /\ unverified = <<>> /\ checking = [v \in TxVerifier |-> NoTx]
  BY DEF QueueInit
<1>2. /\ q.current = <<>> /\ q.byHash = {} /\ q.byNonce = {} /\ q.future = {} /\ q.futureSize = 0 /\ q.known = {}
      /\ q.dropped = <<>> /\ q \in QueueType
  BY <1>1 DEF EmptyQueue, QueueType
<1>3. Lists(<<>>, {}) /\ Distinct({}, {}) /\ Cardinality({}) = 0
  BY FS_EmptySet DEF Lists, Distinct, ToSet, IsInjective
<1>4. Agrees(q, {})
  BY <1>2, <1>3 DEF Agrees
<1> QED  BY <1>1, <1>4 DEF QueueInv

LEMMA QueueStep == QueueInv /\ [QueueNext]_queueVars => QueueInv'
<1> SUFFICES ASSUME QueueInv, [QueueNext]_queueVars PROVE QueueInv'
  OBVIOUS
<1>1. Agrees(q, {}) /\ unverified \in Seq(Tx) /\ checking \in [TxVerifier -> Tx \cup {NoTx}]
  BY DEF QueueInv
<1>2. CASE UNCHANGED queueVars
  BY <1>1, <1>2 DEF QueueInv, queueVars
<1>3. ASSUME NEW t \in Tx, NEW retry \in BOOLEAN, ImportTx(t, retry) PROVE QueueInv'
  <2>1. Agrees(q', {})
    BY <1>1, <1>3, ImportedAgrees DEF ImportTx
  <2> QED  BY <1>1, <1>3, <2>1 DEF QueueInv, ImportTx
<1>4. ASSUME NEW t \in Tx, Drop(t) PROVE QueueInv'
  <2> DEFINE s == [q EXCEPT !.dropped = Inserted(q.dropped, t)]
  <2>1. Inserted(q.dropped, t) \in Seq(Tx)
    BY <1>1, TouchedIs DEF Agrees, QueueType
  <2>2. Agrees(s, {})
    BY <1>1, <2>1, DroppedAgrees
  <2>3. q' = Removed(s, t)
    BY <1>4 DEF Drop
  <2> HIDE DEF s
  <2>4. Agrees(q', {})
    BY <2>2, <2>3, RemovedAgrees
  <2> QED  BY <1>1, <1>4, <2>4 DEF QueueInv, Drop
<1>5. ASSUME NEW t \in Tx, DropGood(t) PROVE QueueInv'
  <2>1. PICK s \in MakeCurrent(q, t) : q' = s \/ q' = Removed(s, t)
    BY <1>5 DEF DropGood
  <2>2. Agrees(s, {})
    BY <1>1, <2>1, MakeCurrentAgrees
  <2>3. Agrees(q', {})
    BY <2>1, <2>2, RemovedAgrees
  <2> QED  BY <1>1, <1>5, <2>3 DEF QueueInv, DropGood
<1>6. ASSUME NEW t \in Tx, SetFuture(t) PROVE QueueInv'
  <2>1. Agrees(q', {})
    BY <1>1, <1>6, SetFutureAgrees
  <2> QED  BY <1>1, <1>6, <2>1 DEF QueueInv, SetFuture
<1>7. ASSUME NEW t \in Tx, Enqueue(t) PROVE QueueInv'
  BY <1>1, <1>7 DEF QueueInv, Enqueue
<1>8. ASSUME NEW v \in TxVerifier, TakeTx(v) PROVE QueueInv'
  BY <1>1, <1>8 DEF QueueInv, TakeTx
<1>9. ASSUME NEW v \in TxVerifier, CheckTx(v) PROVE QueueInv'
  <2>1. checking[v] \in Tx
    BY <1>1, <1>9 DEF CheckTx
  <2>2. Agrees(q', {})
    BY <1>1, <1>9, <2>1, ImportedAgrees DEF CheckTx
  <2> QED  BY <1>1, <1>9, <2>2 DEF QueueInv, CheckTx
<1>10. ASSUME NEW v \in TxVerifier, Return(v) PROVE QueueInv'
  BY <1>1, <1>10 DEF QueueInv, Return
<1>11. CASE ClearTxs
  <2>1. q' = EmptyQueue /\ unverified' = unverified /\ checking' = checking
    BY <1>11 DEF ClearTxs
  <2> DEFINE s == q'
  <2>2. /\ s.current = <<>> /\ s.byHash = {} /\ s.byNonce = {} /\ s.future = {} /\ s.futureSize = 0 /\ s.known = {}
        /\ s.dropped = <<>> /\ s \in QueueType
    BY <2>1 DEF EmptyQueue, QueueType
  <2>3. Lists(<<>>, {}) /\ Distinct({}, {}) /\ Cardinality({}) = 0
    BY FS_EmptySet DEF Lists, Distinct, ToSet, IsInjective
  <2>4. Agrees(q', {})
    BY <2>2, <2>3 DEF Agrees
  <2> QED  BY <1>1, <2>1, <2>4 DEF QueueInv
<1>12. CASE Abort
  BY <1>1, <1>12 DEF QueueInv, Abort
<1> QED  BY <1>2, <1>3, <1>4, <1>5, <1>6, <1>7, <1>8, <1>9, <1>10, <1>11, <1>12 DEF QueueNext

\* Whatever is imported, dropped, made current or future, cleared and brought by
\* the verifiers, the three indices of the current transactions hold the same
\* ones, no nonce of an account is queued twice, the future ones are counted
\* right, and all that is queued is known.
THEOREM QueueConsistent == QueueSpec => []QueueIsConsistent
<1>1. QueueInv => QueueIsConsistent
  <2> SUFFICES ASSUME QueueInv PROVE QueueIsConsistent
    OBVIOUS
  <2>1. /\ Lists(q.current, q.byHash) /\ q.byNonce = q.byHash /\ Distinct(q.byHash, q.future)
        /\ q.futureSize = Cardinality(q.future) /\ q.byHash \cup q.future \subseteq q.known
    BY DEF QueueInv, Agrees
  <2> QED  BY <2>1 DEF QueueIsConsistent, Lists, Distinct
<1> QED  BY <1>1, QueueInitially, QueueStep, PTL DEF QueueSpec
=============================================================================
