------------------------------- MODULE Worker -------------------------------
(***************************************************************************)
(* libdevcore/Worker: threads that start, stop and terminate one worker    *)
(* thread through m_state, a mutex and a condition variable.               *)
(*                                                                         *)
(* What a thread does while it holds x_work is one step; m_state is also   *)
(* read without the mutex, by the worker thread alone.  A wait ends when   *)
(* somebody notifies after it began (a spurious wakeup would only check    *)
(* again).  Work that throws, and a workLoop of the user's own, may end by  *)
(* themselves.                                                             *)
(***************************************************************************)
EXTENDS Naturals

CONSTANTS
    Caller,   \* threads that call startWorking, stopWorking, terminate
    SelfEnds, \* whether the work may end before it is asked to
    Serial    \* do the callers take turns?  x_work does not see to it

ASSUME UseAssumption == SelfEnds \in BOOLEAN /\ Serial \in BOOLEAN

VARIABLES
    state,  \* m_state
    thread, \* where the worker thread is; "none": m_work is null
    pc      \* where each caller is; "idle": in no call

workerVars == <<state, thread, pc>>

WorkerState == {"Starting", "Started", "Stopping", "Stopped", "Killing"}
ThreadAt == {"none", "head", "starts", "started", "works", "stops", "stopped", "rests", "sleeps",
             "exited"}
CallerAt == {"idle", "start", "startWaits", "startWoken", "stop", "stopWaits", "stopWoken",
             "terminate", "terminateNotifies", "joins", "resets"}

WorkerTypeOK ==
    /\ state \in WorkerState
    /\ thread \in ThreadAt
    /\ pc \in [Caller -> CallerAt]
    /\ \A c \in Caller : pc[c] = "resets" => thread = "exited"

WorkerInit ==
    /\ state = "Starting"
    /\ thread = "none"
    /\ pc = [c \in Caller |-> "idle"]

\* m_state_notifier.notify_all(): who waits has to look again.
Woken(at) ==
    CASE at = "startWaits" -> "startWoken"
      [] at = "stopWaits"  -> "stopWoken"
      [] at = "sleeps"     -> "rests"
      [] OTHER             -> at
Notified(at) == [d \in Caller |-> Woken(at[d])]
-----------------------------------------------------------------------------
(* The calls. *)

Call(c, op) ==
    /\ pc[c] = "idle"
    /\ Serial => \A d \in Caller : pc[d] = "idle"
    /\ pc' = [pc EXCEPT ![c] = op]
    /\ UNCHANGED <<state, thread>>

\* startWorking() makes the thread, or asks a stopped one to go on.
StartFirst(c) ==
    /\ pc[c] = "start" /\ thread = "none"
    /\ state' = "Starting"
    /\ thread' = "head"
    /\ pc' = [Notified(pc) EXCEPT ![c] = "startWaits"]

\* Bug variant: nobody is notified.
BugStartAgain(c) ==
    /\ pc[c] = "start" /\ thread # "none"
    /\ state' = IF state = "Stopped" THEN "Starting" ELSE state
    /\ pc' = [pc EXCEPT ![c] = IF state' = "Starting" THEN "startWaits" ELSE "idle"]
    /\ UNCHANGED thread
StartAgain(c) ==
    /\ pc[c] = "start" /\ thread # "none"
    /\ state' = IF state = "Stopped" THEN "Starting" ELSE state
    /\ thread' = Woken(thread)
    /\ pc' = [Notified(pc) EXCEPT ![c] = IF state' = "Starting" THEN "startWaits" ELSE "idle"]

StartLooks(c) ==
    /\ pc[c] = "startWoken"
    /\ pc' = [pc EXCEPT ![c] = IF state = "Starting" THEN "startWaits" ELSE "idle"]
    /\ UNCHANGED <<state, thread>>

\* stopWorking() asks a started worker, and waits for it.
Stop(c) ==
    /\ pc[c] = "stop" /\ thread # "none" /\ state = "Started"
    /\ state' = "Stopping"
    /\ thread' = Woken(thread)
    /\ pc' = [Notified(pc) EXCEPT ![c] = "stopWaits"]

StopNothing(c) ==
    /\ pc[c] = "stop" /\ (thread = "none" \/ state # "Started")
    /\ pc' = [pc EXCEPT ![c] = "idle"]
    /\ UNCHANGED <<state, thread>>

StopLooks(c) ==
    /\ pc[c] = "stopWoken"
    /\ pc' = [pc EXCEPT ![c] = IF state = "Stopped" THEN "idle" ELSE "stopWaits"]
    /\ UNCHANGED <<state, thread>>

\* terminate() leaves it to another call that is at it.
Terminate(c) ==
    /\ pc[c] = "terminate" /\ thread # "none" /\ state # "Killing"
    /\ state' = "Killing"
    /\ pc' = [pc EXCEPT ![c] = "terminateNotifies"]
    /\ UNCHANGED thread

TerminateNothing(c) ==
    /\ pc[c] = "terminate" /\ (thread = "none" \/ state = "Killing")
    /\ pc' = [pc EXCEPT ![c] = "idle"]
    /\ UNCHANGED <<state, thread>>

TerminateNotifies(c) ==
    /\ pc[c] = "terminateNotifies"
    /\ thread' = Woken(thread)
    /\ pc' = [Notified(pc) EXCEPT ![c] = "joins"]
    /\ UNCHANGED state

\* Bug variant: the thread is not waited for.
BugJoins(c) ==
    /\ pc[c] = "joins"
    /\ pc' = [pc EXCEPT ![c] = "resets"]
    /\ UNCHANGED <<state, thread>>
Joins(c) ==
    /\ pc[c] = "joins" /\ thread = "exited"
    /\ pc' = [pc EXCEPT ![c] = "resets"]
    /\ UNCHANGED <<state, thread>>

Resets(c) ==
    /\ pc[c] = "resets"
    /\ thread' = "none"
    /\ pc' = [pc EXCEPT ![c] = "idle"]
    /\ UNCHANGED state
-----------------------------------------------------------------------------
(* The worker thread. *)

\* The head of the loop reads m_state without the mutex.
LoopHead ==
    /\ thread = "head"
    /\ thread' = IF state = "Killing" THEN "exited" ELSE "starts"
    /\ UNCHANGED <<state, pc>>

Starts ==
    /\ thread = "starts"
    /\ state' = "Started" /\ thread' = "started"
    /\ UNCHANGED pc

NotifiesStarted ==
    /\ thread = "started"
    /\ thread' = "works" /\ pc' = Notified(pc)
    /\ UNCHANGED state

\* workLoop ends when it is no longer wanted, or by itself.
WorkEnds ==
    /\ thread = "works" /\ (SelfEnds \/ state # "Started")
    /\ thread' = "stops"
    /\ UNCHANGED <<state, pc>>

\* Bug variant: a call of terminate() meanwhile is overwritten.
BugStops ==
    /\ thread = "stops"
    /\ state' = IF state = "Starting" THEN state ELSE "Stopped"
    /\ thread' = "stopped"
    /\ UNCHANGED pc
Stops ==
    /\ thread = "stops"
    /\ state' = IF state \in {"Killing", "Starting"} THEN state ELSE "Stopped"
    /\ thread' = "stopped"
    /\ UNCHANGED pc

NotifiesStopped ==
    /\ thread = "stopped"
    /\ thread' = "rests" /\ pc' = Notified(pc)
    /\ UNCHANGED state

Rests ==
    /\ thread = "rests"
    /\ thread' = IF state = "Stopped" THEN "sleeps" ELSE "head"
    /\ UNCHANGED <<state, pc>>
-----------------------------------------------------------------------------
Steps(c) ==
    \/ StartFirst(c) \/ StartAgain(c) \/ StartLooks(c)
    \/ Stop(c) \/ StopNothing(c) \/ StopLooks(c)
    \/ Terminate(c) \/ TerminateNothing(c) \/ TerminateNotifies(c) \/ Joins(c) \/ Resets(c)

Runs == LoopHead \/ Starts \/ NotifiesStarted \/ Stops \/ NotifiesStopped \/ Rests

WorkerNext ==
    \/ \E c \in Caller : Steps(c) \/ \E op \in {"start", "stop", "terminate"} : Call(c, op)
    \/ Runs \/ WorkEnds

WorkerSpec == WorkerInit /\ [][WorkerNext]_workerVars

\* Threads are scheduled.  The work ends once it is no longer wanted; before
\* that it may go on for ever.
WorkerFairness ==
    /\ \A c \in Caller : WF_workerVars(Steps(c))
    /\ WF_workerVars(Runs)
    /\ WF_workerVars(state # "Started" /\ WorkEnds)

WorkerFairSpec == WorkerSpec /\ WorkerFairness
-----------------------------------------------------------------------------
(***************************************************************************)
(* Properties                                                              *)
(***************************************************************************)

\* terminate(): "Stop and never start again" holds for the thread it ends: once
\* asked to go it is not told that it has started.
KillIsFinal ==
    [][thread # "none" /\ state = "Killing" => state' = "Killing"]_workerVars

\* What the caller may rely on when its call returns: after stopWorking() no work
\* runs, after terminate() there is no thread that could look at the object.
StopMeansStopped ==
    [][\A c \in Caller : pc[c] \in {"stop", "stopWoken"} /\ pc'[c] = "idle" =>
         thread' \notin {"works", "started", "starts"}]_workerVars
TerminateMeansGone ==
    [][\A c \in Caller : pc[c] \in {"terminate", "resets"} /\ pc'[c] = "idle" =>
         thread' = "none"]_workerVars

\* What callers of stopWorking() and terminate() may rely on.
CallersCanRely == KillIsFinal /\ StopMeansStopped /\ TerminateMeansGone

\* Nobody waits for ever: every notification that a wait needs comes after it.
CallsReturn == \A c \in Caller : pc[c] # "idle" ~> pc[c] = "idle"
=============================================================================
