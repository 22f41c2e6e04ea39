-------------------------------- MODULE Farm --------------------------------
(***************************************************************************)
(* libethashseal/Ethash with its GenericFarm of miners: threads that ask   *)
(* for a seal, cancel or hand in solutions from outside, and the threads   *)
(* of the miners, under m_submitLock and x_minerWork.                      *)
(*                                                                         *)
(* A header stands for its hash without the seal, a solution for the       *)
(* header it solves.  The farm's loops over the miners run under           *)
(* x_minerWork and wait in them for threads to end, so `round`, the loop    *)
(* under way, is also the lock.  The hash counts and their timer, external *)
(* hash rates and sealers other than "cpu" are left out.  getWork() writes  *)
(* m_sealing without m_submitLock; each write of it is taken as one step.   *)
(***************************************************************************)
EXTENDS Naturals

CONSTANTS
    Client,      \* threads that call into Ethash
    MinerCount,  \* miners that start() makes
    Header,
    NoHeader,    \* h256(): no work; and no solution
    NoOne,       \* nobody holds the lock; no loop is under way
    MaxCalls,    \* bound on the calls
    MaxFinds     \* bound on the solutions found

ASSUME FarmAssumption ==
    /\ MinerCount \in Nat \ {0} /\ MaxCalls \in Nat /\ MaxFinds \in Nat
    /\ NoHeader \notin Header

Miner == 1..MinerCount
Thread == Client \cup Miner
Rounds == [by: Thread, kind: {"set", "start", "stop", "solved"}, miner: 1..MinerCount + 1, told: BOOLEAN]

ASSUME ThreadAssumption == Client \cap Miner = {} /\ NoOne \notin Thread \cup Rounds

VARIABLES
    sealing,    \* m_sealing: [header, solution], the solution being its seal
    replaced,   \* has getWork() written m_sealing since a solution was verified in it?
    submitLock, \* the thread that holds m_submitLock
    watching,   \* does miningProgress() hold x_minerWork, shared?
    farmed,     \* m_miners is not empty
    farmWork,   \* m_work of the farm
    round,      \* the loop over the miners under x_minerWork: [by, kind, miner, told]
    minerWork,  \* m_work of each miner
    ending,     \* m_shouldStop of each miner
    at,         \* where each thread is; "none": the miner's m_thread is null
    job,        \* the header a call is about, or the work a miner's thread took
    calls, finds

farmVars == <<sealing, replaced, submitLock, watching, farmed, farmWork, round, minerWork, ending, at, job,
              calls, finds>>

FarmInit ==
    /\ sealing = [header |-> NoHeader, solution |-> NoHeader] /\ replaced = FALSE
    /\ submitLock = NoOne /\ watching = FALSE
    /\ farmed = FALSE /\ farmWork = NoHeader /\ round = NoOne
    /\ minerWork = [m \in Miner |-> NoHeader] /\ ending = [m \in Miner |-> FALSE]
    /\ at = [t \in Thread |-> IF t \in Client THEN "idle" ELSE "none"]
    /\ job = [t \in Thread |-> NoHeader]
    /\ calls = 0 /\ finds = 0

\* x_minerWork can be locked.
FarmFree == round = NoOne /\ ~watching

\* What a thread goes on with when its solution is not taken.
Refused(t) == IF t \in Client THEN "idle" ELSE "tests"

GoTo(t, place) == at' = [at EXCEPT ![t] = place]

BeginRound(t, kind) ==
    round' = [by |-> t, kind |-> kind, miner |-> IF farmed \/ kind = "start" THEN 1 ELSE MinerCount + 1,
              told |-> FALSE]
-----------------------------------------------------------------------------
(* Calls.  generateSeal holds m_submitLock all through: setWork, start and  *)
(* setWork once more, in case there were no miners the first time.          *)

CallFarm(c, place, h) ==
    /\ at[c] = "idle" /\ calls < MaxCalls /\ calls' = calls + 1
    /\ GoTo(c, place) /\ job' = [job EXCEPT ![c] = h]
    /\ UNCHANGED <<sealing, replaced, submitLock, watching, farmed, farmWork, round, minerWork, ending, finds>>

GenerateSeal(c, h) == CallFarm(c, "generates", h)
CancelGeneration(c) == CallFarm(c, "cancels", NoHeader)
SubmitEthashWork(c, h) == CallFarm(c, "found", h)

\* At any time, also while a solution is put into m_sealing, verified and encoded.
GetWork(c, h) ==
    /\ at[c] = "idle" /\ calls < MaxCalls /\ calls' = calls + 1
    /\ sealing' = [header |-> h, solution |-> NoHeader]
    /\ replaced' = (replaced \/ \E t \in Thread : at[t] = "verified")
    /\ UNCHANGED <<submitLock, watching, farmed, farmWork, round, minerWork, ending, at, job, finds>>

\* Bug variant: without the lock.
BugLockSubmit(c) ==
    /\ at[c] = "generates"
    /\ sealing' = [header |-> job[c], solution |-> NoHeader] /\ GoTo(c, "sets")
    /\ UNCHANGED <<replaced, submitLock, watching, farmed, farmWork, round, minerWork, ending, job, calls, finds>>

LockSubmit(c) ==
    /\ at[c] = "generates" /\ submitLock = NoOne
    /\ submitLock' = c /\ sealing' = [header |-> job[c], solution |-> NoHeader]
    /\ GoTo(c, "sets")
    /\ UNCHANGED <<replaced, watching, farmed, farmWork, round, minerWork, ending, job, calls, finds>>

After(place) == CASE place = "sets" -> "starts" [] place = "starts" -> "setsAgain"
                  [] place = "setsAgain" -> "returns"

SetWork(c) ==
    /\ at[c] \in {"sets", "setsAgain"} /\ FarmFree
    /\ IF farmWork = job[c]
       THEN GoTo(c, After(at[c])) /\ UNCHANGED <<farmWork, round>>
       ELSE farmWork' = job[c] /\ BeginRound(c, "set") /\ UNCHANGED at
    /\ UNCHANGED <<sealing, replaced, submitLock, watching, farmed, minerWork, ending, job, calls, finds>>

StartMiners(c) ==
    /\ at[c] = "starts" /\ FarmFree
    /\ IF farmed
       THEN GoTo(c, After(at[c])) /\ UNCHANGED round
       ELSE BeginRound(c, "start") /\ UNCHANGED at
    /\ UNCHANGED <<sealing, replaced, submitLock, watching, farmed, farmWork, minerWork, ending, job, calls, finds>>

UnlockSubmit(c) ==
    /\ at[c] = "returns" /\ submitLock' = NoOne /\ GoTo(c, "idle")
    /\ UNCHANGED <<sealing, replaced, watching, farmed, farmWork, round, minerWork, ending, job, calls, finds>>

StopMiners(c) ==
    /\ at[c] = "cancels" /\ FarmFree /\ BeginRound(c, "stop")
    /\ UNCHANGED <<sealing, replaced, submitLock, watching, farmed, farmWork, minerWork, ending, at, job, calls,
                   finds>>

\* miningProgress(); those who wait for the lock keep new readers out.
Watch ==
    /\ FarmFree /\ \A c \in Client : at[c] \notin {"sets", "setsAgain", "starts", "cancels"}
    /\ watching' = TRUE
    /\ UNCHANGED <<sealing, replaced, submitLock, farmed, farmWork, round, minerWork, ending, at, job, calls, finds>>

Watched ==
    /\ watching /\ watching' = FALSE
    /\ UNCHANGED <<sealing, replaced, submitLock, farmed, farmWork, round, minerWork, ending, at, job, calls, finds>>
-----------------------------------------------------------------------------
(* The loops.  A miner is told its work, by setWork() or its destructor, and *)
(* then waited for.                                                          *)

NextMiner == round' = [round EXCEPT !.miner = @ + 1, !.told = FALSE]
EndThread(m) == ending' = [ending EXCEPT ![m] = at[m] # "none" \/ ending[m]]

\* Bug variant: a miner is left running when there is no work for it.
BugPauses(m) == FALSE

\* setWork() with no work pauses a miner that had some.
Pauses(m) == m # round.by /\ minerWork[m] # NoHeader

Tell ==
    /\ round # NoOne /\ round.miner \in Miner /\ ~round.told
    /\ LET m == round.miner
       IN  \/ /\ round.kind = "set"
              /\ minerWork' = [minerWork EXCEPT ![m] = farmWork] /\ EndThread(m)
              /\ round' = [round EXCEPT !.told = TRUE] /\ UNCHANGED at
           \/ /\ round.kind = "start"
              /\ minerWork' = [minerWork EXCEPT ![m] = farmWork]
              /\ IF farmWork = NoHeader THEN UNCHANGED <<at, ending>>
                 ELSE GoTo(m, "created") /\ ending' = [ending EXCEPT ![m] = FALSE]
              /\ NextMiner
           \/ /\ round.kind = "stop"
              /\ EndThread(m) /\ round' = [round EXCEPT !.told = TRUE] /\ UNCHANGED <<minerWork, at>>
           \/ /\ round.kind = "solved"
              /\ minerWork' = IF m = round.by THEN minerWork ELSE [minerWork EXCEPT ![m] = NoHeader]
              /\ IF Pauses(m)
                 THEN EndThread(m) /\ round' = [round EXCEPT !.told = TRUE]
                 ELSE NextMiner /\ UNCHANGED ending
              /\ UNCHANGED at
    /\ UNCHANGED <<sealing, replaced, submitLock, watching, farmed, farmWork, job, calls, finds>>

\* join(), and what follows it: with work, kickOff() starts a new thread.
Join ==
    /\ round # NoOne /\ round.told /\ at[round.miner] \in {"none", "exited"}
    /\ LET m == round.miner
       IN  /\ GoTo(m, IF round.kind = "set" THEN "created" ELSE "none")
           /\ ending' = [ending EXCEPT ![m] = FALSE]
           /\ minerWork' = IF round.kind = "stop" THEN [minerWork EXCEPT ![m] = NoHeader] ELSE minerWork
    /\ NextMiner
    /\ UNCHANGED <<sealing, replaced, submitLock, watching, farmed, farmWork, job, calls, finds>>

EndRound ==
    /\ round # NoOne /\ round.miner \notin Miner
    /\ round' = NoOne
    /\ GoTo(round.by, IF round.kind \in {"set", "start"} THEN After(at[round.by])
                      ELSE IF round.by \in Miner THEN "accepted" ELSE "idle")
    /\ farmed' = (round.kind = "start" \/ (farmed /\ round.kind # "stop"))
    /\ farmWork' = IF round.kind \in {"stop", "solved"} THEN NoHeader ELSE farmWork
    /\ UNCHANGED <<sealing, replaced, submitLock, watching, minerWork, ending, job, calls, finds>>
-----------------------------------------------------------------------------
(* Miners, and solutions, theirs or from outside. *)

TakeWork(m) ==
    /\ at[m] = "created" /\ job' = [job EXCEPT ![m] = minerWork[m]] /\ GoTo(m, "tests")
    /\ UNCHANGED <<sealing, replaced, submitLock, watching, farmed, farmWork, round, minerWork, ending, calls, finds>>

TestEnding(m) ==
    /\ at[m] = "tests" /\ GoTo(m, IF ending[m] THEN "exited" ELSE "hashes")
    /\ UNCHANGED <<sealing, replaced, submitLock, watching, farmed, farmWork, round, minerWork, ending, job, calls,
                   finds>>

\* One hash.  Work of which another thread's reset() has wiped the header is
\* hashed as well, within the boundary that is left.
HashOnce(m) ==
    /\ at[m] = "hashes"
    /\ \/ GoTo(m, "tests") /\ UNCHANGED finds
       \/ finds < MaxFinds /\ finds' = finds + 1 /\ GoTo(m, "found")
    /\ UNCHANGED <<sealing, replaced, submitLock, watching, farmed, farmWork, round, minerWork, ending,
                   job, calls>>

\* The handler puts the solution into m_sealing,
PutSolution(t) ==
    /\ at[t] = "found" /\ submitLock = NoOne
    /\ submitLock' = t /\ sealing' = [sealing EXCEPT !.solution = job[t]] /\ GoTo(t, "put")
    /\ UNCHANGED <<replaced, watching, farmed, farmWork, round, minerWork, ending, job, calls, finds>>

\* verifies what is there,
VerifySeal(t) ==
    /\ at[t] = "put"
    /\ IF sealing.solution = sealing.header /\ sealing.header # NoHeader
       THEN GoTo(t, "verified") /\ UNCHANGED submitLock
       ELSE GoTo(t, Refused(t)) /\ submitLock' = NoOne
    /\ UNCHANGED <<sealing, replaced, watching, farmed, farmWork, round, minerWork, ending, job, calls,
                   finds>>

\* encodes it and unlocks m_submitLock to give it away as the sealed header.
Seal(t) ==
    /\ at[t] = "verified" /\ submitLock' = NoOne /\ replaced' = FALSE /\ GoTo(t, "sealed")
    /\ UNCHANGED <<sealing, watching, farmed, farmWork, round, minerWork, ending, job, calls, finds>>

\* Bug variant: it waits for the farm's lock.
BugTryFarm(t) ==
    /\ at[t] = "sealed" /\ FarmFree
    /\ BeginRound(t, "solved") /\ GoTo(t, "solves")
    /\ UNCHANGED <<sealing, replaced, submitLock, watching, farmed, farmWork, minerWork, ending, job, calls, finds>>

\* submitProof(), which gives up if somebody has the farm's lock.
TryFarm(t) ==
    /\ at[t] = "sealed"
    /\ IF FarmFree
       THEN BeginRound(t, "solved") /\ GoTo(t, "solves")
       ELSE GoTo(t, Refused(t)) /\ UNCHANGED round
    /\ UNCHANGED <<sealing, replaced, submitLock, watching, farmed, farmWork, minerWork, ending, job, calls, finds>>

\* The miner whose solution was taken drops its work and its loop ends.
DropWork(m) ==
    /\ at[m] = "accepted" /\ GoTo(m, "exited") /\ minerWork' = [minerWork EXCEPT ![m] = NoHeader]
    /\ UNCHANGED <<sealing, replaced, submitLock, watching, farmed, farmWork, round, ending, job, calls, finds>>
-----------------------------------------------------------------------------
ClientSteps(c) == LockSubmit(c) \/ SetWork(c) \/ StartMiners(c) \/ UnlockSubmit(c) \/ StopMiners(c)
RoundSteps == Tell \/ Join \/ EndRound
MinerSteps(m) == TakeWork(m) \/ TestEnding(m) \/ HashOnce(m) \/ DropWork(m)
SolutionSteps(t) == PutSolution(t) \/ VerifySeal(t) \/ Seal(t) \/ TryFarm(t)

FarmNext ==
    \/ \E c \in Client, h \in Header :
        GenerateSeal(c, h) \/ GetWork(c, h) \/ SubmitEthashWork(c, h)
    \/ \E c \in Client : CancelGeneration(c) \/ ClientSteps(c)
    \/ Watch \/ Watched \/ RoundSteps
    \/ \E m \in Miner : MinerSteps(m)
    \/ \E t \in Thread : SolutionSteps(t)

\* The threads run and readers let go of the lock.  Calls and solutions are
\* bounded, so a mutex that is free again and again is got in the end.
FarmFairness ==
    /\ \A c \in Client : WF_farmVars(ClientSteps(c))
    /\ WF_farmVars(RoundSteps) /\ WF_farmVars(Watched)
    /\ \A m \in Miner : WF_farmVars(MinerSteps(m))
    /\ \A t \in Thread : WF_farmVars(SolutionSteps(t))

FarmSpec == FarmInit /\ [][FarmNext]_farmVars /\ FarmFairness
-----------------------------------------------------------------------------
(***************************************************************************)
(* Properties                                                              *)
(***************************************************************************)

\* Whenever the farm's lock is free, whoever will hash on does so for the farm's
\* work, or for none: setWork() and submitProof() leave no miner on old work.
MinersFollowFarm ==
    round = NoOne => \A m \in Miner :
        /\ at[m] = "created" => minerWork[m] \in {farmWork, NoHeader}
        /\ at[m] \in {"tests", "hashes", "found", "put"} /\ ~ending[m] => job[m] \in {farmWork, NoHeader}

\* What is given away as sealed is the header that was verified, with a solution of
\* its own ("a mutex covering m_sealing").  Only getWork(), which does not lock that
\* mutex, takes its place, and then it is a header with no solution, never one with
\* the solution of another.
SealIsSolved ==
    [][\A t \in Thread : at[t] = "verified" /\ at'[t] = "sealed" =>
        \/ sealing.solution = sealing.header /\ ~replaced
        \/ sealing.solution = NoHeader /\ replaced]_farmVars

\* Handing in a solution holds nobody up, as long as generateSeal() comes to an
\* end: submitProof() only tries to lock what setWork() and stop() hold while they
\* wait for the thread that is in it.
Generating(c) == at[c] \in {"generates", "sets", "starts", "setsAgain", "returns"}
Submitting(t) == at[t] \in {"found", "put", "verified", "sealed", "solves", "accepted"}
SolutionsHoldNobodyUp ==
    (\A c \in Client : []<>~Generating(c)) =>
        /\ \A t \in Thread : Submitting(t) ~> ~Submitting(t)
        /\ \A c \in Client : at[c] = "cancels" ~> at[c] = "idle"

\* A farm that is "threadsafe": a seal that is asked for while a miner hands in a
\* solution is still generated.
SealsAreGenerated == \A c \in Client : Generating(c) ~> ~Generating(c)
=============================================================================
