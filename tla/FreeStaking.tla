---------------------------- MODULE FreeStaking -----------------------------
(***************************************************************************)
(* The callback of the estimate_fee precompiled contract in                *)
(* Executive::call.  It takes a reference to the stake of an account in    *)
(* m_cache, then looks up the daily fee in a contract's storage and the    *)
(* balance of the fee manager, and computes the fee from all three.  Both  *)
(* lookups may purge the cache.  Everything else that State does is in     *)
(* StateJournal, and waits while the callback runs.                        *)
(*                                                                         *)
(* The fee itself is arithmetic on the three numbers and is left out.      *)
(***************************************************************************)
EXTENDS StateJournal

CONSTANTS          \* addresses
    Staker,      \* accounts whose entry in the trie has a stake
    Config,      \* the contract with the daily fee (ConfigAddress)
    FeeManager   \* FeeManagerAddress

VARIABLES
    held,  \* the account whose stake the callback refers to, or None
    place  \* what the callback does next

stakeVars == <<held, place>>

StakeInit == Init /\ held = None /\ place = "away"

\* accountNonemptyAndExisting, then stakeInfo.
TakeStake(a) ==
    /\ place = "away" /\ Running
    /\ Exists(a) /\ ~IsEmpty(Loaded(a)) /\ trie[a] # None
    /\ Access(a, Loaded(a))
    /\ held' = a /\ place' = "dailyFee"
    /\ UNCHANGED <<stores, touchedForever, warmed, log, frames>>

\* storage of the config contract, which may not exist, at the key of the fee.
LookUpFee ==
    /\ place = "dailyFee"
    /\ Access(Config, IF Exists(Config) THEN Looked(Loaded(Config), AnyKey) ELSE None)
    /\ place' = "balance"
    /\ UNCHANGED <<stores, touchedForever, warmed, log, frames, held>>

LookUpBalance ==
    /\ place = "balance"
    /\ Access(FeeManager, Loaded(FeeManager))
    /\ place' = "estimate"
    /\ UNCHANGED <<stores, touchedForever, warmed, log, frames, held>>

\* estimateFee reads the stake.
EstimateFee ==
    /\ place = "estimate"
    /\ held' = None /\ place' = "away"
    /\ UNCHANGED vars

StakeNext ==
    \/ place = "away" /\ Next /\ UNCHANGED stakeVars
    \/ \E a \in Staker : TakeStake(a)
    \/ LookUpFee \/ LookUpBalance \/ EstimateFee

StakeSpec == StakeInit /\ [][StakeNext]_<<vars, stakeVars>>
-----------------------------------------------------------------------------
\* The stake is still where the reference points when the fee is computed:
\* "valid until the next access to the state or account" (State.h:352).
StakeIsThere == place = "estimate" => cache[held] # None
=============================================================================
