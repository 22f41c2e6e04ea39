----------------------------- MODULE Execution -----------------------------
(***************************************************************************)
(* libethereum/Executive and ExtVM, as the EVM binding runs them: one      *)
(* transaction or message at a time on the state at a root, a frame for    *)
(* each nested call and creation, and the result committed or dropped.     *)
(*                                                                         *)
(* The state is the plain map of accounts that State implements (module    *)
(* StateLedger): a savepoint is a copy and rollback puts the copy back.    *)
(* Empty accounts are removed by every commit (eip158Mode), so an account  *)
(* that is empty and one that is not there are not told apart.  An account *)
(* has one storage slot.  Warm addresses, logs and outputs are left out.   *)
(*                                                                         *)
(* The bytecode is anything: evmone, which runs it, is external.  What is  *)
(* taken from it is that it asks for no call deeper than MaxDepth or of    *)
(* more value or gas than there is, and for no change in a static frame.   *)
(***************************************************************************)
EXTENDS Integers, Sequences, FiniteSetsExt

CONSTANTS
    Addr,
    Signer,          \* addresses with a key: transactions come from them
    Caller,          \* addresses that send messages
    Precompiled,     \* addresses of precompiled contracts
    Author,          \* of the block
    CreateAddress(_, _),  \* the address that a sender creates at a nonce
    SaltAddress(_),  \* the addresses that a contract can reach with CREATE2
    Bytecode, NoCode,
    StoredValue,     \* what the slot holds: 0 and others
    Roots,         \* states whose roots the user knows at first
    BaseGas,         \* what a transaction or message costs before it runs
    GasPrice,
    NetMetering,     \* EVMSchedule::sstoreNetGasMetering()
    SetGas, ResetGas, UnchangedGas, RefundGas, DestructGas,  \* of the EVMSchedule
    NoRun,
    MaxGas,          \* bound: gas for the VM
    MaxAmount,       \* bound: value sent along
    MaxDepth,        \* bound: frames
    MaxSteps,        \* bound: instructions of a run that leave the VM
    MaxNonce,        \* bound: nonces
    MaxRuns          \* bound: transactions and messages

VARIABLES
    trie,    \* the state at the root the binding returned last
    world,   \* the accounts as m_s shows them
    run,     \* the transaction or message, and its outermost Executive
    calls,   \* the Executives with code to run, innermost last
    runs     \* transactions and messages begun

execVars == <<trie, world, run, calls, runs>>

Code == Bytecode \cup {NoCode}
Empty == [nonce |-> 0, balance |-> 0, code |-> NoCode, slot |-> 0]
World == [Addr -> [nonce: Nat, balance: Int, code: Code, slot: StoredValue]]

ASSUME ExecutionAssumption ==
    /\ IsFiniteSet(Addr)
    /\ Signer \subseteq Addr /\ Caller \subseteq Addr /\ Precompiled \subseteq Addr
    /\ Author \in Addr
    /\ \A a \in Addr : SaltAddress(a) \subseteq Addr
    /\ \A a \in Addr, n \in 0..MaxNonce : CreateAddress(a, n) \in Addr
    /\ NoCode \notin Bytecode /\ 0 \in StoredValue
    /\ BaseGas \in Nat /\ GasPrice \in Nat /\ MaxGas \in Nat /\ MaxAmount \in Nat
    /\ MaxNonce \in Nat \ {0} /\ MaxRuns \in Nat
    /\ NetMetering \in BOOLEAN
    /\ {SetGas, ResetGas, UnchangedGas, RefundGas, DestructGas} \subseteq Int
    /\ Roots \subseteq World

\* Addresses that a creation can be at.  An account there that has storage or code has
\* a nonce, as creations give it, so that create() finds it taken.
Creatable ==
    {CreateAddress(a, n) : a \in Addr, n \in 0..MaxNonce} \cup UNION {SaltAddress(a) : a \in Addr}
Known(w) == \A a \in Creatable : w[a].slot # 0 \/ w[a].code # NoCode => w[a].nonce > 0
Solvent(w) == \A a \in Addr : w[a].balance >= 0

\* In each EVMSchedule a slot that stays the same is cheapest (200 or 800, and 100, to
\* 20000 and 5000 or less), and refunds are unsigned.  The states at first are such as
\* creations leave, and owe nothing: balances are unsigned.
ASSUME MoneyAssumption ==
    /\ UnchangedGas <= SetGas /\ UnchangedGas <= ResetGas /\ RefundGas >= 0 /\ DestructGas >= 0
    /\ \A w \in Roots : Known(w) /\ Solvent(w)
-----------------------------------------------------------------------------
(* Accounts. *)

IncNonce(w, a) == [w EXCEPT ![a].nonce = @ + 1]
Transfer(w, from, to, value) ==
    LET paid == [w EXCEPT ![from].balance = @ - value]
    IN  [paid EXCEPT ![to].balance = @ + value]

\* The account for a new contract. Bug variant: an account that has a nonce but
\* no code yet is taken for one that is free.
BugOccupied(w, a) == w[a].code # NoCode
Occupied(w, a) == w[a].code # NoCode \/ w[a].nonce > 0

\* What storing a value adds to the refunds, by the slot's value before the run,
\* its present one and the new one.  Without net metering, as before Istanbul and
\* Constantinople, every clearing earns and nothing is taken back.
\* Bug variant: clearing a slot that the run has changed before earns nothing.
BugRefund(original, present, value) ==
    IF value = present THEN 0
    ELSE IF ~NetMetering THEN (IF value = 0 THEN RefundGas ELSE 0)
    ELSE IF original = present THEN (IF original # 0 /\ value = 0 THEN RefundGas ELSE 0)
    ELSE (IF original # 0 /\ present = 0 THEN -RefundGas ELSE 0)
       + (IF original # value THEN 0
          ELSE (IF original = 0 THEN SetGas ELSE ResetGas) - UnchangedGas)
Refund(original, present, value) ==
    IF value = present THEN 0
    ELSE IF ~NetMetering THEN (IF value = 0 THEN RefundGas ELSE 0)
    ELSE IF original = present THEN (IF original # 0 /\ value = 0 THEN RefundGas ELSE 0)
    ELSE (IF original # 0 /\ present = 0 THEN -RefundGas ELSE 0)
       + (IF original # 0 /\ value = 0 THEN RefundGas ELSE 0)
       + (IF original # value THEN 0
          ELSE (IF original = 0 THEN SetGas ELSE ResetGas) - UnchangedGas)
-----------------------------------------------------------------------------
(* Frames.  An Executive that has nothing for the VM to run is over within   *)
(* the step that calls it.                                                   *)

NoSubState == [killed |-> {}, refunds |-> 0]
Accrued(s, t) == [killed |-> s.killed \cup t.killed, refunds |-> s.refunds + t.refunds]

Frame(address, sender, savepoint, gas, creates, static) ==
    [address |-> address, sender |-> sender, savepoint |-> savepoint, gas |-> gas,
     creates |-> creates, static |-> static, sub |-> NoSubState]

Running == run # NoRun /\ ~run.over
Top == calls[Len(calls)]
Outer == SubSeq(calls, 1, Len(calls) - 1)

\* The end of a call or creation: gas and sub-state go to the frame that called,
\* or to the outermost Executive when it was that one's.
End(r, outer, gas, sub, failed) ==
    IF outer = <<>>
    THEN /\ run' = [r EXCEPT !.over = TRUE, !.gas = gas, !.sub = sub, !.failed = failed]
         /\ calls' = <<>>
    ELSE /\ run' = r
         /\ calls' = [outer EXCEPT ![Len(outer)].gas = @ + gas,
                                   ![Len(outer)].sub = Accrued(@, sub)]

Enter(r, outer, frame) == run' = r /\ calls' = Append(outer, frame)

\* Executive::call after its nonce, w being the state so far.
CallCode(r, outer, w, p) ==
    \/ /\ p.to \in Precompiled
       /\ \/ world' = w /\ End(r, outer, 0, NoSubState, TRUE)
          \/ /\ world' = Transfer(w, p.sender, p.address, p.value)
             /\ \E left \in 0..p.gas : End(r, outer, left, NoSubState, FALSE)
    \/ /\ p.to \notin Precompiled
       /\ world' = Transfer(w, p.sender, p.address, p.value)
       /\ IF w[p.to].code = NoCode
          THEN End(r, outer, p.gas, NoSubState, FALSE)
          ELSE Enter(r, outer, Frame(p.address, p.sender, w, p.gas, FALSE, p.static))

\* executeCreate after its nonce; init code may be empty.
Create(r, outer, w, address, sender, value, gas) ==
    IF Occupied(w, address)
    THEN world' = w /\ End(r, outer, 0, NoSubState, TRUE)
    ELSE /\ world' = [Transfer(w, sender, address, value) EXCEPT
                         ![address].nonce = 1, ![address].slot = 0]
         /\ \/ End(r, outer, gas, NoSubState, FALSE)
            \/ Enter(r, outer, Frame(address, sender, w, gas, TRUE, FALSE))

\* executeUpgrade: what has no storage is taken for something new.
Upgrade(r, w, address, sender, value, gas) ==
    IF w[address].slot = 0
    THEN LET fresh == IncNonce(Transfer(w, sender, address, value), address)
         IN  \/ world' = [fresh EXCEPT ![address].code = NoCode] /\ End(r, <<>>, gas, NoSubState, FALSE)
             \/ world' = fresh /\ Enter(r, <<>>, Frame(address, sender, w, gas, TRUE, FALSE))
    ELSE IF w[address].code = NoCode
    THEN world' = w /\ End(r, <<>>, 0, NoSubState, TRUE)
    ELSE /\ \E c \in Code, slot \in {0, w[address].slot} :
               world' = [w EXCEPT ![address].code = c, ![address].slot = slot]
         /\ End(r, <<>>, 0, NoSubState, FALSE)
-----------------------------------------------------------------------------
(* Runs: the binding sets the root and executes. *)

ExecutionInit == trie \in Roots /\ world = trie /\ run = NoRun /\ calls = <<>> /\ runs = 0

Begin(kind, sender, gas) ==
    [kind |-> kind, sender |-> sender, limit |-> gas + BaseGas,
     steps |-> 0, over |-> FALSE, gas |-> 0, sub |-> NoSubState, failed |-> FALSE]

Cost(gas) == (gas + BaseGas) * GasPrice

\* The state when a transaction has paid for its gas and its nonce is used.
Paid(s, cost) == IncNonce([trie EXCEPT ![s].balance = @ - cost], s)

\* runTx and runCall.  A transaction that initialize() refuses changes nothing.
RunTx(s, to, creates, value, gas) ==
    LET r == Begin("tx", s, gas)
        p == [to |-> to, address |-> to, sender |-> s, value |-> value, gas |-> gas, static |-> FALSE]
        w == Paid(s, Cost(gas))
    IN  /\ run = NoRun /\ runs < MaxRuns /\ runs' = runs + 1
        /\ trie[s].code = NoCode /\ trie[s].nonce < MaxNonce
        /\ trie[s].balance >= Cost(gas) + value
        /\ \/ ~creates /\ CallCode(r, <<>>, w, p)
           \/ creates /\ Create(r, <<>>, w, CreateAddress(s, trie[s].nonce), s, value, gas)
        /\ UNCHANGED trie

\* runMessage: what it costs and its nonce are the user's.  A transfer that the
\* sender cannot pay throws, and nothing is changed.  Executive::execute does not
\* hand isStatic on: a static message stores and creates like any other.
RunMessage(kind, s, to, value, gas) ==
    LET r == Begin("message", s, gas)
        p == [to |-> to, address |-> to, sender |-> s, value |-> value, gas |-> gas, static |-> FALSE]
    IN  /\ run = NoRun /\ runs < MaxRuns /\ runs' = runs + 1
        /\ trie[s].balance >= value
        /\ \/ kind = "call" /\ CallCode(r, <<>>, trie, p)
           \/ /\ kind = "create" /\ trie[s].nonce \in 1..MaxNonce
              /\ Create(r, <<>>, trie, CreateAddress(s, trie[s].nonce - 1), s, value, gas)
           \/ /\ kind = "upgrade"
              /\ Upgrade([r EXCEPT !.kind = "upgrade"], trie, to, s, value, gas)
        /\ UNCHANGED trie

\* finalize(), and the commit that follows; a call, and a message with isStatic, which
\* is read only here, clear the cache instead.
MaxRefund == (run.limit - run.gas) \div 2
Earned == run.sub.refunds + DestructGas * Cardinality(run.sub.killed)
Left == run.gas + (IF Earned < MaxRefund THEN Earned ELSE MaxRefund)

PaidBack ==
    IF run.kind # "tx" THEN world ELSE
    LET sender == [world EXCEPT ![run.sender].balance = @ + Left * GasPrice]
    IN  [sender EXCEPT ![Author].balance = @ + (run.limit - Left) * GasPrice]

Finalize(kept) ==
    /\ run # NoRun /\ run.over
    /\ trie' = IF kept THEN [a \in Addr |-> IF a \in run.sub.killed THEN Empty ELSE PaidBack[a]]
               ELSE trie
    /\ world' = trie' /\ run' = NoRun /\ UNCHANGED <<calls, runs>>
-----------------------------------------------------------------------------
(* What the code of the innermost frame asks the host for (ExtVM, EvmCHost). *)

Step == [run EXCEPT !.steps = @ + 1]
Executes == Running /\ run.steps < MaxSteps /\ UNCHANGED <<trie, runs>>

Store(value) ==
    /\ Executes /\ ~Top.static
    /\ value # world[Top.address].slot
    /\ world' = [world EXCEPT ![Top.address].slot = value]
    /\ run' = Step
    /\ calls' = [calls EXCEPT ![Len(calls)].sub.refunds =
                    @ + Refund(trie[Top.address].slot, world[Top.address].slot, value)]

\* The frame without the gas it gives to the call or creation.
Spent(gas) == [calls EXCEPT ![Len(calls)].gas = @ - gas]

CallOut(kind, to, value, gas) ==
    LET me == Top.address
        transfers == IF kind = "DELEGATECALL" THEN 0 ELSE value
    IN  /\ Executes /\ Len(calls) < MaxDepth /\ gas <= Top.gas
        /\ value <= world[me].balance
        /\ (Top.static \/ kind = "STATICCALL") => value = 0
        /\ CallCode(Step, Spent(gas), world,
                [to |-> to, address |-> IF kind \in {"CALL", "STATICCALL"} THEN to ELSE me,
                 sender |-> IF kind = "DELEGATECALL" THEN Top.sender ELSE me,
                 value |-> transfers, gas |-> gas, static |-> Top.static \/ kind = "STATICCALL"])

CreateOut(address, value, gas) ==
    /\ Executes /\ Len(calls) < MaxDepth /\ gas <= Top.gas /\ ~Top.static
    /\ value <= world[Top.address].balance /\ world[Top.address].nonce < MaxNonce
    /\ Create(Step, Spent(gas), IncNonce(world, Top.address), address, Top.address, value, gas)

\* Bug variant: the balance is given away and kept.
BugDestructed(a, to) == [world EXCEPT ![to].balance = @ + world[a].balance]
Destructed(a, to) ==
    [[world EXCEPT ![to].balance = @ + world[a].balance] EXCEPT ![a].balance = 0]

\* The instruction ends the frame too, and leaves a new contract without code.
SelfDestruct(to) ==
    /\ Executes /\ ~Top.static
    /\ LET w == Destructed(Top.address, to)
       IN  world' = IF Top.creates THEN [w EXCEPT ![Top.address].code = NoCode] ELSE w
    /\ \E left \in 0..Top.gas :
         End(Step, Outer, left, Accrued(Top.sub, [killed |-> {Top.address}, refunds |-> 0]), FALSE)

Halt ==
    /\ Running /\ UNCHANGED <<trie, runs>>
    /\ \E c \in Code :
         /\ Top.creates \/ c = world[Top.address].code
         /\ world' = [world EXCEPT ![Top.address].code = c]
    /\ \E left \in 0..Top.gas : End(run, Outer, left, Top.sub, FALSE)

\* Bug variant: the sub-state of the frame that is undone is not cleared.
BugKept == Top.sub
Kept == NoSubState

\* Bug variant: the outermost frame is undone to the savepoint of the transaction.
BugUndone == IF Len(calls) = 1 THEN trie ELSE Top.savepoint
Undone == Top.savepoint

\* REVERT keeps the gas that is left, any other failure of the VM takes it, also
\* that of depositing the code of a new contract.
Undo ==
    /\ Running /\ UNCHANGED <<trie, runs>>
    /\ world' = Undone
    /\ \/ \E left \in 0..Top.gas : End(run, Outer, left, Kept, TRUE)
       \/ End(run, Outer, 0, Kept, TRUE)

\* An internal error of the VM in the outermost frame throws the run away; in a
\* nested one it ends the process, at a host function that must not throw.
Throw ==
    /\ Running /\ Len(calls) = 1
    /\ world' = trie /\ run' = NoRun /\ calls' = <<>>
    /\ UNCHANGED <<trie, runs>>

ExecutionNext ==
    \/ \E s \in Signer, to \in Addr, creates \in BOOLEAN, value \in 0..MaxAmount :
         \E gas \in 0..MaxGas : RunTx(s, to, creates, value, gas)
    \/ \E kind \in {"call", "create", "upgrade"}, s \in Caller, to \in Addr, value \in 0..MaxAmount, gas \in 0..MaxGas :
         RunMessage(kind, s, to, value, gas)
    \/ \E kept \in BOOLEAN : Finalize(kept)
    \/ \E value \in StoredValue : Store(value)
    \/ \E kind \in {"CALL", "CALLCODE", "DELEGATECALL", "STATICCALL"}, to \in Addr, value \in 0..MaxAmount :
         \E gas \in 0..MaxGas : CallOut(kind, to, value, gas)
    \/ /\ Running
       /\ \E value \in 0..MaxAmount, gas \in 0..MaxGas :
            \E a \in SaltAddress(Top.address) \cup {CreateAddress(Top.address, world[Top.address].nonce)} :
                CreateOut(a, value, gas)
    \/ \E to \in Addr : SelfDestruct(to)
    \/ Halt \/ Undo \/ Throw

ExecutionSpec == ExecutionInit /\ [][ExecutionNext]_execVars
-----------------------------------------------------------------------------
(***************************************************************************)
(* Properties                                                              *)
(***************************************************************************)

Total(w) == MapThenSumSet(LAMBDA a : w[a].balance, Addr)
Escrow == IF run # NoRun /\ run.kind = "tx" THEN run.limit * GasPrice ELSE 0
Destructs == run.sub.killed \cup UNION {calls[i].sub.killed : i \in 1..Len(calls)}

\* Money is moved, never made: a run has what the state had it started from,
\* less what selfdestructs burn, and with what was paid for gas (transfers, undone
\* frames, refunds and fees together); so no state has more than the first ones.
\* The gas of nested frames and the refunds never add up to more than was paid
\* for, or the fee would wrap.
MoneyIsKept ==
    /\ \E w \in Roots : Total(trie) <= Total(w)
    /\ run # NoRun => /\ Total(world) + Escrow <= Total(trie)
                      /\ Destructs = {} => Total(world) + Escrow = Total(trie)
                      /\ run.over => Left \in 0..run.limit

\* The refunds of the frames, of those that are not undone, are at least what
\* the storage as it is now has earned: clearing, setting back and undoing never
\* leave too little, so that the sum cannot go below zero (set_storage, and
\* assert(m_ext->sub.refunds >= 0) in finalize()).
Cleared == {a \in Addr : trie[a].slot # 0 /\ world[a].slot = 0}
Refunds == MapThenSumSet(LAMBDA i : calls[i].sub.refunds, 1..Len(calls))
RefundsFollowStorage ==
    /\ calls # <<>> => Refunds >= RefundGas * Cardinality(Cleared)
    /\ run # NoRun => run.sub.refunds >= 0

\* A transaction that is committed uses up its sender's nonce, exactly one,
\* whatever happened in it: it cannot be run again on the state it leaves.
NonceIsUsedUp ==
    [][Finalize(TRUE) /\ run.kind = "tx" =>
        trie'[run.sender].nonce = trie[run.sender].nonce + 1]_execVars

\* A run whose outermost call or creation failed changes what its gas costs and
\* its nonce, and nothing else: no transfer, no storage, no code, no selfdestruct
\* of a frame inside it that had succeeded.
FailureOnlyCosts ==
    [][Finalize(TRUE) /\ run.failed => \A a \in Addr :
        /\ trie'[a].code = trie[a].code /\ trie'[a].slot = trie[a].slot
        /\ run.kind # "tx" \/ a # run.sender => trie'[a].nonce = trie[a].nonce
        /\ run.kind # "tx" \/ a \notin {run.sender, Author} => trie'[a].balance = trie[a].balance]_execVars

\* Code that is there is never replaced, also not by two creations of one address
\* inside each other (executeCreate's check), but by the upgrade message.
CodeIsNotReplaced ==
    [][Halt /\ run.kind # "upgrade" => \A a \in Addr : world[a].code # NoCode => world'[a].code = world[a].code]_execVars
=============================================================================
