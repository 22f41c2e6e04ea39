----------------------------- MODULE MCBindings -----------------------------
(* The two bindings: of LevelDB, the lifecycle of a database with symmetric  *)
(* operation and iterator slots, the iteration of a range, and the data      *)
(* operations; of the EVM, the execution of transactions.  They share no     *)
(* variable, so each behaviour is one of one part: the others stay as they   *)
(* started.                                                                  *)
EXTENDS Database, Execution, StoreData, TLC

VARIABLE part

\* At most one lower and one upper bound, as in a sensible call; a limit of 3 can be met by
\* one read that gives two keys.
MCOptions ==
    {o \in [reverse: BOOLEAN, gt: Bound, gte: Bound, lt: Bound, lte: Bound, limit: {-1, 0, 1, 3}] :
        OneBoundEach(o)}

\* For clear(): forward to the end, or back from a bound with a limit.
MCClearOptions ==
    {o \in [reverse: BOOLEAN, gt: {None, 1}, gte: {None}, lt: {None}, lte: {None, 3}, limit: {-1, 2}] :
        /\ (o.gt = None) = o.reverse /\ (o.lte # None) = o.reverse
        /\ (o.limit = 2) = o.reverse}
MCWrites == {1 :> 0, 2 :> 1 @@ 3 :> 0}
MCReads == {{1, 2}}

\* A signer, a contract, an address that both of them create and that the
\* contract reaches with CREATE2 too, and a precompiled contract.
MCCreate(a, nonce) == "new"
MCSalt(a) == IF a = "c" THEN {"new"} ELSE {}
StateWith(slot, new) ==
    [a \in Addr |-> CASE a = "s" -> [Empty EXCEPT !.balance = 3]
                      [] a = "c" -> [nonce |-> 1, balance |-> 1, code |-> "x", slot |-> slot]
                      [] a = "new" -> new
                      [] OTHER -> Empty]
MCRoots == {StateWith(1, Empty), StateWith(0, [Empty EXCEPT !.nonce = 1, !.code = "x", !.slot = 1])}

EvmRest == trie = StateWith(1, Empty) /\ ExecutionInit
StoreRest == DataInit /\ contents = [k \in Keys |-> IF k < 4 THEN 1 ELSE 0]
RangeRest == options = (CHOOSE o \in OptionSets : o.limit = 0) /\ snapshot = {} /\ RangeInit

BindingsInit ==
    /\ Init
    /\ \/ part \in {"leveldb", "data"} /\ StoreRest /\ RangeRest /\ EvmRest
       \/ part = "range" /\ StoreRest /\ RangeInit /\ EvmRest
       \/ part = "evm" /\ StoreRest /\ RangeRest /\ ExecutionInit

BindingsNext ==
    \/ part = "leveldb" /\ Next /\ UNCHANGED <<part, rangeVars, dataVars, execVars>>
    \/ part = "range" /\ RangeNext /\ UNCHANGED <<part, vars, dataVars, execVars>>
    \/ part = "data" /\ DataNext /\ UNCHANGED <<part, vars, rangeVars, execVars>>
    \/ part = "evm" /\ ExecutionNext /\ UNCHANGED <<part, vars, rangeVars, dataVars>>

BindingsSpec == BindingsInit /\ [][BindingsNext]_<<part, vars, rangeVars, dataVars, execVars>>

Symmetry == Permutations(Op) \cup Permutations(Iter)
=============================================================================
