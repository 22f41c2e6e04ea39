--------------------------- MODULE MCStateJournal ---------------------------
(* Tries to start from.  An address is a contract that has stored, an empty  *)
(* account or not in use.                                                    *)
EXTENDS StateLedger, TLC

Contract == [nonce |-> 1, balance |-> 1, root |-> [k \in Key |-> 1],
             code |-> CHOOSE c \in Code : TRUE]
EmptyAccount == [nonce |-> 0, balance |-> 0, root |-> EmptyTrie, code |-> NoCode]

\* Here the contract was created with no code; one with code has to be created
\* and committed first.
AllRoots == [Address -> {[Contract EXCEPT !.code = NoCode], EmptyAccount, None}]

\* With a second address, a contract.
PairRoots == {[a \in Address |-> IF a = Ripemd THEN EmptyAccount ELSE Contract]}
=============================================================================
