--------------------------- MODULE MCFreeStaking ----------------------------
(* A staker, and a contract that is both config and fee manager. *)
EXTENDS FreeStaking, TLC

StakedRoots ==
    {[a \in Address |->
        [nonce |-> 1, balance |-> 1, root |-> [k \in Key |-> 1], code |-> NoCode]]}
=============================================================================
