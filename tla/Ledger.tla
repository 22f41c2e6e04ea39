------------------------------- MODULE Ledger -------------------------------
(***************************************************************************)
(* What libethereum's State promises the executor: one map from addresses  *)
(* to accounts that can be saved and restored, and that is written to the  *)
(* trie as a whole.  There are no caches, no change log and no overlays:   *)
(* a save is a copy and a restore puts the copy back.                      *)
(***************************************************************************)
EXTENDS Integers, Sequences

CONSTANTS
    Address,
    Key,      \* storage slots
    NoCode,   \* the code of an account without code
    None,     \* no account
    Roots     \* the tries it can start from and go back to

VARIABLES
    world,     \* what the executor sees: None, or an account
    warm,      \* the warmed slots of each warmed address, None for a cold one
    doomed,    \* addresses whose touch survives every restore
    saved,     \* the copies that can be restored, innermost last
    committed  \* the accounts in the trie

ledgerVars == <<world, warm, doomed, saved, committed>>

Empty(acc) == acc.nonce = 0 /\ acc.balance = 0 /\ acc.code = NoCode
Cold == [a \in Address |-> None]

\* An account as it comes from the trie: nothing has touched it.
Seen(entry) ==
    IF entry = None THEN None
    ELSE [nonce |-> entry.nonce, balance |-> entry.balance, code |-> entry.code,
          storage |-> entry.root, original |-> entry.root, touched |-> FALSE]

WorldOf(entries) == [a \in Address |-> Seen(entries[a])]

LedgerInit ==
    /\ committed \in Roots
    /\ world = WorldOf(committed)
    /\ warm = Cold
    /\ doomed = {}
    /\ saved = <<>>

\* One account is changed, or one address gets warmer.  A change that leaves an
\* account empty marks it, and it never makes an account disappear.
Change ==
    /\ UNCHANGED <<doomed, committed>>
    /\ \E a \in Address :
        \/ /\ warm' = warm
           /\ world' = [world EXCEPT ![a] = world'[a]]
           /\ world'[a] # None /\ world'[a].touched = Empty(world'[a])
        \/ /\ world' = world
           /\ \E slots \in SUBSET Key :
                warm' = [warm EXCEPT ![a] = IF @ = None THEN slots ELSE @ \cup slots]
    /\ UNCHANGED saved

Doom == (\E a \in Address : doomed' = doomed \cup {a}) /\ UNCHANGED <<world, warm, saved, committed>>

Save ==
    /\ UNCHANGED <<doomed, committed, world, warm>>
    /\ saved' = Append(saved, <<world, warm>>)

Keep ==
    /\ saved # <<>>
    /\ UNCHANGED <<doomed, committed, world, warm>>
    /\ saved' = SubSeq(saved, 1, Len(saved) - 1)

\* Back to the i-th copy, after which those before it are left.
Restore(i) ==
    /\ world' = saved[i][1] /\ warm' = saved[i][2]
    /\ saved' = SubSeq(saved, 1, i - 1)
    /\ UNCHANGED <<doomed, committed>>

\* Everything seen goes to the trie, without the selfdestructed accounts and,
\* when asked, without the empty accounts that were touched.
Gone(killed, removeEmpty) ==
    {a \in Address : world[a] # None =>
        \/ a \in killed
        \/ removeEmpty /\ Empty(world[a]) /\ (world[a].touched \/ a \in doomed)}

Settle(killed, removeEmpty) ==
    /\ committed' = [a \in Address |->
                       IF a \in Gone(killed, removeEmpty) THEN None
                       ELSE [nonce |-> world[a].nonce, balance |-> world[a].balance,
                             root |-> world[a].storage, code |-> world[a].code]]
    /\ world' = WorldOf(committed')
    /\ UNCHANGED doomed
    /\ warm' = Cold /\ saved' = <<>>

\* A run that is thrown away leaves what it warmed.
Discard ==
    /\ world' = WorldOf(committed)
    /\ saved' = <<>>
    /\ UNCHANGED <<warm, doomed, committed>>

Reset ==
    /\ committed' \in {committed} \cup Roots
    /\ world' = WorldOf(committed')
    /\ warm' = Cold /\ saved = <<>> /\ saved' = <<>>
    /\ UNCHANGED doomed

LedgerNext ==
    \/ Change \/ Doom
    \/ Save \/ Keep \/ Discard
    \/ \E i \in {j \in 1..Len(saved) : j = 1 \/ j = Len(saved)} : Restore(i)
    \/ \E killed \in SUBSET Address :
        \E removeEmpty \in BOOLEAN : Settle(killed, removeEmpty)
    \/ Reset

LedgerSpec == LedgerInit /\ [][LedgerNext]_ledgerVars
=============================================================================
