---------------------------- MODULE StateJournal ----------------------------
(***************************************************************************)
(* libethereum/State: accounts of the trie seen through m_cache, changed   *)
(* with an entry in m_changeLog for every change, rolled back to a         *)
(* savepoint by undoing entries, and committed to the trie at the end of   *)
(* a run.  Accounts that were only read can be purged from the cache.      *)
(*                                                                         *)
(* The operations are those of State's interface.  Their guards say how    *)
(* Executive and ExtVM use them: state changes between executeTransaction  *)
(* and commit only; nonces are set, storage is cleared and code is given   *)
(* while a contract is created, after value (maybe zero) was transferred   *)
(* to it; contracts that store exist.  A nested call that throws comes out *)
(* as Abort of the run.  The upgrade message, which overwrites code and is *)
(* never rolled back, is left out.                                         *)
(*                                                                         *)
(* A storage trie is the function it stores, and its root is the trie: the *)
(* root determines it.  m_unchangedCacheEntries is a set: a second entry of*)
(* an address purges nothing more.  Versions and stake are left out, they  *)
(* are handled as code and never changed.                                  *)
(***************************************************************************)
EXTENDS Integers, Sequences

CONSTANTS
    Address, Key,
    Code,       \* codes other than the empty one
    NoCode,     \* the empty code
    None,       \* no account; nothing in an overlay
    Modulus,    \* 2^256, where balances wrap
    Ripemd,     \* the precompiled contract whose touch is not reverted
    Roots,      \* the tries whose roots the user knows
    MaxLog,     \* bound: entries in the change log
    MaxDepth,   \* bound: savepoints in use
    MaxNonce    \* bound: nonces

VARIABLES
    trie,        \* m_state at the current root
    codes,       \* codes in m_db
    cache,       \* m_cache
    unchanged,   \* m_unchangedCacheEntries
    nonExisting, \* m_nonExistingAccountsCache
    touchedForever, \* m_unrevertablyTouched
    warmed,      \* m_warmed
    log,         \* m_changeLog
    frames       \* savepoints held: executeTransaction's, then each Executive's

stores == <<trie, codes>>
caches == <<cache, unchanged, nonExisting>>
vars == <<stores, caches, touchedForever, warmed, log, frames>>

Value == 0..(Modulus - 1)
EmptyTrie == [k \in Key |-> 0]
NoOverlay == [k \in Key |-> None]
Entry == [nonce: 0..MaxNonce, balance: Value, root: [Key -> Value], code: Code \cup {NoCode}]
Account == [nonce: 0..MaxNonce, balance: Value, root: [Key -> Value], code: Code \cup {NoCode},
            newCode: BOOLEAN, overlay: [Key -> Value \cup {None}],
            original: [Key -> Value \cup {None}], dirty: BOOLEAN]
Kind == {"Balance", "Storage", "StorageRoot", "Nonce", "Create", "Code", "Touch",
         "WarmedAddress", "WarmedStorage", "WarmedAddressAndStorage"}

ASSUME ConstantsAssumption ==
    /\ Modulus \in Nat \ {0, 1} /\ MaxNonce \in Nat \ {0} /\ MaxLog \in Nat /\ MaxDepth \in Nat
    /\ NoCode \notin Code /\ None \notin Value /\ Ripemd \in Address
    /\ Roots \subseteq [Address -> Entry \cup {None}]
-----------------------------------------------------------------------------
(* Accounts. *)

FromTrie(entry) ==
    [nonce |-> entry.nonce, balance |-> entry.balance, root |-> entry.root,
     code |-> entry.code, newCode |-> FALSE, overlay |-> NoOverlay,
     original |-> NoOverlay, dirty |-> FALSE]

NewAccount(nonce, balance) ==
    [nonce |-> nonce, balance |-> balance, root |-> EmptyTrie, code |-> NoCode,
     newCode |-> FALSE, overlay |-> NoOverlay, original |-> NoOverlay, dirty |-> TRUE]

IsEmpty(acc) == acc.nonce = 0 /\ acc.balance = 0 /\ acc.code = NoCode

\* Bug variant: the balance grows past 256 bits.
BugPlus(acc, v) == [acc EXCEPT !.balance = @ + v, !.dirty = TRUE]
Plus(acc, v) == [acc EXCEPT !.balance = (@ + v) % Modulus, !.dirty = TRUE]
WithNonce(acc, n) == [acc EXCEPT !.nonce = n, !.dirty = TRUE]
WithSlot(acc, k, v) == [acc EXCEPT !.overlay[k] = v, !.dirty = TRUE]

OriginalValue(acc, k) == IF acc.original[k] # None THEN acc.original[k] ELSE acc.root[k]
StorageValue(acc, k) == IF acc.overlay[k] # None THEN acc.overlay[k] ELSE OriginalValue(acc, k)

\* storageValue looks the slot up and keeps it, unless the overlay has it.
Looked(acc, k) ==
    IF acc.overlay[k] # None THEN acc ELSE [acc EXCEPT !.original[k] = OriginalValue(acc, k)]

WithRoot(acc, root) ==
    [acc EXCEPT !.root = root, !.overlay = NoOverlay, !.original = NoOverlay, !.dirty = TRUE]

\* The account is marked changed only if it had other code before.
\* Bug variant: the code is not marked new.
BugWithCode(acc, c) ==
    IF c = acc.code THEN acc ELSE [acc EXCEPT !.code = c, !.dirty = @ \/ acc.code # NoCode]
WithCode(acc, c) ==
    IF c = acc.code THEN acc
    ELSE [acc EXCEPT !.code = c, !.newCode = TRUE, !.dirty = @ \/ acc.code # NoCode]

\* What eth::commit writes for an account.
Written(acc) ==
    [nonce |-> acc.nonce, balance |-> acc.balance, code |-> acc.code,
     root |-> [k \in Key |-> IF acc.overlay[k] # None THEN acc.overlay[k] ELSE acc.root[k]]]
-----------------------------------------------------------------------------
(* account(): the cache, then the addresses known not to exist, then the trie. *)

Found(accounts, a) ==
    IF accounts[a] # None THEN accounts[a]
    ELSE IF a \in nonExisting \/ trie[a] = None THEN None
    ELSE FromTrie(trie[a])
Loaded(a) == Found(cache, a)

Fetches(a) == cache[a] = None /\ Loaded(a) # None
IsClean(a) == cache[a] # None /\ ~cache[a].dirty

\* account(a), which can purge before it fetches, and then acc in its place.
Access(a, acc) ==
    \E purged \in IF Fetches(a) THEN SUBSET unchanged ELSE {{}} :
        /\ cache' = [b \in Address |-> IF b = a THEN acc
                                       ELSE IF b \in purged /\ IsClean(b) THEN None
                                       ELSE cache[b]]
        /\ unchanged' = IF Fetches(a) THEN (unchanged \ purged) \cup {a} ELSE unchanged
        /\ nonExisting' = IF Loaded(a) # None THEN nonExisting
                          ELSE IF acc = None THEN nonExisting \cup {a}
                          ELSE nonExisting \ {a}

Change(kind, a, k, v, root) ==
    [kind |-> kind, address |-> a, key |-> k, value |-> v, root |-> root]
AnyKey == CHOOSE k \in Key : TRUE
Plain(kind, a, v) == Change(kind, a, AnyKey, v, EmptyTrie)

Logged(changes) ==
    /\ Len(log) + Len(changes) <= MaxLog
    /\ log' = log \o changes

Running == frames # <<>>
Exists(a) == Loaded(a) # None
InCreation(a) == cache[a] # None /\ cache[a].dirty

TypeOK ==
    /\ trie \in [Address -> Entry \cup {None}]
    /\ codes \subseteq Code
    /\ cache \in [Address -> Account \cup {None}]
    /\ unchanged \subseteq Address
    /\ nonExisting \subseteq Address
    /\ touchedForever \subseteq {Ripemd}
    /\ warmed \in [Address -> {None} \cup SUBSET Key]
    /\ log \in Seq([kind: Kind, address: Address, key: Key, value: Value \cup 0..MaxNonce,
                   root: [Key -> Value]])
    /\ Len(log) <= MaxLog
    /\ frames \in Seq(0..MaxLog) /\ Len(frames) <= MaxDepth

Init ==
    /\ trie \in Roots
    /\ codes = {c \in Code : \E root \in Roots, a \in Address : root[a] # None /\ root[a].code = c}
    /\ cache = [a \in Address |-> None]
    /\ unchanged = {} /\ nonExisting = {} /\ touchedForever = {}
    /\ warmed = [a \in Address |-> None]
    /\ log = <<>>
    /\ frames = <<>>
-----------------------------------------------------------------------------
(* Reading: account() and the slots it looks up. *)

Read(a) ==
    /\ cache[a] = None
    /\ Access(a, Loaded(a))
    /\ UNCHANGED <<stores, touchedForever, warmed, log, frames>>

ReadStorage(a, k) ==
    /\ Exists(a)
    /\ Access(a, Looked(Loaded(a), k))
    /\ UNCHANGED <<stores, touchedForever, warmed, log, frames>>
-----------------------------------------------------------------------------
(* Changes. *)

\* addBalance of v, also of 0.
ToExisting(a, v, changes) ==
    /\ Exists(a)
    /\ Access(a, Plus(Loaded(a), v))
    /\ Logged(changes)
ToNew(a, v, changes) ==
    /\ ~Exists(a)
    /\ Access(a, NewAccount(0, v))
    /\ Logged(changes)

Touches(a) == ~Loaded(a).dirty /\ IsEmpty(Loaded(a))
TouchOf(a) == IF Touches(a) THEN <<Plain("Touch", a, 0)>> ELSE <<>>
BalanceOf(a, v) == IF v = 0 THEN <<>> ELSE <<Plain("Balance", a, v)>>
CreateOf(a) == <<Plain("Create", a, 0)>>

\* Bug variant: a new account's balance is logged before its creation.
BugIncrease(a, v) ==
    \/ ToExisting(a, v, TouchOf(a) \o BalanceOf(a, v))
    \/ ToNew(a, v, BalanceOf(a, v) \o CreateOf(a))
Increase(a, v) ==
    \/ ToExisting(a, v, TouchOf(a) \o BalanceOf(a, v))
    \/ ToNew(a, v, CreateOf(a) \o BalanceOf(a, v))

AddBalance(a, v) ==
    /\ Running
    /\ Increase(a, v)
    /\ UNCHANGED <<stores, touchedForever, warmed, frames>>

SubBalance(a, v) ==
    /\ Running
    /\ v # 0 /\ Exists(a) /\ Loaded(a).balance >= v
    /\ Increase(a, Modulus - v)
    /\ UNCHANGED <<stores, touchedForever, warmed, frames>>

\* incNonce of a sender, which has paid or has code, or does not exist yet.
IncNonce(a) ==
    /\ Running
    /\ \/ /\ Exists(a) /\ ~IsEmpty(Loaded(a)) /\ Loaded(a).nonce < MaxNonce
          /\ Access(a, WithNonce(Loaded(a), Loaded(a).nonce + 1))
          /\ Logged(<<Plain("Nonce", a, Loaded(a).nonce)>>)
       \/ /\ ~Exists(a)
          /\ Access(a, NewAccount(1, 0))
          /\ Logged(CreateOf(a))
    /\ UNCHANGED <<stores, touchedForever, warmed, frames>>

\* setNonce of a contract in creation.
SetNonce(a) ==
    /\ Running /\ InCreation(a) /\ cache[a].nonce = 0 /\ cache[a].code = NoCode
    /\ Access(a, WithNonce(cache[a], 1))
    /\ Logged(<<Plain("Nonce", a, cache[a].nonce)>>)
    /\ UNCHANGED <<stores, touchedForever, warmed, frames>>

\* setStorage: the old value is looked up and logged.
\* Bug variant: the value before the run is logged.
BugSetStorage(a, k, v) ==
    /\ Running /\ Exists(a) /\ ~IsEmpty(Loaded(a))
    /\ Access(a, WithSlot(Looked(Loaded(a), k), k, v))
    /\ Logged(<<Change("Storage", a, k, OriginalValue(Loaded(a), k), EmptyTrie)>>)
    /\ UNCHANGED <<stores, touchedForever, warmed, frames>>
SetStorage(a, k, v) ==
    /\ Running /\ Exists(a) /\ ~IsEmpty(Loaded(a))
    /\ Access(a, WithSlot(Looked(Loaded(a), k), k, v))
    /\ Logged(<<Change("Storage", a, k, StorageValue(Loaded(a), k), EmptyTrie)>>)
    /\ UNCHANGED <<stores, touchedForever, warmed, frames>>

\* clearStorage of a contract in creation, which has not stored yet.
ClearStorage(a) ==
    /\ Running /\ InCreation(a)
    /\ cache[a].root # EmptyTrie /\ cache[a].overlay = NoOverlay
    /\ Access(a, WithRoot(cache[a], EmptyTrie))
    /\ Logged(<<Change("StorageRoot", a, AnyKey, 0, cache[a].root)>>)
    /\ UNCHANGED <<stores, touchedForever, warmed, frames>>

SetCode(a, c) ==
    /\ Running /\ InCreation(a) /\ cache[a].code = NoCode
    /\ Access(a, WithCode(cache[a], c))
    /\ Logged(<<Plain("Code", a, 0)>>)
    /\ UNCHANGED <<stores, touchedForever, warmed, frames>>

UnrevertableTouch ==
    /\ Running
    /\ touchedForever' = touchedForever \cup {Ripemd}
    /\ UNCHANGED <<stores, caches, warmed, log, frames>>

\* accessAddress and accessStorage of something cold.
AccessAddress(a) ==
    /\ Running /\ warmed[a] = None
    /\ warmed' = [warmed EXCEPT ![a] = {}]
    /\ Logged(<<Plain("WarmedAddress", a, 0)>>)
    /\ UNCHANGED <<stores, caches, touchedForever, frames>>

AccessStorage(a, k) ==
    /\ Running
    /\ \/ /\ warmed[a] = None
          /\ warmed' = [warmed EXCEPT ![a] = {k}]
          /\ Logged(<<Change("WarmedAddressAndStorage", a, k, 0, EmptyTrie)>>)
       \/ /\ warmed[a] # None /\ k \notin warmed[a]
          /\ warmed' = [warmed EXCEPT ![a] = @ \cup {k}]
          /\ Logged(<<Change("WarmedStorage", a, k, 0, EmptyTrie)>>)
    /\ UNCHANGED <<stores, caches, touchedForever, frames>>
-----------------------------------------------------------------------------
(* Savepoints. *)

\* One entry undone, on the account it names and on what is warm.
UndoneAccount(acc, e) ==
    CASE e.kind = "Storage"     -> WithSlot(acc, e.key, e.value)
      [] e.kind = "StorageRoot" -> WithRoot(acc, e.root)
      [] e.kind = "Balance"     -> Plus(acc, Modulus - e.value)
      [] e.kind = "Nonce"       -> WithNonce(acc, e.value)
      [] e.kind = "Create"      -> None
      [] e.kind = "Code"        -> [acc EXCEPT !.code = NoCode, !.newCode = FALSE]
      [] e.kind = "Touch"       -> [acc EXCEPT !.dirty = FALSE]
      [] OTHER                  -> acc

UndoneWarm(slots, e) ==
    IF e.kind \in {"WarmedAddress", "WarmedAddressAndStorage"} THEN None
    ELSE IF e.kind = "WarmedStorage" /\ slots # None THEN slots \ {e.key}
    ELSE slots

\* What is left of an account, and of what is warm of it, once the entries
\* above n are undone, the last one first.
AccountAt(a, n) ==
    LET undo[m \in n..Len(log)] ==
          IF m = Len(log) THEN cache[a]
          ELSE IF log[m + 1].address = a THEN UndoneAccount(undo[m + 1], log[m + 1])
          ELSE undo[m + 1]
    IN  undo[n]

WarmAt(a, n) ==
    LET undo[m \in n..Len(log)] ==
          IF m = Len(log) THEN warmed[a]
          ELSE IF log[m + 1].address = a THEN UndoneWarm(undo[m + 1], log[m + 1])
          ELSE undo[m + 1]
    IN  undo[n]

IsWarming(e) == e.kind \in {"WarmedAddress", "WarmedStorage", "WarmedAddressAndStorage"}
Untouched(n) == {log[i].address : i \in {j \in (n + 1)..Len(log) : log[j].kind = "Touch"}}
Refetched(n) == {a \in Address : \E i \in (n + 1)..Len(log) :
                    log[i].address = a /\ IsWarming(log[i]) /\ AccountAt(a, i) = None}

\* rollback() calls account() for every entry, which fetches, and may purge, for
\* those entries that only say that something got warm.
Undo(n, listed) ==
    LET known == {a \in Refetched(n) : trie[a] # None}
        undone == [a \in Address |-> IF a \in known THEN FromTrie(trie[a]) ELSE AccountAt(a, n)]
        list == unchanged \cup listed \cup known
    IN  \E purged \in IF known = {} THEN {{}} ELSE SUBSET list :
            /\ cache' = [a \in Address |->
                            IF a \in purged /\ undone[a] # None /\ ~undone[a].dirty THEN None
                            ELSE undone[a]]
            /\ unchanged' = list \ purged
            /\ nonExisting' = nonExisting \cup (Refetched(n) \ known)
            /\ warmed' = [a \in Address |-> WarmAt(a, n)]
            /\ log' = SubSeq(log, 1, n)
            /\ UNCHANGED <<stores, touchedForever>>

\* Bug variant: an account whose touch is undone is not listed for purging.
BugRollback(n) == Undo(n, {})
Rollback(n) == Undo(n, Untouched(n))

\* The savepoint of executeTransaction, then one for each call and create.
Savepoint ==
    /\ Len(frames) < MaxDepth
    /\ frames' = Append(frames, Len(log))
    /\ UNCHANGED <<stores, caches, touchedForever, warmed, log>>

Top == frames[Len(frames)]
Inner == SubSeq(frames, 1, Len(frames) - 1)

\* A call or create returns, or is reverted.
Return ==
    /\ Len(frames) > 1
    /\ frames' = Inner
    /\ UNCHANGED <<stores, caches, touchedForever, warmed, log>>

Revert ==
    /\ Len(frames) > 1
    /\ Rollback(Top)
    /\ frames' = Inner

\* The run throws: every frame is unwound to the savepoint of executeTransaction.
Abort ==
    /\ Running
    /\ Rollback(frames[1])
    /\ frames' = <<>>
-----------------------------------------------------------------------------
(* The end of a run, and the next root. *)

Removed(killed, removeEmpty) ==
    killed \cup {a \in Address : removeEmpty /\ Exists(a) /\ IsEmpty(Loaded(a)) /\
                                 (Loaded(a).dirty \/ a \in touchedForever)}

\* Selfdestructs are killed, then commit() writes what is dirty.
Commit(killed, removeEmpty) ==
    /\ Len(frames) = 1
    /\ trie' = [a \in Address |->
                  IF a \in Removed(killed, removeEmpty) THEN None
                  ELSE IF cache[a] # None /\ cache[a].dirty THEN Written(cache[a])
                  ELSE trie[a]]
    /\ codes' = codes \cup {cache[a].code :
                   a \in {b \in Address \ Removed(killed, removeEmpty) :
                             cache[b] # None /\ cache[b].dirty /\ cache[b].newCode}}
    /\ warmed' = [a \in Address |-> None]
    /\ log' = <<>>
    /\ cache' = [a \in Address |-> None]
    /\ unchanged' = {}
    /\ nonExisting' = IF removeEmpty THEN nonExisting \cup {a \in touchedForever : ~Exists(a)}
                      ELSE nonExisting
    /\ frames' = <<>>
    /\ UNCHANGED touchedForever

\* A call, or a static message: only the cache is cleared.
Drop ==
    /\ Len(frames) = 1
    /\ cache' = [a \in Address |-> None]
    /\ frames' = <<>>
    /\ UNCHANGED <<stores, unchanged, nonExisting, touchedForever, warmed, log>>

\* setRoot, to the present root or another one that is known.
\* Bug variant: the addresses known not to exist are kept.
BugSetRoot(root) ==
    /\ ~Running
    /\ trie' = root
    /\ cache' = [a \in Address |-> None] /\ unchanged' = {}
    /\ warmed' = [a \in Address |-> None]
    /\ UNCHANGED <<codes, nonExisting, touchedForever, log, frames>>
SetRoot(root) ==
    /\ ~Running
    /\ trie' = root
    /\ cache' = [a \in Address |-> None] /\ unchanged' = {} /\ nonExisting' = {}
    /\ warmed' = [a \in Address |-> None]
    /\ UNCHANGED <<codes, touchedForever, log, frames>>
-----------------------------------------------------------------------------
\* Contracts selfdestruct, also while they are created.
Contracts == {a \in Address : Exists(a) /\ (Loaded(a).code # NoCode \/ Loaded(a).dirty)}

Next ==
    \/ \E a \in Address :
        \/ Read(a) \/ IncNonce(a) \/ SetNonce(a) \/ ClearStorage(a) \/ AccessAddress(a)
        \/ \E v \in Value : AddBalance(a, v) \/ SubBalance(a, v)
        \/ \E c \in Code \cup {NoCode} : SetCode(a, c)
        \/ \E k \in Key : ReadStorage(a, k) \/ AccessStorage(a, k)
        \/ \E k \in Key, v \in Value : SetStorage(a, k, v)
    \/ UnrevertableTouch
    \/ Savepoint \/ Return \/ Revert \/ Abort \/ Drop
    \/ \E killed \in SUBSET Contracts, removeEmpty \in BOOLEAN : Commit(killed, removeEmpty)
    \/ \E root \in {trie} \cup Roots : SetRoot(root)

Spec == Init /\ [][Next]_vars
-----------------------------------------------------------------------------
(***************************************************************************)
(* Properties                                                              *)
(***************************************************************************)

\* What an address looks like to the executor.
View(acc) ==
    IF acc = None THEN None
    ELSE [nonce |-> acc.nonce, balance |-> acc.balance, code |-> acc.code,
          storage |-> [k \in Key |-> StorageValue(acc, k)],
          original |-> [k \in Key |-> OriginalValue(acc, k)],
          touched |-> acc.dirty /\ IsEmpty(acc)]

Views == [nonce: 0..MaxNonce, balance: Value, code: Code \cup {NoCode}, storage: [Key -> Value],
          original: [Key -> Value], touched: BOOLEAN]

\* None is no account, no entry of the trie, nothing that is seen and no set of slots, and
\* an account has slots.
ASSUME NoneAssumption ==
    /\ None \notin Account \cup Entry \cup Views
    /\ \A slots \in SUBSET Key : slots # None
ASSUME KeyAssumption == Key # {}

\* What was purged, dropped or committed is found again as it was.  The address is
\* known not to exist only if the trie does not have it and the cache does not
\* (createAccount, setRoot).  A clean account says what the trie says, so purging it
\* loses nothing, and it is on the list that purging takes from (account, untouch in
\* rollback).
NonExistingIsRight ==
    \A a \in nonExisting : trie[a] = None /\ cache[a] = None

CleanCanBePurged ==
    \A a \in Address : IsClean(a) =>
        /\ a \in unchanged
        /\ trie[a] # None /\ View(cache[a]) = View(FromTrie(trie[a]))

CachesFollowTrie == NonExistingIsRight /\ CleanCanBePurged

\* rollback() dereferences the account of every entry it undoes: until then it
\* stays in the cache, whatever is purged or created over it.
JournalIsGrounded ==
    Running => \A i \in (frames[1] + 1)..Len(log) :
        IsWarming(log[i]) \/ AccountAt(log[i].address, i) # None
=============================================================================
