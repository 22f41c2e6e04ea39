--------------------------- MODULE Execution_proofs ---------------------------
(***************************************************************************)
(* Proofs about Execution, for any addresses, code, gas schedule and       *)
(* bounds, in four parts.                                                  *)
(*                                                                         *)
(* A committed transaction uses up exactly one nonce of its sender.  What  *)
(* could break it is the code the transaction runs: a frame undone to a    *)
(* copy from before the nonce, a creation at the sender's own address, a   *)
(* selfdestruct or a creation by the sender, which would need code there.  *)
(* So the invariant follows the sender's account through the state, every  *)
(* savepoint and every sub-state of the frames.                            *)
(*                                                                         *)
(* A run that failed only costs: its outermost frame goes back to the      *)
(* state in which the gas is paid for.                                     *)
(*                                                                         *)
(* Money is moved and never made, and refunds cover what the storage has   *)
(* earned.  Both are sums, over accounts and over frames, so the facts     *)
(* about them are those of FoldFacts.  The invariant says of every         *)
(* savepoint, with the frames outside it, what it says of the state with   *)
(* all frames, and bounds the gas of each frame with those inside it.      *)
(*                                                                         *)
(* Code is not replaced: an address whose creation has begun has a nonce,  *)
(* in every savepoint taken since, so that no other creation gets it.      *)
(***************************************************************************)
EXTENDS Execution, FiniteSetTheorems, SequenceTheorems, TLAPS
-----------------------------------------------------------------------------
SubStates == [killed: SUBSET Addr, refunds: Int]

Runs ==
    [kind: {"tx", "message", "upgrade"}, sender: Addr, limit: Int,
     steps: Nat, over: BOOLEAN, gas: Int, sub: SubStates, failed: BOOLEAN]

\* Where code may run: not at the sender of a transaction.
Others(r) == {a \in Addr : r.kind = "tx" => a # r.sender}

\* States in which the nonce that the transaction r began with, on the state t,
\* is used and its sender has no code.
WorldsOf(t, r) ==
    {w \in World : r.kind = "tx" =>
        w[r.sender].nonce = t[r.sender].nonce + 1 /\ w[r.sender].code = NoCode}

SubsOf(r) == {x \in SubStates : r.kind = "tx" => r.sender \notin x.killed}

FramesOf(t, r) ==
    [address: Others(r), sender: Addr, savepoint: WorldsOf(t, r), gas: Int,
     creates: BOOLEAN, static: BOOLEAN, sub: SubsOf(r)]

SenderInv ==
    /\ trie \in World
    /\ run # NoRun => /\ run \in Runs
                      /\ world \in WorldsOf(trie, run)
                      /\ run.sub \in SubsOf(run)
                      /\ calls \in Seq(FramesOf(trie, run))
                      /\ run.over \/ calls # <<>>

\* What a step of r leaves in the frames and in the run.
GoesOn(r) ==
    /\ run' \in Runs /\ run'.kind = r.kind /\ run'.sender = r.sender
    /\ run'.sub \in SubsOf(r)
    /\ calls' \in Seq(FramesOf(trie, r))
    /\ run'.over \/ calls' # <<>>

\* Together with a state that follows, that is the invariant.
LEMMA GoesOnKeeps ==
    ASSUME trie \in World, trie' = trie, NEW r \in Runs, GoesOn(r),
           world' \in WorldsOf(trie, r)
    PROVE  SenderInv'
<1>1. /\ run' \in Runs /\ run'.kind = r.kind /\ run'.sender = r.sender
      /\ run'.sub \in SubsOf(r) /\ calls' \in Seq(FramesOf(trie, r))
      /\ run'.over \/ calls' # <<>>
  BY DEF GoesOn
<1>2. Others(r) = Others(run') /\ SubsOf(r) = SubsOf(run')
  BY <1>1 DEF Others, SubsOf
<1>3. WorldsOf(trie, r) = WorldsOf(trie', run')
  BY <1>1 DEF WorldsOf
<1>4. FramesOf(trie, r) = FramesOf(trie', run')
  BY <1>2, <1>3 DEF FramesOf
<1> QED  BY <1>1, <1>2, <1>3, <1>4 DEF SenderInv
-----------------------------------------------------------------------------
(* Accounts. *)

LEMMA IncNonceWorld ==
    ASSUME NEW w \in World, NEW a \in Addr
    PROVE  /\ IncNonce(w, a) \in World
           /\ IncNonce(w, a)[a].nonce = w[a].nonce + 1
           /\ IncNonce(w, a)[a].code = w[a].code
           /\ \A b \in Addr \ {a} : IncNonce(w, a)[b] = w[b]
BY DEF World, IncNonce

\* A balance that changes changes nothing else.
LEMMA BalanceWorld ==
    ASSUME NEW w \in World, NEW a \in Addr, NEW x \in Int
    PROVE  LET v == [w EXCEPT ![a].balance = x]
           IN  /\ v \in World
               /\ \A b \in Addr : v[b].nonce = w[b].nonce /\ v[b].code = w[b].code
BY DEF World

LEMMA TransferWorld ==
    ASSUME NEW w \in World, NEW from \in Addr, NEW to \in Addr, NEW value \in Int
    PROVE  /\ Transfer(w, from, to, value) \in World
           /\ \A b \in Addr : /\ Transfer(w, from, to, value)[b].nonce = w[b].nonce
                              /\ Transfer(w, from, to, value)[b].code = w[b].code
<1> DEFINE paid == [w EXCEPT ![from].balance = @ - value]
           done == [paid EXCEPT ![to].balance = @ + value]
<1>1. w[from].balance - value \in Int
  BY DEF World
<1>2. paid \in World /\ \A b \in Addr : paid[b].nonce = w[b].nonce /\ paid[b].code = w[b].code
  BY <1>1, BalanceWorld
<1>3. paid[to].balance + value \in Int
  BY <1>2 DEF World
<1> HIDE DEF paid
<1>4. done \in World /\ \A b \in Addr : done[b].nonce = paid[b].nonce /\ done[b].code = paid[b].code
  BY <1>2, <1>3, BalanceWorld
<1>5. Transfer(w, from, to, value) = done
  BY DEF Transfer, paid
<1> QED  BY <1>2, <1>4, <1>5

\* What a run may do to the accounts, and still have used one nonce.
LEMMA TransferFollows ==
    ASSUME NEW t, NEW r \in Runs, NEW w \in WorldsOf(t, r),
           NEW from \in Addr, NEW to \in Addr, NEW value \in Int
    PROVE  Transfer(w, from, to, value) \in WorldsOf(t, r)
<1>1. w \in World /\ r.sender \in Addr
  BY DEF WorldsOf, Runs
<1> DEFINE v == Transfer(w, from, to, value)
<1>2. v \in World /\ \A b \in Addr : v[b].nonce = w[b].nonce /\ v[b].code = w[b].code
  BY <1>1, TransferWorld
<1> HIDE DEF v
<1>3. v[r.sender].nonce = w[r.sender].nonce /\ v[r.sender].code = w[r.sender].code
  BY <1>1, <1>2
<1>4. v \in WorldsOf(t, r)
  BY <1>2, <1>3 DEF WorldsOf
<1> QED  BY <1>4 DEF v

LEMMA IncNonceFollows ==
    ASSUME NEW t, NEW r \in Runs, NEW w \in WorldsOf(t, r), NEW a \in Others(r)
    PROVE  IncNonce(w, a) \in WorldsOf(t, r)
BY IncNonceWorld DEF WorldsOf, Runs, Others

LEMMA CodeFollows ==
    ASSUME NEW t, NEW r \in Runs, NEW w \in WorldsOf(t, r), NEW a \in Others(r), NEW c \in Code
    PROVE  [w EXCEPT ![a].code = c] \in WorldsOf(t, r)
<1>1. [w EXCEPT ![a].code = c] \in World
  BY DEF WorldsOf, World, Others
<1>2. \A b \in Addr \ {a} : [w EXCEPT ![a].code = c][b] = w[b]
  BY DEF WorldsOf, World
<1> QED  BY <1>1, <1>2 DEF WorldsOf, Runs, Others

LEMMA SlotFollows ==
    ASSUME NEW t, NEW r \in Runs, NEW w \in WorldsOf(t, r), NEW a \in Others(r), NEW v \in StoredValue
    PROVE  [w EXCEPT ![a].slot = v] \in WorldsOf(t, r)
<1>1. [w EXCEPT ![a].slot = v] \in World
  BY DEF WorldsOf, World, Others
<1>2. \A b \in Addr \ {a} : [w EXCEPT ![a].slot = v][b] = w[b]
  BY DEF WorldsOf, World
<1> QED  BY <1>1, <1>2 DEF WorldsOf, Runs, Others

\* A new contract's account.
LEMMA CreatedFollows ==
    ASSUME NEW t, NEW r \in Runs, NEW w \in WorldsOf(t, r), NEW a \in Others(r)
    PROVE  [w EXCEPT ![a].nonce = 1, ![a].slot = 0] \in WorldsOf(t, r)
<1> DEFINE v == [w EXCEPT ![a].nonce = 1, ![a].slot = 0]
<1>1. v \in World
  <2>1. w \in World /\ a \in Addr /\ 0 \in StoredValue
    BY ExecutionAssumption DEF WorldsOf, Others
  <2> QED  BY <2>1 DEF World
<1>2. \A b \in Addr \ {a} : v[b] = w[b]
  BY DEF WorldsOf, World
<1> QED  BY <1>1, <1>2 DEF WorldsOf, Runs, Others
-----------------------------------------------------------------------------
(* Frames. *)

LEMMA NoSubStateOf ==
    ASSUME NEW r  PROVE NoSubState \in SubsOf(r)
BY DEF NoSubState, SubsOf, SubStates

LEMMA AccruedOf ==
    ASSUME NEW r, NEW x \in SubsOf(r), NEW y \in SubsOf(r)
    PROVE  Accrued(x, y) \in SubsOf(r)
BY DEF Accrued, SubsOf, SubStates

LEMMA FrameOf ==
    ASSUME NEW t, NEW r, NEW a \in Others(r), NEW s \in Addr, NEW w \in WorldsOf(t, r),
           NEW gas \in Int, NEW creates \in BOOLEAN, NEW static \in BOOLEAN
    PROVE  Frame(a, s, w, gas, creates, static) \in FramesOf(t, r)
BY NoSubStateOf DEF Frame, FramesOf

\* Gas and sub-state of a call that has ended, in the frame that made it.
LEMMA Settled ==
    ASSUME NEW t, NEW r, NEW f \in FramesOf(t, r), NEW gas \in Int, NEW sub \in SubsOf(r)
    PROVE  [f EXCEPT !.gas = @ + gas, !.sub = Accrued(@, sub)] \in FramesOf(t, r)
<1>1. f.gas + gas \in Int /\ Accrued(f.sub, sub) \in SubsOf(r)
  BY AccruedOf DEF FramesOf
<1> QED  BY <1>1 DEF FramesOf

LEMMA LastReplaced ==
    ASSUME NEW S, NEW q \in Seq(S), q # <<>>, NEW x \in S
    PROVE  [q EXCEPT ![Len(q)] = x] \in Seq(S) /\ [q EXCEPT ![Len(q)] = x] # <<>>
<1>1. Len(q) \in 1..Len(q)
  BY EmptySeq, LenProperties
<1>2. [q EXCEPT ![Len(q)] = x] \in Seq(S) /\ Len([q EXCEPT ![Len(q)] = x]) = Len(q)
  BY <1>1, ExceptSeq
<1>3. Len(<<>>) = 0
  OBVIOUS
<1> QED  BY <1>1, <1>2, <1>3

LEMMA EndGoesOn ==
    ASSUME NEW r \in Runs, NEW outer \in Seq(FramesOf(trie, r)), NEW gas \in Int,
           NEW sub \in SubsOf(r), NEW failed \in BOOLEAN, r.sub \in SubsOf(r),
           End(r, outer, gas, sub, failed)
    PROVE  GoesOn(r)
<1>1. CASE outer = <<>>
  <2>1. run' = [r EXCEPT !.over = TRUE, !.gas = gas, !.sub = sub, !.failed = failed] /\ calls' = <<>>
    BY <1>1 DEF End
  <2>2. run' \in Runs /\ run'.kind = r.kind /\ run'.sender = r.sender /\ run'.sub = sub /\ run'.over
    BY <2>1 DEF Runs, SubsOf
  <2> QED  BY <2>1, <2>2 DEF GoesOn
<1>2. CASE outer # <<>>
  <2> DEFINE f == outer[Len(outer)]
             g == [f EXCEPT !.gas = @ + gas, !.sub = Accrued(@, sub)]
  <2>1. run' = r /\ calls' = [outer EXCEPT ![Len(outer)].gas = @ + gas,
                                           ![Len(outer)].sub = Accrued(@, sub)]
    BY <1>2 DEF End
  <2>2. f \in FramesOf(trie, r) /\ Len(outer) \in DOMAIN outer
    BY <1>2
  <2>3. g \in FramesOf(trie, r)
    BY <2>2, Settled
  <2>4. calls' = [outer EXCEPT ![Len(outer)] = g]
    BY <2>1, <2>2
  <2> HIDE DEF g
  <2>5. calls' \in Seq(FramesOf(trie, r)) /\ calls' # <<>>
    BY <2>3, <2>4, <1>2, LastReplaced
  <2> QED  BY <2>1, <2>5 DEF GoesOn
<1> QED  BY <1>1, <1>2

\* The same for a call without sub-state, failed or not.
LEMMA EndsOn ==
    ASSUME NEW r \in Runs, NEW outer \in Seq(FramesOf(trie, r)), NEW gas \in Int,
           r.sub \in SubsOf(r),
           End(r, outer, gas, NoSubState, TRUE) \/ End(r, outer, gas, NoSubState, FALSE)
    PROVE  GoesOn(r)
<1>1. CASE End(r, outer, gas, NoSubState, TRUE)
  BY <1>1, NoSubStateOf, EndGoesOn
<1>2. CASE End(r, outer, gas, NoSubState, FALSE)
  BY <1>2, NoSubStateOf, EndGoesOn
<1> QED  BY <1>1, <1>2

LEMMA EnterGoesOn ==
    ASSUME NEW r \in Runs, NEW outer \in Seq(FramesOf(trie, r)),
           NEW f \in FramesOf(trie, r), r.sub \in SubsOf(r), Enter(r, outer, f)
    PROVE  GoesOn(r)
<1>1. run' = r /\ calls' = Append(outer, f)
  BY DEF Enter
<1>2. Append(outer, f) \in Seq(FramesOf(trie, r)) /\ Append(outer, f) # <<>>
  BY AppendProperties
<1> QED  BY <1>1, <1>2 DEF GoesOn
-----------------------------------------------------------------------------
(* Calls, creations and upgrades, from w on. *)

LEMMA CallCodeGoesOn ==
    ASSUME NEW r \in Runs, NEW outer \in Seq(FramesOf(trie, r)), NEW w \in WorldsOf(trie, r),
           r.sub \in SubsOf(r), NEW p, p.to \in Addr, p.sender \in Addr, p.value \in Int,
           p.gas \in Int, p.static \in BOOLEAN, p.address \in Addr,
           p.address = p.to \/ p.address \in Others(r),
           CallCode(r, outer, w, p)
    PROVE  GoesOn(r) /\ world' \in WorldsOf(trie, r)
<1>1. Transfer(w, p.sender, p.address, p.value) \in WorldsOf(trie, r)
  BY TransferFollows
<1>4. CASE p.to \in Precompiled
  <2>1. world' \in WorldsOf(trie, r)
    BY <1>1, <1>4 DEF CallCode
  <2>2. \/ End(r, outer, 0, NoSubState, TRUE)
        \/ \E gas \in 0..p.gas : End(r, outer, gas, NoSubState, FALSE)
    BY <1>4 DEF CallCode
  <2>3. \A gas \in 0..p.gas : gas \in Int
    OBVIOUS
  <2>4. 0 \in Int
    OBVIOUS
  <2> QED  BY <2>1, <2>2, <2>3, <2>4, EndsOn, Zenon
<1>5. CASE p.to \notin Precompiled /\ w[p.to].code = NoCode
  BY <1>1, <1>5, EndsOn DEF CallCode
<1>6. CASE p.to \notin Precompiled /\ w[p.to].code # NoCode
  <2>1. /\ world' = Transfer(w, p.sender, p.address, p.value)
        /\ Enter(r, outer, Frame(p.address, p.sender, w, p.gas, FALSE, p.static))
    BY <1>6 DEF CallCode
  <2>2. p.to \in Others(r)
    BY <1>6 DEF Others, WorldsOf
  <2>3. Frame(p.address, p.sender, w, p.gas, FALSE, p.static) \in FramesOf(trie, r)
    BY <2>2, FrameOf
  <2> QED  BY <1>1, <2>1, <2>3, EnterGoesOn
<1> QED  BY <1>4, <1>5, <1>6

\* A creation at the sender's own address fails: the nonce is used, so it is
\* occupied.
LEMMA CreateGoesOn ==
    ASSUME trie \in World,
           NEW r \in Runs, NEW outer \in Seq(FramesOf(trie, r)), NEW w \in WorldsOf(trie, r),
           r.sub \in SubsOf(r), NEW a \in Addr, NEW s \in Addr, NEW value \in Int,
           NEW gas \in Int, Create(r, outer, w, a, s, value, gas)
    PROVE  GoesOn(r) /\ world' \in WorldsOf(trie, r)
<1>2. CASE Occupied(w, a)
  <2>1. 0 \in Int
    OBVIOUS
  <2> QED  BY <1>2, <2>1, EndsOn, Zenon DEF Create
<1>3. CASE ~Occupied(w, a)
  <2>1. a \in Others(r)
    <3>1. SUFFICES ASSUME r.kind = "tx", a = r.sender  PROVE FALSE
      BY DEF Others
    <3>2. trie[a].nonce \in Nat
      BY DEF World
    <3>3. w[a].nonce = trie[a].nonce + 1
      BY <3>1 DEF WorldsOf
    <3> QED  BY <1>3, <3>2, <3>3 DEF Occupied
  <2> DEFINE v == Transfer(w, s, a, value)
  <2>2. v \in WorldsOf(trie, r)
    BY TransferFollows
  <2>3. world' = [v EXCEPT ![a].nonce = 1, ![a].slot = 0]
    BY <1>3 DEF Create
  <2> HIDE DEF v
  <2>4. world' \in WorldsOf(trie, r)
    BY <2>1, <2>2, <2>3, CreatedFollows
  <2>5. CASE End(r, outer, gas, NoSubState, FALSE)
    BY <2>4, <2>5, EndsOn
  <2>6. CASE Enter(r, outer, Frame(a, s, w, gas, TRUE, FALSE))
    <3>1. Frame(a, s, w, gas, TRUE, FALSE) \in FramesOf(trie, r)
      BY <2>1, FrameOf
    <3> QED  BY <2>4, <2>6, <3>1, EnterGoesOn
  <2> QED  BY <1>3, <2>5, <2>6 DEF Create
<1> QED  BY <1>2, <1>3

LEMMA UpgradeGoesOn ==
    ASSUME NEW r \in Runs, r.kind = "upgrade", NEW w \in World, r.sub \in SubsOf(r),
           NEW a \in Addr, NEW s \in Addr, NEW value \in Int, NEW gas \in Int,
           Upgrade(r, w, a, s, value, gas)
    PROVE  GoesOn(r) /\ world' \in WorldsOf(trie, r)
<1>1. /\ w \in WorldsOf(trie, r) /\ a \in Others(r)
      /\ <<>> \in Seq(FramesOf(trie, r))
  BY DEF WorldsOf, Others
<1>2. 0 \in Int
  OBVIOUS
<1>3. CASE w[a].slot = 0
  <2> DEFINE paid == Transfer(w, s, a, value)
             fresh == IncNonce(paid, a)
  <2>1. paid \in WorldsOf(trie, r)
    BY <1>1, TransferFollows
  <2>2. fresh \in WorldsOf(trie, r)
    BY <1>1, <2>1, IncNonceFollows
  <2>3. \/ world' = [fresh EXCEPT ![a].code = NoCode] /\ End(r, <<>>, gas, NoSubState, FALSE)
        \/ world' = fresh /\ Enter(r, <<>>, Frame(a, s, w, gas, TRUE, FALSE))
    BY <1>3 DEF Upgrade
  <2> HIDE DEF paid, fresh
  <2>4. CASE world' = [fresh EXCEPT ![a].code = NoCode] /\ End(r, <<>>, gas, NoSubState, FALSE)
    <3>1. NoCode \in Code
      BY DEF Code
    <3> QED  BY <1>1, <2>2, <2>4, <3>1, CodeFollows, EndsOn
  <2>5. CASE world' = fresh /\ Enter(r, <<>>, Frame(a, s, w, gas, TRUE, FALSE))
    <3>1. Frame(a, s, w, gas, TRUE, FALSE) \in FramesOf(trie, r)
      BY <1>1, FrameOf
    <3> QED  BY <1>1, <2>2, <2>5, <3>1, EnterGoesOn
  <2> QED  BY <2>3, <2>4, <2>5
<1>4. CASE w[a].slot # 0 /\ w[a].code = NoCode
  BY <1>1, <1>2, <1>4, EndsOn, Zenon DEF Upgrade
<1>5. CASE w[a].slot # 0 /\ w[a].code # NoCode
  <2>1. End(r, <<>>, 0, NoSubState, FALSE)
    BY <1>5 DEF Upgrade
  <2>2. PICK c \in Code, slot \in {0, w[a].slot} :
            world' = [w EXCEPT ![a].code = c, ![a].slot = slot]
    BY <1>5 DEF Upgrade
  <2>3. slot \in StoredValue
    BY ExecutionAssumption DEF World
  <2>4. world' \in World
    BY <2>2, <2>3 DEF World
  <2>5. world' \in WorldsOf(trie, r)
    BY <2>4 DEF WorldsOf
  <2> QED  BY <1>1, <1>2, <2>1, <2>5, EndsOn, Zenon
<1> QED  BY <1>3, <1>4, <1>5
-----------------------------------------------------------------------------
(* The actions. *)

\* The state a transaction's code starts from.
LEMMA PaidFollows ==
    ASSUME trie \in World, NEW s \in Addr, NEW cost \in Int, NEW r \in Runs,
           r.sender = s, trie[s].code = NoCode
    PROVE  Paid(s, cost) \in WorldsOf(trie, r)
<1> DEFINE v == [trie EXCEPT ![s].balance = @ - cost]
<1>1. trie[s].balance - cost \in Int
  BY DEF World
<1>2. v \in World /\ v[s].nonce = trie[s].nonce /\ v[s].code = trie[s].code
  BY <1>1, BalanceWorld
<1>3. Paid(s, cost) = IncNonce(v, s)
  BY DEF Paid
<1> HIDE DEF v
<1> QED  BY <1>2, <1>3, IncNonceWorld DEF WorldsOf

LEMMA BeginTx ==
    ASSUME NEW s \in Addr, NEW gas \in Int
    PROVE  LET r == Begin("tx", s, gas)
           IN  r \in Runs /\ r.kind = "tx" /\ r.sender = s /\ r.sub = NoSubState
BY ExecutionAssumption DEF Begin, Runs, NoSubState, SubStates

LEMMA BeginMessage ==
    ASSUME NEW s \in Addr, NEW gas \in Int
    PROVE  LET r == Begin("message", s, gas)
           IN  r \in Runs /\ r.kind = "message" /\ r.sender = s /\ r.sub = NoSubState
BY ExecutionAssumption DEF Begin, Runs, NoSubState, SubStates

LEMMA RunTxStep ==
    ASSUME SenderInv, NEW s \in Signer, NEW to \in Addr, NEW creates \in BOOLEAN,
           NEW value \in 0..MaxAmount, NEW gas \in 0..MaxGas, RunTx(s, to, creates, value, gas)
    PROVE  SenderInv'
<1> DEFINE r == Begin("tx", s, gas)
           p == [to |-> to, address |-> to, sender |-> s, value |-> value, gas |-> gas, static |-> FALSE]
           w == Paid(s, Cost(gas))
           a == CreateAddress(s, trie[s].nonce)
<1>1. /\ trie \in World /\ s \in Addr /\ value \in Int /\ gas \in Int
      /\ <<>> \in Seq(FramesOf(trie, r)) /\ Cost(gas) \in Int
  BY ExecutionAssumption DEF SenderInv, Cost
<1>2. r \in Runs /\ r.kind = "tx" /\ r.sender = s /\ r.sub \in SubsOf(r)
  BY <1>1, BeginTx, NoSubStateOf
<1>3. trie' = trie /\ trie[s].code = NoCode /\ trie[s].nonce < MaxNonce
  BY DEF RunTx
<1>4. w \in WorldsOf(trie, r)
  BY <1>1, <1>2, <1>3, PaidFollows
<1>5. a \in Addr
  <2>1. trie[s].nonce \in 0..MaxNonce
    BY <1>1, <1>3, ExecutionAssumption DEF World
  <2> QED  BY <1>1, <2>1, ExecutionAssumption
<1>6. CallCode(r, <<>>, w, p) \/ Create(r, <<>>, w, a, s, value, gas)
  BY DEF RunTx
<1>7. CASE CallCode(r, <<>>, w, p)
  <2>1. /\ p.to \in Addr /\ p.address = p.to /\ p.sender \in Addr /\ p.value \in Int
        /\ p.gas \in Int /\ p.static \in BOOLEAN
    BY <1>1
  <2> HIDE DEF r, p, w
  <2> QED  BY <1>1, <1>2, <1>3, <1>4, <1>7, <2>1, CallCodeGoesOn, GoesOnKeeps
<1>8. CASE Create(r, <<>>, w, a, s, value, gas)
  <2> HIDE DEF r, w, a
  <2> QED  BY <1>1, <1>2, <1>3, <1>4, <1>5, <1>8, CreateGoesOn, GoesOnKeeps
<1> QED  BY <1>6, <1>7, <1>8

LEMMA RunMessageStep ==
    ASSUME SenderInv, NEW kind \in {"call", "create", "upgrade"}, NEW s \in Caller,
           NEW to \in Addr, NEW value \in 0..MaxAmount, NEW gas \in 0..MaxGas,
           RunMessage(kind, s, to, value, gas)
    PROVE  SenderInv'
<1> DEFINE r == Begin("message", s, gas)
           u == [r EXCEPT !.kind = "upgrade"]
           p == [to |-> to, address |-> to, sender |-> s, value |-> value, gas |-> gas, static |-> FALSE]
           a == CreateAddress(s, trie[s].nonce - 1)
<1>1. /\ trie \in World /\ s \in Addr /\ value \in Int /\ gas \in Int
      /\ <<>> \in Seq(FramesOf(trie, r))
  BY ExecutionAssumption DEF SenderInv
<1>2. r \in Runs /\ r.kind = "message" /\ r.sub \in SubsOf(r)
  BY <1>1, BeginMessage, NoSubStateOf
<1>3. u \in Runs /\ u.kind = "upgrade" /\ u.sub \in SubsOf(u)
  BY <1>2, NoSubStateOf DEF Runs, SubsOf
<1>4. trie' = trie /\ trie \in WorldsOf(trie, r)
  BY <1>1, <1>2 DEF RunMessage, WorldsOf
<1>5. CASE CallCode(r, <<>>, trie, p)
  <2>1. /\ p.to \in Addr /\ p.address = p.to /\ p.sender \in Addr /\ p.value \in Int
        /\ p.gas \in Int /\ p.static \in BOOLEAN
    BY <1>1
  <2> HIDE DEF r, p
  <2> QED  BY <1>1, <1>2, <1>4, <1>5, <2>1, CallCodeGoesOn, GoesOnKeeps
<1>6. CASE trie[s].nonce \in 1..MaxNonce /\ Create(r, <<>>, trie, a, s, value, gas)
  <2> DEFINE n == trie[s].nonce - 1
  <2>1. n \in 0..MaxNonce
    <3>1. MaxNonce \in Int
      BY ExecutionAssumption
    <3> QED  BY <1>6, <3>1
  <2> HIDE DEF n
  <2>2. CreateAddress(s, n) \in Addr
    BY <1>1, <2>1, ExecutionAssumption, SMT
  <2>3. a \in Addr
    BY <2>2, Zenon DEF n
  <2> HIDE DEF r, a
  <2> QED  BY <1>1, <1>2, <1>4, <1>6, <2>3, CreateGoesOn, GoesOnKeeps
<1>7. CASE Upgrade(u, trie, to, s, value, gas)
  <2> HIDE DEF u
  <2> QED  BY <1>1, <1>3, <1>4, <1>7, UpgradeGoesOn, GoesOnKeeps
<1> QED  BY <1>5, <1>6, <1>7 DEF RunMessage

\* What the invariant says while the code of a frame runs.
LEMMA WhileRunning ==
    ASSUME SenderInv, Running
    PROVE  /\ trie \in World /\ run \in Runs /\ run.sub \in SubsOf(run)
           /\ world \in WorldsOf(trie, run)
           /\ calls \in Seq(FramesOf(trie, run)) /\ calls # <<>>
           /\ Top \in FramesOf(trie, run) /\ Len(calls) \in 1..Len(calls)
           /\ Outer \in Seq(FramesOf(trie, run))
<1>1. /\ trie \in World /\ run \in Runs /\ run.sub \in SubsOf(run)
      /\ world \in WorldsOf(trie, run)
      /\ calls \in Seq(FramesOf(trie, run)) /\ calls # <<>>
  BY DEF SenderInv, Running
<1>2. Len(calls) \in 1..Len(calls) /\ \A i \in 1..Len(calls) : calls[i] \in FramesOf(trie, run)
  BY <1>1, EmptySeq, LenProperties, ElementOfSeq
<1>3. Outer \in Seq(FramesOf(trie, run))
  <2>1. \A i \in 1..(Len(calls) - 1) : calls[i] \in FramesOf(trie, run)
    BY <1>2
  <2>2. Len(calls) - 1 \in Int /\ 1 \in Int
    BY <1>2
  <2> QED  BY <2>1, <2>2, SubSeqProperties, Zenon DEF Outer
<1> QED  BY <1>1, <1>2, <1>3 DEF Top

\* A frame that spends gas or earns a refund.
LEMMA TopReplaced ==
    ASSUME SenderInv, Running, NEW f \in FramesOf(trie, run)
    PROVE  /\ [calls EXCEPT ![Len(calls)] = f] \in Seq(FramesOf(trie, run))
           /\ [calls EXCEPT ![Len(calls)] = f] # <<>>
<1>1. calls \in Seq(FramesOf(trie, run)) /\ calls # <<>>
  BY WhileRunning
<1> QED  BY <1>1, LastReplaced

\* Whatever code runs is not the sender's.
LEMMA StepRuns ==
    ASSUME SenderInv, Running
    PROVE  /\ Step \in Runs /\ Step.kind = run.kind /\ Step.sender = run.sender
           /\ Step.sub = run.sub
           /\ SubsOf(Step) = SubsOf(run) /\ Others(Step) = Others(run)
           /\ WorldsOf(trie, Step) = WorldsOf(trie, run)
           /\ FramesOf(trie, Step) = FramesOf(trie, run)
<1>1. Step \in Runs /\ Step.kind = run.kind /\ Step.sender = run.sender /\ Step.sub = run.sub
  BY WhileRunning DEF Step, Runs
<1>2. SubsOf(Step) = SubsOf(run) /\ Others(Step) = Others(run)
  BY <1>1 DEF SubsOf, Others
<1>3. WorldsOf(trie, Step) = WorldsOf(trie, run)
  BY <1>1 DEF WorldsOf
<1> QED  BY <1>1, <1>2, <1>3 DEF FramesOf

LEMMA RefundInt ==
    ASSUME NEW x, NEW y, NEW z  PROVE Refund(x, y, z) \in Int
<1>1. /\ SetGas \in Int /\ ResetGas \in Int /\ UnchangedGas \in Int /\ RefundGas \in Int
  BY ExecutionAssumption
<1>2. (IF x # 0 /\ y = 0 THEN -RefundGas ELSE 0) \in Int
  BY <1>1
<1>3. (IF x # 0 /\ z = 0 THEN RefundGas ELSE 0) \in Int
  BY <1>1
<1>4. (IF x # z THEN 0 ELSE (IF x = 0 THEN SetGas ELSE ResetGas) - UnchangedGas) \in Int
  <2>1. SetGas - UnchangedGas \in Int /\ ResetGas - UnchangedGas \in Int
    BY <1>1
  <2> QED  BY <2>1
<1>5. (IF z = 0 THEN RefundGas ELSE 0) \in Int
  BY <1>1
<1> DEFINE again == IF x # 0 /\ y = 0 THEN -RefundGas ELSE 0
           clears == IF x # 0 /\ z = 0 THEN RefundGas ELSE 0
           back == IF x # z THEN 0 ELSE (IF x = 0 THEN SetGas ELSE ResetGas) - UnchangedGas
           every == IF z = 0 THEN RefundGas ELSE 0
<1>6. Refund(x, y, z) = IF z = y THEN 0 ELSE IF ~NetMetering THEN every
                        ELSE IF x = y THEN clears ELSE again + clears + back
  BY DEF Refund
<1>7. again \in Int /\ clears \in Int /\ back \in Int /\ every \in Int
  BY <1>2, <1>3, <1>4, <1>5
<1> HIDE DEF again, clears, back, every
<1> QED  BY <1>6, <1>7

LEMMA StoreStep ==
    ASSUME SenderInv, NEW value \in StoredValue, Store(value)
    PROVE  SenderInv'
<1> DEFINE me == Top.address
           earned == Refund(trie[me].slot, world[me].slot, value)
           sub == [Top.sub EXCEPT !.refunds = @ + earned]
           f == [Top EXCEPT !.sub = sub]
<1>1. Running /\ trie' = trie /\ run' = Step
      /\ world' = [world EXCEPT ![me].slot = value]
      /\ calls' = [calls EXCEPT ![Len(calls)].sub.refunds = @ + earned]
  BY DEF Store, Executes
<1>2. Top \in FramesOf(trie, run) /\ me \in Others(run) /\ Top.sub \in SubsOf(run)
  BY <1>1, WhileRunning DEF FramesOf
<1>3. earned \in Int
  BY RefundInt
<1>4. sub \in SubsOf(run)
  BY <1>2, <1>3 DEF SubsOf, SubStates
<1>5. f \in FramesOf(trie, run)
  BY <1>2, <1>4 DEF FramesOf
<1>6. calls' = [calls EXCEPT ![Len(calls)] = f]
  BY <1>1, WhileRunning DEF Top
<1>7. world' \in WorldsOf(trie, run)
  BY <1>1, <1>2, WhileRunning, SlotFollows
<1> HIDE DEF f
<1>8. calls' \in Seq(FramesOf(trie, run)) /\ calls' # <<>>
  BY <1>1, <1>5, <1>6, TopReplaced
<1>9. GoesOn(Step)
  BY <1>1, <1>8, StepRuns, WhileRunning DEF GoesOn
<1> QED  BY <1>1, <1>7, <1>9, StepRuns, WhileRunning, GoesOnKeeps

\* A frame that gives gas to a call.
LEMMA SpentFrames ==
    ASSUME SenderInv, Running, NEW gas \in Int
    PROVE  Spent(gas) \in Seq(FramesOf(trie, run))
<1> DEFINE f == [Top EXCEPT !.gas = @ - gas]
<1>1. Top \in FramesOf(trie, run)
  BY WhileRunning
<1>2. f \in FramesOf(trie, run)
  BY <1>1 DEF FramesOf
<1>3. Spent(gas) = [calls EXCEPT ![Len(calls)] = f]
  BY WhileRunning DEF Spent, Top
<1> HIDE DEF f
<1> QED  BY <1>2, <1>3, TopReplaced

LEMMA CallOutStep ==
    ASSUME SenderInv, NEW kind \in {"CALL", "CALLCODE", "DELEGATECALL", "STATICCALL"},
           NEW to \in Addr, NEW value \in 0..MaxAmount, NEW gas \in 0..MaxGas,
           CallOut(kind, to, value, gas)
    PROVE  SenderInv'
<1> DEFINE me == Top.address
           transfers == IF kind = "DELEGATECALL" THEN 0 ELSE value
           p == [to |-> to, address |-> IF kind \in {"CALL", "STATICCALL"} THEN to ELSE me,
                 sender |-> IF kind = "DELEGATECALL" THEN Top.sender ELSE me,
                 value |-> transfers, gas |-> gas, static |-> Top.static \/ kind = "STATICCALL"]
<1>1. Running /\ trie' = trie /\ CallCode(Step, Spent(gas), world, p)
  BY DEF CallOut, Executes
<1>2. Top \in FramesOf(trie, run)
  BY <1>1, WhileRunning
<1>3. me \in Others(run) /\ me \in Addr /\ Top.sender \in Addr
  BY <1>2 DEF FramesOf, Others
<1>4. gas \in Int /\ value \in Int
  BY ExecutionAssumption
<1>5. /\ p.to \in Addr /\ p.sender \in Addr /\ p.address \in Addr
      /\ p.value \in Int /\ p.gas \in Int
  BY <1>3, <1>4
<1>6. p.static \in BOOLEAN
  OBVIOUS
<1>7. p.address = p.to \/ p.address \in Others(Step)
  BY <1>1, <1>3, StepRuns
<1>8. Spent(gas) \in Seq(FramesOf(trie, Step)) /\ world \in WorldsOf(trie, Step)
  BY <1>1, <1>4, SpentFrames, StepRuns, WhileRunning
<1>9. Step \in Runs /\ Step.sub \in SubsOf(Step)
  BY <1>1, StepRuns, WhileRunning
<1> HIDE DEF p
<1>10. GoesOn(Step) /\ world' \in WorldsOf(trie, Step)
  BY <1>1, <1>5, <1>6, <1>7, <1>8, <1>9, CallCodeGoesOn
<1> QED  BY <1>1, <1>9, <1>10, WhileRunning, GoesOnKeeps

LEMMA CreateOutStep ==
    ASSUME SenderInv, Running, NEW value \in 0..MaxAmount, NEW gas \in 0..MaxGas,
           NEW a \in SaltAddress(Top.address)
                       \cup {CreateAddress(Top.address, world[Top.address].nonce)},
           CreateOut(a, value, gas)
    PROVE  SenderInv'
<1> DEFINE me == Top.address
           w == IncNonce(world, me)
<1>1. /\ trie' = trie /\ world[me].nonce < MaxNonce
      /\ Create(Step, Spent(gas), w, a, me, value, gas)
  BY DEF CreateOut, Executes
<1>2. Top \in FramesOf(trie, run) /\ world \in WorldsOf(trie, run)
  BY WhileRunning
<1>3. me \in Others(run) /\ me \in Addr
  BY <1>2 DEF FramesOf, Others
<1>4. gas \in Int /\ value \in Int
  BY ExecutionAssumption
<1>5. a \in Addr
  <2>1. world[me].nonce \in 0..MaxNonce
    BY <1>1, <1>2, <1>3, ExecutionAssumption DEF WorldsOf, World
  <2> QED  BY <1>3, <2>1, ExecutionAssumption
<1>6. Step \in Runs /\ Step.sub \in SubsOf(Step)
  BY StepRuns, WhileRunning
<1>7. w \in WorldsOf(trie, Step)
  BY <1>2, <1>3, <1>6, StepRuns, IncNonceFollows
<1>8. Spent(gas) \in Seq(FramesOf(trie, Step)) /\ trie \in World
  BY <1>4, SpentFrames, StepRuns, WhileRunning
<1> HIDE DEF w, me
<1>9. GoesOn(Step) /\ world' \in WorldsOf(trie, Step)
  BY <1>1, <1>3, <1>4, <1>5, <1>6, <1>7, <1>8, CreateGoesOn
<1> QED  BY <1>1, <1>6, <1>8, <1>9, GoesOnKeeps

LEMMA SelfDestructStep ==
    ASSUME SenderInv, NEW to \in Addr, SelfDestruct(to)
    PROVE  SenderInv'
<1> DEFINE me == Top.address
           w == Destructed(me, to)
           sub == Accrued(Top.sub, [killed |-> {me}, refunds |-> 0])
           given == [world EXCEPT ![to].balance = @ + world[me].balance]
<1>1. /\ Running /\ trie' = trie
      /\ world' = IF Top.creates THEN [w EXCEPT ![me].code = NoCode] ELSE w
  BY DEF SelfDestruct, Executes
<1>2. PICK left \in 0..Top.gas : End(Step, Outer, left, sub, FALSE)
  BY DEF SelfDestruct
<1>3. /\ Top \in FramesOf(trie, run) /\ world \in WorldsOf(trie, run)
      /\ trie \in World /\ Outer \in Seq(FramesOf(trie, run))
  BY <1>1, WhileRunning
<1>4. me \in Others(run) /\ me \in Addr /\ Top.sub \in SubsOf(run)
  BY <1>3 DEF FramesOf, Others
<1>5. w \in WorldsOf(trie, run)
  <2>1. world \in World /\ world[to].balance + world[me].balance \in Int
    BY <1>3, <1>4 DEF WorldsOf, World
  <2>2. given \in World /\ \A b \in Addr : given[b].nonce = world[b].nonce /\ given[b].code = world[b].code
    BY <2>1, BalanceWorld
  <2>3. w = [given EXCEPT ![me].balance = 0]
    BY DEF Destructed
  <2> HIDE DEF given, w, me
  <2>5. w \in World /\ \A b \in Addr : w[b].nonce = given[b].nonce /\ w[b].code = given[b].code
    BY <1>4, <2>2, <2>3 DEF World
  <2>6. run.sender \in Addr
    BY <1>1, WhileRunning DEF Runs
  <2> QED  BY <1>3, <2>2, <2>5, <2>6 DEF WorldsOf
<1>6. world' \in WorldsOf(trie, Step)
  <2>1. NoCode \in Code
    BY DEF Code
  <2>2. [w EXCEPT ![me].code = NoCode] \in WorldsOf(trie, run)
    BY <1>1, <1>4, <1>5, <2>1, WhileRunning, CodeFollows
  <2> QED  BY <1>1, <1>5, <2>2, StepRuns
<1>7. sub \in SubsOf(Step)
  <2>1. [killed |-> {me}, refunds |-> 0] \in SubsOf(run)
    BY <1>4 DEF SubsOf, SubStates, Others
  <2>2. sub \in SubsOf(run)
    BY <1>4, <2>1, AccruedOf
  <2> QED  BY <1>1, <2>2, StepRuns
<1>8. left \in Int /\ FALSE \in BOOLEAN
  OBVIOUS
<1>9. Step \in Runs /\ Step.sub \in SubsOf(Step) /\ Outer \in Seq(FramesOf(trie, Step))
  BY <1>1, <1>3, StepRuns, WhileRunning
<1> HIDE DEF sub
<1>10. GoesOn(Step)
  BY <1>2, <1>7, <1>8, <1>9, EndGoesOn
<1> QED  BY <1>1, <1>3, <1>6, <1>9, <1>10, GoesOnKeeps

LEMMA HaltStep ==
    ASSUME SenderInv, Halt
    PROVE  SenderInv'
<1>1. Running /\ trie' = trie
  BY DEF Halt
<1>2. PICK c \in Code : world' = [world EXCEPT ![Top.address].code = c]
  BY DEF Halt
<1>3. PICK left \in 0..Top.gas : End(run, Outer, left, Top.sub, FALSE)
  BY DEF Halt
<1>4. /\ Top \in FramesOf(trie, run) /\ world \in WorldsOf(trie, run) /\ run \in Runs
      /\ trie \in World /\ Outer \in Seq(FramesOf(trie, run)) /\ run.sub \in SubsOf(run)
  BY <1>1, WhileRunning
<1>5. Top.address \in Others(run) /\ Top.sub \in SubsOf(run)
  BY <1>4 DEF FramesOf
<1>6. world' \in WorldsOf(trie, run)
  BY <1>2, <1>4, <1>5, CodeFollows
<1>7. left \in Int /\ FALSE \in BOOLEAN
  OBVIOUS
<1>8. GoesOn(run)
  BY <1>3, <1>4, <1>5, <1>7, EndGoesOn
<1> QED  BY <1>1, <1>4, <1>6, <1>8, GoesOnKeeps

\* A frame is undone to a state in which the nonce is used already.
LEMMA UndoStep ==
    ASSUME SenderInv, Undo
    PROVE  SenderInv'
<1>1. Running /\ trie' = trie /\ world' = Top.savepoint
  BY DEF Undo, Undone
<1>2. \/ \E left \in 0..Top.gas : End(run, Outer, left, NoSubState, TRUE)
      \/ End(run, Outer, 0, NoSubState, TRUE)
  BY DEF Undo, Kept
<1>3. /\ Top \in FramesOf(trie, run) /\ run \in Runs
      /\ trie \in World /\ Outer \in Seq(FramesOf(trie, run)) /\ run.sub \in SubsOf(run)
  BY <1>1, WhileRunning
<1>4. Top.savepoint \in WorldsOf(trie, run)
  BY <1>3 DEF FramesOf
<1>5. 0 \in Int /\ \A left \in 0..Top.gas : left \in Int
  OBVIOUS
<1>6. GoesOn(run)
  BY <1>2, <1>3, <1>5, EndsOn, Zenon
<1> QED  BY <1>1, <1>3, <1>4, <1>6, GoesOnKeeps
-----------------------------------------------------------------------------
(* The end of a run. *)

LEMMA LeftInt ==
    ASSUME run \in Runs  PROVE Left \in Int
<1>1. run.limit \in Int /\ run.gas \in Int /\ run.sub \in SubStates
  BY DEF Runs
<1>2. run.sub.killed \subseteq Addr /\ run.sub.refunds \in Int
  BY <1>1 DEF SubStates
<1>3. Cardinality(run.sub.killed) \in Nat
  BY <1>2, ExecutionAssumption, FS_Subset, FS_CardinalityType
<1>4. DestructGas \in Int
  BY ExecutionAssumption
<1>5. Earned \in Int
  BY <1>2, <1>3, <1>4 DEF Earned
<1>6. MaxRefund \in Int
  BY <1>1 DEF MaxRefund
<1> QED  BY <1>1, <1>5, <1>6 DEF Left

\* Paying for the gas changes balances only.
LEMMA PaidBackWorld ==
    ASSUME run \in Runs, world \in World
    PROVE  PaidBack \in World /\ \A a \in Addr : PaidBack[a].nonce = world[a].nonce
<1> DEFINE s == [world EXCEPT ![run.sender].balance = @ + Left * GasPrice]
           d == [s EXCEPT ![Author].balance = @ + (run.limit - Left) * GasPrice]
<1>1. run.sender \in Addr /\ Author \in Addr /\ run.limit \in Int /\ GasPrice \in Int /\ Left \in Int
  BY ExecutionAssumption, LeftInt DEF Runs
<1>2. Left * GasPrice \in Int /\ (run.limit - Left) * GasPrice \in Int
  BY <1>1
<1>3. world[run.sender].balance + Left * GasPrice \in Int
  BY <1>1, <1>2 DEF World
<1>4. s \in World /\ \A a \in Addr : s[a].nonce = world[a].nonce
  BY <1>1, <1>3, BalanceWorld
<1> HIDE DEF s
<1>5. s[Author].balance + (run.limit - Left) * GasPrice \in Int
  BY <1>1, <1>2, <1>4 DEF World
<1>6. d \in World /\ \A a \in Addr : d[a].nonce = s[a].nonce
  BY <1>1, <1>4, <1>5, BalanceWorld
<1>7. PaidBack = IF run.kind # "tx" THEN world ELSE d
  BY DEF PaidBack, s
<1> HIDE DEF d
<1> QED  BY <1>4, <1>6, <1>7

LEMMA FinalizeStep ==
    ASSUME SenderInv, NEW kept \in BOOLEAN, Finalize(kept)
    PROVE  SenderInv'
<1>1. /\ run # NoRun /\ run' = NoRun
      /\ trie' = IF kept THEN [a \in Addr |-> IF a \in run.sub.killed THEN Empty ELSE PaidBack[a]]
                 ELSE trie
  BY DEF Finalize
<1>2. trie \in World /\ run \in Runs /\ world \in World
  BY <1>1 DEF SenderInv, WorldsOf
<1>3. PaidBack \in World
  BY <1>2, PaidBackWorld
<1>4. [a \in Addr |-> IF a \in run.sub.killed THEN Empty ELSE PaidBack[a]] \in World
  <2>1. Empty \in [nonce: Nat, balance: Int, code: Code, slot: StoredValue]
    BY ExecutionAssumption DEF Empty, Code
  <2> QED  BY <1>3, <2>1 DEF World
<1> QED  BY <1>1, <1>2, <1>4 DEF SenderInv

LEMMA SenderInvNext ==
    ASSUME SenderInv, ExecutionNext
    PROVE  SenderInv'
<1>1. CASE \E s \in Signer, to \in Addr, creates \in BOOLEAN, value \in 0..MaxAmount :
             \E gas \in 0..MaxGas : RunTx(s, to, creates, value, gas)
  BY <1>1, RunTxStep
<1>2. CASE \E kind \in {"call", "create", "upgrade"}, s \in Caller, to \in Addr,
             value \in 0..MaxAmount, gas \in 0..MaxGas :
             RunMessage(kind, s, to, value, gas)
  BY <1>2, RunMessageStep
<1>3. CASE \E kept \in BOOLEAN : Finalize(kept)
  BY <1>3, FinalizeStep
<1>4. CASE \E value \in StoredValue : Store(value)
  BY <1>4, StoreStep
<1>5. CASE \E kind \in {"CALL", "CALLCODE", "DELEGATECALL", "STATICCALL"}, to \in Addr,
             value \in 0..MaxAmount : \E gas \in 0..MaxGas : CallOut(kind, to, value, gas)
  BY <1>5, CallOutStep
<1>6. CASE /\ Running
           /\ \E value \in 0..MaxAmount, gas \in 0..MaxGas :
                \E a \in SaltAddress(Top.address)
                            \cup {CreateAddress(Top.address, world[Top.address].nonce)} :
                    CreateOut(a, value, gas)
  BY <1>6, CreateOutStep
<1>7. CASE \E to \in Addr : SelfDestruct(to)
  BY <1>7, SelfDestructStep
<1>8. CASE Halt
  BY <1>8, HaltStep
<1>9. CASE Undo
  BY <1>9, UndoStep
<1>10. CASE Throw
  <2>1. trie' = trie /\ run' = NoRun
    BY <1>10 DEF Throw
  <2> QED  BY <2>1 DEF SenderInv
<1> QED  BY <1>1, <1>2, <1>3, <1>4, <1>5, <1>6, <1>7, <1>8, <1>9, <1>10 DEF ExecutionNext
-----------------------------------------------------------------------------
\* The sender's nonce is used and its account without code, in the state and in
\* every savepoint, as long as a transaction runs (Executive::call and
\* executeCreate, and what they go back to).
THEOREM SenderIsUsed == ExecutionSpec => []SenderInv
<1>1. ExecutionInit => SenderInv
  <2> SUFFICES ASSUME ExecutionInit  PROVE SenderInv
    OBVIOUS
  <2>1. trie \in World /\ run = NoRun
    BY ExecutionAssumption DEF ExecutionInit
  <2> QED  BY <2>1 DEF SenderInv
<1>2. SenderInv /\ [ExecutionNext]_execVars => SenderInv'
  <2>1. SenderInv /\ UNCHANGED execVars => SenderInv'
    BY DEF SenderInv, execVars, WorldsOf, SubsOf, FramesOf, Others
  <2> QED  BY <2>1, SenderInvNext
<1> QED  BY <1>1, <1>2, PTL DEF ExecutionSpec

\* A transaction that is committed has used up exactly one nonce of its sender,
\* whatever its code did (Executive::finalize, State::executeTransaction).
THEOREM CommittedUsesNonce == ExecutionSpec => NonceIsUsedUp
<1>1. ASSUME SenderInv, Finalize(TRUE), run.kind = "tx"
      PROVE  trie'[run.sender].nonce = trie[run.sender].nonce + 1
  <2>1. /\ run # NoRun
        /\ trie' = [a \in Addr |-> IF a \in run.sub.killed THEN Empty ELSE PaidBack[a]]
    BY <1>1 DEF Finalize
  <2>2. run \in Runs /\ world \in WorldsOf(trie, run) /\ run.sub \in SubsOf(run)
    BY <1>1, <2>1 DEF SenderInv
  <2>3. /\ run.sender \in Addr /\ run.sender \notin run.sub.killed /\ world \in World
        /\ world[run.sender].nonce = trie[run.sender].nonce + 1
    BY <1>1, <2>2 DEF Runs, SubsOf, WorldsOf
  <2>4. trie'[run.sender] = PaidBack[run.sender]
    BY <2>1, <2>3
  <2> QED  BY <2>2, <2>3, <2>4, PaidBackWorld
<1>2. SenderInv => [Finalize(TRUE) /\ run.kind = "tx" =>
                    trie'[run.sender].nonce = trie[run.sender].nonce + 1]_execVars
  BY <1>1
<1> QED  BY <1>2, SenderIsUsed, PTL DEF NonceIsUsedUp
-----------------------------------------------------------------------------
(* A run that failed.  The outermost frame goes back to the state in which   *)
(* the gas is paid for and the nonce used, whatever the frames inside it     *)
(* have done, and a run that ends at once has not left that state.           *)

\* w is the state t after what the run r costs at its beginning.
StartsFrom(t, r, w) ==
    \A a \in Addr :
        /\ w[a].code = t[a].code /\ w[a].slot = t[a].slot
        /\ r.kind # "tx" \/ a # r.sender =>
             w[a].nonce = t[a].nonce /\ w[a].balance = t[a].balance

FailureInv ==
    run # NoRun =>
        /\ calls # <<>> => StartsFrom(trie, run, calls[1].savepoint)
        /\ run.over /\ run.failed => StartsFrom(trie, run, world) /\ run.sub = NoSubState

\* The state that frames outer, or else one that starts in w, go back to.
Base(r, outer, w) == StartsFrom(trie, r, IF outer = <<>> THEN w ELSE outer[1].savepoint)

GoesBack(r) ==
    /\ run'.kind = r.kind /\ run'.sender = r.sender
    /\ calls' # <<>> => StartsFrom(trie, r, calls'[1].savepoint)
    /\ run'.over /\ run'.failed => StartsFrom(trie, r, world') /\ run'.sub = NoSubState

LEMMA GoesBackKeeps ==
    ASSUME trie' = trie, NEW r, GoesBack(r)
    PROVE  FailureInv'
BY DEF FailureInv, GoesBack, StartsFrom

\* A call that gives its gas back leaves the savepoints as they are.
LEMMA SettledSavepoint ==
    ASSUME NEW S, NEW outer \in Seq(S), outer # <<>>, NEW f, f.savepoint = outer[Len(outer)].savepoint
    PROVE  [outer EXCEPT ![Len(outer)] = f][1].savepoint = outer[1].savepoint
<1>1. DOMAIN outer = 1..Len(outer) /\ Len(outer) \in 1..Len(outer)
  BY EmptySeq, LenProperties
<1> QED  BY <1>1

LEMMA EndGoesBack ==
    ASSUME NEW r \in Runs, NEW outer \in Seq(FramesOf(trie, r)), NEW gas, NEW sub, ~r.over,
           NEW w, Base(r, outer, w),
           \/ End(r, outer, gas, sub, FALSE)
           \/ End(r, outer, gas, sub, TRUE) /\ sub = NoSubState /\ (outer = <<>> => world' = w)
    PROVE  GoesBack(r)
<1>1. CASE outer = <<>>
  <2>1. StartsFrom(trie, r, w)
    BY <1>1 DEF Base
  <2>2. CASE End(r, outer, gas, sub, FALSE)
    <3>1. calls' = <<>> /\ run' = [r EXCEPT !.over = TRUE, !.gas = gas, !.sub = sub, !.failed = FALSE]
      BY <1>1, <2>2 DEF End
    <3>2. run'.kind = r.kind /\ run'.sender = r.sender /\ ~run'.failed
      BY <3>1 DEF Runs
    <3> QED  BY <3>1, <3>2 DEF GoesBack
  <2>3. CASE End(r, outer, gas, sub, TRUE) /\ sub = NoSubState /\ world' = w
    <3>1. calls' = <<>> /\ run' = [r EXCEPT !.over = TRUE, !.gas = gas, !.sub = sub, !.failed = TRUE]
      BY <1>1, <2>3 DEF End
    <3>2. run'.kind = r.kind /\ run'.sender = r.sender /\ run'.sub = NoSubState
      BY <3>1, <2>3 DEF Runs
    <3> QED  BY <3>1, <3>2, <2>1, <2>3 DEF GoesBack
  <2> QED  BY <1>1, <2>2, <2>3
<1>2. CASE outer # <<>>
  <2> DEFINE f == outer[Len(outer)]
             g == [f EXCEPT !.gas = @ + gas, !.sub = Accrued(@, sub)]
  <2>1. Len(outer) \in 1..Len(outer) /\ DOMAIN outer = 1..Len(outer)
    BY <1>2, EmptySeq, LenProperties
  <2>2. f \in FramesOf(trie, r)
    BY <2>1, ElementOfSeq
  <2>3. run' = r /\ calls' = [outer EXCEPT ![Len(outer)].gas = @ + gas,
                                            ![Len(outer)].sub = Accrued(@, sub)]
    BY <1>2 DEF End
  <2>4. calls' = [outer EXCEPT ![Len(outer)] = g]
    BY <2>1, <2>3
  <2>5. g.savepoint = f.savepoint
    BY <2>2 DEF FramesOf
  <2> HIDE DEF g
  <2>6. calls'[1].savepoint = outer[1].savepoint
    BY <1>2, <2>4, <2>5, SettledSavepoint
  <2> QED  BY <1>2, <2>3, <2>6 DEF GoesBack, Base
<1> QED  BY <1>1, <1>2

LEMMA EnterGoesBack ==
    ASSUME NEW r, NEW outer \in Seq(FramesOf(trie, r)), NEW f, ~r.over,
           Base(r, outer, f.savepoint), Enter(r, outer, f)
    PROVE  GoesBack(r)
<1>1. run' = r /\ calls' = Append(outer, f)
  BY DEF Enter
<1>2. Append(outer, f)[1] = IF outer = <<>> THEN f ELSE outer[1]
  <2>1. CASE outer = <<>>
    BY <2>1
  <2>2. CASE outer # <<>>
    <3>1. 1 \in 1..Len(outer)
      BY <2>2, EmptySeq, LenProperties
    <3> QED  BY <2>2, <3>1
  <2> QED  BY <2>1, <2>2
<1> QED  BY <1>1, <1>2 DEF GoesBack, Base

LEMMA EnterFrameGoesBack ==
    ASSUME NEW r, NEW outer \in Seq(FramesOf(trie, r)), ~r.over, NEW w, Base(r, outer, w),
           NEW a, NEW b, NEW gas, NEW creates, NEW static,
           Enter(r, outer, Frame(a, b, w, gas, creates, static))
    PROVE  GoesBack(r)
<1> DEFINE f == Frame(a, b, w, gas, creates, static)
<1>1. f.savepoint = w /\ Enter(r, outer, f)
  BY DEF Frame
<1> HIDE DEF f
<1>2. Base(r, outer, f.savepoint)
  BY <1>1
<1> QED  BY <1>1, <1>2, EnterGoesBack

LEMMA CallCodeGoesBack ==
    ASSUME NEW r \in Runs, NEW outer \in Seq(FramesOf(trie, r)), ~r.over, NEW w,
           Base(r, outer, w), NEW p, CallCode(r, outer, w, p)
    PROVE  GoesBack(r)
<1>1. CASE p.to \in Precompiled
  <2>1. \/ world' = w /\ End(r, outer, 0, NoSubState, TRUE)
        \/ \E left \in 0..p.gas : End(r, outer, left, NoSubState, FALSE)
    BY <1>1 DEF CallCode
  <2> QED  BY <2>1, EndGoesBack, Zenon
<1>2. CASE p.to \notin Precompiled /\ w[p.to].code = NoCode
  <2>1. End(r, outer, p.gas, NoSubState, FALSE)
    BY <1>2 DEF CallCode
  <2> QED  BY <2>1, EndGoesBack, Zenon
<1>3. CASE p.to \notin Precompiled /\ w[p.to].code # NoCode
  <2>1. Enter(r, outer, Frame(p.address, p.sender, w, p.gas, FALSE, p.static))
    BY <1>3 DEF CallCode
  <2> QED  BY <2>1, EnterFrameGoesBack, Zenon
<1> QED  BY <1>1, <1>2, <1>3

LEMMA CreateGoesBack ==
    ASSUME NEW r \in Runs, NEW outer \in Seq(FramesOf(trie, r)), ~r.over, NEW w,
           Base(r, outer, w), NEW a, NEW s, NEW value, NEW gas,
           Create(r, outer, w, a, s, value, gas)
    PROVE  GoesBack(r)
<1>1. \/ world' = w /\ End(r, outer, 0, NoSubState, TRUE)
      \/ End(r, outer, gas, NoSubState, FALSE)
      \/ Enter(r, outer, Frame(a, s, w, gas, TRUE, FALSE))
  BY Zenon DEF Create
<1>2. CASE Enter(r, outer, Frame(a, s, w, gas, TRUE, FALSE))
  BY <1>2, EnterFrameGoesBack, Zenon
<1> QED  BY <1>1, <1>2, EndGoesBack, Zenon

LEMMA UpgradeGoesBack ==
    ASSUME NEW r \in Runs, ~r.over, r.kind = "upgrade", NEW a, NEW s, NEW value, NEW gas,
           Upgrade(r, trie, a, s, value, gas)
    PROVE  GoesBack(r)
<1> DEFINE fresh == IncNonce(Transfer(trie, s, a, value), a)
<1>1. <<>> \in Seq(FramesOf(trie, r))
  OBVIOUS
<1>2. CASE trie[a].slot # 0
  <2>1. Base(r, <<>>, trie)
    BY DEF Base, StartsFrom
  <2>2. \/ world' = trie /\ End(r, <<>>, 0, NoSubState, TRUE)
        \/ End(r, <<>>, 0, NoSubState, FALSE)
    BY <1>2, Zenon DEF Upgrade
  <2> QED  BY <1>1, <2>1, <2>2, EndGoesBack, Zenon
<1>3. CASE trie[a].slot = 0
  <2>1. \/ End(r, <<>>, gas, NoSubState, FALSE)
        \/ Enter(r, <<>>, Frame(a, s, trie, gas, TRUE, FALSE))
    BY <1>3, Zenon DEF Upgrade
  <2>2. Base(r, <<>>, trie)
    BY DEF Base, StartsFrom
  <2>3. CASE Enter(r, <<>>, Frame(a, s, trie, gas, TRUE, FALSE))
    BY <1>1, <2>2, <2>3, EnterFrameGoesBack, Zenon
  <2> QED  BY <1>1, <2>1, <2>2, <2>3, EndGoesBack, Zenon
<1> QED  BY <1>2, <1>3

\* A transaction's code starts from a state in which only its sender paid.
LEMMA PaidStartsFrom ==
    ASSUME trie \in World, NEW s \in Addr, NEW cost \in Int, NEW r, r.kind = "tx", r.sender = s
    PROVE  StartsFrom(trie, r, Paid(s, cost))
<1> DEFINE v == [trie EXCEPT ![s].balance = @ - cost]
           w == [v EXCEPT ![s].nonce = @ + 1]
<1>1. /\ DOMAIN v = Addr /\ v[s].code = trie[s].code /\ v[s].slot = trie[s].slot
      /\ \A a \in Addr \ {s} : v[a] = trie[a]
  BY DEF World
<1>2. trie[s].balance - cost \in Int
  BY DEF World
<1>3. v \in World
  BY <1>2, BalanceWorld
<1> HIDE DEF v
<1>4. /\ w[s].code = v[s].code /\ w[s].slot = v[s].slot
      /\ \A a \in Addr \ {s} : w[a] = v[a]
  BY <1>3 DEF World
<1>5. Paid(s, cost) = w
  BY DEF Paid, IncNonce, v
<1> QED  BY <1>1, <1>4, <1>5 DEF StartsFrom

LEMMA RunTxGoesBack ==
    ASSUME SenderInv, NEW s \in Signer, NEW to \in Addr, NEW creates \in BOOLEAN,
           NEW value \in 0..MaxAmount, NEW gas \in 0..MaxGas, RunTx(s, to, creates, value, gas)
    PROVE  FailureInv'
<1> DEFINE r == Begin("tx", s, gas)
           p == [to |-> to, address |-> to, sender |-> s, value |-> value, gas |-> gas, static |-> FALSE]
           w == Paid(s, Cost(gas))
           a == CreateAddress(s, trie[s].nonce)
<1>1. /\ trie \in World /\ s \in Addr /\ gas \in Int /\ Cost(gas) \in Int
      /\ <<>> \in Seq(FramesOf(trie, r))
  BY ExecutionAssumption DEF SenderInv, Cost
<1>2. r \in Runs /\ r.kind = "tx" /\ r.sender = s /\ ~r.over
  BY <1>1, BeginTx DEF Begin
<1>3. trie' = trie /\ (CallCode(r, <<>>, w, p) \/ Create(r, <<>>, w, a, s, value, gas))
  BY DEF RunTx
<1> HIDE DEF r, p
<1>4. Base(r, <<>>, w)
  BY <1>1, <1>2, PaidStartsFrom DEF Base
<1> HIDE DEF w, a
<1>5. GoesBack(r)
  BY <1>1, <1>2, <1>3, <1>4, CallCodeGoesBack, CreateGoesBack
<1> QED  BY <1>3, <1>5, GoesBackKeeps

LEMMA RunMessageGoesBack ==
    ASSUME SenderInv, NEW kind \in {"call", "create", "upgrade"}, NEW s \in Caller,
           NEW to \in Addr, NEW value \in 0..MaxAmount, NEW gas \in 0..MaxGas,
           RunMessage(kind, s, to, value, gas)
    PROVE  FailureInv'
<1> DEFINE r == Begin("message", s, gas)
           u == [r EXCEPT !.kind = "upgrade"]
           p == [to |-> to, address |-> to, sender |-> s, value |-> value, gas |-> gas, static |-> FALSE]
           a == CreateAddress(s, trie[s].nonce - 1)
<1>1. s \in Addr /\ gas \in Int /\ <<>> \in Seq(FramesOf(trie, r))
  BY ExecutionAssumption
<1>2. r \in Runs /\ ~r.over
  BY <1>1, BeginMessage DEF Begin
<1>3. u \in Runs /\ u.kind = "upgrade" /\ ~u.over
  BY <1>2 DEF Runs
<1>4. /\ trie' = trie
      /\ \/ CallCode(r, <<>>, trie, p) \/ Create(r, <<>>, trie, a, s, value, gas)
         \/ Upgrade(u, trie, to, s, value, gas)
  BY DEF RunMessage
<1>5. Base(r, <<>>, trie)
  BY DEF Base, StartsFrom
<1> HIDE DEF r, u, p, a
<1>6. GoesBack(r) \/ GoesBack(u)
  BY <1>1, <1>2, <1>3, <1>4, <1>5, CallCodeGoesBack, CreateGoesBack, UpgradeGoesBack
<1> QED  BY <1>4, <1>6, GoesBackKeeps

\* While code runs, undoing goes back to the outermost savepoint in the end.
LEMMA RunningBase ==
    ASSUME SenderInv, FailureInv, Running
    PROVE  /\ ~run.over /\ ~Step.over /\ calls # <<>>
           /\ StartsFrom(trie, run, calls[1].savepoint)
           /\ Base(run, Outer, Top.savepoint)
           /\ \A w : StartsFrom(trie, run, w) <=> StartsFrom(trie, Step, w)
<1>1. /\ run # NoRun /\ ~run.over /\ run \in Runs
      /\ calls \in Seq(FramesOf(trie, run)) /\ calls # <<>>
  BY WhileRunning DEF Running
<1>2. StartsFrom(trie, run, calls[1].savepoint)
  BY <1>1 DEF FailureInv
<1>3. Step.kind = run.kind /\ Step.sender = run.sender /\ ~Step.over
  BY <1>1 DEF Step, Runs
<1>4. \A w : StartsFrom(trie, run, w) <=> StartsFrom(trie, Step, w)
  BY <1>3 DEF StartsFrom
<1>5. Len(calls) \in Nat \ {0}
  BY <1>1, EmptySeq, LenProperties
<1>6. Base(run, Outer, Top.savepoint)
  <2>1. CASE Len(calls) = 1
    <3>1. Outer = <<>> /\ Top = calls[1]
      BY <1>5, <2>1, SubSeqEmpty DEF Outer, Top
    <3> QED  BY <1>2, <3>1 DEF Base
  <2>2. CASE Len(calls) # 1
    <3> DEFINE n == Len(calls)
    <3>1. n \in Nat /\ n # 0 /\ n # 1
      BY <1>5, <2>2
    <3> HIDE DEF n
    <3>2. n - 1 \in Nat \ {0} /\ 1 \in 1..(n - 1)
      BY <3>1
    <3>3. Len(calls) - 1 \in Nat \ {0} /\ 1 \in 1..(Len(calls) - 1)
      BY <3>2 DEF n
    <3>4. Outer # <<>> /\ Outer[1] = calls[1]
      <4>1. \A i \in 1..(Len(calls) - 1) : calls[i] \in FramesOf(trie, run)
        BY <1>1, <1>5, ElementOfSeq
      <4>2. /\ Len(SubSeq(calls, 1, Len(calls) - 1)) = Len(calls) - 1
            /\ SubSeq(calls, 1, Len(calls) - 1)[1] = calls[1]
        BY <1>5, <3>3, <4>1, SubSeqProperties
      <4>3. Len(<<>>) = 0
        OBVIOUS
      <4> QED  BY <3>3, <4>2, <4>3 DEF Outer
    <3> QED  BY <1>2, <3>4 DEF Base
  <2> QED  BY <2>1, <2>2
<1> QED  BY <1>1, <1>2, <1>3, <1>4, <1>6

LEMMA StoreGoesBack ==
    ASSUME SenderInv, FailureInv, NEW value \in StoredValue, Store(value)
    PROVE  FailureInv'
<1> DEFINE earned == Refund(trie[Top.address].slot, world[Top.address].slot, value)
           f == [Top EXCEPT !.sub.refunds = @ + earned]
<1>1. Running /\ trie' = trie /\ run' = Step
      /\ calls' = [calls EXCEPT ![Len(calls)].sub.refunds = @ + earned]
  BY DEF Store, Executes
<1>2. /\ Top \in FramesOf(trie, run) /\ calls \in Seq(FramesOf(trie, run)) /\ calls # <<>>
      /\ Len(calls) \in DOMAIN calls
  BY <1>1, WhileRunning, LenProperties
<1>3. calls' = [calls EXCEPT ![Len(calls)] = f]
  BY <1>1, <1>2 DEF Top
<1>4. f.savepoint = calls[Len(calls)].savepoint
  BY <1>2 DEF FramesOf, Top
<1> HIDE DEF f
<1>5. calls'[1].savepoint = calls[1].savepoint
  BY <1>2, <1>3, <1>4, SettledSavepoint
<1>6. GoesBack(Step)
  BY <1>1, <1>5, RunningBase DEF GoesBack
<1> QED  BY <1>1, <1>6, GoesBackKeeps

\* The frame that calls or creates stays where it is.
LEMMA NestedBase ==
    ASSUME SenderInv, FailureInv, Running, NEW gas \in Int, NEW w
    PROVE  Base(Step, Spent(gas), w) /\ Spent(gas) \in Seq(FramesOf(trie, Step))
<1> DEFINE f == [Top EXCEPT !.gas = @ - gas]
<1>1. /\ Top \in FramesOf(trie, run) /\ calls \in Seq(FramesOf(trie, run)) /\ calls # <<>>
      /\ Len(calls) \in DOMAIN calls
  BY WhileRunning, LenProperties
<1>2. Spent(gas) = [calls EXCEPT ![Len(calls)] = f]
  BY <1>1 DEF Spent, Top
<1>3. f \in FramesOf(trie, run) /\ f.savepoint = calls[Len(calls)].savepoint
  BY <1>1 DEF FramesOf, Top
<1> HIDE DEF f
<1>4. Spent(gas)[1].savepoint = calls[1].savepoint /\ Spent(gas) # <<>>
  BY <1>1, <1>2, <1>3, SettledSavepoint, LastReplaced
<1> QED  BY <1>4, RunningBase, SpentFrames, StepRuns DEF Base

LEMMA CallOutGoesBack ==
    ASSUME SenderInv, FailureInv,
           NEW kind \in {"CALL", "CALLCODE", "DELEGATECALL", "STATICCALL"},
           NEW to \in Addr, NEW value \in 0..MaxAmount, NEW gas \in 0..MaxGas,
           CallOut(kind, to, value, gas)
    PROVE  FailureInv'
<1>1. Running /\ trie' = trie /\ \E p : CallCode(Step, Spent(gas), world, p)
  BY DEF CallOut, Executes
<1>2. gas \in Int
  BY ExecutionAssumption
<1>3. Step \in Runs /\ ~Step.over
  BY <1>1, StepRuns, RunningBase
<1>4. Base(Step, Spent(gas), world) /\ Spent(gas) \in Seq(FramesOf(trie, Step))
  BY <1>1, <1>2, NestedBase
<1>5. GoesBack(Step)
  BY <1>1, <1>3, <1>4, CallCodeGoesBack
<1> QED  BY <1>1, <1>5, GoesBackKeeps

LEMMA CreateOutGoesBack ==
    ASSUME SenderInv, FailureInv, NEW value \in 0..MaxAmount, NEW gas \in 0..MaxGas, NEW a,
           CreateOut(a, value, gas)
    PROVE  FailureInv'
<1> DEFINE w == IncNonce(world, Top.address)
<1>1. /\ Running /\ trie' = trie
      /\ Create(Step, Spent(gas), w, a, Top.address, value, gas)
  BY DEF CreateOut, Executes
<1>2. gas \in Int
  BY ExecutionAssumption
<1>3. Step \in Runs /\ ~Step.over
  BY <1>1, StepRuns, RunningBase
<1>4. Base(Step, Spent(gas), w) /\ Spent(gas) \in Seq(FramesOf(trie, Step))
  BY <1>1, <1>2, NestedBase
<1> HIDE DEF w
<1>5. GoesBack(Step)
  BY <1>1, <1>3, <1>4, CreateGoesBack
<1> QED  BY <1>1, <1>5, GoesBackKeeps

LEMMA SelfDestructGoesBack ==
    ASSUME SenderInv, FailureInv, NEW to \in Addr, SelfDestruct(to)
    PROVE  FailureInv'
<1>1. Running /\ trie' = trie
  BY DEF SelfDestruct, Executes
<1>2. \E left, sub : End(Step, Outer, left, sub, FALSE)
  BY DEF SelfDestruct
<1>3. Step \in Runs /\ ~Step.over /\ Outer \in Seq(FramesOf(trie, Step))
  BY <1>1, StepRuns, RunningBase, WhileRunning
<1>4. Base(Step, Outer, Top.savepoint)
  BY <1>1, RunningBase DEF Base
<1>5. GoesBack(Step)
  BY <1>2, <1>3, <1>4, EndGoesBack, Zenon
<1> QED  BY <1>1, <1>5, GoesBackKeeps

LEMMA HaltGoesBack ==
    ASSUME SenderInv, FailureInv, Halt
    PROVE  FailureInv'
<1>1. Running /\ trie' = trie
  BY DEF Halt
<1>2. \E left, sub : End(run, Outer, left, sub, FALSE)
  BY DEF Halt
<1>3. run \in Runs /\ ~run.over /\ Outer \in Seq(FramesOf(trie, run)) /\ Base(run, Outer, Top.savepoint)
  BY <1>1, RunningBase, WhileRunning
<1>4. GoesBack(run)
  BY <1>2, <1>3, EndGoesBack, Zenon
<1> QED  BY <1>1, <1>4, GoesBackKeeps

LEMMA UndoGoesBack ==
    ASSUME SenderInv, FailureInv, Undo
    PROVE  FailureInv'
<1>1. Running /\ trie' = trie /\ world' = Top.savepoint
  BY DEF Undo, Undone
<1>2. \E left : End(run, Outer, left, NoSubState, TRUE)
  BY DEF Undo, Kept
<1>3. run \in Runs /\ ~run.over /\ Outer \in Seq(FramesOf(trie, run)) /\ Base(run, Outer, Top.savepoint)
  BY <1>1, RunningBase, WhileRunning
<1>4. GoesBack(run)
  BY <1>1, <1>2, <1>3, EndGoesBack, Zenon
<1> QED  BY <1>1, <1>4, GoesBackKeeps

LEMMA FailureInvNext ==
    ASSUME SenderInv, FailureInv, ExecutionNext
    PROVE  FailureInv'
<1>1. CASE \E s \in Signer, to \in Addr, creates \in BOOLEAN, value \in 0..MaxAmount :
             \E gas \in 0..MaxGas : RunTx(s, to, creates, value, gas)
  BY <1>1, RunTxGoesBack
<1>2. CASE \E kind \in {"call", "create", "upgrade"}, s \in Caller, to \in Addr,
             value \in 0..MaxAmount, gas \in 0..MaxGas :
             RunMessage(kind, s, to, value, gas)
  BY <1>2, RunMessageGoesBack
<1>3. CASE \E kept \in BOOLEAN : Finalize(kept)
  BY <1>3 DEF Finalize, FailureInv
<1>4. CASE \E value \in StoredValue : Store(value)
  BY <1>4, StoreGoesBack
<1>5. CASE \E kind \in {"CALL", "CALLCODE", "DELEGATECALL", "STATICCALL"}, to \in Addr,
             value \in 0..MaxAmount : \E gas \in 0..MaxGas : CallOut(kind, to, value, gas)
  BY <1>5, CallOutGoesBack
<1>6. CASE \E value \in 0..MaxAmount, gas \in 0..MaxGas : \E a : CreateOut(a, value, gas)
  BY <1>6, CreateOutGoesBack
<1>7. CASE \E to \in Addr : SelfDestruct(to)
  BY <1>7, SelfDestructGoesBack
<1>8. CASE Halt
  BY <1>8, HaltGoesBack
<1>9. CASE Undo
  BY <1>9, UndoGoesBack
<1>10. CASE Throw
  BY <1>10 DEF Throw, FailureInv
<1> QED  BY <1>1, <1>2, <1>3, <1>4, <1>5, <1>6, <1>7, <1>8, <1>9, <1>10 DEF ExecutionNext

\* What is paid back goes to the balances of the sender and the author only.
LEMMA PaidBackElsewhere ==
    ASSUME run \in Runs, world \in World
    PROVE  \A a \in Addr :
             /\ PaidBack[a].code = world[a].code /\ PaidBack[a].slot = world[a].slot
             /\ PaidBack[a].nonce = world[a].nonce
             /\ run.kind # "tx" \/ a \notin {run.sender, Author} => PaidBack[a].balance = world[a].balance
<1> DEFINE s == [world EXCEPT ![run.sender].balance = @ + Left * GasPrice]
           d == [s EXCEPT ![Author].balance = @ + (run.limit - Left) * GasPrice]
<1>1. run.sender \in Addr /\ Author \in Addr
  BY ExecutionAssumption DEF Runs
<1>2. \A a \in Addr : world[a] \in [nonce: Nat, balance: Int, code: Code, slot: StoredValue]
  BY DEF World
<1>3. /\ DOMAIN s = Addr
      /\ \A a \in Addr : s[a] = IF a = run.sender THEN [world[a] EXCEPT !.balance = @ + Left * GasPrice] ELSE world[a]
  BY <1>1 DEF World
<1>4. \A a \in Addr : d[a] = IF a = Author THEN [s[a] EXCEPT !.balance = @ + (run.limit - Left) * GasPrice] ELSE s[a]
  BY <1>1, <1>3
<1>5. PaidBack = IF run.kind # "tx" THEN world ELSE d
  BY DEF PaidBack
<1> HIDE DEF d
<1>6. \A a \in Addr : s[a] \in [nonce: Nat, balance: Int, code: Code, slot: StoredValue]
  <2>1. world[run.sender].balance + Left * GasPrice \in Int
    BY <1>1, <1>2, LeftInt, ExecutionAssumption
  <2> QED  BY <1>2, <1>3, <2>1
<1>7. CASE run.kind # "tx"
  BY <1>5, <1>7
<1>8. CASE run.kind = "tx"
  <2> SUFFICES ASSUME NEW a \in Addr
               PROVE  /\ d[a].code = world[a].code /\ d[a].slot = world[a].slot
                      /\ d[a].nonce = world[a].nonce
                      /\ a \notin {run.sender, Author} => d[a].balance = world[a].balance
    BY <1>5, <1>8
  <2> HIDE DEF s
  <2>1. /\ s[a].code = world[a].code /\ s[a].slot = world[a].slot /\ s[a].nonce = world[a].nonce
        /\ a # run.sender => s[a].balance = world[a].balance
        /\ s[a] \in [nonce: Nat, balance: Int, code: Code, slot: StoredValue]
    BY <1>2, <1>3, <1>6
  <2> QED  BY <1>4, <2>1
<1> QED  BY <1>7, <1>8
-----------------------------------------------------------------------------
\* Of a run that failed only its cost and its nonce remain, however deep its
\* frames went and whatever they did (Executive::revert, State::rollback).
THEOREM FailedRunsOnlyCost == ExecutionSpec => FailureOnlyCosts
<1>1. ExecutionInit => FailureInv
  BY DEF ExecutionInit, FailureInv
<1>2. SenderInv /\ FailureInv /\ [ExecutionNext]_execVars => FailureInv'
  <2>1. FailureInv /\ UNCHANGED execVars => FailureInv'
    BY DEF FailureInv, execVars, StartsFrom
  <2> QED  BY <2>1, FailureInvNext
<1>3. ASSUME SenderInv, FailureInv, Finalize(TRUE), run.failed, NEW a \in Addr
      PROVE  /\ trie'[a].code = trie[a].code /\ trie'[a].slot = trie[a].slot
             /\ run.kind # "tx" \/ a # run.sender => trie'[a].nonce = trie[a].nonce
             /\ run.kind # "tx" \/ a \notin {run.sender, Author} => trie'[a].balance = trie[a].balance
  <2>1. /\ run # NoRun /\ run.over
        /\ trie' = [b \in Addr |-> IF b \in run.sub.killed THEN Empty ELSE PaidBack[b]]
    BY <1>3 DEF Finalize
  <2>2. run \in Runs /\ world \in World
    BY <1>3, <2>1 DEF SenderInv, WorldsOf
  <2>3. StartsFrom(trie, run, world) /\ run.sub.killed = {}
    BY <1>3, <2>1 DEF FailureInv, NoSubState
  <2>4. trie'[a] = PaidBack[a]
    BY <2>1, <2>3
  <2> QED  BY <2>2, <2>3, <2>4, PaidBackElsewhere DEF StartsFrom
<1>4. SenderInv /\ FailureInv =>
        [Finalize(TRUE) /\ run.failed => \A a \in Addr :
            /\ trie'[a].code = trie[a].code /\ trie'[a].slot = trie[a].slot
            /\ run.kind # "tx" \/ a # run.sender => trie'[a].nonce = trie[a].nonce
            /\ run.kind # "tx" \/ a \notin {run.sender, Author} => trie'[a].balance = trie[a].balance]_execVars
  BY <1>3
<1> QED  BY <1>1, <1>2, <1>4, SenderIsUsed, PTL DEF ExecutionSpec, FailureOnlyCosts
-----------------------------------------------------------------------------
(* Money and refunds.  Every savepoint, with the frames outside it, is as    *)
(* well accounted for as the state is with all of them: that is what undoing *)
(* a frame needs.                                                            *)

\* Sums: of the balances of a state, and of the refunds of frames.
Plus(x, y) == x + y

\* The numbers that are added; nothing else is claimed of the folds.
BalanceIn(w, a) == w[a].balance
RefundIn(c, i) == c[i].sub.refunds
NoClaim(p, x, D) == TRUE

\* The facts about the two sums.
Balances == INSTANCE FoldFacts WITH op <- Plus, val <- BalanceIn, Holds <- NoClaim
Earnings == INSTANCE FoldFacts WITH op <- Plus, val <- RefundIn, Holds <- NoClaim

\* What the first k frames have earned, and whom they have destructed.
Earns(c, k) == Earnings!Sum(c, 1..k)
Kills(c, k) == UNION {c[i].sub.killed : i \in 1..k}

\* The total is such a sum.
LEMMA TotalIs == \A w : Total(w) = Balances!Sum(w, Addr)
BY DEF Total, MapThenSumSet, MapThenFoldSet, Balances!Sum, Balances!SetFold,
       Balances!SetTurns, Balances!Chosen, Plus, BalanceIn

LEMMA RefundsAre == Refunds = Earns(calls, Len(calls))
BY DEF Refunds, MapThenSumSet, MapThenFoldSet, Earns, Earnings!Sum, Earnings!SetFold,
       Earnings!SetTurns, Earnings!Chosen, Plus, RefundIn

\* The instances speak of the same finite sets and add.
LEMMA Sums ==
    /\ Balances!Adds /\ Earnings!Adds
    /\ Balances!IsFiniteSet(Addr)
    /\ \A k \in Int : Earnings!IsFiniteSet(1..k)
<1>1. Balances!Adds /\ Earnings!Adds
  BY DEF Balances!Adds, Earnings!Adds, Plus
<1>2. Balances!IsFiniteSet(Addr)
  BY ExecutionAssumption DEF IsFiniteSet, Balances!IsFiniteSet
<1>3. ASSUME NEW k \in Int PROVE Earnings!IsFiniteSet(1..k)
  <2>1. IsFiniteSet(1..k)
    BY FS_Interval
  <2> QED  BY <2>1 DEF IsFiniteSet, Earnings!IsFiniteSet
<1> QED  BY <1>1, <1>2, <1>3

\* A total changes with the balance that changes.
LEMMA TotalChanges ==
    ASSUME NEW w \in World, NEW v \in World, NEW a \in Addr,
           \A b \in Addr \ {a} : v[b].balance = w[b].balance
    PROVE  Total(w) \in Int /\ Total(v) = Total(w) - w[a].balance + v[a].balance
<1>1. \A b \in Addr : BalanceIn(w, b) \in Int /\ BalanceIn(v, b) \in Int
  BY DEF World, BalanceIn
<1>2. \A b \in Addr \ {a} : BalanceIn(w, b) \in Int /\ BalanceIn(v, b) = BalanceIn(w, b)
  BY <1>1 DEF BalanceIn
<1>3. /\ Balances!Sum(w, Addr) \in Int
      /\ Balances!Sum(v, Addr) = Balances!Sum(w, Addr) - BalanceIn(w, a) + BalanceIn(v, a)
  BY <1>1, <1>2, Sums, Balances!SumChanges
<1> QED  BY <1>3, TotalIs DEF BalanceIn

\* States with the same balances have the same total.
LEMMA TotalAlike ==
    ASSUME NEW w \in World, NEW v \in World, \A b \in Addr : v[b].balance = w[b].balance
    PROVE  Total(v) = Total(w) /\ Total(w) \in Int
<1>1. \A b \in Addr : BalanceIn(w, b) \in Int /\ BalanceIn(v, b) = BalanceIn(w, b)
  BY DEF World, BalanceIn
<1>2. Balances!Sum(v, Addr) = Balances!Sum(w, Addr)
  BY <1>1, Sums, Balances!SumAlike
<1>3. Balances!Sum(w, Addr) \in Int
  BY <1>1, Sums, Balances!SumSplits
<1> QED  BY <1>2, <1>3, TotalIs

\* What frames earned changes with the last of them.
LEMMA EarnsMore ==
    ASSUME NEW c, NEW k \in Nat, \A i \in 1..k + 1 : RefundIn(c, i) \in Int
    PROVE  Earns(c, k) \in Int /\ Earns(c, k + 1) = Earns(c, k) + RefundIn(c, k + 1)
<1>1. k + 1 \in 1..k + 1 /\ (1..k + 1) \ {k + 1} = 1..k /\ k + 1 \in Int /\ k \in Int
  OBVIOUS
<1>2. Earnings!Sum(c, 1..k + 1) = RefundIn(c, k + 1) + Earnings!Sum(c, (1..k + 1) \ {k + 1})
  BY <1>1, Sums, Earnings!SumSplits
<1>3. \A i \in 1..k : RefundIn(c, i) \in Int
  OBVIOUS
<1>4. Earnings!Sum(c, 1..k) \in Int
  BY <1>1, <1>3, Sums, Earnings!SumSplits
<1>5. RefundIn(c, k + 1) \in Int
  BY <1>1
<1> DEFINE x == Earnings!Sum(c, 1..k)
           y == RefundIn(c, k + 1)
<1>6. Earnings!Sum(c, 1..k + 1) = y + x /\ x \in Int /\ y \in Int
  BY <1>1, <1>2, <1>4, <1>5
<1> HIDE DEF x, y
<1>7. Earnings!Sum(c, 1..k + 1) = x + y /\ x \in Int
  BY <1>6
<1> QED  BY <1>7 DEF Earns, x, y

\* Frames with the same refunds earned the same.
LEMMA EarnsAlike ==
    ASSUME NEW c, NEW d, NEW k \in Nat, \A i \in 1..k : RefundIn(c, i) \in Int /\ RefundIn(d, i) = RefundIn(c, i)
    PROVE  Earns(d, k) = Earns(c, k)
BY Sums, Earnings!SumAlike DEF Earns

LEMMA EarnsNothing == \A c : Earns(c, 0) = 0
<1>1. 1..0 = {}
  OBVIOUS
<1> QED  BY <1>1, Earnings!SumOfNone DEF Earns
-----------------------------------------------------------------------------
(* States. *)

\* A state without debts, whose new contracts are known to be occupied.
Safe(w) == w \in World /\ Solvent(w) /\ Known(w)

\* v has the money and the storage of w, and no nonce is taken back.
Follows(w, v) ==
    /\ Safe(v) /\ Total(v) = Total(w)
    /\ \A a \in Addr : v[a].slot = w[a].slot /\ v[a].nonce >= w[a].nonce

LEMMA CreatableIn == Creatable \subseteq Addr
BY ExecutionAssumption DEF Creatable

\* Transfers, nonces, code and new accounts make nothing and clear nothing.
LEMMA TransferIs ==
    ASSUME NEW w \in World, NEW from \in Addr, NEW to \in Addr, NEW value \in Int
    PROVE  LET paid == [w EXCEPT ![from].balance = @ - value]
               v == Transfer(w, from, to, value)
           IN  /\ paid \in World /\ v \in World
               /\ \A b \in Addr \ {from} : paid[b].balance = w[b].balance
               /\ paid[from].balance = w[from].balance - value
               /\ \A b \in Addr \ {to} : v[b].balance = paid[b].balance
               /\ v[to].balance = paid[to].balance + value
               /\ \A b \in Addr : v[b].nonce = w[b].nonce /\ v[b].code = w[b].code /\ v[b].slot = w[b].slot
<1> DEFINE paid == [w EXCEPT ![from].balance = @ - value]
           v == [paid EXCEPT ![to].balance = @ + value]
<1>1. w[from].balance - value \in Int
  BY DEF World
<1>2. /\ paid \in World /\ \A b \in Addr \ {from} : paid[b] = w[b]
      /\ paid[from] = [w[from] EXCEPT !.balance = @ - value]
  BY <1>1 DEF World
<1>3. /\ \A b \in Addr : paid[b].nonce = w[b].nonce /\ paid[b].code = w[b].code /\ paid[b].slot = w[b].slot
      /\ paid[from].balance = w[from].balance - value
  <2>1. w[from] \in [nonce: Nat, balance: Int, code: Code, slot: StoredValue]
    BY DEF World
  <2> HIDE DEF paid
  <2> QED  BY <1>2, <2>1
<1> HIDE DEF paid
<1>4. paid[to].balance + value \in Int
  BY <1>2 DEF World
<1>5. /\ v \in World /\ \A b \in Addr \ {to} : v[b] = paid[b]
      /\ v[to] = [paid[to] EXCEPT !.balance = @ + value]
  BY <1>2, <1>4 DEF World
<1>6. /\ \A b \in Addr : v[b].nonce = paid[b].nonce /\ v[b].code = paid[b].code /\ v[b].slot = paid[b].slot
      /\ v[to].balance = paid[to].balance + value
  <2>1. paid[to] \in [nonce: Nat, balance: Int, code: Code, slot: StoredValue]
    BY <1>2 DEF World
  <2> HIDE DEF v
  <2> QED  BY <1>5, <2>1
<1>7. v = Transfer(w, from, to, value)
  BY DEF Transfer, paid
<1> HIDE DEF v
<1> QED  BY <1>2, <1>3, <1>5, <1>6, <1>7 DEF paid

\* A transfer of what there is.
LEMMA TransferFrom ==
    ASSUME NEW w, Safe(w), NEW from \in Addr, NEW to \in Addr, NEW value \in Nat, value <= w[from].balance
    PROVE  /\ Follows(w, Transfer(w, from, to, value))
           /\ \A b \in Addr : /\ Transfer(w, from, to, value)[b].nonce = w[b].nonce
                              /\ Transfer(w, from, to, value)[b].code = w[b].code
<1> DEFINE paid == [w EXCEPT ![from].balance = @ - value]
           v == Transfer(w, from, to, value)
<1>1. w \in World /\ value \in Int /\ Solvent(w) /\ Known(w)
  BY DEF Safe
<1>2. /\ paid \in World /\ v \in World
      /\ \A b \in Addr \ {from} : paid[b].balance = w[b].balance
      /\ paid[from].balance = w[from].balance - value
      /\ \A b \in Addr \ {to} : v[b].balance = paid[b].balance
      /\ v[to].balance = paid[to].balance + value
      /\ \A b \in Addr : v[b].nonce = w[b].nonce /\ v[b].code = w[b].code /\ v[b].slot = w[b].slot
  BY <1>1, TransferIs
<1> HIDE DEF paid, v
<1>3. /\ \A b \in Addr : w[b].balance \in Int /\ paid[b].balance \in Int /\ v[b].balance \in Int /\ w[b].nonce \in Int
  BY <1>1, <1>2 DEF World
<1>4. Total(v) = Total(w)
  <2>1. Total(w) \in Int /\ Total(paid) = Total(w) - w[from].balance + paid[from].balance
    BY <1>1, <1>2, TotalChanges
  <2>2. Total(v) = Total(paid) - paid[to].balance + v[to].balance
    BY <1>2, TotalChanges
  <2> DEFINE T == Total(w)
             P == Total(paid)
             V == Total(v)
             x == w[from].balance
             y == paid[to].balance
  <2>3. T \in Int /\ x \in Int /\ y \in Int /\ P = T - x + (x - value) /\ V = P - y + (y + value)
    BY <1>2, <1>3, <2>1, <2>2
  <2> HIDE DEF T, P, V, x, y
  <2>4. V = T
    BY <1>1, <2>3
  <2> QED  BY <2>4 DEF T, V
<1>5. Solvent(v)
  <2>1. \A b \in Addr : paid[b].balance >= 0
    BY <1>1, <1>2, <1>3 DEF Solvent
  <2>2. \A b \in Addr : v[b].balance >= 0
    BY <1>1, <1>2, <1>3, <2>1
  <2> QED  BY <2>2 DEF Solvent
<1>6. Known(v)
  BY <1>1, <1>2, CreatableIn DEF Known
<1>7. Follows(w, v)
  BY <1>2, <1>3, <1>4, <1>5, <1>6 DEF Follows, Safe
<1> QED  BY <1>2, <1>7 DEF v

\* v differs from w in one account, that has its balance and storage.
LEMMA AccountChanges ==
    ASSUME NEW w, Safe(w), NEW a \in Addr, NEW v \in World,
           \A b \in Addr \ {a} : v[b] = w[b],
           v[a].balance = w[a].balance, v[a].slot = w[a].slot, v[a].nonce >= w[a].nonce,
           a \in Creatable => v[a].nonce > 0 \/ v[a].code = w[a].code
    PROVE  Follows(w, v)
<1>1. w \in World /\ Solvent(w) /\ Known(w)
  BY DEF Safe
<1>2. \A b \in Addr : w[b].nonce \in Nat /\ v[b].nonce \in Nat
  BY <1>1 DEF World
<1>3. \A b \in Addr : v[b].balance = w[b].balance
  OBVIOUS
<1>4. Total(v) = Total(w)
  BY <1>1, <1>3, TotalAlike
<1>5. Solvent(v)
  BY <1>1, <1>3 DEF Solvent
<1>6. Known(v)
  <2> SUFFICES ASSUME NEW b \in Creatable, v[b].slot # 0 \/ v[b].code # NoCode PROVE v[b].nonce > 0
    BY DEF Known
  <2>1. CASE b = a /\ v[a].code = w[a].code
    <3>1. w[a].nonce > 0
      BY <1>1, <2>1 DEF Known
    <3> QED  BY <1>2, <2>1, <3>1
  <2>2. CASE b # a
    BY <1>1, <2>2, CreatableIn DEF Known
  <2> QED  BY <2>1, <2>2
<1>7. \A b \in Addr : v[b].slot = w[b].slot /\ v[b].nonce >= w[b].nonce
  BY <1>2
<1> QED  BY <1>4, <1>5, <1>6, <1>7 DEF Follows, Safe

LEMMA IncNonceFrom ==
    ASSUME NEW w, Safe(w), NEW a \in Addr
    PROVE  Follows(w, IncNonce(w, a)) /\ IncNonce(w, a)[a].nonce > 0
<1> DEFINE v == IncNonce(w, a)
<1>1. w \in World /\ w[a] \in [nonce: Nat, balance: Int, code: Code, slot: StoredValue]
  BY DEF Safe, World
<1>2. v \in World /\ (\A b \in Addr \ {a} : v[b] = w[b]) /\ v[a] = [w[a] EXCEPT !.nonce = @ + 1]
  BY <1>1 DEF IncNonce, World
<1> HIDE DEF v
<1>3. v[a].balance = w[a].balance /\ v[a].slot = w[a].slot /\ v[a].nonce >= w[a].nonce /\ v[a].nonce > 0
  BY <1>1, <1>2
<1>4. Follows(w, v)
  BY <1>2, <1>3, AccountChanges
<1> QED  BY <1>3, <1>4 DEF v

LEMMA CodeFrom ==
    ASSUME NEW w, Safe(w), NEW a \in Addr, a \in Creatable => w[a].nonce > 0, NEW c \in Code
    PROVE  Follows(w, [w EXCEPT ![a].code = c])
<1> DEFINE v == [w EXCEPT ![a].code = c]
<1>1. w \in World /\ w[a] \in [nonce: Nat, balance: Int, code: Code, slot: StoredValue]
  BY DEF Safe, World
<1>2. v \in World /\ (\A b \in Addr \ {a} : v[b] = w[b]) /\ v[a] = [w[a] EXCEPT !.code = c]
  BY <1>1 DEF World
<1> HIDE DEF v
<1>3. v[a].balance = w[a].balance /\ v[a].slot = w[a].slot /\ v[a].nonce >= w[a].nonce /\ v[a].nonce = w[a].nonce
  BY <1>1, <1>2
<1>4. Follows(w, v)
  BY <1>2, <1>3, AccountChanges
<1> QED  BY <1>4 DEF v

\* An account that is not occupied has no storage to clear.
LEMMA CreatedFrom ==
    ASSUME NEW w, Safe(w), NEW a \in Creatable, ~Occupied(w, a)
    PROVE  LET v == [w EXCEPT ![a].nonce = 1, ![a].slot = 0] IN Follows(w, v) /\ v[a].nonce > 0
<1> DEFINE v == [w EXCEPT ![a].nonce = 1, ![a].slot = 0]
<1>0. a \in Addr
  BY CreatableIn
<1>1. w \in World /\ Known(w) /\ w[a] \in [nonce: Nat, balance: Int, code: Code, slot: StoredValue]
  BY <1>0 DEF Safe, World
<1>2. w[a].nonce = 0 /\ w[a].slot = 0
  BY <1>1 DEF Occupied, Known
<1>3. 0 \in StoredValue
  BY ExecutionAssumption
<1>4. v \in World /\ (\A b \in Addr \ {a} : v[b] = w[b]) /\ v[a] = [w[a] EXCEPT !.nonce = 1, !.slot = 0]
  BY <1>0, <1>1, <1>3 DEF World
<1> HIDE DEF v
<1>5. v[a].balance = w[a].balance /\ v[a].slot = w[a].slot /\ v[a].nonce >= w[a].nonce /\ v[a].nonce > 0
  BY <1>1, <1>2, <1>4
<1>6. a \in Creatable => v[a].nonce > 0 \/ v[a].code = w[a].code
  BY <1>5
<1>7. Follows(w, v)
  <2>1. v \in World /\ \A b \in Addr \ {a} : v[b] = w[b]
    BY <1>4
  <2>2. v[a].balance = w[a].balance /\ v[a].slot = w[a].slot /\ v[a].nonce >= w[a].nonce
    BY <1>5
  <2> QED  BY <1>0, <1>6, <2>1, <2>2, AccountChanges
<1> QED  BY <1>5, <1>7 DEF v

\* What follows a state that follows.
LEMMA FollowsOn ==
    ASSUME NEW w \in World, NEW v, NEW u, Follows(w, v), Follows(v, u)
    PROVE  Follows(w, u) /\ \A a \in Addr : w[a].nonce > 0 => v[a].nonce > 0
<1>1. \A a \in Addr : w[a].nonce \in Nat /\ v[a].nonce \in Nat /\ u[a].nonce \in Nat
  BY DEF Follows, Safe, World
<1> QED  BY <1>1 DEF Follows
-----------------------------------------------------------------------------
(* The accounts of a run. *)

\* Slots that the state t has and w has cleared.
ClearedIn(t, w) == {a \in Addr : t[a].slot # 0 /\ w[a].slot = 0}

\* What a run has paid for gas in advance.
Escrowed(r) == IF r.kind = "tx" THEN r.limit * GasPrice ELSE 0

\* w, with the first k frames of c and e paid in advance, is a state that came from t:
\* no money is missing but what was burnt, contracts that run are known, and the frames
\* have earned enough for what is cleared.
Accounted(t, e, c, k, w) ==
    /\ Safe(w)
    /\ Total(w) + e <= Total(t)
    /\ Kills(c, k) = {} => Total(w) + e = Total(t)
    /\ \A i \in 1..k : c[i].address \in Creatable => w[c[i].address].nonce > 0
    /\ Earns(c, k) >= RefundGas * Cardinality(ClearedIn(t, w))

\* What each frame goes back to is accounted for with the frames outside it.
Stacked(t, e, c) == \A i \in 1..Len(c) : Accounted(t, e, c, i - 1, c[i].savepoint)

\* Each frame and those in it have a budget, and g of the innermost one's is not in a
\* frame.
Within(c, limit, g) ==
    \E b \in [1..Len(c) + 1 -> Nat] :
        /\ b[1] <= limit /\ b[Len(c) + 1] = g
        /\ \A i \in 1..Len(c) : c[i].gas >= 0 /\ c[i].gas + b[i + 1] <= b[i]

\* A run that is over.
Ended(t, r, w) ==
    /\ Safe(w)
    /\ Total(w) + Escrowed(r) <= Total(t)
    /\ r.sub.killed = {} => Total(w) + Escrowed(r) = Total(t)
    /\ r.gas \in 0..r.limit /\ r.sub.refunds >= 0

\* A run with frames c in the state w.
Going(t, r, c, w) ==
    /\ r.sub = NoSubState
    /\ Accounted(t, Escrowed(r), c, Len(c), w)
    /\ Stacked(t, Escrowed(r), c)
    /\ Within(c, r.limit, 0)

\* A run is over, or has frames, and is accounted for.
RunInv ==
    /\ calls # <<>> => ~run.over /\ Going(trie, run, calls, world)
    /\ run # NoRun => run.over \/ calls # <<>>
    /\ run # NoRun /\ run.over => Ended(trie, run, world)

\* No more money than there was, and a run that is accounted for: the invariant that a
\* step keeps.
MoneyInv ==
    /\ Safe(trie) /\ \E w \in Roots : Total(trie) <= Total(w)
    /\ RunInv

\* A call or creation with gas g is about to begin, in the state w and frames c.
Before(t, r, c, w, g) ==
    /\ r.sub = NoSubState /\ ~r.over
    /\ Accounted(t, Escrowed(r), c, Len(c), w)
    /\ Stacked(t, Escrowed(r), c)
    /\ Within(c, r.limit, g)

\* One with frames c outside it may end in the state w, with sub for its sub-state.
Results(t, r, c, sub, w) ==
    /\ Safe(w)
    /\ Total(w) + Escrowed(r) <= Total(t)
    /\ Kills(c, Len(c)) \cup sub.killed = {} => Total(w) + Escrowed(r) = Total(t)
    /\ \A i \in 1..Len(c) : c[i].address \in Creatable => w[c[i].address].nonce > 0
    /\ \/ c = <<>> /\ sub.refunds >= 0
       \/ Earns(c, Len(c)) + sub.refunds >= RefundGas * Cardinality(ClearedIn(t, w))

\* Slots are counted, and what is earned for them is not less than nothing.
LEMMA ClearedCount ==
    ASSUME NEW t, NEW w
    PROVE  /\ IsFiniteSet(ClearedIn(t, w)) /\ Cardinality(ClearedIn(t, w)) \in Nat
           /\ RefundGas * Cardinality(ClearedIn(t, w)) \in Nat
<1>1. IsFiniteSet(ClearedIn(t, w))
  BY ExecutionAssumption, FS_Subset DEF ClearedIn
<1>2. Cardinality(ClearedIn(t, w)) \in Nat
  BY <1>1, FS_CardinalityType
<1>3. RefundGas \in Nat
  BY ExecutionAssumption, MoneyAssumption
<1> QED  BY <1>1, <1>2, <1>3

\* Accounts go over to a state that follows, and to frames of the same addresses and
\* sub-states.
LEMMA AccountedOn ==
    ASSUME NEW t, NEW e, NEW c, NEW k, NEW w, Accounted(t, e, c, k, w), NEW v, Follows(w, v),
           \A i \in 1..k : c[i].address \in Addr
    PROVE  Accounted(t, e, c, k, v)
<1>1. w \in World /\ v \in World
  BY DEF Accounted, Follows, Safe
<1>2. ClearedIn(t, v) = ClearedIn(t, w)
  BY DEF ClearedIn, Follows
<1>3. \A a \in Addr : w[a].nonce > 0 => v[a].nonce > 0
  BY <1>1 DEF Follows, World
<1> QED  BY <1>2, <1>3 DEF Accounted, Follows

\* Frames of the same addresses and sub-states account for the same.
LEMMA AccountedAlike ==
    ASSUME NEW t, NEW e, NEW c, NEW d, NEW k \in Nat, NEW w, Accounted(t, e, c, k, w),
           \A i \in 1..k : d[i].address = c[i].address /\ d[i].sub = c[i].sub /\ c[i].sub.refunds \in Int
    PROVE  Accounted(t, e, d, k, w)
<1>1. \A i \in 1..k : RefundIn(c, i) \in Int /\ RefundIn(d, i) = RefundIn(c, i)
  BY DEF RefundIn
<1>2. Earns(d, k) = Earns(c, k)
  BY <1>1, EarnsAlike
<1>3. Kills(d, k) = Kills(c, k)
  BY DEF Kills
<1> QED  BY <1>2, <1>3 DEF Accounted

\* The end of a call or creation.  Its refunds and its gas go to the frame outside.
LEMMA EndSafe ==
    ASSUME trie' = trie, NEW r \in Runs, NEW c \in Seq(FramesOf(trie, r)), NEW w, NEW g \in Nat,
           Before(trie, r, c, w, g), NEW left \in 0..g, NEW sub \in SubStates, NEW failed,
           End(r, c, left, sub, failed), Results(trie, r, c, sub, world')
    PROVE  RunInv'
<1> DEFINE n == Len(c)
           e == Escrowed(r)
<1>0. n = Len(c) /\ n \in Nat
  BY LenProperties
<1> HIDE DEF n
<1>1. PICK b \in [1..n + 1 -> Nat] :
          /\ b[1] <= r.limit /\ b[n + 1] = g
          /\ \A i \in 1..n : c[i].gas >= 0 /\ c[i].gas + b[i + 1] <= b[i]
  BY <1>0 DEF Before, Within
<1>2. CASE c = <<>>
  <2> DEFINE q == [r EXCEPT !.over = TRUE, !.gas = left, !.sub = sub, !.failed = failed]
  <2>1. run' = q /\ calls' = <<>>
    BY <1>2 DEF End
  <2>2. q.over /\ q.gas = left /\ q.sub = sub /\ q.kind = r.kind /\ q.limit = r.limit /\ r.limit \in Int
    BY DEF Runs
  <2> HIDE DEF q
  <2>3. n = 0 /\ Kills(c, n) = {}
    BY <1>0, <1>2 DEF Kills
  <2>4. left \in 0..r.limit
    BY <1>1, <2>2, <2>3
  <2>5. sub.refunds >= 0
    <3>1. Earns(c, n) = 0
      BY <2>3, EarnsNothing
    <3>2. sub.refunds \in Int
      BY DEF SubStates
    <3> QED  BY <1>0, <3>1, <3>2, ClearedCount DEF Results
  <2>6. Escrowed(q) = e
    BY <2>2 DEF Escrowed
  <2>7. Ended(trie, q, world')
    BY <1>0, <2>2, <2>3, <2>4, <2>5, <2>6 DEF Ended, Results
  <2> QED  BY <2>1, <2>2, <2>7 DEF RunInv
<1>3. CASE c # <<>>
  <2> DEFINE f == [c[n] EXCEPT !.gas = @ + left, !.sub = Accrued(@, sub)]
             d == [c EXCEPT ![n] = f]
  <2>1. /\ n \in Nat /\ n \in 1..n /\ DOMAIN c = 1..n /\ \A i \in 1..n : c[i] \in FramesOf(trie, r)
    <3>1. n \in 1..n /\ DOMAIN c = 1..n
      BY <1>0, <1>3, EmptySeq, LenProperties
    <3> QED  BY <1>0, <3>1, ElementOfSeq
  <2>0. \A i \in 1..n : i = n \/ i \in 1..n - 1
    BY <2>1
  <2>2. run' = r /\ calls' = d
    BY <1>0, <1>3, <2>1 DEF End
  <2>3. /\ f.gas = c[n].gas + left /\ f.address = c[n].address /\ f.savepoint = c[n].savepoint
        /\ f.sub.killed = c[n].sub.killed \cup sub.killed /\ f.sub.refunds = c[n].sub.refunds + sub.refunds
    <3>1. c[n] \in FramesOf(trie, r)
      BY <2>1
    <3>2. f.gas = c[n].gas + left /\ f.address = c[n].address /\ f.savepoint = c[n].savepoint /\ f.sub = Accrued(c[n].sub, sub)
      BY <3>1 DEF FramesOf
    <3> QED  BY <3>2 DEF Accrued
  <2> HIDE DEF f
  <2>4. DOMAIN d = 1..n /\ d[n] = f /\ (\A i \in 1..n - 1 : d[i] = c[i]) /\ Len(d) = n /\ d # <<>>
    <3>1. d \in Seq({c[i] : i \in 1..n} \cup {f}) /\ Len(d) = n
      BY <1>0, <2>1
    <3>2. DOMAIN d = 1..n /\ d[n] = f /\ \A i \in 1..n - 1 : d[i] = c[i]
      BY <2>1
    <3> HIDE DEF d
    <3>3. d # <<>>
      BY <2>1, <3>1
    <3> QED  BY <3>1, <3>2, <3>3
  <2> HIDE DEF d
  <2>5. \A i \in 1..n : c[i].sub \in SubStates /\ c[i].sub.refunds \in Int /\ c[i].gas \in Int
    BY <2>1 DEF FramesOf, SubsOf, SubStates
  <2>6. Accounted(trie, e, d, n, world')
    <3>1. \A i \in 1..n : RefundIn(c, i) \in Int /\ RefundIn(d, i) \in Int
      <4>1. \A i \in 1..n - 1 : RefundIn(d, i) = RefundIn(c, i)
        BY <2>4 DEF RefundIn
      <4>2. RefundIn(d, n) = RefundIn(c, n) + sub.refunds /\ sub.refunds \in Int
        BY <2>3, <2>4 DEF RefundIn, SubStates
      <4>3. \A i \in 1..n : RefundIn(c, i) \in Int
        BY <2>5 DEF RefundIn
      <4> QED  BY <2>0, <2>1, <4>1, <4>2, <4>3
    <3>2. n - 1 \in Nat /\ (n - 1) + 1 = n
      BY <2>1
    <3> DEFINE k == n - 1
    <3>3. k \in Nat /\ k + 1 = n
      BY <3>2
    <3>4. \A i \in 1..k : RefundIn(c, i) \in Int /\ RefundIn(d, i) = RefundIn(c, i)
      BY <2>1, <2>4, <3>1, <3>3 DEF RefundIn
    <3> HIDE DEF k
    <3>5. Earns(d, k) = Earns(c, k)
      BY <3>3, <3>4, EarnsAlike
    <3>6. Earns(c, k) \in Int /\ Earns(c, k + 1) = Earns(c, k) + RefundIn(c, k + 1)
      BY <3>1, <3>3, EarnsMore
    <3>7. Earns(d, k + 1) = Earns(d, k) + RefundIn(d, k + 1)
      BY <3>1, <3>3, EarnsMore
    <3>8. Earns(d, n) = Earns(c, n) + sub.refunds
      <4>1. RefundIn(d, n) = RefundIn(c, n) + sub.refunds
        BY <2>3, <2>4 DEF RefundIn
      <4>2. sub.refunds \in Int /\ RefundIn(c, n) \in Int
        BY <2>1, <3>1 DEF SubStates
      <4>3. Earns(c, n) = Earns(c, k) + RefundIn(c, n) /\ Earns(d, n) = Earns(c, k) + (RefundIn(c, n) + sub.refunds)
        BY <3>3, <3>5, <3>6, <3>7, <4>1
      <4> DEFINE x == RefundIn(c, n)
      <4> HIDE DEF x
      <4> QED  BY <3>6, <4>2, <4>3 DEF x
    <3>9. Kills(d, n) = Kills(c, n) \cup sub.killed
      <4>2. \A i \in 1..n : d[i].sub.killed = c[i].sub.killed \cup (IF i = n THEN sub.killed ELSE {})
        BY <2>0, <2>3, <2>4
      <4> QED  BY <2>1, <4>2 DEF Kills
    <3>10. \A i \in 1..n : d[i].address = c[i].address
      BY <2>0, <2>3, <2>4
    <3> QED  BY <1>0, <1>3, <3>8, <3>9, <3>10 DEF Results, Accounted
  <2>7. Stacked(trie, e, d)
    <3> SUFFICES ASSUME NEW i \in 1..n PROVE Accounted(trie, e, d, i - 1, d[i].savepoint)
      BY <1>0, <2>4 DEF Stacked
    <3>1. d[i].savepoint = c[i].savepoint
      BY <2>0, <2>3, <2>4
    <3>2. Accounted(trie, e, c, i - 1, c[i].savepoint)
      BY <1>0 DEF Before, Stacked
    <3> DEFINE k == i - 1
    <3>3. k \in Nat /\ \A j \in 1..k : j \in 1..n - 1 /\ j \in 1..n
      BY <2>1
    <3>4. \A j \in 1..k : d[j].address = c[j].address /\ d[j].sub = c[j].sub /\ c[j].sub.refunds \in Int
      BY <2>4, <2>5, <3>3
    <3> HIDE DEF k
    <3>5. Accounted(trie, e, c, k, c[i].savepoint)
      BY <3>2 DEF k
    <3>6. Accounted(trie, e, d, k, c[i].savepoint)
      BY <3>3, <3>4, <3>5, AccountedAlike
    <3> QED  BY <3>1, <3>6 DEF k
  <2>8. Within(d, r.limit, 0)
    <3> DEFINE a == [i \in 1..n + 1 |-> IF i = n + 1 THEN 0 ELSE b[i]]
    <3>1. a \in [1..n + 1 -> Nat]
      OBVIOUS
    <3>2. a[1] = b[1] /\ a[n + 1] = 0
      BY <2>1
    <3>3. ASSUME NEW i \in 1..n PROVE d[i].gas >= 0 /\ d[i].gas + a[i + 1] <= a[i]
      <4>1. /\ b[i] \in Int /\ b[i + 1] \in Int /\ c[i].gas \in Int /\ c[i].gas >= 0 /\ c[i].gas + b[i + 1] <= b[i]
        <5>1. i \in 1..n + 1 /\ i + 1 \in 1..n + 1
          BY <2>1
        <5>2. b[i] \in Nat /\ b[i + 1] \in Nat
          BY <5>1
        <5> QED  BY <1>1, <2>5, <5>2
      <4>0. a[i] = b[i]
        BY <2>1
      <4>2. CASE i = n
        <5>1. d[i].gas = c[i].gas + left /\ a[i + 1] = 0 /\ left <= b[i + 1] /\ left \in Nat
          BY <1>1, <2>1, <2>3, <2>4, <4>2
        <5> QED  BY <4>0, <4>1, <5>1
      <4>3. CASE i # n
        <5>1. d[i].gas = c[i].gas /\ a[i + 1] = b[i + 1]
          BY <2>0, <2>1, <2>4, <4>3
        <5> QED  BY <4>0, <4>1, <5>1
      <4> QED  BY <4>2, <4>3
    <3> HIDE DEF a
    <3> QED  BY <1>0, <1>1, <2>4, <3>1, <3>2, <3>3 DEF Within
  <2>9. Going(trie, r, d, world') /\ ~r.over
    BY <1>0, <2>4, <2>6, <2>7, <2>8 DEF Going, Before
  <2> QED  BY <2>2, <2>4, <2>9 DEF RunInv
<1> QED  BY <1>2, <1>3

\* A frame begins: it has the gas that it is given and nothing earned.
LEMMA EnterSafe ==
    ASSUME trie' = trie, NEW r \in Runs, NEW c \in Seq(FramesOf(trie, r)), NEW w, NEW g \in Nat,
           Before(trie, r, c, w, g), Follows(w, world'),
           NEW a \in Addr, a \in Creatable => world'[a].nonce > 0, NEW s, NEW creates, NEW static,
           Enter(r, c, Frame(a, s, w, g, creates, static))
    PROVE  RunInv'
<1> DEFINE n == Len(c)
           e == Escrowed(r)
           f == Frame(a, s, w, g, creates, static)
           d == Append(c, f)
<1>0. n = Len(c) /\ n \in Nat /\ DOMAIN c = 1..n /\ \A i \in 1..n : c[i] \in FramesOf(trie, r)
  BY LenProperties, ElementOfSeq
<1>1. /\ f.gas = g /\ f.address = a /\ f.savepoint = w
      /\ f.sub.killed = {} /\ f.sub.refunds = 0
  BY DEF Frame, NoSubState
<1>2. run' = r /\ calls' = d
  BY DEF Enter
<1> HIDE DEF n
<1>3. \A i \in 1..n : c[i].sub.refunds \in Int /\ c[i].gas \in Int /\ c[i].address \in Addr
  BY <1>0 DEF FramesOf, SubsOf, SubStates, Others
<1>4. PICK b \in [1..n + 1 -> Nat] :
          /\ b[1] <= r.limit /\ b[n + 1] = g
          /\ \A i \in 1..n : c[i].gas >= 0 /\ c[i].gas + b[i + 1] <= b[i]
  BY <1>0 DEF Before, Within
<1> HIDE DEF f
<1>5. Len(d) = n + 1 /\ d # <<>> /\ d[n + 1] = f /\ \A i \in 1..n : d[i] = c[i]
  <2>1. d \in Seq({c[i] : i \in 1..n} \cup {f}) /\ Len(d) = n + 1
    BY <1>0
  <2>2. d[n + 1] = f /\ \A i \in 1..n : d[i] = c[i]
    BY <1>0
  <2> HIDE DEF d
  <2>3. d # <<>>
    BY <1>0, <2>1
  <2> QED  BY <2>1, <2>2, <2>3
<1> HIDE DEF d
<1>6. \A k \in Nat : \A v : k <= n /\ Accounted(trie, e, c, k, v) => Accounted(trie, e, d, k, v)
  <2> SUFFICES ASSUME NEW k \in Nat, NEW v, k <= n, Accounted(trie, e, c, k, v) PROVE Accounted(trie, e, d, k, v)
    OBVIOUS
  <2>1. \A i \in 1..k : d[i].address = c[i].address /\ d[i].sub = c[i].sub /\ c[i].sub.refunds \in Int
    BY <1>0, <1>3, <1>5
  <2> QED  BY <2>1, AccountedAlike
<1>7. Accounted(trie, e, c, n, w) /\ \A i \in 1..n : Accounted(trie, e, c, i - 1, c[i].savepoint)
  BY <1>0 DEF Before, Stacked
<1>8. Accounted(trie, e, d, n + 1, world')
  <2>1. Accounted(trie, e, c, n, world')
    BY <1>3, <1>7, AccountedOn
  <2>2. Accounted(trie, e, d, n, world')
    BY <1>0, <1>6, <2>1
  <2>3. Earns(d, n + 1) = Earns(d, n)
    <3>1. \A i \in 1..n + 1 : i = n + 1 \/ i \in 1..n
      BY <1>0
    <3>2. \A i \in 1..n + 1 : RefundIn(d, i) \in Int
      BY <1>1, <1>3, <1>5, <3>1 DEF RefundIn
    <3>3. Earns(d, n) \in Int /\ Earns(d, n + 1) = Earns(d, n) + RefundIn(d, n + 1)
      BY <1>0, <3>2, EarnsMore
    <3>4. RefundIn(d, n + 1) = 0
      BY <1>1, <1>5 DEF RefundIn
    <3> QED  BY <3>3, <3>4
  <2>4. Kills(d, n + 1) = Kills(d, n)
    <3>1. \A i \in 1..n + 1 : i = n + 1 \/ i \in 1..n
      BY <1>0
    <3>2. \A i \in 1..n : i \in 1..n + 1
      BY <1>0
    <3> QED  BY <1>1, <1>5, <3>1, <3>2 DEF Kills
  <2>5. \A i \in 1..n + 1 : d[i].address \in Creatable => world'[d[i].address].nonce > 0
    <3> SUFFICES ASSUME NEW i \in 1..n + 1, d[i].address \in Creatable PROVE world'[d[i].address].nonce > 0
      OBVIOUS
    <3>1. i = n + 1 \/ i \in 1..n
      BY <1>0
    <3> QED  BY <1>1, <1>5, <2>2, <3>1 DEF Accounted
  <2> QED  BY <2>2, <2>3, <2>4, <2>5 DEF Accounted
<1>9. Stacked(trie, e, d)
  <2> SUFFICES ASSUME NEW i \in 1..n + 1 PROVE Accounted(trie, e, d, i - 1, d[i].savepoint)
    BY <1>5 DEF Stacked
  <2>1. i - 1 \in Nat /\ i - 1 <= n
    BY <1>0
  <2>2. Accounted(trie, e, c, i - 1, d[i].savepoint)
    <3>1. CASE i = n + 1
      <4>1. i - 1 = n /\ d[i].savepoint = w
        BY <1>0, <1>1, <1>5, <3>1
      <4> QED  BY <1>7, <4>1
    <3>2. CASE i # n + 1
      <4>1. i \in 1..n /\ d[i] = c[i]
        BY <1>0, <1>5, <3>2
      <4> QED  BY <1>7, <4>1
    <3> QED  BY <3>1, <3>2
  <2> QED  BY <1>6, <2>1, <2>2
<1>10. Within(d, r.limit, 0)
  <2> DEFINE m == n + 1
             h == [i \in 1..m + 1 |-> IF i = m + 1 THEN 0 ELSE b[i]]
  <2>1. h \in [1..m + 1 -> Nat]
    <3>1. \A i \in 1..m + 1 : i = m + 1 \/ i \in 1..n + 1
      BY <1>0
    <3> QED  BY <3>1
  <2>2. h[1] = b[1] /\ h[m + 1] = 0
    BY <1>0
  <2>3. ASSUME NEW i \in 1..m PROVE d[i].gas >= 0 /\ d[i].gas + h[i + 1] <= h[i]
    <3>1. h[i] = b[i] /\ b[i] \in Nat
      BY <1>0
    <3>2. CASE i = n + 1
      <4>1. d[i].gas = g /\ h[i + 1] = 0 /\ b[i] = g
        BY <1>1, <1>4, <1>5, <2>2, <3>2
      <4> QED  BY <3>1, <4>1
    <3>3. CASE i # n + 1
      <4>1. i \in 1..n /\ i + 1 \in 1..n + 1
        BY <1>0, <3>3
      <4>2. h[i + 1] = b[i + 1] /\ d[i].gas = c[i].gas
        BY <1>0, <1>5, <4>1
      <4> QED  BY <1>4, <3>1, <4>1, <4>2
    <3> QED  BY <3>2, <3>3
  <2> HIDE DEF h
  <2> QED  BY <1>4, <1>5, <2>1, <2>2, <2>3 DEF Within
<1>11. Going(trie, r, d, world') /\ ~r.over
  BY <1>5, <1>8, <1>9, <1>10 DEF Going, Before
<1> QED  BY <1>2, <1>5, <1>11 DEF RunInv
-----------------------------------------------------------------------------
\* What frames have earned is a number.
LEMMA EarnsInt ==
    ASSUME NEW t, NEW r, NEW c \in Seq(FramesOf(t, r))
    PROVE  Earns(c, Len(c)) \in Int
<1> DEFINE n == Len(c)
<1>1. n \in Nat /\ n \in Int /\ \A i \in 1..n : c[i] \in FramesOf(t, r)
  BY LenProperties, ElementOfSeq
<1> HIDE DEF n
<1>2. \A i \in 1..n : RefundIn(c, i) \in Int
  BY <1>1 DEF FramesOf, SubsOf, SubStates, RefundIn
<1>3. Earnings!Sum(c, 1..n) \in Int
  BY <1>1, <1>2, Sums, Earnings!SumSplits
<1> QED  BY <1>3 DEF Earns, n

\* A state follows itself.
LEMMA FollowsItself == \A w : Safe(w) => Follows(w, w)
<1> SUFFICES ASSUME NEW w, Safe(w) PROVE Follows(w, w)
  OBVIOUS
<1>1. \A a \in Addr : w[a].nonce >= w[a].nonce
  BY DEF Safe, World
<1> QED  BY <1>1 DEF Follows

\* A call or creation that has done no more than transfers may end.
LEMMA NothingResults ==
    ASSUME NEW r, NEW c \in Seq(FramesOf(trie, r)), NEW w, NEW g,
           Before(trie, r, c, w, g), NEW v, Follows(w, v)
    PROVE  Results(trie, r, c, NoSubState, v)
<1> DEFINE n == Len(c)
           e == Escrowed(r)
<1>1. n = Len(c) /\ \A i \in 1..n : c[i] \in FramesOf(trie, r)
  BY LenProperties, ElementOfSeq
<1> HIDE DEF n
<1>2. \A i \in 1..n : c[i].address \in Addr
  BY <1>1 DEF FramesOf, Others
<1>3. Accounted(trie, e, c, n, w)
  BY <1>1 DEF Before
<1>4. Accounted(trie, e, c, n, v)
  BY <1>2, <1>3, AccountedOn
<1>5. Earns(c, n) \in Int
  BY <1>1, EarnsInt
<1>6. NoSubState.killed = {} /\ NoSubState.refunds = 0
  BY DEF NoSubState
<1>7. Kills(c, n) \cup NoSubState.killed = Kills(c, n) /\ Earns(c, n) + NoSubState.refunds = Earns(c, n)
  BY <1>5, <1>6
<1> QED  BY <1>1, <1>4, <1>7 DEF Results, Accounted

\* So does its end.
LEMMA NothingEnds ==
    ASSUME trie' = trie, NEW r \in Runs, NEW c \in Seq(FramesOf(trie, r)), NEW w, NEW g \in Nat,
           Before(trie, r, c, w, g), Follows(w, world'), NEW left \in 0..g, NEW failed,
           End(r, c, left, NoSubState, failed)
    PROVE  RunInv'
<1>1. Results(trie, r, c, NoSubState, world')
  BY NothingResults
<1>2. NoSubState \in SubStates
  BY DEF NoSubState, SubStates
<1> QED  BY <1>1, <1>2, EndSafe

\* Calls, creations and upgrades.
LEMMA CallSafe ==
    ASSUME trie' = trie, NEW r \in Runs, NEW c \in Seq(FramesOf(trie, r)), NEW w, NEW p,
           p.to \in Addr, p.sender \in Addr, p.address \in Addr, p.gas \in Nat, p.value \in Nat,
           p.value <= w[p.sender].balance, Before(trie, r, c, w, p.gas),
           p.address = p.to \/ (p.address \in Creatable => w[p.address].nonce > 0),
           CallCode(r, c, w, p)
    PROVE  RunInv'
<1> DEFINE v == Transfer(w, p.sender, p.address, p.value)
<1>0. Safe(w)
  BY DEF Before, Accounted
<1>1. Follows(w, v) /\ Follows(w, w) /\ \A b \in Addr : v[b].nonce = w[b].nonce
  BY <1>0, TransferFrom, FollowsItself
<1> HIDE DEF v
<1>2. 0 \in 0..p.gas /\ p.gas \in 0..p.gas
  OBVIOUS
<1>3. CASE p.to \in Precompiled
  <2>1. \/ world' = w /\ End(r, c, 0, NoSubState, TRUE)
        \/ world' = v /\ \E left \in 0..p.gas : End(r, c, left, NoSubState, FALSE)
    BY <1>3 DEF CallCode, v
  <2>2. CASE world' = w /\ End(r, c, 0, NoSubState, TRUE)
    BY <1>1, <1>2, <2>2, NothingEnds
  <2>3. CASE world' = v /\ \E left \in 0..p.gas : End(r, c, left, NoSubState, FALSE)
    <3>1. PICK left \in 0..p.gas : End(r, c, left, NoSubState, FALSE)
      BY <2>3
    <3> QED  BY <1>1, <2>3, <3>1, NothingEnds
  <2> QED  BY <2>1, <2>2, <2>3
<1>4. CASE p.to \notin Precompiled /\ w[p.to].code = NoCode
  <2>1. world' = v /\ End(r, c, p.gas, NoSubState, FALSE)
    BY <1>4 DEF CallCode, v
  <2> QED  BY <1>1, <1>2, <2>1, NothingEnds
<1>5. CASE p.to \notin Precompiled /\ w[p.to].code # NoCode
  <2>1. world' = v /\ Enter(r, c, Frame(p.address, p.sender, w, p.gas, FALSE, p.static))
    BY <1>5 DEF CallCode, v
  <2>2. p.to \in Creatable => w[p.to].nonce > 0
    BY <1>0, <1>5 DEF Safe, Known
  <2>3. p.address \in Creatable => world'[p.address].nonce > 0
    BY <1>1, <2>1, <2>2
  <2> QED  BY <1>1, <2>1, <2>3, EnterSafe
<1> QED  BY <1>3, <1>4, <1>5

\* A new account has no storage that could count as cleared.
LEMMA CreateSafe ==
    ASSUME trie' = trie, NEW r \in Runs, NEW c \in Seq(FramesOf(trie, r)), NEW w,
           NEW a \in Creatable, NEW s \in Addr, NEW value \in Nat, value <= w[s].balance,
           NEW g \in Nat, Before(trie, r, c, w, g), Create(r, c, w, a, s, value, g)
    PROVE  RunInv'
<1> DEFINE v == Transfer(w, s, a, value)
<1>0. Safe(w) /\ a \in Addr
  BY CreatableIn DEF Before, Accounted
<1>1. /\ Follows(w, v) /\ Follows(w, w)
      /\ \A b \in Addr : v[b].nonce = w[b].nonce /\ v[b].code = w[b].code
  BY <1>0, TransferFrom, FollowsItself
<1>2. 0 \in 0..g /\ g \in 0..g
  OBVIOUS
<1>3. CASE Occupied(w, a)
  <2>1. world' = w /\ End(r, c, 0, NoSubState, TRUE)
    BY <1>3 DEF Create
  <2> QED  BY <1>1, <1>2, <2>1, NothingEnds
<1>4. CASE ~Occupied(w, a)
  <2>1. /\ world' = [v EXCEPT ![a].nonce = 1, ![a].slot = 0]
        /\ \/ End(r, c, g, NoSubState, FALSE)
           \/ Enter(r, c, Frame(a, s, w, g, TRUE, FALSE))
    BY <1>4 DEF Create
  <2> HIDE DEF v
  <2>2. ~Occupied(v, a) /\ Safe(v)
    BY <1>0, <1>1, <1>4 DEF Occupied, Follows
  <2>3. Follows(v, world') /\ world'[a].nonce > 0
    BY <2>1, <2>2, CreatedFrom
  <2>4. Follows(w, world')
    BY <1>0, <1>1, <2>3, FollowsOn DEF Safe
  <2>5. CASE End(r, c, g, NoSubState, FALSE)
    BY <1>2, <2>4, <2>5, NothingEnds
  <2>6. CASE Enter(r, c, Frame(a, s, w, g, TRUE, FALSE))
    BY <1>0, <2>3, <2>4, <2>6, EnterSafe
  <2> QED  BY <2>1, <2>5, <2>6
<1> QED  BY <1>3, <1>4

\* An upgrade of a contract that has storage is over at once, and earns nothing for the
\* slot that it may clear.
LEMMA UpgradeSafe ==
    ASSUME trie' = trie, NEW r \in Runs, NEW w, NEW a \in Addr, NEW s \in Addr,
           NEW value \in Nat, value <= w[s].balance,
           NEW g \in Nat, Before(trie, r, <<>>, w, g), Upgrade(r, w, a, s, value, g)
    PROVE  RunInv'
<1>0. Safe(w) /\ w \in World /\ <<>> \in Seq(FramesOf(trie, r)) /\ 0 \in 0..g /\ g \in 0..g
  BY DEF Before, Accounted, Safe
<1>1. CASE w[a].slot = 0
  <2> DEFINE v == Transfer(w, s, a, value)
             fresh == IncNonce(v, a)
             bare == [fresh EXCEPT ![a].code = NoCode]
  <2>1. Follows(w, v)
    BY <1>0, TransferFrom
  <2> HIDE DEF v
  <2>2. Follows(v, fresh) /\ fresh[a].nonce > 0 /\ Safe(fresh)
    BY <2>1, IncNonceFrom DEF Follows
  <2> HIDE DEF fresh
  <2>3. Follows(w, fresh)
    BY <1>0, <2>1, <2>2, FollowsOn
  <2>4. NoCode \in Code
    BY DEF Code
  <2>5. Follows(fresh, bare)
    BY <2>2, <2>4, CodeFrom
  <2> HIDE DEF bare
  <2>6. Follows(w, bare)
    BY <1>0, <2>3, <2>5, FollowsOn
  <2>7. \/ world' = bare /\ End(r, <<>>, g, NoSubState, FALSE)
        \/ world' = fresh /\ Enter(r, <<>>, Frame(a, s, w, g, TRUE, FALSE))
    BY <1>1 DEF Upgrade, bare, fresh, v
  <2>8. CASE world' = bare /\ End(r, <<>>, g, NoSubState, FALSE)
    BY <1>0, <2>6, <2>8, NothingEnds
  <2>9. CASE world' = fresh /\ Enter(r, <<>>, Frame(a, s, w, g, TRUE, FALSE))
    BY <1>0, <2>2, <2>3, <2>9, EnterSafe
  <2> QED  BY <2>7, <2>8, <2>9
<1>2. CASE w[a].slot # 0 /\ w[a].code = NoCode
  <2>1. world' = w /\ End(r, <<>>, 0, NoSubState, TRUE)
    BY <1>2 DEF Upgrade
  <2>2. Follows(w, w)
    BY <1>0, FollowsItself
  <2> QED  BY <1>0, <2>1, <2>2, NothingEnds
<1>3. CASE w[a].slot # 0 /\ w[a].code # NoCode
  <2>1. End(r, <<>>, 0, NoSubState, FALSE)
    BY <1>3 DEF Upgrade
  <2>2. PICK d \in Code, slot \in {0, w[a].slot} :
            world' = [w EXCEPT ![a].code = d, ![a].slot = slot]
    BY <1>3 DEF Upgrade
  <2> DEFINE v == [w EXCEPT ![a].code = d, ![a].slot = slot]
  <2>3. slot \in StoredValue /\ w[a] \in [nonce: Nat, balance: Int, code: Code, slot: StoredValue]
    BY <1>0, ExecutionAssumption DEF World
  <2>4. v \in World /\ (\A b \in Addr \ {a} : v[b] = w[b]) /\ v[a] = [w[a] EXCEPT !.code = d, !.slot = slot]
    BY <1>0, <2>3 DEF World
  <2>5. world' = v
    BY <2>2
  <2> HIDE DEF v
  <2>6. v[a].balance = w[a].balance /\ v[a].nonce = w[a].nonce
    BY <2>3, <2>4
  <2>7. Total(v) = Total(w)
    <3>1. \A b \in Addr : v[b].balance = w[b].balance
      BY <2>4, <2>6
    <3> QED  BY <1>0, <2>4, <3>1, TotalAlike
  <2>8. Safe(v)
    <3>1. Known(w) /\ Solvent(w)
      BY <1>0 DEF Safe
    <3>2. Solvent(v)
      BY <2>4, <2>6, <3>1 DEF Solvent
    <3>3. ASSUME NEW b \in Creatable, v[b].slot # 0 \/ v[b].code # NoCode PROVE v[b].nonce > 0
      <4>1. CASE b = a
        BY <1>3, <2>6, <3>1, <4>1 DEF Known
      <4>2. CASE b # a
        BY <2>4, <3>1, <3>3, <4>2, CreatableIn DEF Known
      <4> QED  BY <4>1, <4>2
    <3> QED  BY <2>4, <3>2, <3>3 DEF Safe, Known
  <2>9. Results(trie, r, <<>>, NoSubState, v)
    <3>1. Len(<<>>) = 0
      OBVIOUS
    <3>2. Total(w) + Escrowed(r) <= Total(trie) /\ (Kills(<<>>, 0) = {} => Total(w) + Escrowed(r) = Total(trie))
      BY <3>1 DEF Before, Accounted
    <3>3. NoSubState.killed = {} /\ NoSubState.refunds = 0
      BY DEF NoSubState
    <3>4. NoSubState.refunds >= 0 /\ Kills(<<>>, 0) \cup NoSubState.killed = Kills(<<>>, 0)
      BY <3>3
    <3>5. \A i \in 1..0 : FALSE
      OBVIOUS
    <3> QED  BY <2>7, <2>8, <3>1, <3>2, <3>4, <3>5 DEF Results
  <2>10. NoSubState \in SubStates
    BY DEF NoSubState, SubStates
  <2> QED  BY <1>0, <2>1, <2>5, <2>9, <2>10, EndSafe
<1> QED  BY <1>1, <1>2, <1>3
-----------------------------------------------------------------------------
(* The begin of a run. *)

\* A run begins in a state that has the storage it began with and its money but what is
\* paid for gas.
LEMMA BeginsBefore ==
    ASSUME NEW r, r.sub = NoSubState, ~r.over, NEW w, Safe(w), trie \in World,
           Total(w) + Escrowed(r) = Total(trie), Escrowed(r) \in Int,
           \A a \in Addr : w[a].slot = trie[a].slot,
           NEW gas \in Nat, r.limit \in Int, gas <= r.limit
    PROVE  Before(trie, r, <<>>, w, gas)
<1>1. Len(<<>>) = 0 /\ (\A i \in 1..0 : FALSE) /\ \A w1 \in {<<>>} : DOMAIN w1 = {}
  OBVIOUS
<1>2. Kills(<<>>, 0) = {} /\ Earns(<<>>, 0) = 0
  BY <1>1, EarnsNothing DEF Kills
<1>3. Total(trie) \in Int
  BY TotalAlike
<1>4. RefundGas * Cardinality(ClearedIn(trie, w)) = 0
  <2>1. ClearedIn(trie, w) = {}
    BY DEF ClearedIn
  <2>2. Cardinality(ClearedIn(trie, w)) = 0
    BY <2>1, FS_EmptySet
  <2> QED  BY <2>2, ExecutionAssumption
<1>5. Accounted(trie, Escrowed(r), <<>>, 0, w)
  BY <1>1, <1>2, <1>3, <1>4 DEF Accounted
<1>6. Stacked(trie, Escrowed(r), <<>>)
  BY <1>1 DEF Stacked
<1>7. Within(<<>>, r.limit, gas)
  <2> DEFINE b == [i \in 1..1 |-> gas]
  <2>1. b \in [1..1 -> Nat] /\ b[1] = gas
    OBVIOUS
  <2> HIDE DEF b
  <2>2. b[1] <= r.limit /\ b[0 + 1] = gas /\ b \in [1..0 + 1 -> Nat]
    BY <2>1
  <2> QED  BY <1>1, <2>2 DEF Within
<1> QED  BY <1>1, <1>5, <1>6, <1>7 DEF Before

\* What is paid for gas is missing, and nothing else.
LEMMA PaidIs ==
    ASSUME Safe(trie), NEW s \in Addr, NEW cost \in Nat, cost <= trie[s].balance
    PROVE  LET w == Paid(s, cost)
           IN  /\ Safe(w) /\ Total(w) + cost = Total(trie)
               /\ \A a \in Addr : w[a].slot = trie[a].slot
               /\ w[s].balance = trie[s].balance - cost
<1> DEFINE v == [trie EXCEPT ![s].balance = @ - cost]
           w == IncNonce(v, s)
<1>1. trie \in World /\ Solvent(trie) /\ Known(trie)
  BY DEF Safe
<1>2. trie[s] \in [nonce: Nat, balance: Int, code: Code, slot: StoredValue] /\ trie[s].balance - cost \in Int
  BY <1>1 DEF World
<1>3. v \in World /\ (\A b \in Addr \ {s} : v[b] = trie[b]) /\ v[s] = [trie[s] EXCEPT !.balance = @ - cost]
  BY <1>1, <1>2 DEF World
<1> HIDE DEF v
<1>4. /\ v[s].balance = trie[s].balance - cost /\ v[s].slot = trie[s].slot
      /\ v[s].nonce = trie[s].nonce /\ v[s].code = trie[s].code
  BY <1>2, <1>3
<1>5. Safe(v)
  <2>1. Solvent(v)
    BY <1>1, <1>2, <1>3, <1>4 DEF Solvent
  <2>2. Known(v)
    BY <1>1, <1>3, <1>4, CreatableIn DEF Known
  <2> QED  BY <1>3, <2>1, <2>2 DEF Safe
<1>6. Total(v) + cost = Total(trie)
  <2>1. Total(trie) \in Int /\ Total(v) = Total(trie) - trie[s].balance + v[s].balance
    BY <1>1, <1>3, TotalChanges
  <2> DEFINE T == Total(trie)
             V == Total(v)
             x == trie[s].balance
  <2>2. T \in Int /\ x \in Int /\ V = T - x + (x - cost)
    BY <1>2, <1>4, <2>1
  <2> HIDE DEF T, V, x
  <2>3. V + cost = T
    BY <2>2
  <2> QED  BY <2>3 DEF T, V
<1>7. Follows(v, w)
  BY <1>5, IncNonceFrom
<1>8. w[s].balance = v[s].balance
  <2>1. v[s] \in [nonce: Nat, balance: Int, code: Code, slot: StoredValue]
    BY <1>3 DEF World
  <2>2. w[s] = [v[s] EXCEPT !.nonce = @ + 1]
    BY <1>3 DEF IncNonce, World
  <2> QED  BY <2>1, <2>2
<1>9. Paid(s, cost) = w
  BY DEF Paid, v
<1> HIDE DEF w
<1> QED  BY <1>3, <1>4, <1>6, <1>7, <1>8, <1>9 DEF Follows

\* What a run that begins has paid in advance.
LEMMA BeginIs ==
    ASSUME NEW r, NEW gas \in Nat, r.limit = gas + BaseGas
    PROVE  /\ r.limit \in Int /\ gas <= r.limit /\ Cost(gas) \in Nat
           /\ Escrowed(r) = IF r.kind = "tx" THEN Cost(gas) ELSE 0
<1>1. BaseGas \in Nat /\ GasPrice \in Nat
  BY ExecutionAssumption
<1>2. (gas + BaseGas) * GasPrice \in Nat
  BY <1>1
<1>3. Cost(gas) \in Nat
  BY <1>2 DEF Cost
<1> QED  BY <1>1, <1>3 DEF Escrowed, Cost

\* What stays of the invariant while the state at the root stays.
LEMMA TrieKeeps ==
    ASSUME MoneyInv, trie' = trie, RunInv'
    PROVE  MoneyInv'
BY DEF MoneyInv

LEMMA RunTxSafe ==
    ASSUME SenderInv, MoneyInv, NEW s \in Signer, NEW to \in Addr, NEW creates \in BOOLEAN,
           NEW value \in 0..MaxAmount, NEW gas \in 0..MaxGas, RunTx(s, to, creates, value, gas)
    PROVE  MoneyInv'
<1> DEFINE r == Begin("tx", s, gas)
           p == [to |-> to, address |-> to, sender |-> s, value |-> value, gas |-> gas, static |-> FALSE]
           w == Paid(s, Cost(gas))
           a == CreateAddress(s, trie[s].nonce)
<1>1. /\ trie \in World /\ Safe(trie) /\ s \in Addr /\ value \in Nat /\ gas \in Nat
      /\ <<>> \in Seq(FramesOf(trie, r))
  BY ExecutionAssumption DEF SenderInv, MoneyInv
<1>2. r \in Runs
  <2>1. gas \in Int
    BY <1>1
  <2> QED  BY <1>1, <2>1, BeginTx
<1>3. /\ trie' = trie /\ trie[s].nonce < MaxNonce
      /\ trie[s].balance >= Cost(gas) + value
      /\ CallCode(r, <<>>, w, p) \/ Create(r, <<>>, w, a, s, value, gas)
  BY DEF RunTx
<1>4. /\ r.sub = NoSubState /\ ~r.over /\ r.limit \in Int /\ gas <= r.limit
      /\ Escrowed(r) \in Nat /\ Cost(gas) \in Nat /\ Escrowed(r) = Cost(gas)
  <2>1. r.sub = NoSubState /\ ~r.over /\ r.kind = "tx" /\ r.limit = gas + BaseGas
    BY DEF Begin
  <2> HIDE DEF r
  <2> QED  BY <1>1, <2>1, BeginIs
<1>5. trie[s].balance \in Int
  BY <1>1 DEF World
<1>6. /\ Safe(w) /\ Total(w) + Cost(gas) = Total(trie)
      /\ \A b \in Addr : w[b].slot = trie[b].slot
      /\ w[s].balance = trie[s].balance - Cost(gas)
  <2>1. Cost(gas) <= trie[s].balance
    BY <1>1, <1>3, <1>4, <1>5
  <2> QED  BY <1>1, <1>4, <2>1, PaidIs
<1>7. value <= w[s].balance
  <2> DEFINE x == w[s].balance
             y == trie[s].balance
             k == Cost(gas)
  <2>1. y \in Int /\ k \in Nat /\ y >= k + value /\ x = y - k
    BY <1>3, <1>4, <1>5, <1>6
  <2> HIDE DEF x, y, k
  <2>2. value <= x
    BY <1>1, <2>1
  <2> QED  BY <2>2 DEF x
<1>8. a \in Creatable
  <2>1. trie[s].nonce \in 0..MaxNonce
    BY <1>1, <1>3, ExecutionAssumption DEF World
  <2> QED  BY <1>1, <2>1 DEF Creatable
<1>9. p.to \in Addr /\ p.sender = s /\ p.address = p.to /\ p.address \in Addr /\ p.gas = gas /\ p.value = value
  OBVIOUS
<1> HIDE DEF r, p, w, a
<1>10. Before(trie, r, <<>>, w, gas)
  BY <1>1, <1>4, <1>6, BeginsBefore
<1>11. CASE CallCode(r, <<>>, w, p)
  <2>1. RunInv'
    BY <1>1, <1>2, <1>3, <1>7, <1>9, <1>10, <1>11, CallSafe
  <2> QED  BY <1>3, <2>1, TrieKeeps
<1>12. CASE Create(r, <<>>, w, a, s, value, gas)
  <2>1. RunInv'
    BY <1>1, <1>2, <1>3, <1>7, <1>8, <1>10, <1>12, CreateSafe
  <2> QED  BY <1>3, <2>1, TrieKeeps
<1> QED  BY <1>3, <1>11, <1>12

LEMMA RunMessageSafe ==
    ASSUME SenderInv, MoneyInv, NEW kind \in {"call", "create", "upgrade"}, NEW s \in Caller,
           NEW to \in Addr, NEW value \in 0..MaxAmount, NEW gas \in 0..MaxGas,
           RunMessage(kind, s, to, value, gas)
    PROVE  MoneyInv'
<1> DEFINE r == Begin("message", s, gas)
           q == [r EXCEPT !.kind = "upgrade"]
           p == [to |-> to, address |-> to, sender |-> s, value |-> value, gas |-> gas, static |-> FALSE]
           a == CreateAddress(s, trie[s].nonce - 1)
<1>1. /\ trie \in World /\ Safe(trie) /\ s \in Addr /\ value \in Nat /\ gas \in Nat
      /\ <<>> \in Seq(FramesOf(trie, r)) /\ <<>> \in Seq(FramesOf(trie, q))
  BY ExecutionAssumption DEF SenderInv, MoneyInv
<1>2. r \in Runs
  BY <1>1, BeginMessage
<1>3. /\ r.sub = NoSubState /\ ~r.over /\ r.limit \in Int /\ gas <= r.limit
      /\ Escrowed(r) = 0
  <2>1. r.sub = NoSubState /\ ~r.over /\ r.kind = "message" /\ r.limit = gas + BaseGas
    BY DEF Begin
  <2> HIDE DEF r
  <2> QED  BY <1>1, <2>1, BeginIs
<1>4. /\ q \in Runs /\ q.sub = NoSubState /\ ~q.over /\ q.limit = r.limit /\ Escrowed(q) = 0
  <2>1. q \in Runs /\ q.sub = r.sub /\ q.over = r.over /\ q.limit = r.limit /\ q.kind = "upgrade"
    BY <1>2 DEF Runs
  <2> QED  BY <1>3, <2>1 DEF Escrowed
<1>5. /\ trie' = trie /\ value <= trie[s].balance
      /\ \/ CallCode(r, <<>>, trie, p)
         \/ trie[s].nonce \in 1..MaxNonce /\ Create(r, <<>>, trie, a, s, value, gas)
         \/ Upgrade(q, trie, to, s, value, gas)
  <2>1. trie[s].balance \in Int
    BY <1>1 DEF World
  <2> QED  BY <1>1, <2>1 DEF RunMessage
<1>6. p.to \in Addr /\ p.sender = s /\ p.address = p.to /\ p.address \in Addr /\ p.gas = gas /\ p.value = value
  OBVIOUS
<1> HIDE DEF r, q, p
<1>7. Total(trie) + 0 = Total(trie) /\ 0 \in Int
  <2>1. Total(trie) \in Int
    BY <1>1, TotalAlike
  <2> QED  BY <2>1
<1>8. Before(trie, r, <<>>, trie, gas) /\ Before(trie, q, <<>>, trie, gas)
  BY <1>1, <1>3, <1>4, <1>7, BeginsBefore
<1>9. CASE CallCode(r, <<>>, trie, p)
  <2>1. RunInv'
    BY <1>1, <1>2, <1>5, <1>6, <1>8, <1>9, CallSafe
  <2> QED  BY <1>5, <2>1, TrieKeeps
<1>10. CASE trie[s].nonce \in 1..MaxNonce /\ Create(r, <<>>, trie, a, s, value, gas)
  <2> DEFINE n == trie[s].nonce - 1
  <2>1. n \in 0..MaxNonce
    <3>1. MaxNonce \in Int
      BY ExecutionAssumption
    <3> QED  BY <1>10, <3>1
  <2>2. a = CreateAddress(s, n)
    OBVIOUS
  <2> HIDE DEF n, a
  <2>3. a \in Creatable
    BY <1>1, <2>1, <2>2 DEF Creatable
  <2>4. RunInv'
    BY <1>1, <1>2, <1>5, <1>8, <1>10, <2>3, CreateSafe
  <2> QED  BY <1>5, <2>4, TrieKeeps
<1>11. CASE Upgrade(q, trie, to, s, value, gas)
  <2>1. RunInv'
    BY <1>1, <1>4, <1>5, <1>8, <1>11, UpgradeSafe
  <2> QED  BY <1>5, <2>1, TrieKeeps
<1> QED  BY <1>5, <1>9, <1>10, <1>11
-----------------------------------------------------------------------------
(* The frame that runs. *)

\* What the invariant says while the code of a frame runs.
LEMMA WhileGoing ==
    ASSUME SenderInv, MoneyInv, Running
    PROVE  /\ Safe(trie) /\ Safe(world) /\ Going(trie, run, calls, world)
           /\ Accounted(trie, Escrowed(run), calls, Len(calls), world)
           /\ \A i \in 1..Len(calls) : calls[i] \in FramesOf(trie, run)
           /\ DOMAIN calls = 1..Len(calls) /\ Len(calls) \in Nat
<1>1. calls # <<>> /\ calls \in Seq(FramesOf(trie, run))
  BY WhileRunning
<1>2. \A i \in 1..Len(calls) : calls[i] \in FramesOf(trie, run)
  BY <1>1, ElementOfSeq
<1>3. DOMAIN calls = 1..Len(calls) /\ Len(calls) \in Nat
  BY <1>1, LenProperties
<1> QED  BY <1>1, <1>2, <1>3 DEF MoneyInv, RunInv, Going, Accounted

\* The frames outside it are the others, and with its own sub-state theirs is that of all.
LEMMA OuterIs ==
    ASSUME SenderInv, Running
    PROVE  /\ Len(Outer) = Len(calls) - 1
           /\ \A i \in 1..Len(calls) - 1 : Outer[i] = calls[i]
           /\ Earns(calls, Len(calls)) = Earns(Outer, Len(Outer)) + Top.sub.refunds
           /\ Kills(calls, Len(calls)) = Kills(Outer, Len(Outer)) \cup Top.sub.killed
           /\ Earns(Outer, Len(Outer)) \in Int
<1> DEFINE n == Len(calls)
           k == n - 1
<1>1. n \in 1..n /\ calls \in Seq(FramesOf(trie, run)) /\ n \in Nat
  BY WhileRunning, LenProperties
<1>2. \A i \in 1..n : calls[i] \in FramesOf(trie, run)
  BY <1>1, ElementOfSeq
<1>3. Len(Outer) = k /\ \A i \in 1..k : Outer[i] = calls[i]
  <2>1. 1 \in 1..n + 1 /\ k \in 1 - 1..n /\ 1 \in Int /\ k \in Int /\ k - 1 + 1 = k
    BY <1>1
  <2>2. calls \in Seq({calls[i] : i \in 1..n})
    BY <1>1
  <2>3. Outer = SubSeq(calls, 1, k)
    BY DEF Outer
  <2> HIDE DEF n, k
  <2>4. Len(SubSeq(calls, 1, k)) = k
    BY <2>1, <2>2 DEF n
  <2>5. \A i \in 1..k : SubSeq(calls, 1, k)[i] = calls[1 + i - 1] /\ 1 + i - 1 = i
    BY <2>1, <2>2 DEF n
  <2> QED  BY <2>3, <2>4, <2>5
<1>4. Top = calls[n]
  BY DEF Top
<1> HIDE DEF n
<1>5. k \in Nat /\ k + 1 = n /\ \A i \in 1..n : i = n \/ i \in 1..k
  BY <1>1
<1>6. n \in 1..n /\ \A i \in 1..k : i \in 1..n
  BY <1>1
<1> HIDE DEF k
<1>7. \A i \in 1..k + 1 : RefundIn(calls, i) \in Int
  BY <1>2, <1>5 DEF RefundIn, FramesOf, SubsOf, SubStates
<1>8. Earns(calls, k) \in Int /\ Earns(calls, k + 1) = Earns(calls, k) + RefundIn(calls, k + 1)
  BY <1>5, <1>7, EarnsMore
<1>9. Earns(Outer, k) = Earns(calls, k)
  <2>1. \A i \in 1..k : RefundIn(calls, i) \in Int /\ RefundIn(Outer, i) = RefundIn(calls, i)
    BY <1>3, <1>5, <1>6, <1>7 DEF RefundIn
  <2> QED  BY <1>5, <2>1, EarnsAlike
<1>10. RefundIn(calls, k + 1) = Top.sub.refunds
  BY <1>4, <1>5 DEF RefundIn
<1>11. Kills(calls, n) = Kills(Outer, k) \cup Top.sub.killed
  BY <1>3, <1>4, <1>5, <1>6 DEF Kills
<1> QED  BY <1>3, <1>5, <1>8, <1>9, <1>10, <1>11 DEF n, k

\* When the frame is undone, or ends, the others are as they were before it began.
LEMMA TopBefore ==
    ASSUME SenderInv, MoneyInv, Running
    PROVE  Top.gas \in Nat /\ Before(trie, run, Outer, Top.savepoint, Top.gas)
<1> DEFINE n == Len(calls)
           k == n - 1
           e == Escrowed(run)
<1>1. /\ n \in Nat /\ n \in 1..n /\ Len(Outer) = k /\ \A i \in 1..k : Outer[i] = calls[i]
      /\ Top = calls[n] /\ \A i \in 1..n : calls[i] \in FramesOf(trie, run)
  BY WhileRunning, OuterIs, WhileGoing DEF Top
<1>2. /\ run.sub = NoSubState /\ Stacked(trie, e, calls) /\ Within(calls, run.limit, 0) /\ ~run.over
  BY WhileGoing DEF Going, Running
<1>3. PICK b \in [1..n + 1 -> Nat] :
          /\ b[1] <= run.limit /\ b[n + 1] = 0
          /\ \A i \in 1..n : calls[i].gas >= 0 /\ calls[i].gas + b[i + 1] <= b[i]
  BY <1>2 DEF Within
<1>4. \A i \in 1..n : Accounted(trie, e, calls, i - 1, calls[i].savepoint)
  BY <1>2 DEF Stacked
<1> HIDE DEF n
<1>5. k \in Nat /\ k + 1 = n /\ \A i \in 1..k : i \in 1..n
  BY <1>1
<1>6. \A i \in 1..n : calls[i].gas \in Int /\ calls[i].sub.refunds \in Int
  BY <1>1 DEF FramesOf, SubsOf, SubStates
<1>7. Top.gas \in Nat /\ Top.gas <= b[n]
  <2>1. n \in 1..n + 1 /\ calls[n].gas >= 0 /\ calls[n].gas + 0 <= b[n] /\ calls[n].gas \in Int
    BY <1>1, <1>3, <1>6
  <2> QED  BY <1>1, <2>1
<1>8. ASSUME NEW i \in 1..n PROVE Accounted(trie, e, Outer, i - 1, calls[i].savepoint)
  <2> DEFINE j == i - 1
  <2>1. j \in Nat /\ \A m \in 1..j : m \in 1..k
    BY <1>1
  <2>2. Accounted(trie, e, calls, j, calls[i].savepoint)
    BY <1>4
  <2> HIDE DEF j
  <2>3. \A m \in 1..j : Outer[m].address = calls[m].address /\ Outer[m].sub = calls[m].sub /\ calls[m].sub.refunds \in Int
    BY <1>1, <1>5, <1>6, <2>1
  <2>4. Accounted(trie, e, Outer, j, calls[i].savepoint)
    BY <2>1, <2>2, <2>3, AccountedAlike
  <2> QED  BY <2>4 DEF j
<1>9. Accounted(trie, e, Outer, k, Top.savepoint)
  BY <1>1, <1>8
<1>10. Stacked(trie, e, Outer)
  BY <1>1, <1>5, <1>8 DEF Stacked
<1>11. Within(Outer, run.limit, Top.gas)
  <2> DEFINE h == [i \in 1..k + 1 |-> IF i = k + 1 THEN Top.gas ELSE b[i]]
  <2>1. h \in [1..k + 1 -> Nat]
    <3>1. \A i \in 1..k + 1 : i \in 1..n + 1
      BY <1>5
    <3> QED  BY <1>7, <3>1
  <2>2. h[k + 1] = Top.gas /\ \A i \in 1..k : h[i] = b[i]
    BY <1>5
  <2> HIDE DEF h
  <2>3. h[1] <= run.limit
    <3>1. b[1] \in Nat
      BY <1>5
    <3>2. CASE k = 0
      <4>1. h[1] = Top.gas /\ b[n] = b[1]
        BY <1>5, <2>2, <3>2
      <4>2. run \in Runs
        BY WhileRunning
      <4>3. run.limit \in Int
        BY <4>2 DEF Runs
      <4> QED  BY <1>3, <1>7, <3>1, <4>1, <4>3
    <3>3. CASE k # 0
      <4>1. 1 \in 1..k
        BY <1>5, <3>3
      <4> QED  BY <1>3, <2>2, <4>1
    <3> QED  BY <3>2, <3>3
  <2>4. ASSUME NEW i \in 1..k PROVE Outer[i].gas >= 0 /\ Outer[i].gas + h[i + 1] <= h[i]
    <3>1. /\ Outer[i].gas = calls[i].gas /\ calls[i].gas \in Int /\ calls[i].gas >= 0
          /\ calls[i].gas + b[i + 1] <= b[i] /\ b[i] \in Nat /\ b[i + 1] \in Nat /\ h[i] = b[i]
      <4>1. i \in 1..n /\ i \in 1..n + 1 /\ i + 1 \in 1..n + 1
        BY <1>5
      <4>2. b[i] \in Nat /\ b[i + 1] \in Nat
        BY <4>1
      <4> QED  BY <1>1, <1>3, <1>6, <2>2, <4>1, <4>2
    <3>2. h[i + 1] \in Nat /\ h[i + 1] <= b[i + 1]
      <4>1. CASE i = k
        BY <1>5, <1>7, <2>2, <3>1, <4>1
      <4>2. CASE i # k
        <5>1. i + 1 \in 1..k
          BY <1>5, <4>2
        <5> QED  BY <2>2, <3>1, <5>1
      <4> QED  BY <4>1, <4>2
    <3> QED  BY <3>1, <3>2
  <2> QED  BY <1>1, <2>1, <2>2, <2>3, <2>4 DEF Within
<1> HIDE DEF k
<1> QED  BY <1>1, <1>2, <1>7, <1>9, <1>10, <1>11 DEF Before

\* A frame that gives gas to a call is accounted for as it was.
LEMMA SpentBefore ==
    ASSUME SenderInv, MoneyInv, Running, NEW gas \in Nat, gas <= Top.gas
    PROVE  Before(trie, run, Spent(gas), world, gas)
<1> DEFINE n == Len(calls)
           e == Escrowed(run)
           f == [Top EXCEPT !.gas = @ - gas]
           d == [calls EXCEPT ![n] = f]
<1>1. /\ n \in Nat /\ n \in 1..n /\ Top = calls[n] /\ DOMAIN calls = 1..n
      /\ \A i \in 1..n : calls[i] \in FramesOf(trie, run)
      /\ calls \in Seq(FramesOf(trie, run))
  BY WhileRunning, WhileGoing DEF Top
<1>2. /\ run.sub = NoSubState /\ Stacked(trie, e, calls) /\ Within(calls, run.limit, 0) /\ ~run.over
      /\ Accounted(trie, e, calls, n, world)
  BY WhileGoing DEF Going, Running
<1>3. PICK b \in [1..n + 1 -> Nat] :
          /\ b[1] <= run.limit /\ b[n + 1] = 0
          /\ \A i \in 1..n : calls[i].gas >= 0 /\ calls[i].gas + b[i + 1] <= b[i]
  BY <1>2 DEF Within
<1>4. \A i \in 1..n : Accounted(trie, e, calls, i - 1, calls[i].savepoint)
  BY <1>2 DEF Stacked
<1>5. Spent(gas) = d
  BY <1>1 DEF Spent
<1>6. /\ f.gas = Top.gas - gas /\ f.address = Top.address /\ f.sub = Top.sub /\ f.savepoint = Top.savepoint
  <2>1. Top \in FramesOf(trie, run)
    BY <1>1
  <2> QED  BY <2>1 DEF FramesOf
<1> HIDE DEF f
<1>7. Len(d) = n
  BY <1>1
<1>8. d[n] = f /\ \A i \in 1..n : i # n => d[i] = calls[i]
  BY <1>1
<1> HIDE DEF n, d
<1>9. \A i \in 1..n : calls[i].gas \in Int /\ calls[i].sub.refunds \in Int
  BY <1>1 DEF FramesOf, SubsOf, SubStates
<1>10. \A i \in 1..n : d[i].address = calls[i].address /\ d[i].sub = calls[i].sub /\ d[i].savepoint = calls[i].savepoint
  BY <1>1, <1>6, <1>8
<1>11. \A k \in 0..n : \A v : Accounted(trie, e, calls, k, v) => Accounted(trie, e, d, k, v)
  <2> SUFFICES ASSUME NEW k \in 0..n, NEW v, Accounted(trie, e, calls, k, v) PROVE Accounted(trie, e, d, k, v)
    OBVIOUS
  <2>1. k \in Nat /\ \A i \in 1..k : i \in 1..n
    BY <1>1
  <2> QED  BY <1>9, <1>10, <2>1, AccountedAlike
<1>12. Accounted(trie, e, d, n, world)
  BY <1>1, <1>2, <1>11
<1>13. ASSUME NEW i \in 1..n PROVE Accounted(trie, e, d, i - 1, d[i].savepoint)
  <2>1. i - 1 \in 0..n
    BY <1>1
  <2> QED  BY <1>4, <1>10, <1>11, <2>1
<1>14. Within(d, run.limit, gas)
  <2> DEFINE h == [i \in 1..n + 1 |-> IF i = n + 1 THEN gas ELSE b[i]]
  <2>1. h \in [1..n + 1 -> Nat]
    OBVIOUS
  <2>2. h[n + 1] = gas /\ (\A i \in 1..n : h[i] = b[i]) /\ h[1] = b[1]
    BY <1>1
  <2> HIDE DEF h
  <2>3. ASSUME NEW i \in 1..n PROVE d[i].gas >= 0 /\ d[i].gas + h[i + 1] <= h[i]
    <3>1. /\ calls[i].gas \in Int /\ calls[i].gas >= 0 /\ calls[i].gas + b[i + 1] <= b[i]
          /\ b[i] \in Nat /\ b[i + 1] \in Nat /\ h[i] = b[i]
      <4>1. i \in 1..n + 1 /\ i + 1 \in 1..n + 1
        BY <1>1
      <4>2. b[i] \in Nat /\ b[i + 1] \in Nat
        BY <4>1
      <4> QED  BY <1>3, <1>9, <2>2, <4>2
    <3>2. CASE i = n
      <4>1. d[i].gas = calls[i].gas - gas /\ h[i + 1] = gas /\ b[i + 1] = 0 /\ gas <= calls[i].gas
        BY <1>1, <1>3, <1>6, <1>8, <2>2, <3>2
      <4> QED  BY <3>1, <4>1
    <3>3. CASE i # n
      <4>1. i + 1 \in 1..n
        BY <1>1, <3>3
      <4>2. d[i].gas = calls[i].gas /\ h[i + 1] = b[i + 1]
        BY <1>8, <2>2, <3>3, <4>1
      <4> QED  BY <3>1, <4>2
    <3> QED  BY <3>2, <3>3
  <2> QED  BY <1>3, <1>7, <2>1, <2>2, <2>3 DEF Within
<1> QED  BY <1>2, <1>5, <1>7, <1>12, <1>13, <1>14 DEF Before, Stacked

\* The count of steps has no part in it.
LEMMA StepBefore ==
    ASSUME SenderInv, Running, NEW c, NEW w, NEW g, Before(trie, run, c, w, g)
    PROVE  Before(trie, Step, c, w, g)
<1>1. run \in Runs
  BY WhileRunning
<1>2. Step.sub = run.sub /\ Step.over = run.over /\ Step.kind = run.kind /\ Step.limit = run.limit
  BY <1>1 DEF Runs, Step
<1> QED  BY <1>2 DEF Before, Escrowed
-----------------------------------------------------------------------------
\* What a store earns: for clearing a slot, at least the refund, for filling it again no
\* less than the refund taken back, and otherwise something or nothing.
LEMMA RefundIsEnough ==
    ASSUME NEW x, NEW y, NEW z, y # z
    PROVE  /\ Refund(x, y, z) \in Int
           /\ x # 0 /\ z = 0 => Refund(x, y, z) >= RefundGas
           /\ x # 0 /\ y = 0 => Refund(x, y, z) >= -RefundGas
           /\ x = 0 \/ (y # 0 /\ z # 0) => Refund(x, y, z) >= 0
<1> DEFINE back == IF x # z THEN 0 ELSE (IF x = 0 THEN SetGas ELSE ResetGas) - UnchangedGas
           again == IF x # 0 /\ y = 0 THEN -RefundGas ELSE 0
           clears == IF x # 0 /\ z = 0 THEN RefundGas ELSE 0
<1>1. RefundGas \in Nat /\ SetGas \in Int /\ ResetGas \in Int /\ UnchangedGas \in Int
      /\ UnchangedGas <= SetGas /\ UnchangedGas <= ResetGas
  BY ExecutionAssumption, MoneyAssumption
<1>2. back \in Nat
  <2>1. SetGas - UnchangedGas \in Nat /\ ResetGas - UnchangedGas \in Nat
    BY <1>1
  <2> QED  BY <2>1
<1>3. again \in Int /\ clears \in Int
  BY <1>1
<1>0. CASE ~NetMetering
  <2>1. Refund(x, y, z) = IF z = 0 THEN RefundGas ELSE 0
    BY <1>0 DEF Refund
  <2> QED  BY <1>1, <2>1
<1>4. NetMetering => Refund(x, y, z) = IF x = y THEN clears ELSE again + clears + back
  BY DEF Refund
<1>5. /\ (x # 0 /\ z = 0 => clears = RefundGas) /\ (x = 0 \/ z # 0 => clears = 0)
      /\ (x # 0 /\ y = 0 => again = -RefundGas) /\ (x = 0 \/ y # 0 => again = 0)
  OBVIOUS
<1> HIDE DEF back, again, clears
<1> QED  BY <1>0, <1>1, <1>2, <1>3, <1>4, <1>5

\* One storage slot more or less that is cleared.
LEMMA ClearedChanges ==
    ASSUME NEW t, NEW w, NEW v, NEW a \in Addr, \A b \in Addr \ {a} : v[b].slot = w[b].slot,
           v[a].slot # w[a].slot, NEW x \in Int, x >= RefundGas * Cardinality(ClearedIn(t, w))
    PROVE  x + Refund(t[a].slot, w[a].slot, v[a].slot) >= RefundGas * Cardinality(ClearedIn(t, v))
<1> DEFINE C == ClearedIn(t, w)
           D == ClearedIn(t, v)
           k == Cardinality(C)
           m == Cardinality(D)
           q == Refund(t[a].slot, w[a].slot, v[a].slot)
<1>1. /\ q \in Int
      /\ t[a].slot # 0 /\ v[a].slot = 0 => q >= RefundGas
      /\ t[a].slot # 0 /\ w[a].slot = 0 => q >= -RefundGas
      /\ t[a].slot = 0 \/ (w[a].slot # 0 /\ v[a].slot # 0) => q >= 0
  BY RefundIsEnough
<1>2. IsFiniteSet(C) /\ IsFiniteSet(D) /\ k \in Nat /\ m \in Nat
  BY ClearedCount
<1>3. RefundGas \in Nat
  BY ExecutionAssumption, MoneyAssumption
<1>4. \A i \in Nat : RefundGas * i \in Int /\ RefundGas * (i + 1) = RefundGas * i + RefundGas
  BY <1>3
<1>5. CASE t[a].slot # 0 /\ v[a].slot = 0
  <2>1. D = C \cup {a} /\ a \notin C
    BY <1>5 DEF ClearedIn
  <2> HIDE DEF C, D
  <2>2. m = k + 1
    BY <1>2, <2>1, FS_AddElement
  <2>3. RefundGas * m = RefundGas * k + RefundGas /\ RefundGas * k \in Int
    BY <1>2, <1>4, <2>2
  <2> HIDE DEF k, m, q
  <2>4. q >= RefundGas /\ x >= RefundGas * k
    BY <1>1, <1>5 DEF C, k
  <2> DEFINE y == RefundGas * k
  <2>5. x >= y /\ y \in Int /\ RefundGas * m = y + RefundGas
    BY <2>3, <2>4
  <2> HIDE DEF y
  <2>6. x + q >= RefundGas * m
    BY <1>1, <1>3, <2>4, <2>5
  <2> QED  BY <2>6 DEF q, m, D
<1>6. CASE t[a].slot # 0 /\ w[a].slot = 0
  <2>1. C = D \cup {a} /\ a \notin D
    BY <1>6 DEF ClearedIn
  <2> HIDE DEF C, D
  <2>2. k = m + 1
    BY <1>2, <2>1, FS_AddElement
  <2>3. RefundGas * k = RefundGas * m + RefundGas /\ RefundGas * m \in Int
    BY <1>2, <1>4, <2>2
  <2> HIDE DEF k, m, q
  <2>4. q >= -RefundGas /\ x >= RefundGas * k
    BY <1>1, <1>6 DEF C, k
  <2> DEFINE y == RefundGas * m
  <2>5. x >= y + RefundGas /\ y \in Int
    BY <2>3, <2>4
  <2> HIDE DEF y
  <2>6. x + q >= y
    BY <1>1, <1>3, <2>4, <2>5
  <2> QED  BY <2>6 DEF y, q, m, D
<1>7. CASE t[a].slot = 0 \/ (w[a].slot # 0 /\ v[a].slot # 0)
  <2>1. C = D
    BY <1>7 DEF ClearedIn
  <2>2. q >= 0 /\ x >= RefundGas * m /\ RefundGas * m \in Int
    BY <1>1, <1>2, <1>4, <1>7, <2>1
  <2> DEFINE y == RefundGas * m
  <2> HIDE DEF y, q
  <2>3. x + q >= y
    BY <1>1, <2>2 DEF y
  <2> QED  BY <2>3 DEF y, q
<1> QED  BY <1>5, <1>6, <1>7

\* A store changes one slot and what its frame has earned.
LEMMA StoreSafe ==
    ASSUME SenderInv, MoneyInv, NEW value \in StoredValue, Store(value)
    PROVE  MoneyInv'
<1> DEFINE me == Top.address
           n == Len(calls)
           e == Escrowed(run)
           earned == Refund(trie[me].slot, world[me].slot, value)
           f == [Top EXCEPT !.sub = [Top.sub EXCEPT !.refunds = @ + earned]]
           v == [world EXCEPT ![me].slot = value]
           d == [calls EXCEPT ![n] = f]
<1>1. /\ Running /\ trie' = trie /\ run' = Step /\ world' = v /\ value # world[me].slot
      /\ calls' = [calls EXCEPT ![n].sub.refunds = @ + earned]
  BY DEF Store, Executes
<1>2. /\ n \in Nat /\ n \in 1..n /\ Top = calls[n] /\ DOMAIN calls = 1..n
      /\ (\A i \in 1..n : calls[i] \in FramesOf(trie, run))
      /\ calls \in Seq(FramesOf(trie, run)) /\ calls # <<>>
  BY <1>1, WhileRunning, WhileGoing DEF Top
<1>3. /\ Safe(world) /\ run.sub = NoSubState /\ Stacked(trie, e, calls) /\ Within(calls, run.limit, 0)
      /\ Accounted(trie, e, calls, n, world) /\ ~run.over
  BY <1>1, WhileGoing DEF Going, Running
<1>4. Top \in FramesOf(trie, run) /\ Top.sub \in SubStates /\ me \in Addr
  <2>1. Top \in FramesOf(trie, run)
    BY <1>2
  <2> QED  BY <2>1 DEF FramesOf, SubsOf, Others
<1>5. calls' = d
  BY <1>1, <1>2
<1>6. /\ f.gas = Top.gas /\ f.address = me /\ f.savepoint = Top.savepoint
      /\ f.sub.killed = Top.sub.killed /\ f.sub.refunds = Top.sub.refunds + earned
  <2>1. f.gas = Top.gas /\ f.address = me /\ f.savepoint = Top.savepoint
        /\ f.sub = [Top.sub EXCEPT !.refunds = @ + earned]
    BY <1>4 DEF FramesOf
  <2> QED  BY <1>4, <2>1 DEF SubStates
<1> HIDE DEF f
<1>7. Len(d) = n /\ d # <<>>
  <2>1. f \in FramesOf(trie, run) \cup {f} /\ calls \in Seq(FramesOf(trie, run) \cup {f})
    BY <1>2
  <2> QED  BY <1>2, <2>1, LastReplaced
<1>8. d[n] = f /\ \A i \in 1..n : i # n => d[i] = calls[i]
  BY <1>2
<1>9. world \in World /\ Solvent(world) /\ Known(world)
  BY <1>3 DEF Safe
<1>10. /\ v \in World /\ (\A b \in Addr \ {me} : v[b] = world[b]) /\ v[me] = [world[me] EXCEPT !.slot = value]
  BY <1>4, <1>9 DEF World
<1> HIDE DEF n, d, v
<1>11. \A i \in 1..n : i = n \/ i \in 1..n - 1
  BY <1>2
<1>12. \A i \in 1..n : /\ d[i].address = calls[i].address /\ d[i].savepoint = calls[i].savepoint
                       /\ d[i].gas = calls[i].gas /\ d[i].sub.killed = calls[i].sub.killed
  BY <1>2, <1>6, <1>8
<1>13. /\ v[me].slot = value /\ v[me].balance = world[me].balance
       /\ v[me].nonce = world[me].nonce /\ v[me].code = world[me].code
  <2>1. world[me] \in [nonce: Nat, balance: Int, code: Code, slot: StoredValue]
    BY <1>4, <1>9 DEF World
  <2> QED  BY <1>10, <2>1
<1>14. \A b \in Addr : v[b].balance = world[b].balance /\ v[b].nonce = world[b].nonce
  BY <1>10, <1>13
<1>15. Total(v) = Total(world)
  BY <1>9, <1>10, <1>14, TotalAlike
<1>16. Safe(v)
  <2>1. Solvent(v)
    BY <1>9, <1>14 DEF Solvent
  <2>2. ASSUME NEW b \in Creatable, v[b].slot # 0 \/ v[b].code # NoCode PROVE v[b].nonce > 0
    <3>1. CASE b = me
      <4>1. world[me].nonce > 0
        BY <1>2, <1>3, <3>1 DEF Accounted
      <4> QED  BY <1>13, <3>1, <4>1
    <3>2. CASE b # me
      BY <1>9, <1>10, <2>2, <3>2, CreatableIn DEF Known
    <3> QED  BY <3>1, <3>2
  <2> QED  BY <1>10, <2>1, <2>2 DEF Safe, Known
<1>17. earned \in Int
  BY RefundInt
<1>18. Earns(calls, n) \in Int /\ Earns(d, n) = Earns(calls, n) + earned
  <2> DEFINE k == n - 1
  <2>1. k \in Nat /\ k + 1 = n /\ \A i \in 1..k : i \in 1..n /\ i # n
    BY <1>2
  <2> HIDE DEF k
  <2>2. \A i \in 1..n : RefundIn(calls, i) \in Int
    BY <1>2 DEF RefundIn, FramesOf, SubsOf, SubStates
  <2>3. \A i \in 1..k : RefundIn(calls, i) \in Int /\ RefundIn(d, i) = RefundIn(calls, i)
    BY <1>8, <2>1, <2>2 DEF RefundIn
  <2>4. RefundIn(d, n) = RefundIn(calls, n) + earned /\ RefundIn(calls, n) \in Int
    BY <1>2, <1>6, <1>8, <2>2 DEF RefundIn
  <2>5. RefundIn(d, n) \in Int
    BY <1>17, <2>4
  <2>6. \A i \in 1..n : i = n \/ i \in 1..k
    BY <1>11 DEF k
  <2>7. \A i \in 1..k + 1 : RefundIn(calls, i) \in Int /\ RefundIn(d, i) \in Int
    BY <2>1, <2>2, <2>3, <2>5, <2>6
  <2>8. Earns(calls, k) \in Int /\ Earns(calls, k + 1) = Earns(calls, k) + RefundIn(calls, k + 1)
    BY <2>1, <2>7, EarnsMore
  <2>9. Earns(d, k + 1) = Earns(d, k) + RefundIn(d, k + 1)
    BY <2>1, <2>7, EarnsMore
  <2>10. Earns(d, k) = Earns(calls, k)
    BY <2>1, <2>3, EarnsAlike
  <2> DEFINE x == RefundIn(calls, n)
             y == Earns(calls, k)
  <2>11. Earns(calls, n) = y + x /\ Earns(d, n) = y + (x + earned) /\ x \in Int /\ y \in Int
    BY <2>1, <2>4, <2>8, <2>9, <2>10
  <2> HIDE DEF x, y, earned
  <2> QED  BY <1>17, <2>11
<1>19. Accounted(trie, e, d, n, v)
  <2>1. Kills(d, n) = Kills(calls, n)
    BY <1>12 DEF Kills
  <2>2. \A i \in 1..n : d[i].address \in Creatable => v[d[i].address].nonce > 0
    BY <1>3, <1>12, <1>14, CreatableIn DEF Accounted
  <2>3. Earns(d, n) >= RefundGas * Cardinality(ClearedIn(trie, v))
    <3>1. /\ \A b \in Addr \ {me} : v[b].slot = world[b].slot
          /\ v[me].slot # world[me].slot
          /\ Earns(calls, n) >= RefundGas * Cardinality(ClearedIn(trie, world))
      BY <1>1, <1>3, <1>10, <1>13 DEF Accounted
    <3>2. Earns(calls, n) + Refund(trie[me].slot, world[me].slot, v[me].slot)
            >= RefundGas * Cardinality(ClearedIn(trie, v))
      BY <1>4, <1>18, <3>1, ClearedChanges
    <3> QED  BY <1>13, <1>18, <3>2
  <2> QED  BY <1>3, <1>15, <1>16, <2>1, <2>2, <2>3 DEF Accounted
<1>20. Stacked(trie, e, d)
  <2> SUFFICES ASSUME NEW i \in 1..n PROVE Accounted(trie, e, d, i - 1, d[i].savepoint)
    BY <1>7 DEF Stacked
  <2> DEFINE k == i - 1
  <2>1. k \in Nat /\ \A j \in 1..k : j \in 1..n /\ j # n
    BY <1>2
  <2>2. Accounted(trie, e, calls, k, calls[i].savepoint)
    BY <1>3 DEF Stacked, n
  <2> HIDE DEF k
  <2>3. \A j \in 1..k : d[j].address = calls[j].address /\ d[j].sub = calls[j].sub /\ calls[j].sub.refunds \in Int
    BY <1>2, <1>8, <2>1 DEF FramesOf, SubsOf, SubStates
  <2>4. Accounted(trie, e, d, k, calls[i].savepoint)
    BY <2>1, <2>2, <2>3, AccountedAlike
  <2> QED  BY <1>12, <2>4 DEF k
<1>21. Within(d, run.limit, 0)
  <2>1. PICK b \in [1..n + 1 -> Nat] :
            /\ b[1] <= run.limit /\ b[n + 1] = 0
            /\ \A i \in 1..n : calls[i].gas >= 0 /\ calls[i].gas + b[i + 1] <= b[i]
    BY <1>3 DEF Within, n
  <2> QED  BY <1>7, <1>12, <2>1 DEF Within
<1>22. /\ Step.sub = NoSubState /\ Step.over = run.over /\ Escrowed(Step) = e /\ Step.limit = run.limit
  <2>1. run \in Runs
    BY <1>1, WhileRunning
  <2>2. Step.sub = run.sub /\ Step.over = run.over /\ Step.kind = run.kind /\ Step.limit = run.limit
    BY <2>1 DEF Runs, Step
  <2> QED  BY <1>3, <2>2 DEF Escrowed
<1>23. Going(trie, Step, d, v) /\ ~Step.over
  BY <1>3, <1>7, <1>19, <1>20, <1>21, <1>22 DEF Going
<1>24. RunInv'
  BY <1>1, <1>5, <1>7, <1>23 DEF RunInv
<1> QED  BY <1>1, <1>24, TrieKeeps
-----------------------------------------------------------------------------
\* Another state that follows is as good to call from.
LEMMA BeforeOn ==
    ASSUME NEW r, NEW q, NEW c \in Seq(FramesOf(trie, q)), NEW w, NEW g,
           Before(trie, r, c, w, g), NEW v, Follows(w, v)
    PROVE  Before(trie, r, c, v, g)
<1>1. \A i \in 1..Len(c) : c[i].address \in Addr
  <2>1. \A i \in 1..Len(c) : c[i] \in FramesOf(trie, q)
    BY ElementOfSeq
  <2> QED  BY <2>1 DEF FramesOf, Others
<1>2. Accounted(trie, Escrowed(r), c, Len(c), v)
  BY <1>1, AccountedOn DEF Before
<1> QED  BY <1>2 DEF Before

\* The address of the code that runs.
LEMMA MeKnown ==
    ASSUME SenderInv, MoneyInv, Running
    PROVE  /\ Top.address \in Addr /\ Top.sender \in Addr /\ Top.sub \in SubStates
           /\ Top.address \in Creatable => world[Top.address].nonce > 0
<1>1. Top \in FramesOf(trie, run) /\ Top = calls[Len(calls)] /\ Len(calls) \in 1..Len(calls)
  BY WhileRunning DEF Top
<1>2. Accounted(trie, Escrowed(run), calls, Len(calls), world)
  BY WhileGoing
<1>3. Top.address \in Creatable => world[Top.address].nonce > 0
  BY <1>1, <1>2 DEF Accounted
<1> QED  BY <1>1, <1>3 DEF FramesOf, Others, SubsOf

\* Calls and creations by code.
LEMMA CallOutSafe ==
    ASSUME SenderInv, MoneyInv, NEW kind \in {"CALL", "CALLCODE", "DELEGATECALL", "STATICCALL"},
           NEW to \in Addr, NEW value \in 0..MaxAmount, NEW gas \in 0..MaxGas,
           CallOut(kind, to, value, gas)
    PROVE  MoneyInv'
<1> DEFINE me == Top.address
           transfers == IF kind = "DELEGATECALL" THEN 0 ELSE value
           p == [to |-> to, address |-> IF kind \in {"CALL", "STATICCALL"} THEN to ELSE me,
                 sender |-> IF kind = "DELEGATECALL" THEN Top.sender ELSE me,
                 value |-> transfers, gas |-> gas, static |-> Top.static \/ kind = "STATICCALL"]
<1>1. /\ Running /\ trie' = trie /\ gas <= Top.gas /\ value <= world[me].balance
      /\ CallCode(Step, Spent(gas), world, p)
  BY DEF CallOut, Executes
<1>2. me \in Addr /\ Top.sender \in Addr /\ (me \in Creatable => world[me].nonce > 0)
  BY <1>1, MeKnown
<1>3. gas \in Nat /\ value \in Nat /\ gas \in Int
  BY ExecutionAssumption
<1>4. /\ p.to \in Addr /\ p.sender \in Addr /\ p.address \in Addr /\ p.value \in Nat /\ p.gas = gas
      /\ p.address = p.to \/ p.address = me
  BY <1>2, <1>3
<1>5. p.value <= world[p.sender].balance
  <2>1. Safe(world)
    BY <1>1, WhileGoing
  <2>2. world[Top.sender].balance >= 0 /\ world[Top.sender].balance \in Int
    BY <1>2, <2>1 DEF Safe, Solvent, World
  <2>3. CASE kind = "DELEGATECALL"
    BY <2>2, <2>3
  <2>4. CASE kind # "DELEGATECALL"
    BY <1>1, <2>4
  <2> QED  BY <2>3, <2>4
<1> HIDE DEF p, me
<1>6. Before(trie, Step, Spent(gas), world, gas)
  BY <1>1, <1>3, SpentBefore, StepBefore
<1>7. Spent(gas) \in Seq(FramesOf(trie, Step)) /\ Step \in Runs
  BY <1>1, <1>3, SpentFrames, StepRuns
<1>8. RunInv'
  BY <1>1, <1>2, <1>3, <1>4, <1>5, <1>6, <1>7, CallSafe
<1> QED  BY <1>1, <1>8, TrieKeeps

LEMMA CreateOutSafe ==
    ASSUME SenderInv, MoneyInv, Running, NEW value \in 0..MaxAmount, NEW gas \in 0..MaxGas,
           NEW a \in SaltAddress(Top.address)
                       \cup {CreateAddress(Top.address, world[Top.address].nonce)},
           CreateOut(a, value, gas)
    PROVE  MoneyInv'
<1> DEFINE me == Top.address
           w == IncNonce(world, me)
<1>1. /\ trie' = trie /\ gas <= Top.gas /\ value <= world[me].balance /\ world[me].nonce < MaxNonce
      /\ Create(Step, Spent(gas), w, a, me, value, gas)
  BY DEF CreateOut, Executes
<1>2. me \in Addr /\ Safe(world) /\ world \in World
  BY MeKnown, WhileGoing DEF Safe
<1>3. gas \in Nat /\ value \in Nat /\ gas \in Int
  BY ExecutionAssumption
<1>4. a \in Creatable
  <2> HIDE DEF me
  <2>1. world[me].nonce \in 0..MaxNonce
    BY <1>1, <1>2, ExecutionAssumption DEF World
  <2>2. a \in SaltAddress(me) \cup {CreateAddress(me, world[me].nonce)}
    BY DEF me
  <2> QED  BY <1>2, <2>1, <2>2 DEF Creatable
<1>5. Follows(world, w)
  BY <1>2, IncNonceFrom
<1>6. value <= w[me].balance
  <2>1. w[me].balance = world[me].balance
    <3>1. world[me] \in [nonce: Nat, balance: Int, code: Code, slot: StoredValue]
      BY <1>2 DEF World
    <3>2. w[me] = [world[me] EXCEPT !.nonce = @ + 1]
      BY <1>2 DEF IncNonce, World
    <3> QED  BY <3>1, <3>2
  <2> QED  BY <1>1, <2>1
<1> HIDE DEF w, me
<1>7. Spent(gas) \in Seq(FramesOf(trie, Step)) /\ Step \in Runs
  BY <1>3, SpentFrames, StepRuns
<1>8. Before(trie, Step, Spent(gas), w, gas)
  <2>1. Before(trie, Step, Spent(gas), world, gas)
    BY <1>1, <1>3, SpentBefore, StepBefore
  <2> QED  BY <1>5, <1>7, <2>1, BeforeOn
<1>9. RunInv'
  BY <1>1, <1>2, <1>3, <1>4, <1>6, <1>7, <1>8, CreateSafe
<1> QED  BY <1>1, <1>9, TrieKeeps

\* The frame ends with what it has, or with more destructed.
LEMMA TopEnds ==
    ASSUME SenderInv, MoneyInv, Running, trie' = trie,
           Safe(world'), Total(world') <= Total(world),
           \A a \in Addr : world'[a].slot = world[a].slot /\ world'[a].nonce >= world[a].nonce,
           NEW sub \in SubStates, sub.refunds = Top.sub.refunds, Top.sub.killed \subseteq sub.killed,
           sub.killed = {} => Total(world') = Total(world),
           NEW left \in 0..Top.gas,
           NEW r \in {run, Step}, End(r, Outer, left, sub, FALSE)
    PROVE  MoneyInv'
<1> DEFINE n == Len(calls)
           m == Len(Outer)
           e == Escrowed(run)
<1>1. /\ r \in Runs /\ Outer \in Seq(FramesOf(trie, r)) /\ Escrowed(r) = e
  <2>1. run \in Runs /\ Step \in Runs /\ Outer \in Seq(FramesOf(trie, run)) /\ Outer \in Seq(FramesOf(trie, Step))
    BY WhileRunning, StepRuns
  <2>2. Escrowed(Step) = Escrowed(run)
    <3>1. Step.kind = run.kind /\ Step.limit = run.limit
      BY <2>1 DEF Runs, Step
    <3> QED  BY <3>1 DEF Escrowed
  <2> QED  BY <2>1, <2>2
<1>2. Top.gas \in Nat /\ Before(trie, r, Outer, Top.savepoint, Top.gas)
  <2>1. Top.gas \in Nat /\ Before(trie, run, Outer, Top.savepoint, Top.gas)
    BY TopBefore
  <2>2. Before(trie, Step, Outer, Top.savepoint, Top.gas)
    BY <2>1, StepBefore
  <2> QED  BY <2>1, <2>2
<1>3. /\ m = n - 1 /\ (\A i \in 1..m : Outer[i] = calls[i])
      /\ Earns(calls, n) = Earns(Outer, m) + Top.sub.refunds
      /\ Kills(calls, n) = Kills(Outer, m) \cup Top.sub.killed
  BY OuterIs
<1>4. /\ Safe(world) /\ Safe(trie) /\ Accounted(trie, e, calls, n, world)
      /\ (\A i \in 1..n : calls[i] \in FramesOf(trie, run)) /\ n \in Nat
  BY WhileGoing
<1>5. world \in World /\ world' \in World /\ trie \in World /\ e \in Int
  <2>1. world \in World /\ world' \in World /\ trie \in World
    BY <1>4 DEF Safe
  <2>2. run.limit \in Int /\ GasPrice \in Int
    BY WhileRunning, ExecutionAssumption DEF Runs
  <2>3. run.limit * GasPrice \in Int
    BY <2>2
  <2> QED  BY <2>1, <2>3 DEF Escrowed
<1> HIDE DEF n, m
<1>6. Total(world) \in Int /\ Total(world') \in Int /\ Total(trie) \in Int
  BY <1>5, TotalAlike
<1>7. ClearedIn(trie, world') = ClearedIn(trie, world)
  BY DEF ClearedIn
<1>8. Total(world') + e <= Total(trie)
  <2>1. Total(world) + e <= Total(trie)
    BY <1>4 DEF Accounted
  <2> QED  BY <1>5, <1>6, <2>1
<1>9. Kills(Outer, m) \cup sub.killed = {} => Total(world') + e = Total(trie)
  <2> SUFFICES ASSUME Kills(Outer, m) \cup sub.killed = {} PROVE Total(world') + e = Total(trie)
    OBVIOUS
  <2>1. Kills(calls, n) = {} /\ sub.killed = {}
    BY <1>3
  <2> QED  BY <1>4, <2>1 DEF Accounted
<1>10. \A i \in 1..m : Outer[i].address \in Creatable => world'[Outer[i].address].nonce > 0
  <2> SUFFICES ASSUME NEW i \in 1..m, Outer[i].address \in Creatable PROVE world'[Outer[i].address].nonce > 0
    OBVIOUS
  <2> DEFINE b == calls[i].address
  <2>1. i \in 1..n /\ Outer[i].address = b
    BY <1>3, <1>4
  <2>2. b \in Addr /\ b \in Creatable
    BY <2>1, CreatableIn
  <2>3. world[b].nonce > 0
    BY <1>4, <2>1, <2>2 DEF Accounted
  <2> HIDE DEF b
  <2>4. world[b].nonce \in Nat /\ world'[b].nonce \in Nat /\ world'[b].nonce >= world[b].nonce
    BY <1>5, <2>2 DEF World
  <2> QED  BY <2>1, <2>3, <2>4
<1>11. Earns(Outer, m) + sub.refunds >= RefundGas * Cardinality(ClearedIn(trie, world'))
  BY <1>3, <1>4, <1>7 DEF Accounted
<1>12. Results(trie, r, Outer, sub, world')
  BY <1>1, <1>8, <1>9, <1>10, <1>11 DEF Results, m
<1>13. RunInv'
  BY <1>1, <1>2, <1>12, EndSafe
<1> QED  BY <1>13, TrieKeeps

\* The code returned, and may be that of a new contract.
LEMMA HaltSafe ==
    ASSUME SenderInv, MoneyInv, Halt
    PROVE  MoneyInv'
<1>1. Running /\ trie' = trie
  BY DEF Halt
<1>2. PICK c \in Code : world' = [world EXCEPT ![Top.address].code = c]
  BY DEF Halt
<1>3. PICK left \in 0..Top.gas : End(run, Outer, left, Top.sub, FALSE)
  BY DEF Halt
<1>4. Safe(world) /\ Top.sub \in SubStates
  BY <1>1, WhileGoing, MeKnown
<1>5. Follows(world, world')
  BY <1>1, <1>2, <1>4, MeKnown, CodeFrom
<1>6. Total(world') = Total(world) /\ Total(world') <= Total(world)
  <2>1. Total(world) \in Int
    BY <1>4, TotalAlike DEF Safe
  <2> QED  BY <1>5, <2>1 DEF Follows
<1>7. Safe(world') /\ \A a \in Addr : world'[a].slot = world[a].slot /\ world'[a].nonce >= world[a].nonce
  BY <1>5 DEF Follows
<1> QED  BY <1>1, <1>3, <1>4, <1>6, <1>7, TopEnds

\* A balance that is set.
WithBalance(w, a, x) == [w EXCEPT ![a].balance = x]

\* v is w but for the balance of a.
Rebalanced(w, a, x, v) ==
    /\ Safe(v) /\ Total(w) \in Int /\ Total(v) = Total(w) - w[a].balance + x
    /\ v[a].balance = x /\ w[a].balance \in Nat
    /\ \A b \in Addr \ {a} : v[b].balance = w[b].balance
    /\ \A b \in Addr : v[b].nonce = w[b].nonce /\ v[b].code = w[b].code /\ v[b].slot = w[b].slot

LEMMA BalanceSet ==
    ASSUME NEW w, Safe(w), NEW a \in Addr, NEW x \in Nat
    PROVE  Rebalanced(w, a, x, WithBalance(w, a, x))
<1> DEFINE v == WithBalance(w, a, x)
<1>1. w \in World /\ Solvent(w) /\ Known(w) /\ w[a] \in [nonce: Nat, balance: Int, code: Code, slot: StoredValue]
  BY DEF Safe, World
<1>2. v \in World /\ (\A b \in Addr \ {a} : v[b] = w[b]) /\ v[a] = [w[a] EXCEPT !.balance = x]
  BY <1>1 DEF World, WithBalance
<1> HIDE DEF v
<1>3. /\ v[a].balance = x
      /\ \A b \in Addr : v[b].nonce = w[b].nonce /\ v[b].code = w[b].code /\ v[b].slot = w[b].slot
  BY <1>1, <1>2
<1>4. Total(w) \in Int /\ Total(v) = Total(w) - w[a].balance + x
  BY <1>1, <1>2, <1>3, TotalChanges
<1>5. Solvent(v)
  BY <1>1, <1>2, <1>3 DEF Solvent
<1>6. Known(v)
  BY <1>1, <1>3, CreatableIn DEF Known
<1>7. w[a].balance \in Nat
  BY <1>1 DEF Solvent
<1> QED  BY <1>2, <1>3, <1>4, <1>5, <1>6, <1>7 DEF Safe, Rebalanced, v

\* What a selfdestruct does: it moves a balance, or burns its own.
LEMMA DestructedIs ==
    ASSUME Safe(world), NEW a \in Addr, NEW to \in Addr
    PROVE  LET v == Destructed(a, to)
           IN  /\ Safe(v) /\ Total(v) <= Total(world)
               /\ \A b \in Addr : v[b].nonce = world[b].nonce /\ v[b].code = world[b].code /\ v[b].slot = world[b].slot
<1> DEFINE x == world[a].balance
           y == world[to].balance
           given == [world EXCEPT ![to].balance = @ + x]
           z == given[a].balance
           v == [given EXCEPT ![a].balance = 0]
<1>1. x \in Nat /\ y \in Nat /\ given = WithBalance(world, to, y + x) /\ v = WithBalance(given, a, 0)
  BY DEF Safe, Solvent, World, WithBalance
<1>2. y + x \in Nat /\ 0 \in Nat
  BY <1>1
<1>3. v = Destructed(a, to)
  BY DEF Destructed
<1> HIDE DEF x, given, v
<1>4. /\ Safe(given) /\ Total(world) \in Int /\ Total(given) = Total(world) - y + (y + x)
      /\ given[to].balance = y + x
      /\ \A b \in Addr \ {to} : given[b].balance = world[b].balance
      /\ \A b \in Addr : given[b].nonce = world[b].nonce /\ given[b].code = world[b].code /\ given[b].slot = world[b].slot
  <2>1. Rebalanced(world, to, y + x, given)
    BY <1>1, <1>2, BalanceSet
  <2> QED  BY <2>1 DEF Rebalanced
<1>5. z >= x
  BY <1>1, <1>4 DEF x
<1>6. /\ Safe(v) /\ Total(v) = Total(given) - z + 0 /\ z \in Nat
      /\ \A b \in Addr : v[b].nonce = given[b].nonce /\ v[b].code = given[b].code /\ v[b].slot = given[b].slot
  <2>1. Rebalanced(given, a, 0, v)
    BY <1>1, <1>2, <1>4, BalanceSet
  <2> QED  BY <2>1 DEF Rebalanced
<1> DEFINE T == Total(world)
           G == Total(given)
           V == Total(v)
<1>7. T \in Int /\ G = T - y + (y + x) /\ V = G - z + 0 /\ z \in Nat /\ z >= x
  BY <1>4, <1>5, <1>6
<1> HIDE DEF T, G, V, y, z
<1>8. V <= T
  BY <1>1, <1>7
<1> QED  BY <1>3, <1>4, <1>6, <1>8 DEF V, T

\* A selfdestruct ends the frame.
LEMMA SelfDestructSafe ==
    ASSUME SenderInv, MoneyInv, NEW to \in Addr, SelfDestruct(to)
    PROVE  MoneyInv'
<1> DEFINE me == Top.address
           w == Destructed(me, to)
           bare == [w EXCEPT ![me].code = NoCode]
           new == [killed |-> {me}, refunds |-> 0]
           sub == Accrued(Top.sub, new)
<1>1. /\ Running /\ trie' = trie
      /\ world' = IF Top.creates THEN bare ELSE w
  BY DEF SelfDestruct, Executes
<1>2. PICK left \in 0..Top.gas : End(Step, Outer, left, sub, FALSE)
  BY DEF SelfDestruct
<1>3. Safe(world) /\ me \in Addr /\ Top.sub \in SubStates /\ (me \in Creatable => world[me].nonce > 0)
  BY <1>1, WhileGoing, MeKnown
<1>4. /\ Safe(w) /\ Total(w) <= Total(world)
      /\ \A b \in Addr : w[b].nonce = world[b].nonce /\ w[b].code = world[b].code /\ w[b].slot = world[b].slot
  BY <1>3, DestructedIs
<1>5. sub \in SubStates /\ sub.refunds = Top.sub.refunds /\ Top.sub.killed \subseteq sub.killed /\ sub.killed # {}
  BY <1>3 DEF SubStates, Accrued
<1> HIDE DEF w, me, sub
<1>6. Follows(w, bare)
  <2>1. NoCode \in Code
    BY DEF Code
  <2> QED  BY <1>3, <1>4, <2>1, CodeFrom
<1>7. \A b \in Addr : world[b].nonce \in Nat
  BY <1>3 DEF Safe, World
<1>8. /\ Safe(world') /\ Total(world') <= Total(world)
      /\ \A b \in Addr : world'[b].slot = world[b].slot /\ world'[b].nonce >= world[b].nonce
  <2>1. CASE Top.creates
    <3>1. world' = bare
      BY <1>1, <2>1
    <3> HIDE DEF bare
    <3> QED  BY <1>4, <1>6, <3>1 DEF Follows
  <2>2. CASE ~Top.creates
    <3>1. world' = w
      BY <1>1, <2>2
    <3>2. \A b \in Addr : w[b].nonce >= world[b].nonce
      BY <1>4, <1>7
    <3> QED  BY <1>4, <3>1, <3>2
  <2> QED  BY <2>1, <2>2
<1> QED  BY <1>1, <1>2, <1>5, <1>8, TopEnds

\* A frame that is undone leaves nothing but the gas that it gives back.
LEMMA UndoSafe ==
    ASSUME SenderInv, MoneyInv, Undo
    PROVE  MoneyInv'
<1>1. Running /\ trie' = trie /\ world' = Top.savepoint
  BY DEF Undo, Undone
<1>2. \/ \E left \in 0..Top.gas : End(run, Outer, left, NoSubState, TRUE)
      \/ End(run, Outer, 0, NoSubState, TRUE)
  BY DEF Undo, Kept
<1>3. run \in Runs /\ Outer \in Seq(FramesOf(trie, run))
  BY <1>1, WhileRunning
<1>4. Top.gas \in Nat /\ Before(trie, run, Outer, Top.savepoint, Top.gas)
  BY <1>1, TopBefore
<1>5. Follows(Top.savepoint, world')
  BY <1>1, <1>4, FollowsItself DEF Before, Accounted
<1>6. PICK left \in 0..Top.gas : End(run, Outer, left, NoSubState, TRUE)
  <2>1. 0 \in 0..Top.gas
    BY <1>4
  <2> QED  BY <1>2, <2>1
<1>7. RunInv'
  BY <1>1, <1>3, <1>4, <1>5, <1>6, NothingEnds
<1> QED  BY <1>1, <1>7, TrieKeeps
-----------------------------------------------------------------------------
(* The end of a run. *)

\* What is left of the gas is no more than was paid for: at most half of what was used
\* is refunded, and refunds are not negative.
LEMMA LeftWithin ==
    ASSUME NEW t, run \in Runs, Ended(t, run, world)
    PROVE  Left \in 0..run.limit
<1>1. /\ run.gas \in 0..run.limit /\ run.sub.refunds >= 0 /\ run.limit \in Int
      /\ run.sub.killed \subseteq Addr /\ run.sub.refunds \in Int
  BY DEF Ended, Runs, SubStates
<1>2. Cardinality(run.sub.killed) \in Nat /\ DestructGas \in Nat
  BY <1>1, ExecutionAssumption, MoneyAssumption, FS_Subset, FS_CardinalityType
<1>3. DestructGas * Cardinality(run.sub.killed) \in Nat
  BY <1>2
<1>4. Earned \in Nat
  BY <1>1, <1>3 DEF Earned
<1> DEFINE g == run.gas
           l == run.limit
           h == MaxRefund
<1>5. l \in Int /\ g \in 0..l /\ h = (l - g) \div 2
  BY <1>1 DEF MaxRefund
<1> HIDE DEF g, l, h
<1>6. h \in Nat /\ h <= l - g
  BY <1>5
<1>7. Left = g + (IF Earned < h THEN Earned ELSE h)
  BY DEF Left, g, h
<1>8. Left \in 0..l
  BY <1>4, <1>5, <1>6, <1>7
<1> QED  BY <1>8 DEF l

\* The sender and the author get back together what was paid for gas.
LEMMA PaidBackIs ==
    ASSUME Safe(trie), run \in Runs, Ended(trie, run, world)
    PROVE  Safe(PaidBack) /\ Total(PaidBack) <= Total(trie)
<1>1. Safe(world) /\ Total(world) + Escrowed(run) <= Total(trie)
  BY DEF Ended
<1>2. Total(world) \in Int /\ Total(trie) \in Int
  BY <1>1, TotalAlike DEF Safe
<1>3. CASE run.kind # "tx"
  <2>1. PaidBack = world /\ Escrowed(run) = 0
    BY <1>3 DEF PaidBack, Escrowed
  <2> QED  BY <1>1, <1>2, <2>1
<1>4. CASE run.kind = "tx"
  <2> DEFINE x == Left * GasPrice
             y == (run.limit - Left) * GasPrice
             s == [world EXCEPT ![run.sender].balance = @ + x]
             d == [s EXCEPT ![Author].balance = @ + y]
             p == world[run.sender].balance
             q == s[Author].balance
  <2>1. PaidBack = d /\ Escrowed(run) = run.limit * GasPrice
    BY <1>4 DEF PaidBack, Escrowed
  <2>2. run.sender \in Addr /\ Author \in Addr /\ GasPrice \in Nat /\ run.limit \in Int /\ Left \in 0..run.limit
    BY ExecutionAssumption, LeftWithin DEF Runs
  <2>3. x \in Nat /\ y \in Nat /\ run.limit * GasPrice = x + y
    <3> DEFINE l == run.limit
               k == Left
    <3>1. l \in Int /\ k \in 0..l /\ GasPrice \in Nat
      BY <2>2
    <3> HIDE DEF l, k
    <3>2. k * GasPrice \in Nat /\ (l - k) * GasPrice \in Nat /\ l * GasPrice = k * GasPrice + (l - k) * GasPrice
      BY <3>1
    <3> QED  BY <3>2 DEF l, k
  <2>4. p \in Nat
    BY <1>1, <2>2 DEF Safe, Solvent, World
  <2>5. s = WithBalance(world, run.sender, p + x)
    BY DEF WithBalance
  <2> HIDE DEF x, y, s
  <2>6. p + x \in Nat
    BY <2>3, <2>4
  <2>7. Rebalanced(world, run.sender, p + x, s)
    BY <1>1, <2>2, <2>5, <2>6, BalanceSet
  <2>8. Safe(s) /\ Total(s) = Total(world) - p + (p + x)
    BY <2>7 DEF Rebalanced
  <2>9. q \in Nat
    BY <2>2, <2>8 DEF Safe, Solvent, World
  <2>10. d = WithBalance(s, Author, q + y)
    BY DEF WithBalance
  <2> HIDE DEF d
  <2>11. q + y \in Nat
    BY <2>3, <2>9
  <2>12. Rebalanced(s, Author, q + y, d)
    BY <2>2, <2>8, <2>10, <2>11, BalanceSet
  <2>13. Safe(d) /\ Total(d) = Total(s) - q + (q + y)
    BY <2>12 DEF Rebalanced
  <2> DEFINE T == Total(world)
             S == Total(s)
             D == Total(d)
  <2>14. T \in Int /\ S = T - p + (p + x) /\ D = S - q + (q + y)
    BY <1>2, <2>8, <2>13
  <2> HIDE DEF T, S, D, p, q
  <2>15. D = T + (x + y)
    BY <2>3, <2>4, <2>9, <2>14
  <2>16. D <= Total(trie)
    <3>1. T + (x + y) <= Total(trie)
      BY <1>1, <2>1, <2>3 DEF T
    <3> QED  BY <2>15, <3>1
  <2> QED  BY <2>1, <2>13, <2>16 DEF D
<1> QED  BY <1>3, <1>4

\* Accounts that are taken out take their balances with them.
LEMMA KilledLose ==
    ASSUME NEW w, Safe(w), NEW K
    PROVE  LET v == [a \in Addr |-> IF a \in K THEN Empty ELSE w[a]]
           IN  Safe(v) /\ Total(v) <= Total(w)
<1> DEFINE v == [a \in Addr |-> IF a \in K THEN Empty ELSE w[a]]
<1>1. w \in World /\ Solvent(w) /\ Known(w)
  BY DEF Safe
<1>2. Empty \in [nonce: Nat, balance: Int, code: Code, slot: StoredValue]
  BY ExecutionAssumption DEF Empty, Code
<1>3. Empty.balance = 0 /\ Empty.code = NoCode /\ Empty.slot = 0
  BY DEF Empty
<1>4. v \in World
  BY <1>1, <1>2 DEF World
<1>5. \A a \in Addr : v[a] = IF a \in K THEN Empty ELSE w[a]
  OBVIOUS
<1> HIDE DEF v
<1>6. \A a \in Addr : w[a].balance \in Int /\ v[a].balance \in Int /\ w[a].balance >= 0
  BY <1>1, <1>4 DEF World, Solvent
<1>7. Solvent(v)
  BY <1>3, <1>5, <1>6 DEF Solvent
<1>8. Known(v)
  BY <1>1, <1>3, <1>5, CreatableIn DEF Known
<1>9. \A a \in Addr : BalanceIn(w, a) \in Int /\ BalanceIn(v, a) \in Int /\ BalanceIn(v, a) <= BalanceIn(w, a)
  BY <1>3, <1>5, <1>6 DEF BalanceIn
<1>10. Balances!Sum(v, Addr) <= Balances!Sum(w, Addr)
  BY <1>9, Sums, Balances!SumBelow
<1> QED  BY <1>4, <1>7, <1>8, <1>10, TotalIs DEF Safe, v

LEMMA FinalizeSafe ==
    ASSUME SenderInv, MoneyInv, NEW kept \in BOOLEAN, Finalize(kept)
    PROVE  MoneyInv'
<1>1. /\ run # NoRun /\ run.over /\ run' = NoRun /\ calls' = calls
      /\ trie' = IF kept THEN [a \in Addr |-> IF a \in run.sub.killed THEN Empty ELSE PaidBack[a]]
                 ELSE trie
  BY DEF Finalize
<1>2. calls = <<>> /\ Ended(trie, run, world) /\ Safe(trie) /\ run \in Runs
  BY <1>1 DEF MoneyInv, RunInv, SenderInv
<1>3. Safe(PaidBack) /\ Total(PaidBack) <= Total(trie)
  BY <1>2, PaidBackIs
<1>4. Safe(trie') /\ Total(trie') <= Total(trie)
  <2> DEFINE K == run.sub.killed
             v == [a \in Addr |-> IF a \in K THEN Empty ELSE PaidBack[a]]
  <2>1. Safe(v) /\ Total(v) <= Total(PaidBack)
    BY <1>3, KilledLose
  <2>2. trie' = IF kept THEN v ELSE trie
    BY <1>1
  <2> HIDE DEF v
  <2>3. Total(v) \in Int /\ Total(PaidBack) \in Int /\ Total(trie) \in Int
    BY <1>2, <1>3, <2>1, TotalAlike DEF Safe
  <2> QED  BY <1>2, <1>3, <2>1, <2>2, <2>3
<1>5. \E w \in Roots : Total(trie') <= Total(w)
  <2>1. PICK w \in Roots : Total(trie) <= Total(w)
    BY DEF MoneyInv
  <2>2. w \in World
    BY ExecutionAssumption
  <2>3. Total(w) \in Int /\ Total(trie) \in Int /\ Total(trie') \in Int
    BY <1>2, <1>4, <2>2, TotalAlike DEF Safe
  <2> QED  BY <1>4, <2>1, <2>3
<1>6. RunInv'
  BY <1>1, <1>2 DEF RunInv
<1> QED  BY <1>4, <1>5, <1>6 DEF MoneyInv

LEMMA ThrowSafe ==
    ASSUME MoneyInv, Throw
    PROVE  MoneyInv'
<1>1. trie' = trie /\ run' = NoRun /\ calls' = <<>>
  BY DEF Throw
<1>2. RunInv'
  BY <1>1 DEF RunInv
<1> QED  BY <1>1, <1>2, TrieKeeps

\* Every step.
LEMMA MoneyInvNext ==
    ASSUME SenderInv, MoneyInv, ExecutionNext
    PROVE  MoneyInv'
<1>1. CASE \E s \in Signer, to \in Addr, creates \in BOOLEAN, value \in 0..MaxAmount :
             \E gas \in 0..MaxGas : RunTx(s, to, creates, value, gas)
  BY <1>1, RunTxSafe
<1>2. CASE \E kind \in {"call", "create", "upgrade"}, s \in Caller, to \in Addr,
             value \in 0..MaxAmount, gas \in 0..MaxGas :
             RunMessage(kind, s, to, value, gas)
  BY <1>2, RunMessageSafe
<1>3. CASE \E kept \in BOOLEAN : Finalize(kept)
  BY <1>3, FinalizeSafe
<1>4. CASE \E value \in StoredValue : Store(value)
  BY <1>4, StoreSafe
<1>5. CASE \E kind \in {"CALL", "CALLCODE", "DELEGATECALL", "STATICCALL"}, to \in Addr,
             value \in 0..MaxAmount : \E gas \in 0..MaxGas : CallOut(kind, to, value, gas)
  BY <1>5, CallOutSafe
<1>6. CASE /\ Running
           /\ \E value \in 0..MaxAmount, gas \in 0..MaxGas :
                \E a \in SaltAddress(Top.address)
                            \cup {CreateAddress(Top.address, world[Top.address].nonce)} :
                    CreateOut(a, value, gas)
  BY <1>6, CreateOutSafe
<1>7. CASE \E to \in Addr : SelfDestruct(to)
  BY <1>7, SelfDestructSafe
<1>8. CASE Halt
  BY <1>8, HaltSafe
<1>9. CASE Undo
  BY <1>9, UndoSafe
<1>10. CASE Throw
  BY <1>10, ThrowSafe
<1> QED  BY <1>1, <1>2, <1>3, <1>4, <1>5, <1>6, <1>7, <1>8, <1>9, <1>10 DEF ExecutionNext

\* The sums above hold in every state that the runs reach.
LEMMA MoneyInvHolds == ExecutionSpec => [](SenderInv /\ MoneyInv)
<1>1. ExecutionInit => MoneyInv
  <2> SUFFICES ASSUME ExecutionInit PROVE MoneyInv
    OBVIOUS
  <2>1. trie \in Roots /\ run = NoRun /\ calls = <<>>
    BY DEF ExecutionInit
  <2>2. Safe(trie)
    BY <2>1, ExecutionAssumption, MoneyAssumption DEF Safe
  <2>3. Total(trie) \in Int
    BY <2>2, TotalAlike DEF Safe
  <2>4. Total(trie) <= Total(trie)
    BY <2>3
  <2> QED  BY <2>1, <2>2, <2>4 DEF MoneyInv, RunInv
<1>2. SenderInv /\ MoneyInv /\ [ExecutionNext]_execVars => MoneyInv'
  <2>1. ASSUME SenderInv, MoneyInv, ExecutionNext PROVE MoneyInv'
    BY <2>1, MoneyInvNext
  <2>2. ASSUME MoneyInv, UNCHANGED execVars PROVE MoneyInv'
    <3>1. trie' = trie /\ world' = world /\ run' = run /\ calls' = calls
      BY <2>2 DEF execVars
    <3> QED  BY <2>2, <3>1 DEF MoneyInv, RunInv
  <2> QED  BY <2>1, <2>2
<1>3. ExecutionSpec => []SenderInv
  BY SenderIsUsed
<1> QED  BY <1>1, <1>2, <1>3, PTL DEF ExecutionSpec

\* Money is moved, never made: what a run has, with what is paid for its gas, is what
\* the state had that it began from, less what selfdestructs burn, and the gas that is
\* left over is some of that paid for.
THEOREM MoneyKept == ExecutionSpec => []MoneyIsKept
<1>1. SenderInv /\ MoneyInv => MoneyIsKept
  <2> SUFFICES ASSUME SenderInv, MoneyInv PROVE MoneyIsKept
    OBVIOUS
  <2>1. ASSUME run # NoRun
        PROVE  /\ Total(world) + Escrow <= Total(trie)
               /\ Destructs = {} => Total(world) + Escrow = Total(trie)
               /\ run.over => Left \in 0..run.limit
    <3>1. Escrow = Escrowed(run)
      BY <2>1 DEF Escrow, Escrowed
    <3>2. CASE run.over
      <4>1. calls = <<>> /\ Ended(trie, run, world) /\ run \in Runs
        BY <2>1, <3>2 DEF MoneyInv, RunInv, SenderInv
      <4>2. Left \in 0..run.limit
        BY <4>1, LeftWithin
      <4>3. Destructs = {} => run.sub.killed = {}
        BY DEF Destructs
      <4> QED  BY <3>1, <4>1, <4>2, <4>3 DEF Ended
    <3>3. CASE ~run.over
      <4>1. Accounted(trie, Escrowed(run), calls, Len(calls), world)
        BY <2>1, <3>3 DEF MoneyInv, RunInv, Going
      <4>2. Destructs = {} => Kills(calls, Len(calls)) = {}
        BY DEF Destructs, Kills
      <4> QED  BY <3>1, <3>3, <4>1, <4>2 DEF Accounted
    <3> QED  BY <3>2, <3>3
  <2>2. \E w \in Roots : Total(trie) <= Total(w)
    BY DEF MoneyInv
  <2> QED  BY <2>1, <2>2 DEF MoneyIsKept
<1> QED  BY <1>1, MoneyInvHolds, PTL

\* The refunds of the frames cover what the storage has earned, however frames are
\* nested, undone and ended: the sum that ends a run is not negative.
THEOREM RefundsFollow == ExecutionSpec => []RefundsFollowStorage
<1>1. SenderInv /\ MoneyInv => RefundsFollowStorage
  <2> SUFFICES ASSUME SenderInv, MoneyInv PROVE RefundsFollowStorage
    OBVIOUS
  <2>1. ASSUME calls # <<>> PROVE Refunds >= RefundGas * Cardinality(Cleared)
    <3>1. Accounted(trie, Escrowed(run), calls, Len(calls), world)
      BY <2>1 DEF MoneyInv, RunInv, Going
    <3>2. Cleared = ClearedIn(trie, world)
      BY DEF Cleared, ClearedIn
    <3> QED  BY <3>1, <3>2, RefundsAre DEF Accounted
  <2>2. ASSUME run # NoRun PROVE run.sub.refunds >= 0
    <3>1. CASE run.over
      BY <2>2, <3>1 DEF MoneyInv, RunInv, Ended
    <3>2. CASE ~run.over
      <4>1. run.sub = NoSubState
        BY <2>2, <3>2 DEF MoneyInv, RunInv, Going
      <4>2. NoSubState.refunds = 0
        BY DEF NoSubState
      <4> QED  BY <4>1, <4>2
    <3> QED  BY <3>1, <3>2
  <2> QED  BY <2>1, <2>2 DEF RefundsFollowStorage
<1> QED  BY <1>1, MoneyInvHolds, PTL
-----------------------------------------------------------------------------
(* Code is not replaced.  A contract whose creation goes on is without code  *)
(* and has its nonce, in the state and in every savepoint taken since, so no *)
(* creation inside it gets the same address, and undoing one brings no code  *)
(* to it.                                                                    *)

\* An account of which a creation has begun, and has not deposited its code.
Begun(w, a) == w[a].code = NoCode /\ w[a].nonce > 0

\* The contracts that the frames c create are such, in w.
Bare(c, w) == \A i \in 1..Len(c) : c[i].creates => Begun(w, c[i].address)

\* So they are where the frames inside them go back to, and they are different.
Apart(c) ==
    \A j \in 1..Len(c) : \A i \in 1..(j - 1) : c[i].creates =>
        /\ Begun(c[j].savepoint, c[i].address)
        /\ c[j].creates => c[j].address # c[i].address

CodeInv == run # NoRun /\ run.kind # "upgrade" => Apart(calls) /\ Bare(calls, world)

\* Frames that differ in their gas, sub-state and rights only.
Alike(c, d) ==
    /\ Len(c) = Len(d) /\ Len(d) \in Nat
    /\ \A i \in 1..Len(d) : /\ c[i].address = d[i].address /\ c[i].creates = d[i].creates
                            /\ c[i].savepoint = d[i].savepoint

LEMMA AlikeApart ==
    ASSUME NEW c, NEW d, Alike(c, d), NEW w
    PROVE  /\ Apart(d) => Apart(c)
           /\ Bare(d, w) => Bare(c, w)
<1>1. Apart(d) => Apart(c)
  <2> SUFFICES ASSUME Apart(d), NEW j \in 1..Len(c), NEW i \in 1..(j - 1), c[i].creates
               PROVE  /\ Begun(c[j].savepoint, c[i].address)
                      /\ c[j].creates => c[j].address # c[i].address
    BY DEF Apart
  <2>1. Len(c) = Len(d) /\ Len(d) \in Nat
    BY DEF Alike
  <2>2. j \in 1..Len(d) /\ i \in 1..Len(d)
    BY <2>1
  <2>3. /\ c[i].address = d[i].address /\ c[i].creates = d[i].creates
        /\ c[j].address = d[j].address /\ c[j].creates = d[j].creates
        /\ c[j].savepoint = d[j].savepoint
    BY <2>2 DEF Alike
  <2> QED  BY <2>2, <2>3 DEF Apart
<1>2. Bare(d, w) => Bare(c, w)
  BY DEF Bare, Alike
<1> QED  BY <1>1, <1>2

\* What keeps begun creations as they are.
LEMMA BareOn ==
    ASSUME NEW t, NEW r, NEW c \in Seq(FramesOf(t, r)), NEW w, NEW v, Bare(c, w),
           \A a \in Addr : Begun(w, a) => Begun(v, a)
    PROVE  Bare(c, v)
<1> SUFFICES ASSUME NEW i \in 1..Len(c), c[i].creates  PROVE Begun(v, c[i].address)
  BY DEF Bare
<1>1. c[i] \in FramesOf(t, r)
  BY ElementOfSeq
<1>2. c[i].address \in Addr
  BY <1>1 DEF FramesOf, Others
<1> QED  BY <1>2 DEF Bare

LEMMA EndAlike ==
    ASSUME NEW r, NEW outer \in Seq(FramesOf(trie, r)),
           NEW gas, NEW sub, NEW failed, End(r, outer, gas, sub, failed)
    PROVE  Alike(calls', outer)
<1>1. CASE outer = <<>>
  <2>1. calls' = <<>>
    BY <1>1 DEF End
  <2> QED  BY <1>1, <2>1 DEF Alike
<1>2. CASE outer # <<>>
  <2> DEFINE n == Len(outer)
             f == outer[n]
             g == [f EXCEPT !.gas = @ + gas, !.sub = Accrued(@, sub)]
  <2>1. n \in Nat /\ n \in 1..n /\ DOMAIN outer = 1..n
    BY <1>2, EmptySeq, LenProperties
  <2>2. f \in FramesOf(trie, r)
    BY <2>1, ElementOfSeq
  <2>3. calls' = [outer EXCEPT ![n].gas = @ + gas, ![n].sub = Accrued(@, sub)]
    BY <1>2 DEF End
  <2>4. calls' = [outer EXCEPT ![n] = g]
    BY <2>1, <2>3
  <2>5. g.address = f.address /\ g.creates = f.creates /\ g.savepoint = f.savepoint
    BY <2>2 DEF FramesOf
  <2> HIDE DEF g
  <2>6. Len(calls') = n
    <3>1. outer \in Seq(FramesOf(trie, r) \cup {g})
      <4>1. \A i \in 1..n : outer[i] \in FramesOf(trie, r) \cup {g}
        BY ElementOfSeq
      <4> QED  BY <2>1, <4>1
    <3> QED  BY <2>1, <2>4, <3>1, ExceptSeq
  <2>7. \A i \in 1..n : calls'[i] = IF i = n THEN g ELSE outer[i]
    BY <2>1, <2>4
  <2> QED  BY <2>1, <2>5, <2>6, <2>7 DEF Alike
<1> QED  BY <1>1, <1>2

\* A call or creation that ends leaves the frames outside it as they are.
LEMMA EndKeepsCode ==
    ASSUME NEW r, NEW outer \in Seq(FramesOf(trie, r)), Apart(outer), Bare(outer, world'),
           NEW gas, NEW sub, NEW failed, End(r, outer, gas, sub, failed)
    PROVE  CodeInv'
<1>1. Alike(calls', outer)
  BY EndAlike
<1>2. Apart(calls') /\ Bare(calls', world')
  BY <1>1, AlikeApart
<1> QED  BY <1>2 DEF CodeInv

LEMMA EnterKeepsCode ==
    ASSUME NEW r, NEW outer \in Seq(FramesOf(trie, r)), Apart(outer), NEW f,
           Bare(outer, f.savepoint), Bare(outer, world'), Enter(r, outer, f),
           f.creates => /\ Begun(world', f.address)
                        /\ \A i \in 1..Len(outer) : outer[i].creates => outer[i].address # f.address
    PROVE  CodeInv'
<1> DEFINE n == Len(outer)
           c == Append(outer, f)
<1>1. calls' = c
  BY DEF Enter
<1>2. n \in Nat /\ Len(c) = n + 1 /\ c[n + 1] = f /\ \A i \in 1..n : c[i] = outer[i]
  BY AppendProperties, LenProperties
<1> HIDE DEF n, c
<1>3. Apart(c)
  <2> SUFFICES ASSUME NEW j \in 1..(n + 1), NEW i \in 1..(j - 1), c[i].creates
               PROVE  /\ Begun(c[j].savepoint, c[i].address)
                      /\ c[j].creates => c[j].address # c[i].address
    BY <1>2 DEF Apart
  <2>1. i \in 1..n /\ c[i] = outer[i]
    BY <1>2
  <2>2. CASE j = n + 1
    BY <1>2, <2>1, <2>2 DEF n, Bare
  <2>3. CASE j # n + 1
    <3>1. j \in 1..n /\ c[j] = outer[j]
      BY <1>2, <2>3
    <3> QED  BY <2>1, <3>1 DEF n, Apart
  <2> QED  BY <2>2, <2>3
<1>4. Bare(c, world')
  <2> SUFFICES ASSUME NEW i \in 1..(n + 1), c[i].creates  PROVE Begun(world', c[i].address)
    BY <1>2 DEF Bare
  <2>1. CASE i = n + 1
    BY <1>2, <2>1
  <2>2. CASE i # n + 1
    <3>1. i \in 1..n /\ c[i] = outer[i]
      BY <1>2, <2>2
    <3> QED  BY <3>1 DEF n, Bare
  <2> QED  BY <2>1, <2>2
<1> QED  BY <1>1, <1>3, <1>4 DEF CodeInv

\* Moving money keeps every code and nonce.
LEMMA TransferBare ==
    ASSUME NEW t, NEW r, NEW c \in Seq(FramesOf(t, r)), NEW w \in World, Bare(c, w),
           NEW from \in Addr, NEW to \in Addr, NEW value \in Int
    PROVE  Bare(c, Transfer(w, from, to, value))
<1> DEFINE v == Transfer(w, from, to, value)
<1>1. \A b \in Addr : v[b].nonce = w[b].nonce /\ v[b].code = w[b].code
  BY TransferWorld
<1> HIDE DEF v
<1>2. \A b \in Addr : Begun(w, b) => Begun(v, b)
  BY <1>1 DEF Begun
<1>3. Bare(c, v)
  BY <1>2, BareOn
<1> QED  BY <1>3 DEF v

LEMMA CallKeepsCode ==
    ASSUME NEW r, NEW outer \in Seq(FramesOf(trie, r)), NEW w \in World,
           Apart(outer), Bare(outer, w),
           NEW p, p.sender \in Addr, p.address \in Addr, p.value \in Int,
           CallCode(r, outer, w, p)
    PROVE  CodeInv'
<1>1. Bare(outer, Transfer(w, p.sender, p.address, p.value))
  BY TransferBare
<1>2. CASE p.to \in Precompiled
  <2>1. Bare(outer, world')
    BY <1>1, <1>2 DEF CallCode
  <2>2. \E left, failed : End(r, outer, left, NoSubState, failed)
    BY <1>2 DEF CallCode
  <2> QED  BY <2>1, <2>2, EndKeepsCode, Zenon
<1>3. CASE p.to \notin Precompiled /\ w[p.to].code = NoCode
  <2>1. Bare(outer, world')
    BY <1>1, <1>3 DEF CallCode
  <2>2. End(r, outer, p.gas, NoSubState, FALSE)
    BY <1>3 DEF CallCode
  <2> QED  BY <2>1, <2>2, EndKeepsCode, Zenon
<1>4. CASE p.to \notin Precompiled /\ w[p.to].code # NoCode
  <2> DEFINE f == Frame(p.address, p.sender, w, p.gas, FALSE, p.static)
  <2>1. Bare(outer, world')
    BY <1>1, <1>4 DEF CallCode
  <2>2. Enter(r, outer, f)
    BY <1>4 DEF CallCode
  <2>3. f.savepoint = w /\ ~f.creates
    BY DEF Frame
  <2> HIDE DEF f
  <2> QED  BY <2>1, <2>2, <2>3, EnterKeepsCode
<1> QED  BY <1>2, <1>3, <1>4

\* Whoever creates at the address of a contract that is being created finds its
\* nonce there.
LEMMA CreateKeepsCode ==
    ASSUME NEW r, NEW outer \in Seq(FramesOf(trie, r)), NEW w \in World,
           Apart(outer), Bare(outer, w),
           NEW a \in Addr, NEW s \in Addr, NEW value \in Int, NEW gas,
           Create(r, outer, w, a, s, value, gas)
    PROVE  CodeInv'
<1>1. CASE Occupied(w, a)
  <2>1. world' = w /\ End(r, outer, 0, NoSubState, TRUE)
    BY <1>1 DEF Create
  <2> QED  BY <2>1, EndKeepsCode, Zenon
<1>2. CASE ~Occupied(w, a)
  <2> DEFINE v == Transfer(w, s, a, value)
             f == Frame(a, s, w, gas, TRUE, FALSE)
  <2>1. v \in World /\ Bare(outer, v) /\ v[a].code = NoCode
    BY <1>2, TransferWorld, TransferBare DEF Occupied
  <2>2. world' = [v EXCEPT ![a].nonce = 1, ![a].slot = 0]
    BY <1>2 DEF Create
  <2>3. End(r, outer, gas, NoSubState, FALSE) \/ Enter(r, outer, f)
    BY <1>2 DEF Create
  <2>4. f.savepoint = w /\ f.address = a
    BY DEF Frame
  <2> HIDE DEF v, f
  <2>5. Begun(world', a) /\ \A b \in Addr : Begun(v, b) => Begun(world', b)
    BY <2>1, <2>2 DEF World, Begun
  <2>6. Bare(outer, world')
    BY <2>1, <2>5, BareOn
  <2>7. \A i \in 1..Len(outer) : outer[i].creates => outer[i].address # a
    BY <1>2 DEF Bare, Begun, Occupied
  <2>8. CASE End(r, outer, gas, NoSubState, FALSE)
    BY <2>6, <2>8, EndKeepsCode, Zenon
  <2>9. CASE Enter(r, outer, f)
    BY <2>4, <2>5, <2>6, <2>7, <2>9, EnterKeepsCode
  <2> QED  BY <2>3, <2>8, <2>9
<1> QED  BY <1>1, <1>2

\* The run goes on, or is over, as what it began.
LEMMA EndKind ==
    ASSUME NEW r \in Runs, NEW outer, NEW gas, NEW sub, NEW failed, End(r, outer, gas, sub, failed)
    PROVE  run'.kind = r.kind
BY DEF End, Runs

LEMMA KindStays ==
    ASSUME SenderInv, Running, ExecutionNext
    PROVE  run' = NoRun \/ run'.kind = run.kind
<1>1. run # NoRun /\ ~run.over /\ run \in Runs /\ Step \in Runs /\ Step.kind = run.kind
  BY WhileRunning, StepRuns DEF Running
<1>2. ASSUME NEW outer, NEW w, NEW p, CallCode(Step, outer, w, p)
      PROVE  run'.kind = run.kind
  <2>1. (\E left, failed : End(Step, outer, left, NoSubState, failed)) \/ run' = Step
    BY <1>2 DEF CallCode, Enter
  <2> QED  BY <1>1, <2>1, EndKind
<1>3. ASSUME NEW outer, NEW w, NEW a, NEW s, NEW value, NEW gas,
             Create(Step, outer, w, a, s, value, gas)
      PROVE  run'.kind = run.kind
  <2>1. (\E left, failed : End(Step, outer, left, NoSubState, failed)) \/ run' = Step
    BY <1>3 DEF Create, Enter
  <2> QED  BY <1>1, <2>1, EndKind
<1>4. CASE \E value \in StoredValue : Store(value)
  BY <1>1, <1>4 DEF Store
<1>5. CASE \E kind \in {"CALL", "CALLCODE", "DELEGATECALL", "STATICCALL"}, to \in Addr,
             value \in 0..MaxAmount : \E gas \in 0..MaxGas : CallOut(kind, to, value, gas)
  <2>1. \E gas, p : CallCode(Step, Spent(gas), world, p)
    BY <1>5 DEF CallOut
  <2> QED  BY <1>2, <2>1
<1>6. CASE \E value \in 0..MaxAmount, gas \in 0..MaxGas : \E a : CreateOut(a, value, gas)
  BY <1>3, <1>6 DEF CreateOut
<1>7. CASE \E to \in Addr : SelfDestruct(to)
  <2>1. \E left, sub : End(Step, Outer, left, sub, FALSE)
    BY <1>7 DEF SelfDestruct
  <2> QED  BY <1>1, <2>1, EndKind
<1>8. CASE Halt \/ Undo
  <2>1. \E left, sub, failed : End(run, Outer, left, sub, failed)
    BY <1>8 DEF Halt, Undo
  <2> QED  BY <1>1, <2>1, EndKind
<1>9. CASE Throw
  BY <1>9 DEF Throw
<1>10. \A s, to, creates, value, gas : ~RunTx(s, to, creates, value, gas)
  BY <1>1 DEF RunTx
<1>11. \A kind, s, to, value, gas : ~RunMessage(kind, s, to, value, gas)
  BY <1>1 DEF RunMessage
<1>12. \A kept : ~Finalize(kept)
  BY <1>1 DEF Finalize
<1> QED  BY <1>4, <1>5, <1>6, <1>7, <1>8, <1>9, <1>10, <1>11, <1>12 DEF ExecutionNext

\* The frames outside the innermost one, as they are and as it would leave them
\* when it is undone.
LEMMA OuterBare ==
    ASSUME SenderInv, Running, Apart(calls), Bare(calls, world)
    PROVE  /\ Apart(Outer) /\ Bare(Outer, world) /\ Bare(Outer, Top.savepoint)
           /\ Top.creates => /\ Begun(world, Top.address)
                             /\ \A i \in 1..Len(Outer) : Outer[i].creates => Outer[i].address # Top.address
<1> DEFINE n == Len(calls)
           k == n - 1
<1>1. n \in Nat /\ n \in 1..n /\ Top = calls[n]
  BY WhileRunning, LenProperties DEF Top
<1>2. Len(Outer) = k /\ \A i \in 1..k : Outer[i] = calls[i]
  BY OuterIs
<1> HIDE DEF n
<1>3. k \in Nat /\ \A i \in 1..k : i \in 1..n /\ \A j \in 1..(i - 1) : j \in 1..k
  BY <1>1
<1>4. \A i \in 1..k : calls[i].creates =>
        /\ Begun(calls[n].savepoint, calls[i].address)
        /\ calls[n].creates => calls[n].address # calls[i].address
  BY <1>1 DEF Apart, n
<1> HIDE DEF k
<1>5. Apart(Outer)
  <2> SUFFICES ASSUME NEW j \in 1..k, NEW i \in 1..(j - 1), Outer[i].creates
               PROVE  /\ Begun(Outer[j].savepoint, Outer[i].address)
                      /\ Outer[j].creates => Outer[j].address # Outer[i].address
    BY <1>2 DEF Apart
  <2>1. j \in 1..n /\ i \in 1..k /\ Outer[j] = calls[j] /\ Outer[i] = calls[i]
    BY <1>2, <1>3
  <2> QED  BY <2>1 DEF Apart, n
<1>6. Bare(Outer, world)
  BY <1>2, <1>3 DEF Bare, n
<1>7. Bare(Outer, Top.savepoint)
  BY <1>1, <1>2, <1>4 DEF Bare
<1>8. Top.creates => Begun(world, Top.address)
  BY <1>1 DEF Bare, n
<1> QED  BY <1>1, <1>2, <1>4, <1>5, <1>6, <1>7, <1>8

\* The innermost frame with other gas or another sub-state.
LEMMA TopAlike ==
    ASSUME SenderInv, Running, NEW f, f.address = Top.address, f.creates = Top.creates,
           f.savepoint = Top.savepoint
    PROVE  Alike([calls EXCEPT ![Len(calls)] = f], calls)
<1> DEFINE n == Len(calls)
           c == [calls EXCEPT ![n] = f]
<1>1. n \in Nat /\ n \in 1..n /\ calls \in Seq(FramesOf(trie, run)) /\ Top = calls[n] /\ DOMAIN calls = 1..n
  BY WhileRunning, LenProperties DEF Top
<1>2. Len(c) = n
  <2>1. calls \in Seq(FramesOf(trie, run) \cup {f})
    <3>1. \A i \in 1..n : calls[i] \in FramesOf(trie, run) \cup {f}
      BY <1>1, ElementOfSeq
    <3> QED  BY <1>1, <3>1
  <2> QED  BY <1>1, <2>1, ExceptSeq
<1>3. \A i \in 1..n : c[i] = IF i = n THEN f ELSE calls[i]
  BY <1>1
<1> HIDE DEF c
<1>4. Alike(c, calls)
  BY <1>1, <1>2, <1>3 DEF Alike
<1> QED  BY <1>4 DEF c

LEMMA StoreKeepsCode ==
    ASSUME SenderInv, Apart(calls), Bare(calls, world), NEW value \in StoredValue, Store(value)
    PROVE  CodeInv'
<1> DEFINE me == Top.address
           earned == Refund(trie[me].slot, world[me].slot, value)
           f == [Top EXCEPT !.sub.refunds = @ + earned]
<1>1. /\ Running /\ trie' = trie
      /\ world' = [world EXCEPT ![me].slot = value]
      /\ calls' = [calls EXCEPT ![Len(calls)].sub.refunds = @ + earned]
  BY DEF Store, Executes
<1>2. /\ Top \in FramesOf(trie, run) /\ calls \in Seq(FramesOf(trie, run)) /\ Len(calls) \in DOMAIN calls
      /\ world \in World
  BY <1>1, WhileRunning, LenProperties DEF WorldsOf
<1>3. calls' = [calls EXCEPT ![Len(calls)] = f]
  BY <1>1, <1>2 DEF Top
<1>4. f.address = Top.address /\ f.creates = Top.creates /\ f.savepoint = Top.savepoint
  BY <1>2 DEF FramesOf
<1> HIDE DEF f
<1>5. Alike(calls', calls)
  BY <1>1, <1>3, <1>4, TopAlike
<1>6. \A a \in Addr : Begun(world, a) => Begun(world', a)
  BY <1>1, <1>2 DEF World, Begun
<1>7. Bare(calls, world')
  BY <1>2, <1>6, BareOn
<1> QED  BY <1>5, <1>7, AlikeApart DEF CodeInv

\* The frame that calls or creates gives gas only.
LEMMA SpentBare ==
    ASSUME SenderInv, Running, Apart(calls), Bare(calls, world), NEW gas \in Int
    PROVE  Apart(Spent(gas)) /\ Bare(Spent(gas), world) /\ Spent(gas) \in Seq(FramesOf(trie, Step))
<1> DEFINE f == [Top EXCEPT !.gas = @ - gas]
<1>1. Top \in FramesOf(trie, run) /\ Len(calls) \in DOMAIN calls
  BY WhileRunning, LenProperties
<1>2. Spent(gas) = [calls EXCEPT ![Len(calls)] = f]
  BY <1>1 DEF Spent, Top
<1>3. f.address = Top.address /\ f.creates = Top.creates /\ f.savepoint = Top.savepoint
  BY <1>1 DEF FramesOf
<1> HIDE DEF f
<1>4. Alike(Spent(gas), calls)
  BY <1>2, <1>3, TopAlike
<1> QED  BY <1>4, AlikeApart, SpentFrames, StepRuns

LEMMA CallOutKeepsCode ==
    ASSUME SenderInv, Apart(calls), Bare(calls, world),
           NEW kind \in {"CALL", "CALLCODE", "DELEGATECALL", "STATICCALL"},
           NEW to \in Addr, NEW value \in 0..MaxAmount, NEW gas \in 0..MaxGas,
           CallOut(kind, to, value, gas)
    PROVE  CodeInv'
<1> DEFINE me == Top.address
           transfers == IF kind = "DELEGATECALL" THEN 0 ELSE value
           p == [to |-> to, address |-> IF kind \in {"CALL", "STATICCALL"} THEN to ELSE me,
                 sender |-> IF kind = "DELEGATECALL" THEN Top.sender ELSE me,
                 value |-> transfers, gas |-> gas, static |-> Top.static \/ kind = "STATICCALL"]
<1>1. Running /\ CallCode(Step, Spent(gas), world, p)
  BY DEF CallOut, Executes
<1>2. Top \in FramesOf(trie, run) /\ world \in World
  BY <1>1, WhileRunning DEF WorldsOf
<1>3. me \in Addr /\ Top.sender \in Addr /\ gas \in Int /\ value \in Int
  BY <1>2, ExecutionAssumption DEF FramesOf, Others
<1>4. p.sender \in Addr /\ p.address \in Addr /\ p.value \in Int
  BY <1>3
<1> HIDE DEF p
<1> QED  BY <1>1, <1>2, <1>3, <1>4, SpentBare, CallKeepsCode

LEMMA CreateOutKeepsCode ==
    ASSUME SenderInv, Running, Apart(calls), Bare(calls, world),
           NEW value \in 0..MaxAmount, NEW gas \in 0..MaxGas,
           NEW a \in SaltAddress(Top.address)
                       \cup {CreateAddress(Top.address, world[Top.address].nonce)},
           CreateOut(a, value, gas)
    PROVE  CodeInv'
<1> DEFINE me == Top.address
           w == IncNonce(world, me)
<1>1. world[me].nonce < MaxNonce /\ Create(Step, Spent(gas), w, a, me, value, gas)
  BY DEF CreateOut, Executes
<1>2. Top \in FramesOf(trie, run) /\ world \in World
  BY WhileRunning DEF WorldsOf
<1>3. me \in Addr /\ gas \in Int /\ value \in Int
  BY <1>2, ExecutionAssumption DEF FramesOf, Others
<1>4. a \in Addr
  <2>1. world[me].nonce \in 0..MaxNonce
    BY <1>1, <1>2, <1>3, ExecutionAssumption DEF World
  <2> QED  BY <1>3, <2>1, ExecutionAssumption
<1>5. w \in World /\ \A b \in Addr : Begun(world, b) => Begun(w, b)
  <2>1. /\ w \in World /\ w[me].nonce = world[me].nonce + 1 /\ w[me].code = world[me].code
        /\ \A b \in Addr \ {me} : w[b] = world[b]
    BY <1>2, <1>3, IncNonceWorld
  <2>2. world[me].nonce \in Nat
    BY <1>2, <1>3 DEF World
  <2> QED  BY <2>1, <2>2 DEF Begun
<1>6. Apart(Spent(gas)) /\ Bare(Spent(gas), world) /\ Spent(gas) \in Seq(FramesOf(trie, Step))
  BY <1>3, SpentBare
<1> HIDE DEF w
<1>7. Bare(Spent(gas), w)
  BY <1>5, <1>6, BareOn
<1> HIDE DEF me
<1> QED  BY <1>1, <1>3, <1>4, <1>5, <1>6, <1>7, CreateKeepsCode

\* A contract that destroys itself while it is created has no code afterwards.
LEMMA SelfDestructKeepsCode ==
    ASSUME SenderInv, Apart(calls), Bare(calls, world), NEW to \in Addr, SelfDestruct(to)
    PROVE  CodeInv'
<1> DEFINE me == Top.address
           w == Destructed(me, to)
           given == [world EXCEPT ![to].balance = @ + world[me].balance]
<1>1. Running /\ world' = IF Top.creates THEN [w EXCEPT ![me].code = NoCode] ELSE w
  BY DEF SelfDestruct, Executes
<1>2. \E left, sub : End(Step, Outer, left, sub, FALSE)
  BY DEF SelfDestruct
<1>3. Top \in FramesOf(trie, run) /\ world \in World /\ Outer \in Seq(FramesOf(trie, Step))
  BY <1>1, WhileRunning, StepRuns DEF WorldsOf
<1>4. me \in Addr
  BY <1>3 DEF FramesOf, Others
<1>5. w \in World /\ \A b \in Addr : w[b].nonce = world[b].nonce /\ w[b].code = world[b].code
  <2>1. world[to].balance + world[me].balance \in Int
    BY <1>3, <1>4 DEF World
  <2>2. given \in World /\ \A b \in Addr : given[b].nonce = world[b].nonce /\ given[b].code = world[b].code
    BY <1>3, <2>1, BalanceWorld
  <2>3. w = [given EXCEPT ![me].balance = 0]
    BY DEF Destructed
  <2> HIDE DEF given, w, me
  <2> QED  BY <1>4, <2>2, <2>3 DEF World
<1> HIDE DEF w, me
<1>6. \A b \in Addr : Begun(world, b) => Begun(world', b)
  BY <1>1, <1>4, <1>5 DEF World, Begun
<1>7. Apart(Outer) /\ Bare(Outer, world)
  BY <1>1, OuterBare
<1>8. Bare(Outer, world')
  BY <1>3, <1>6, <1>7, BareOn
<1> QED  BY <1>2, <1>3, <1>7, <1>8, EndKeepsCode, Zenon

\* The code that is deposited is that of an address no frame outside creates.
LEMMA HaltKeepsCode ==
    ASSUME SenderInv, Apart(calls), Bare(calls, world), Halt
    PROVE  /\ CodeInv'
           /\ \A a \in Addr : world[a].code # NoCode => world'[a].code = world[a].code
<1> DEFINE me == Top.address
<1>1. Running
  BY DEF Halt
<1>2. PICK c \in Code : /\ Top.creates \/ c = world[me].code
                        /\ world' = [world EXCEPT ![me].code = c]
  BY DEF Halt
<1>3. \E left, sub : End(run, Outer, left, sub, FALSE)
  BY DEF Halt
<1>4. /\ Top \in FramesOf(trie, run) /\ world \in World
      /\ Outer \in Seq(FramesOf(trie, run))
  BY <1>1, WhileRunning DEF WorldsOf
<1>5. me \in Addr
  BY <1>4 DEF FramesOf, Others
<1>6. /\ Apart(Outer) /\ Bare(Outer, world)
      /\ Top.creates => /\ Begun(world, me)
                        /\ \A i \in 1..Len(Outer) : Outer[i].creates => Outer[i].address # me
  BY <1>1, OuterBare
<1> HIDE DEF me
<1>7. \A b \in Addr : /\ world'[b].nonce = world[b].nonce
                      /\ world'[b].code = IF b = me THEN c ELSE world[b].code
  BY <1>2, <1>4, <1>5 DEF World
<1>8. Bare(Outer, world')
  <2> SUFFICES ASSUME NEW i \in 1..Len(Outer), Outer[i].creates
               PROVE  Begun(world', Outer[i].address)
    BY DEF Bare
  <2>1. Outer[i] \in FramesOf(trie, run)
    BY <1>4, ElementOfSeq
  <2>2. Outer[i].address \in Addr /\ Begun(world, Outer[i].address)
    BY <1>6, <2>1 DEF Bare, FramesOf, Others
  <2>3. Outer[i].address = me => c = world[me].code
    BY <1>2, <1>6
  <2> QED  BY <1>7, <2>2, <2>3 DEF Begun
<1>9. CodeInv'
  BY <1>3, <1>4, <1>6, <1>8, EndKeepsCode, Zenon
<1>10. \A a \in Addr : world[a].code # NoCode => world'[a].code = world[a].code
  BY <1>2, <1>6, <1>7 DEF Begun
<1> QED  BY <1>9, <1>10

LEMMA UndoKeepsCode ==
    ASSUME SenderInv, Apart(calls), Bare(calls, world), Undo
    PROVE  CodeInv'
<1>1. Running /\ world' = Top.savepoint
  BY DEF Undo, Undone
<1>2. \E left : End(run, Outer, left, NoSubState, TRUE)
  BY DEF Undo, Kept
<1>3. Outer \in Seq(FramesOf(trie, run))
  BY <1>1, WhileRunning
<1>4. Apart(Outer) /\ Bare(Outer, world')
  BY <1>1, OuterBare
<1> QED  BY <1>2, <1>3, <1>4, EndKeepsCode, Zenon

\* No frame is open when a run begins.
LEMMA NoneOpen ==
    ASSUME NEW w  PROVE Apart(<<>>) /\ Bare(<<>>, w)
BY DEF Apart, Bare

LEMMA RunTxKeepsCode ==
    ASSUME SenderInv, NEW s \in Signer, NEW to \in Addr, NEW creates \in BOOLEAN,
           NEW value \in 0..MaxAmount, NEW gas \in 0..MaxGas, RunTx(s, to, creates, value, gas)
    PROVE  CodeInv'
<1> DEFINE r == Begin("tx", s, gas)
           p == [to |-> to, address |-> to, sender |-> s, value |-> value, gas |-> gas, static |-> FALSE]
           w == Paid(s, Cost(gas))
           a == CreateAddress(s, trie[s].nonce)
<1>1. /\ trie \in World /\ s \in Addr /\ value \in Int /\ gas \in Int
      /\ <<>> \in Seq(FramesOf(trie, r)) /\ Cost(gas) \in Int
  BY ExecutionAssumption DEF SenderInv, Cost
<1>2. r \in Runs /\ r.sender = s
  BY <1>1, BeginTx
<1>3. trie[s].code = NoCode /\ trie[s].nonce < MaxNonce
  BY DEF RunTx
<1>4. w \in World
  <2>1. w \in WorldsOf(trie, r)
    BY <1>1, <1>2, <1>3, PaidFollows
  <2> QED  BY <2>1 DEF WorldsOf
<1>5. a \in Addr
  <2>1. trie[s].nonce \in 0..MaxNonce
    BY <1>1, <1>3, ExecutionAssumption DEF World
  <2> QED  BY <1>1, <2>1, ExecutionAssumption
<1>6. CallCode(r, <<>>, w, p) \/ Create(r, <<>>, w, a, s, value, gas)
  BY DEF RunTx
<1>7. p.sender \in Addr /\ p.address \in Addr /\ p.value \in Int
  BY <1>1
<1> HIDE DEF r, p, w, a
<1>8. Apart(<<>>) /\ Bare(<<>>, w)
  BY NoneOpen
<1>9. CASE CallCode(r, <<>>, w, p)
  BY <1>1, <1>4, <1>7, <1>8, <1>9, CallKeepsCode
<1>10. CASE Create(r, <<>>, w, a, s, value, gas)
  BY <1>1, <1>4, <1>5, <1>8, <1>10, CreateKeepsCode
<1> QED  BY <1>6, <1>9, <1>10

\* An upgrade is the run that may replace code; it is left out.
LEMMA RunMessageKeepsCode ==
    ASSUME SenderInv, NEW kind \in {"call", "create", "upgrade"}, NEW s \in Caller,
           NEW to \in Addr, NEW value \in 0..MaxAmount, NEW gas \in 0..MaxGas,
           RunMessage(kind, s, to, value, gas)
    PROVE  CodeInv'
<1> DEFINE r == Begin("message", s, gas)
           u == [r EXCEPT !.kind = "upgrade"]
           p == [to |-> to, address |-> to, sender |-> s, value |-> value, gas |-> gas, static |-> FALSE]
           a == CreateAddress(s, trie[s].nonce - 1)
<1>1. /\ trie \in World /\ s \in Addr /\ value \in Int /\ gas \in Int
      /\ <<>> \in Seq(FramesOf(trie, r))
  BY ExecutionAssumption DEF SenderInv
<1>2. u \in Runs /\ u.kind = "upgrade"
  <2>1. r \in Runs
    BY <1>1, BeginMessage
  <2> QED  BY <2>1 DEF Runs
<1>3. Apart(<<>>) /\ Bare(<<>>, trie)
  BY NoneOpen
<1>4. CASE CallCode(r, <<>>, trie, p)
  <2>1. p.sender \in Addr /\ p.address \in Addr /\ p.value \in Int
    BY <1>1
  <2> HIDE DEF r, p
  <2> QED  BY <1>1, <1>3, <1>4, <2>1, CallKeepsCode
<1>5. CASE trie[s].nonce \in 1..MaxNonce /\ Create(r, <<>>, trie, a, s, value, gas)
  <2> DEFINE n == trie[s].nonce - 1
  <2>1. n \in 0..MaxNonce
    <3>1. MaxNonce \in Int
      BY ExecutionAssumption
    <3> QED  BY <1>5, <3>1
  <2> HIDE DEF n
  <2>2. CreateAddress(s, n) \in Addr
    BY <1>1, <2>1, ExecutionAssumption, SMT
  <2>3. a \in Addr
    BY <2>2, Zenon DEF n
  <2> HIDE DEF r, a
  <2> QED  BY <1>1, <1>3, <1>5, <2>3, CreateKeepsCode
<1>6. CASE Upgrade(u, trie, to, s, value, gas)
  <2> HIDE DEF u
  <2>1. (\E left, failed : End(u, <<>>, left, NoSubState, failed)) \/ run' = u
    BY <1>6 DEF Upgrade, Enter
  <2>2. run'.kind = "upgrade"
    BY <1>2, <2>1, EndKind
  <2> QED  BY <2>2 DEF CodeInv
<1> QED  BY <1>4, <1>5, <1>6 DEF RunMessage

LEMMA CodeInvNext ==
    ASSUME SenderInv, CodeInv, ExecutionNext
    PROVE  CodeInv'
<1>1. CASE \E s \in Signer, to \in Addr, creates \in BOOLEAN, value \in 0..MaxAmount :
             \E gas \in 0..MaxGas : RunTx(s, to, creates, value, gas)
  BY <1>1, RunTxKeepsCode
<1>2. CASE \E kind \in {"call", "create", "upgrade"}, s \in Caller, to \in Addr,
             value \in 0..MaxAmount, gas \in 0..MaxGas :
             RunMessage(kind, s, to, value, gas)
  BY <1>2, RunMessageKeepsCode
<1>3. CASE \E kept \in BOOLEAN : Finalize(kept)
  BY <1>3 DEF Finalize, CodeInv
<1>4. CASE Throw
  BY <1>4 DEF Throw, CodeInv
<1>5. CASE Running /\ run.kind = "upgrade"
  <2>1. run' = NoRun \/ run'.kind = "upgrade"
    BY <1>5, KindStays
  <2> QED  BY <2>1 DEF CodeInv
<1>6. CASE Running /\ run.kind # "upgrade"
  <2>1. Apart(calls) /\ Bare(calls, world)
    BY <1>6 DEF CodeInv, Running
  <2>2. CASE \E value \in StoredValue : Store(value)
    BY <2>1, <2>2, StoreKeepsCode
  <2>3. CASE \E kind \in {"CALL", "CALLCODE", "DELEGATECALL", "STATICCALL"}, to \in Addr,
               value \in 0..MaxAmount : \E gas \in 0..MaxGas : CallOut(kind, to, value, gas)
    BY <2>1, <2>3, CallOutKeepsCode
  <2>4. CASE \E value \in 0..MaxAmount, gas \in 0..MaxGas :
               \E a \in SaltAddress(Top.address)
                           \cup {CreateAddress(Top.address, world[Top.address].nonce)} :
                   CreateOut(a, value, gas)
    BY <1>6, <2>1, <2>4, CreateOutKeepsCode
  <2>5. CASE \E to \in Addr : SelfDestruct(to)
    BY <2>1, <2>5, SelfDestructKeepsCode
  <2>6. CASE Halt
    BY <2>1, <2>6, HaltKeepsCode
  <2>7. CASE Undo
    BY <2>1, <2>7, UndoKeepsCode
  <2> QED  BY <1>1, <1>2, <1>3, <1>4, <2>2, <2>3, <2>4, <2>5, <2>6, <2>7 DEF ExecutionNext
<1>7. ~Running => ~(\/ \E value : Store(value)
                    \/ \E kind, to, value, gas : CallOut(kind, to, value, gas)
                    \/ \E to : SelfDestruct(to)
                    \/ Halt \/ Undo)
  BY DEF Store, CallOut, SelfDestruct, Halt, Undo, Executes
<1> QED  BY <1>1, <1>2, <1>3, <1>4, <1>5, <1>6, <1>7 DEF ExecutionNext
-----------------------------------------------------------------------------
\* Whatever calls and creates whatever: when a frame halts, the code it deposits is
\* at an address without code, but in an upgrade (Executive::executeCreate, which
\* looks for a nonce or code, and go(), which sets the code at the end).
THEOREM CodeStays == ExecutionSpec => CodeIsNotReplaced
<1>1. ExecutionInit => CodeInv
  BY DEF ExecutionInit, CodeInv
<1>2. SenderInv /\ CodeInv /\ [ExecutionNext]_execVars => CodeInv'
  <2>1. CodeInv /\ UNCHANGED execVars => CodeInv'
    BY DEF CodeInv, execVars, Apart, Bare, Begun
  <2> QED  BY <2>1, CodeInvNext
<1>3. ASSUME SenderInv, CodeInv, Halt, run.kind # "upgrade"
      PROVE  \A a \in Addr : world[a].code # NoCode => world'[a].code = world[a].code
  <2>1. Apart(calls) /\ Bare(calls, world)
    BY <1>3 DEF CodeInv, Halt, Running
  <2> QED  BY <1>3, <2>1, HaltKeepsCode
<1>4. SenderInv /\ CodeInv =>
        [Halt /\ run.kind # "upgrade" =>
            \A a \in Addr : world[a].code # NoCode => world'[a].code = world[a].code]_execVars
  BY <1>3
<1> QED  BY <1>1, <1>2, <1>4, SenderIsUsed, PTL DEF ExecutionSpec, CodeIsNotReplaced
=============================================================================
