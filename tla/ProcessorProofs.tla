--------------------------- MODULE ProcessorProofs ---------------------------
(***************************************************************************)
(* Theorems about the running node, for any number of clients, solvers,    *)
(* accounts and transactions, any thresholds and any mempool size.         *)
(***************************************************************************)
EXTENDS ProcessorProperties, DagFacts, SequenceTheorems

-----------------------------------------------------------------------------
(* The ledger.                                                             *)

\* The burn counter and the burn balance agree (new_with_storage relies on it).
BurnOK(l) == l.burned = l.bal[Burn]

LEMMA CostNat ==
    ASSUME NEW t \in Tx
    PROVE  Cost(t) \in Nat /\ Fee[t] \in Nat /\ Amount[t] \in Nat
                /\ Sender[t] \in Addr /\ Receiver[t] \in Addr
                /\ AccountNonce[t] \in Nat
BY TransactionsAssumption DEF TransactionsAssumption, Cost

\* A transfer that fits keeps every balance and the burn counter in u64.
LEMMA TransferType ==
    ASSUME NEW l \in LedgerType, NEW t \in Tx, TransferFits(l, t)
    PROVE  Transfer(l, t) \in LedgerType
<1> USE LedgerAssumption, TransactionsAssumption DEF LedgerAssumption,
        TransactionsAssumption
<1>1. U64Max \in Nat /\ l.bal \in [Addr -> 0 .. U64Max]
      /\ l.burned \in 0 .. U64Max
      /\ Burn \in Addr /\ l.nonce \in [Addr -> Nat] /\ l.supply \in 0 .. U64Max
  BY DEF LedgerType, U64
<1>2. Amount[t] \in Nat /\ Fee[t] \in Nat /\ Sender[t] \in Addr
      /\ Receiver[t] \in Addr
  OBVIOUS
<1>3. l.burned + Fee[t] \in 0 .. U64Max /\ l.bal[Burn] + Fee[t] \in 0 .. U64Max
  BY <1>1, <1>2 DEF TransferFits, FeeFits
<1>4. l.bal[Sender[t]] - Debit(t) \in 0 .. U64Max
  BY <1>1, <1>2 DEF TransferFits, Debit, Cost
<1>5. Sender[t] # Receiver[t] => l.bal[Receiver[t]] + Amount[t] \in 0 .. U64Max
  BY <1>1, <1>2 DEF TransferFits
<1> DEFINE b == [a \in Addr |->
            IF a = Burn             THEN l.bal[a] + Fee[t]
            ELSE IF a = Sender[t]   THEN l.bal[a] - Debit(t)
            ELSE IF a = Receiver[t] THEN l.bal[a] + Amount[t]
            ELSE l.bal[a]]
<1>6. b \in [Addr -> 0 .. U64Max]
  <2> SUFFICES ASSUME NEW a \in Addr
               PROVE  b[a] \in 0 .. U64Max
    OBVIOUS
  <2> QED BY <1>1, <1>3, <1>4, <1>5
<1>7. Transfer(l, t) = [l EXCEPT !.bal = b, !.burned = l.burned + Fee[t]]
  BY DEF Transfer
<1> HIDE DEF b
<1> QED BY <1>1, <1>3, <1>6, <1>7 DEF LedgerType, U64

LEMMA CommitNonceType ==
    ASSUME NEW l \in LedgerType, NEW t \in Tx
    PROVE  CommitNonce(l, t) \in LedgerType
BY CostNat DEF CommitNonce, LedgerType

LEMMA RewardNat ==
    ASSUME NEW h \in Nat
    PROVE  CalculateReward(h) \in Nat
<1>1. h \div HalvingInterval \in Nat
  BY LedgerAssumption DEF LedgerAssumption
<1> QED BY <1>1, LedgerAssumption DEF LedgerAssumption, CalculateReward

\* A reward within the cap keeps the supply and the validator's balance in u64.
LEMMA CreditType ==
    ASSUME NEW l \in LedgerType, NEW v \in Addr, NEW n \in Nat,
           RewardFits(l, v, n)
    PROVE  /\ CreditReward(l, v, n) \in LedgerType
           /\ CreditReward(l, v, n).supply <= MaxSupply
<1>1. U64Max \in Nat /\ MaxSupply \in 0 .. U64Max
  BY LedgerAssumption DEF LedgerAssumption
<1>2. l.bal[v] + n \in U64 /\ l.supply + n \in U64
  BY <1>1 DEF RewardFits, U64, LedgerType
<1> QED BY <1>1, <1>2 DEF CreditReward, LedgerType, RewardFits

LEMMA SubtractType ==
    ASSUME NEW l \in LedgerType, NEW a \in Addr, NEW n \in Nat, l.bal[a] >= n
    PROVE  Subtract(l, a, n) \in LedgerType
<1>1. l.bal[a] - n \in U64
  BY LedgerAssumption DEF LedgerAssumption, U64, LedgerType
<1> QED BY <1>1 DEF Subtract, LedgerType

LEMMA AddBalanceType ==
    ASSUME NEW l \in LedgerType, NEW a \in Addr, NEW n \in Nat, AddFits(l, a, n)
    PROVE  AddBalance(l, a, n) \in LedgerType
<1>1. l.bal[a] + n \in U64
  BY LedgerAssumption DEF LedgerAssumption, U64, LedgerType, AddFits
<1> QED BY <1>1 DEF AddBalance, LedgerType

-----------------------------------------------------------------------------
\* No operation separates the burn counter from the burn balance: a payment
\* adds the fee to both, even one that is addressed to the burn address.
LEMMA TransferBurn ==
    ASSUME NEW l \in LedgerType, NEW t \in Tx, BurnOK(l)
    PROVE  BurnOK(CommitNonce(Transfer(l, t), t))
<1>1. Burn \in Addr
  BY TransactionsAssumption DEF TransactionsAssumption
<1>2. BurnOK(Transfer(l, t))
  BY <1>1 DEF BurnOK, Transfer, LedgerType
<1> QED BY <1>2 DEF BurnOK, CommitNonce, Transfer, LedgerType

LEMMA MovesBurn ==
    ASSUME NEW l \in LedgerType, NEW a \in Addr \ {Burn}, NEW n \in Nat,
           BurnOK(l)
    PROVE  /\ BurnOK(CreditReward(l, a, n))
           /\ BurnOK(Subtract(l, a, n))
           /\ BurnOK(AddBalance(l, a, n))
BY TransactionsAssumption DEF TransactionsAssumption, BurnOK, CreditReward,
   Subtract, AddBalance, LedgerType

-----------------------------------------------------------------------------
(* Helpers.                                                                *)
\* A full mempool is not empty: its victim is one of its positions.
LEMMA VictimInPool ==
    ASSUME mempool \in Seq(Tx), Full
    PROVE  Victim \in DOMAIN mempool
<1>1. Len(mempool) \in Nat /\ DOMAIN mempool = 1 .. Len(mempool)
  OBVIOUS
<1>2. 1 \in DOMAIN mempool
  BY <1>1, FeeAssumption DEF Full, FeeAssumption
<1>3. \A i \in DOMAIN mempool : mempool[i] \in Tx /\ Fee[mempool[i]] \in Nat
  BY <1>1, CostNat
<1>4. \E f \in PoolFees : \A g \in PoolFees : f <= g
  <2>1. PoolFees \subseteq Nat /\ PoolFees # {}
    BY <1>2, <1>3 DEF PoolFees
  <2> QED BY <2>1, NatMin
<1>5. LowestFee \in PoolFees
  BY <1>4 DEF LowestFee
<1> DEFINE S == {i \in DOMAIN mempool : Fee[mempool[i]] = LowestFee}
<1>6. \E i \in S : \A j \in S : i <= j
  <2>1. S \subseteq Nat /\ S # {}
    BY <1>1, <1>5 DEF PoolFees
  <2> QED BY <2>1, NatMin
<1> QED BY <1>6 DEF Victim

LEMMA AddInternalType ==
    ASSUME mempool \in Seq(Tx), NEW t \in Tx
    PROVE  AddInternal(t) \in Seq(Tx)
<1>1. CASE ~Full
  BY <1>1, AppendProperties DEF AddInternal
<1>2. CASE Full
  <2>1. Victim \in 1 .. Len(mempool) /\ Len(mempool) \in Nat
    BY <1>2, VictimInPool
  <2>2. SubSeq(mempool, 1, Victim - 1) \in Seq(Tx)
    BY <2>1, SubSeqProperties
  <2>3. SubSeq(mempool, Victim + 1, Len(mempool)) \in Seq(Tx)
    BY <2>1, SubSeqProperties
  <2>4. RemoveAt(mempool, Victim) \in Seq(Tx)
    BY <2>2, <2>3, ConcatProperties DEF RemoveAt
  <2> QED BY <1>2, <2>4, AppendProperties DEF AddInternal
<1> QED BY <1>1, <1>2

LEMMA InitLedgerType == InitLedger \in LedgerType
<1>1. 0 \in U64
  BY LedgerAssumption DEF LedgerAssumption, U64
<1> QED BY <1>1, ProcessorAssumption 
       DEF InitLedger, LedgerType, ProcessorAssumption

LEMMA IdleType == Idle \in CallType /\ [Idle EXCEPT !.pc = "batch"] \in CallType
BY DEF Idle, CallType, Phases

LEMMA FinishType ==
    ASSUME call \in [Workers -> CallType], NEW w \in Workers, Finish(w)
    PROVE  call' \in [Workers -> CallType]
BY IdleType DEF Finish

LEMMA GotoType ==
    ASSUME call \in [Workers -> CallType], NEW w \in Workers,
           NEW phase \in Phases, Goto(w, phase)
    PROVE  call' \in [Workers -> CallType]
BY DEF Goto, CallType

LEMMA LeaveBatchType ==
    ASSUME batch \in [Solvers -> SUBSET Tx], NEW w \in Workers, NEW t \in Tx,
           LeaveBatch(w, t)
    PROVE  batch' \in [Solvers -> SUBSET Tx]
BY DEF LeaveBatch

LEMMA ResolveType ==
    ASSUME orphans \in SUBSET Tx, NEW w, NEW final, Resolve(w, final)
    PROVE  orphans' \in SUBSET Tx
BY DEF Resolve

LEMMA AdjustedType ==
    ASSUME NEW fee \in Nat, NEW n \in Nat
    PROVE  Adjusted(fee, n) \in Nat
<1>1. FeeCap \in Nat /\ PoolSize \in Nat
  BY FeeAssumption DEF FeeAssumption
<1>2. (fee * 3) \div 2 \in Nat /\ fee \div 2 \in Nat
  OBVIOUS
<1> QED BY <1>1, <1>2 DEF Adjusted

\* A phase in which the call has a transaction.
LEMMA CallHasType ==
    ASSUME TypeOK, NEW w \in Workers
    PROVE  /\ call[w].pc \in Phases
           /\ call[w].tx \in Tx \cup {NoTx}
           /\ call[w].minFee \in Nat
BY DEF TypeOK, CallType

-----------------------------------------------------------------------------
(* Types.  A call that is under way has a transaction, and the one that    *)
(* holds STEP 1's verdict has a valid one.                                 *)
CallsCarry ==
    \A w \in Workers :
        /\ call[w].pc \notin {"idle", "batch"} => call[w].tx \in Tx
        /\ call[w].pc = "validated" => call[w].tx \in PureValid

Typed == TypeOK /\ CallsCarry

LEMMA FinishTyped ==
    ASSUME Typed, NEW w \in Workers, Finish(w)
    PROVE  call' \in [Workers -> CallType] /\ CallsCarry'
<1>1. call \in [Workers -> CallType]
  BY DEF Typed, TypeOK
<1>2. call' \in [Workers -> CallType]
  BY <1>1, FinishType
<1>3. call'[w].pc \in {"idle", "batch"}
  BY <1>1, IdleType DEF Finish, Idle
<1>4. \A v \in Workers \ {w} : call'[v] = call[v]
  BY <1>1 DEF Finish
<1> QED BY <1>2, <1>3, <1>4 DEF Typed, CallsCarry

LEMMA GotoTyped ==
    ASSUME Typed, NEW w \in Workers, NEW phase \in Phases, Goto(w, phase),
           call[w].tx \in Tx,
           phase = "validated" => call[w].tx \in PureValid
    PROVE  call' \in [Workers -> CallType] /\ CallsCarry'
<1>1. call \in [Workers -> CallType]
  BY DEF Typed, TypeOK
<1>2. call' \in [Workers -> CallType]
  BY <1>1, GotoType
<1>3. call'[w].pc = phase /\ call'[w].tx = call[w].tx
  BY <1>1 DEF Goto, CallType
<1>4. \A v \in Workers \ {w} : call'[v] = call[v]
  BY <1>1 DEF Goto
<1> QED BY <1>2, <1>3, <1>4 DEF Typed, CallsCarry

LEMMA SameCallsTyped ==
    ASSUME Typed, call' = call
    PROVE  call' \in [Workers -> CallType] /\ CallsCarry'
BY DEF Typed, TypeOK, CallsCarry

LEMMA TypeInit == Init => Typed
<1> SUFFICES ASSUME Init PROVE Typed
  OBVIOUS
<1>1. dag \in DagType
  BY EmptyFormed DEF Init
<1>2. ledger \in LedgerType /\ snap \in LedgerType
  BY InitLedgerType DEF Init
<1>3. mempool \in Seq(Tx)
  BY DEF Init
<1>4. cons \in ConsType /\ settling \in SUBSET Pending
  BY DEF Init, InitCons, ConsType
<1>5. call \in [Workers -> CallType] /\ CallsCarry
  BY IdleType DEF Init, CallsCarry, Idle
<1>6. /\ poolFee \in Nat /\ oracle \in Nat /\ orphans \in SUBSET Tx
      /\ staked \in [Stakers -> [amount : Nat, paid : Nat]]
      /\ batch \in [Solvers -> SUBSET Tx]
      /\ mined \in Tx \cup {NoTx}
  BY DEF Init
<1> QED BY <1>1, <1>2, <1>3, <1>4, <1>5, <1>6 DEF Typed, TypeOK

\* One lemma for each group of actions, then the step.
LEMMA EnterTyped ==
    ASSUME Typed, NEW w \in Workers, Enter(w)
    PROVE  Typed'
<1> USE DEF Typed
<1>1. ASSUME NEW t \in Tx, SubmitMissing(w, t) PROVE Typed'
  <2>1. call' \in [Workers -> CallType] /\ CallsCarry'
    BY <1>1 DEF SubmitMissing, TypeOK, CallType, Phases, CallsCarry
  <2>2. batch' \in [Solvers -> SUBSET Tx]
    BY <1>1, LeaveBatchType DEF SubmitMissing, TypeOK
  <2> QED BY <1>1, <2>1, <2>2 DEF SubmitMissing, TypeOK
<1>2. ASSUME NEW t \in Tx, SubmitReady(w, t) PROVE Typed'
  <2> DEFINE base == IF w \in RpcClients THEN oracle ELSE 1
  <2>1. PICK fee \in {base, Adjusted(base, Len(mempool))} :
            /\ oracle' = IF w \in RpcClients THEN fee ELSE oracle
            /\ poolFee' = fee
            /\ call' = [call EXCEPT ![w] =
                           [pc |-> "waiting", tx |-> t, minFee |-> fee]]
    BY <1>2 DEF SubmitReady
  <2>2. fee \in Nat
    <3>1. base \in Nat /\ Len(mempool) \in Nat
      BY DEF TypeOK
    <3> HIDE DEF base
    <3> QED BY <3>1, AdjustedType
  <2>3. call' \in [Workers -> CallType] /\ CallsCarry'
    BY <2>1, <2>2 DEF TypeOK, CallType, Phases, CallsCarry
  <2>4. batch' \in [Solvers -> SUBSET Tx]
    BY <1>2, LeaveBatchType DEF SubmitReady, TypeOK
  <2>5. oracle' \in Nat /\ poolFee' \in Nat
    BY <2>1, <2>2 DEF TypeOK
  <2> QED BY <1>2, <2>3, <2>4, <2>5 DEF SubmitReady, TypeOK
<1>3. ASSUME StoreOrphan(w) PROVE Typed'
  <2>1. call' \in [Workers -> CallType] /\ CallsCarry'
    BY <1>3, FinishTyped DEF StoreOrphan
  <2>2. orphans' \in SUBSET Tx
    BY <1>3 DEF StoreOrphan, TypeOK, CallsCarry
  <2> QED BY <1>3, <2>1, <2>2 DEF StoreOrphan, TypeOK
<1> QED BY <1>1, <1>2, <1>3 DEF Enter

LEMMA AppliedType ==
    ASSUME Typed, NEW t \in Tx, Applicable(t)
    PROVE  /\ CommitNonce(Transfer(ledger, t), t) \in LedgerType
           /\ AddTx(dag, t) \in DagType
<1>1. Transfer(ledger, t) \in LedgerType
  BY TransferType DEF Typed, TypeOK, Applicable
<1> QED BY <1>1, CommitNonceType, AddTxType DEF Typed, TypeOK

LEMMA QueueType ==
    ASSUME Typed, NEW t \in Tx
    PROVE  Queue(cons, t) \in ConsType
<1>1. cons.height + 1 \in Nat /\ cons \in ConsType
  BY DEF Typed, TypeOK, ConsType
<1>2. [block |-> t, height |-> cons.height + 1] \in Pending
  BY <1>1 DEF Pending
<1> QED BY <1>1, <1>2 DEF Queue, ConsType

LEMMA PipelineTyped ==
    ASSUME Typed, NEW w \in Workers, Pipeline(w)
    PROVE  Typed'
<1> USE DEF Typed
<1>1. ASSUME Validate(w) PROVE Typed'
  <2>1. "validated" \in Phases /\ call[w].tx \in Tx
    BY <1>1 DEF Validate, Phases, CallsCarry
  <2>2. call' \in [Workers -> CallType] /\ CallsCarry'
    BY <1>1, <2>1, GotoTyped DEF Validate, ValidFull
  <2> QED BY <1>1, <2>2 DEF Validate, TypeOK
<1>2. ASSUME Reject(w) PROVE Typed'
  <2>1. call' \in [Workers -> CallType] /\ CallsCarry'
    BY <1>2, FinishTyped DEF Reject
  <2>2. orphans' \in SUBSET Tx
    BY <1>2, ResolveType DEF Reject, TypeOK
  <2> QED BY <1>2, <2>1, <2>2 DEF Reject, TypeOK
<1>3. ASSUME LockBusy(w) PROVE Typed'
  <2>1. call' \in [Workers -> CallType] /\ CallsCarry'
    BY <1>3, FinishTyped DEF LockBusy
  <2> QED BY <1>3, <2>1 DEF LockBusy, TypeOK
<1>4. ASSUME ApplyFails(w) PROVE Typed'
  <2>1. call' \in [Workers -> CallType] /\ CallsCarry'
    BY <1>4, FinishTyped DEF ApplyFails
  <2>2. orphans' \in SUBSET Tx
    BY <1>4, ResolveType DEF ApplyFails, TypeOK
  <2> QED BY <1>4, <2>1, <2>2 DEF ApplyFails, TypeOK
<1>5. ASSUME Apply(w) PROVE Typed'
  <2>1. "settle" \in Phases /\ call[w].tx \in Tx
    BY <1>5 DEF Apply, Phases, CallsCarry
  <2>2. call' \in [Workers -> CallType] /\ CallsCarry'
    BY <1>5, <2>1, GotoTyped DEF Apply
  <2>3. /\ ledger' \in LedgerType /\ dag' \in DagType /\ snap' \in LedgerType
        /\ cons' \in ConsType
    BY <1>5, <2>1, AppliedType, QueueType DEF Apply, TypeOK
  <2>4. settling' \in SUBSET Pending
    BY <1>5, <2>3 DEF Apply, FinalizedPending, ConsType
  <2> QED BY <1>5, <2>2, <2>3, <2>4 DEF Apply, TypeOK
<1>7. ASSUME NEW r \in settling, Settle(w, r) PROVE Typed'
  <2>1. call' \in [Workers -> CallType] /\ CallsCarry'
    BY <1>7, SameCallsTyped DEF Settle
  <2>2. r \in Pending /\ r.block \in Tx /\ r.height \in Nat
    BY DEF TypeOK, Pending
  <2>3. settling' \in SUBSET Pending
    BY <1>7 DEF Settle, TypeOK
  <2>4. Miner \in Addr
    BY <1>7, ProcessorAssumption DEF Settle, ProcessorAssumption
  <2>5. ASSUME CanSettle(r)
        PROVE  ledger' \in LedgerType /\ cons' \in ConsType
    <3>1. ledger' \in LedgerType
      BY <1>7, <2>2, <2>4, <2>5, RewardNat, CreditType
      DEF Settle, CanSettle, TypeOK
    <3>2. cons' = [cons EXCEPT !.rewarded = cons.rewarded \cup {r.block},
                     !.pending = {q \in cons.pending : q.block # r.block}]
      BY <1>7, <2>5 DEF Settle, Settled
    <3>3. /\ cons \in ConsType
          /\ cons.rewarded \cup {r.block} \in SUBSET Tx
          /\ {q \in cons.pending : q.block # r.block} \in SUBSET Pending
      BY <2>2 DEF TypeOK, ConsType
    <3>4. cons' \in ConsType
      BY <3>2, <3>3 DEF ConsType
    <3> QED BY <3>1, <3>4
  <2>6. ASSUME ~CanSettle(r)
        PROVE  ledger' \in LedgerType /\ cons' \in ConsType
    BY <1>7, <2>6 DEF Settle, TypeOK
  <2>7. UNCHANGED <<dag, mempool, poolFee, oracle, orphans, staked, batch, snap,
                    mined>>
    BY <1>7 DEF Settle
  <2> QED BY <2>1, <2>3, <2>5, <2>6, <2>7 DEF TypeOK
<1>8. ASSUME Admit(w) PROVE Typed'
  <2>1. "save" \in Phases /\ call[w].tx \in Tx
    BY <1>8 DEF Admit, Phases, CallsCarry
  <2>2. call' \in [Workers -> CallType] /\ CallsCarry'
    BY <1>8, <2>1, GotoTyped DEF Admit
  <2>3. mempool' \in Seq(Tx)
    BY <1>8, <2>1, AddInternalType DEF Admit, TypeOK
  <2> QED BY <1>8, <2>2, <2>3 DEF Admit, TypeOK
<1>9. ASSUME AdmitFails(w) PROVE Typed'
  <2>1. call' \in [Workers -> CallType] /\ CallsCarry'
    BY <1>9, FinishTyped DEF AdmitFails
  <2>2. snap' \in LedgerType /\ settling' \in SUBSET Pending
    BY <1>9, InitLedgerType DEF AdmitFails, DropSnapshot, TypeOK
  <2> QED BY <1>9, <2>1, <2>2 DEF AdmitFails, Rollback, TypeOK
<1>10. ASSUME Save(w) PROVE Typed'
  <2>1. "putTx" \in Phases /\ call[w].tx \in Tx
    BY <1>10 DEF Save, Phases, CallsCarry
  <2>2. call' \in [Workers -> CallType] /\ CallsCarry'
    BY <1>10, <2>1, GotoTyped DEF Save
  <2> QED BY <1>10, <2>2 DEF Save, TypeOK
<1>11. ASSUME SaveFails(w) PROVE Typed'
  <2>1. call' \in [Workers -> CallType] /\ CallsCarry'
    BY <1>11, FinishTyped DEF SaveFails
  <2>2. snap' \in LedgerType /\ settling' \in SUBSET Pending
    BY <1>11, InitLedgerType DEF SaveFails, DropSnapshot, TypeOK
  <2> QED BY <1>11, <2>1, <2>2 DEF SaveFails, TypeOK
<1>12. ASSUME PutTx(w) PROVE Typed'
  <2>1. "putCons" \in Phases /\ call[w].tx \in Tx
    BY <1>12 DEF PutTx, Phases, CallsCarry
  <2>2. call' \in [Workers -> CallType] /\ CallsCarry'
    BY <1>12, <2>1, GotoTyped DEF PutTx
  <2> QED BY <1>12, <2>2 DEF PutTx, TypeOK
<1>13. ASSUME PutCons(w) PROVE Typed'
  <2>1. "publish" \in Phases /\ call[w].tx \in Tx
    BY <1>13 DEF PutCons, Phases, CallsCarry
  <2>2. call' \in [Workers -> CallType] /\ CallsCarry'
    BY <1>13, <2>1, GotoTyped DEF PutCons
  <2>3. snap' \in LedgerType /\ settling' \in SUBSET Pending
    BY <1>13, InitLedgerType DEF PutCons, DropSnapshot
  <2> QED BY <1>13, <2>2, <2>3 DEF PutCons, TypeOK
<1>14. ASSUME Publish(w) PROVE Typed'
  <2>1. call' \in [Workers -> CallType] /\ CallsCarry'
    BY <1>14, FinishTyped DEF Publish
  <2>2. orphans' \in SUBSET Tx
    BY <1>14, ResolveType DEF Publish, TypeOK
  <2> QED BY <1>14, <2>1, <2>2 DEF Publish, TypeOK
<1> QED BY <1>1, <1>2, <1>3, <1>4, <1>5, <1>7, <1>8, <1>9, <1>10, <1>11,
           <1>12, <1>13, <1>14 DEF Pipeline

LEMMA SolveTyped ==
    ASSUME Typed, NEW s \in Solvers, Solve(s)
    PROVE  Typed'
<1> USE DEF Typed
<1>0. s \in Workers
  BY DEF Workers
<1>1. ASSUME StartBatch(s) PROVE Typed'
  <2>1. "batch" \in Phases /\ orphans' \in SUBSET Tx
    BY <1>1 DEF StartBatch, StartBatchWith, TypeOK, Phases
  <2>2. call' = [call EXCEPT ![s].pc = "batch"]
    BY <1>1 DEF StartBatch, StartBatchWith, Goto
  <2>3. call' \in [Workers -> CallType]
    BY <1>0, <2>1, <2>2 DEF TypeOK, CallType
  <2>4. CallsCarry'
    BY <1>0, <2>2 DEF TypeOK, CallType, CallsCarry
  <2>5. batch' \in [Solvers -> SUBSET Tx]
    BY <1>1, <2>1 DEF StartBatch, StartBatchWith, TypeOK
  <2>6. UNCHANGED <<dag, ledger, mempool, poolFee, oracle, cons, staked, snap,
                    settling, mined>>
    BY <1>1 DEF StartBatch, StartBatchWith
  <2> QED BY <2>1, <2>3, <2>4, <2>5, <2>6 DEF TypeOK
<1>2. ASSUME NEW t \in Tx, SkipOrphan(s, t) PROVE Typed'
  <2>1. call' \in [Workers -> CallType] /\ CallsCarry'
    BY <1>2, SameCallsTyped DEF SkipOrphan
  <2>2. batch' \in [Solvers -> SUBSET Tx]
    BY <1>0, <1>2, LeaveBatchType DEF SkipOrphan, TypeOK
  <2> QED BY <1>2, <2>1, <2>2 DEF SkipOrphan, TypeOK
<1>3. ASSUME EndBatch(s) PROVE Typed'
  <2>1. call' \in [Workers -> CallType] /\ CallsCarry'
    BY <1>0, <1>3, IdleType DEF EndBatch, TypeOK, CallsCarry, Idle
  <2> QED BY <1>3, <2>1 DEF EndBatch, TypeOK
<1> QED BY <1>1, <1>2, <1>3 DEF Solve

LEMMA MineTyped ==
    ASSUME Typed, MinePop \/ MineAdd
    PROVE  Typed'
<1> USE DEF Typed
<1>1. CASE MinePop
  <2>1. call' \in [Workers -> CallType] /\ CallsCarry'
    BY <1>1, SameCallsTyped DEF MinePop
  <2>2. mempool \in Seq(Tx) /\ mempool # << >>
    BY <1>1 DEF MinePop, TypeOK
  <2>3. mempool' \in Seq(Tx) /\ mined' \in Tx
    BY <1>1, <2>2, HeadTailProperties DEF MinePop
  <2> QED BY <1>1, <2>1, <2>3 DEF MinePop, TypeOK
<1>2. CASE MineAdd
  <2>1. call' \in [Workers -> CallType] /\ CallsCarry'
    BY <1>2, SameCallsTyped DEF MineAdd
  <2>2. mined \in Tx
    BY <1>2 DEF MineAdd, TypeOK
  <2>3. dag' \in DagType
    BY <1>2, <2>2, AddTxType DEF MineAdd, TypeOK
  <2> QED BY <1>2, <2>1, <2>3 DEF MineAdd, TypeOK
<1> QED BY <1>1, <1>2

LEMMA StakingTyped ==
    ASSUME Typed, Staking
    PROVE  Typed'
<1> USE DEF Typed
<1>1. /\ Stakers \subseteq Addr
      /\ StakeAmounts \subseteq Nat /\ Interest \subseteq Nat
  BY ProcessorAssumption DEF ProcessorAssumption
<1>2. ASSUME NEW a \in Stakers, NEW n \in Interest, Unstake(a, n) PROVE Typed'
  <2>1. call' \in [Workers -> CallType] /\ CallsCarry'
    BY <1>2, SameCallsTyped DEF Unstake
  <2>2. staked[a] \in [amount : Nat, paid : Nat] /\ a \in Addr /\ n \in Nat
    BY <1>1, <1>2 DEF TypeOK
  <2>3. staked[a].amount + n \in Nat /\ staked[a].paid + n \in Nat
    BY <2>2
  <2>4. ledger' \in LedgerType
    BY <1>2, <2>2, <2>3, AddBalanceType DEF Unstake, TypeOK
  <2>5. staked' \in [Stakers -> [amount : Nat, paid : Nat]]
    BY <1>2, <2>2, <2>3 DEF Unstake, TypeOK
  <2> QED BY <1>2, <2>1, <2>4, <2>5 DEF Unstake, TypeOK
<1>3. ASSUME NEW a \in Stakers, NEW n \in StakeAmounts, Stake(a, n) PROVE Typed'
  <2>1. call' \in [Workers -> CallType] /\ CallsCarry'
    BY <1>3, SameCallsTyped DEF Stake
  <2>2. ledger' \in LedgerType
    BY <1>1, <1>3, SubtractType DEF Stake, TypeOK
  <2>3. staked[a] \in [amount : Nat, paid : Nat] /\ n \in Nat
    BY <1>1, <1>3 DEF TypeOK
  <2>4. staked[a].amount + n \in Nat
    BY <2>3
  <2>5. staked' \in [Stakers -> [amount : Nat, paid : Nat]]
    BY <1>3, <2>3, <2>4 DEF Stake, TypeOK
  <2> QED BY <1>3, <2>1, <2>2, <2>5 DEF Stake, TypeOK
<1> QED BY <1>2, <1>3 DEF Staking

LEMMA TypeStep == Typed /\ [Next]_vars => Typed'
<1> SUFFICES ASSUME Typed, [Next]_vars PROVE Typed'
  OBVIOUS
<1>1. CASE UNCHANGED vars
  BY <1>1 DEF vars, Typed, TypeOK, CallsCarry
<1>2. CASE Next
  BY <1>2, EnterTyped, PipelineTyped, SolveTyped, MineTyped, StakingTyped
  DEF Next
<1> QED BY <1>1, <1>2

\* The type invariant, with it that balances, the burn counter and the supply
\* stay within u64 although every operation only checks its own operands.
THEOREM TypeCorrect == Spec => []TypeOK
<1>1. Typed => TypeOK
  BY DEF Typed
<1> QED BY <1>1, TypeInit, TypeStep, PTL DEF Spec

-----------------------------------------------------------------------------
(* The burn counter.  The snapshot must agree as well, since a refused     *)
(* transaction brings it back.                                             *)
BurnInv == Typed /\ BurnOK(ledger) /\ BurnOK(snap)

LEMMA InitBurn == BurnOK(InitLedger)
BY ProcessorAssumption DEF ProcessorAssumption, BurnOK, InitLedger

LEMMA BurnStep == BurnInv /\ [Next]_vars => BurnInv'
<1> SUFFICES ASSUME BurnInv, [Next]_vars PROVE (BurnOK(ledger) /\ BurnOK(snap))'
  BY TypeStep DEF BurnInv
<1> USE DEF BurnInv
<1>1. ledger \in LedgerType
  BY DEF Typed, TypeOK
<1>2. CASE UNCHANGED vars
  BY <1>2 DEF vars
<1>3. ASSUME NEW w \in Workers, Enter(w) PROVE UNCHANGED <<ledger, snap>>
  BY <1>3 DEF Enter, SubmitMissing, SubmitReady, StoreOrphan
<1>4. ASSUME NEW w \in Workers, Pipeline(w)
      PROVE  (BurnOK(ledger) /\ BurnOK(snap))'
  <2>1. CASE Validate(w) \/ Reject(w) \/ LockBusy(w) \/ ApplyFails(w)
             \/ Admit(w) \/ Save(w) \/ PutTx(w) \/ Publish(w)
    BY <2>1 DEF Validate, Reject, LockBusy, ApplyFails, Admit, Save, PutTx,
       Publish
  <2>2. CASE SaveFails(w) \/ PutCons(w)
    BY <2>2, InitBurn DEF SaveFails, PutCons, DropSnapshot
  <2>3. CASE AdmitFails(w)
    BY <2>3, InitBurn DEF AdmitFails, Rollback, DropSnapshot
  <2>4. CASE Apply(w)
    <3>1. call[w].tx \in Tx
      BY <2>4 DEF Apply, Typed, CallsCarry
    <3>2. BurnOK(CommitNonce(Transfer(ledger, call[w].tx), call[w].tx))
      BY <1>1, <3>1, TransferBurn
    <3> QED BY <2>4, <3>2 DEF Apply
  <2>5. ASSUME NEW r \in settling, Settle(w, r)
        PROVE  (BurnOK(ledger) /\ BurnOK(snap))'
    <3>1. Miner \in Addr \ {Burn}
      BY <2>5, ProcessorAssumption DEF Settle, ProcessorAssumption
    <3>2. CalculateReward(r.height) \in Nat
      BY RewardNat DEF Typed, TypeOK, Pending
    <3>3. BurnOK(CreditReward(ledger, Miner, CalculateReward(r.height)))
      BY <1>1, <3>1, <3>2, MovesBurn
    <3> QED BY <2>5, <3>3 DEF Settle
  <2> QED BY <1>4, <2>1, <2>2, <2>3, <2>4, <2>5 DEF Pipeline
<1>5. ASSUME NEW s \in Solvers, Solve(s) PROVE UNCHANGED <<ledger, snap>>
  BY <1>5 DEF Solve, StartBatch, StartBatchWith, SkipOrphan, EndBatch
<1>6. CASE MinePop \/ MineAdd
  BY <1>6 DEF MinePop, MineAdd
<1>7. CASE Staking
  <2>1. /\ Stakers \subseteq Addr \ {Burn}
        /\ StakeAmounts \subseteq Nat /\ Interest \subseteq Nat
    BY ProcessorAssumption DEF ProcessorAssumption
  <2>2. ASSUME NEW a \in Stakers, NEW n \in Interest, Unstake(a, n)
        PROVE  (BurnOK(ledger) /\ BurnOK(snap))'
    <3>1. staked[a].amount + n \in Nat
      BY <2>1, <2>2 DEF Typed, TypeOK
    <3> QED BY <1>1, <2>1, <2>2, <3>1, MovesBurn DEF Unstake
  <2>3. ASSUME NEW a \in Stakers, NEW n \in StakeAmounts, Stake(a, n)
        PROVE  (BurnOK(ledger) /\ BurnOK(snap))'
    BY <1>1, <2>1, <2>3, MovesBurn DEF Stake
  <2> QED BY <1>7, <2>2, <2>3 DEF Staking
<1> QED BY <1>2, <1>3, <1>4, <1>5, <1>6, <1>7 DEF Next

\* total_fees_burned is the balance of the burn address in every state, so the
\* counter a restart reads off that balance is the one it had.
THEOREM BurnCorrect == Spec => []BurnAgrees
<1>1. Init => BurnInv
  BY TypeInit, InitBurn DEF Init, BurnInv
<1>2. BurnInv => BurnAgrees
  BY DEF BurnInv, BurnOK, BurnAgrees
<1> QED BY <1>1, <1>2, BurnStep, PTL DEF Spec

-----------------------------------------------------------------------------
(* The DAG.  Three actions insert, each behind the DAG's own refusals.     *)
DagInv == Typed /\ Formed(dag)

\* What any step does to the DAG: nothing, or one accepted insertion.
LEMMA DagStep ==
    ASSUME Typed, [Next]_vars
    PROVE  \/ dag' = dag
           \/ \E t \in Tx : CanAdd(dag, t) /\ dag' = AddTx(dag, t)
<1>1. CASE UNCHANGED vars
  BY <1>1 DEF vars
<1>2. ASSUME NEW w \in Workers, Enter(w) PROVE dag' = dag
  BY <1>2 DEF Enter, SubmitMissing, SubmitReady, StoreOrphan
<1>3. ASSUME NEW w \in Workers, Pipeline(w)
      PROVE  \/ dag' = dag
             \/ \E t \in Tx : CanAdd(dag, t) /\ dag' = AddTx(dag, t)
  <2>1. CASE Apply(w)
    <3>1. call[w].tx \in Tx
      BY <2>1 DEF Apply, Typed, CallsCarry
    <3> QED BY <2>1, <3>1 DEF Apply, Applicable
  <2>2. CASE ~Apply(w)
    BY <1>3, <2>2 DEF Pipeline, Validate, Reject, LockBusy, ApplyFails, Settle,
       Admit, AdmitFails, Save, SaveFails, PutTx, PutCons, Publish
  <2> QED BY <2>1, <2>2
<1>4. ASSUME NEW s \in Solvers, Solve(s) PROVE dag' = dag
  BY <1>4 DEF Solve, StartBatch, StartBatchWith, SkipOrphan, EndBatch
<1>5. CASE MinePop
  BY <1>5 DEF MinePop
<1>6. CASE MineAdd
  BY <1>6 DEF MineAdd, Typed, TypeOK
<1>7. CASE Staking
  BY <1>7 DEF Staking, Stake, Unstake
<1> QED BY <1>1, <1>2, <1>3, <1>4, <1>5, <1>6, <1>7 DEF Next

LEMMA DagInductive == DagInv /\ [Next]_vars => DagInv'
<1> SUFFICES ASSUME DagInv, [Next]_vars PROVE Formed(dag)'
  BY TypeStep DEF DagInv
<1>1. dag \in DagType
  BY DEF DagInv, Typed, TypeOK
<1>2. CASE dag' = dag
  BY <1>2 DEF DagInv
<1>3. ASSUME NEW t \in Tx, CanAdd(dag, t), dag' = AddTx(dag, t)
      PROVE  Formed(dag)'
  BY <1>1, <1>3, AddTxFormed DEF DagInv
<1> QED BY <1>2, <1>3, DagStep DEF DagInv

\* However submissions, orphans and the mining loop interleave, no transaction
\* of the DAG lacks a parent or has a rival, and the tips are the childless.
THEOREM DagCorrect == Spec => []DagWellFormed
<1>1. Init => DagInv
  BY TypeInit, EmptyFormed DEF Init, DagInv
<1>2. DagInv => DagWellFormed
  BY DEF DagInv, Formed, DagWellFormed
<1> QED BY <1>1, <1>2, DagInductive, PTL DEF Spec

-----------------------------------------------------------------------------
(* Rewards.  What the settle loop has still to settle is among the rewards *)
(* that are owed.                                                          *)
RewardInv ==
    /\ Typed
    /\ RewardOnce
    /\ settling \subseteq cons.pending

LEMMA DagGrows ==
    ASSUME Typed, [Next]_vars
    PROVE  dag.txs \subseteq dag'.txs
BY DagStep, AddTxType DEF Typed, TypeOK

\* Queueing at a new height keeps each block and each height owed once.
LEMMA QueueOnce ==
    ASSUME RewardInv, NEW t \in Tx, CanQueue(cons, t), cons' = Queue(cons, t),
           dag.txs \cup {t} \subseteq dag'.txs
    PROVE  RewardOnce'
<1> DEFINE new == [block |-> t, height |-> cons.height + 1]
<1>1. /\ cons'.height = cons.height + 1
      /\ cons'.rewarded = cons.rewarded
      /\ cons'.pending = cons.pending \cup {new}
      /\ cons.height \in Nat
      /\ \A r \in cons.pending : r.block \in Tx /\ r.height \in Nat
  BY DEF Queue, RewardInv, Typed, TypeOK, ConsType, Pending
<1>2. new.block = t /\ new.height = cons.height + 1
  OBVIOUS
<1>3. /\ cons.rewarded \cup QueuedBlocks(cons) \subseteq dag.txs
      /\ \A r \in cons.pending :
            r.block \notin cons.rewarded /\ r.height \in 1 .. cons.height
      /\ \A r, q \in cons.pending :
            r.block = q.block \/ r.height = q.height => r = q
  BY DEF RewardInv, RewardOnce
<1>4. t \notin cons.rewarded /\ \A r \in cons.pending : r.block # t
  BY DEF CanQueue, QueuedBlocks
<1> HIDE DEF new
<1>5. cons'.rewarded \cup QueuedBlocks(cons') \subseteq dag'.txs
  BY <1>1, <1>2, <1>3 DEF QueuedBlocks
<1>6. \A r \in cons'.pending :
         r.block \notin cons'.rewarded /\ r.height \in 1 .. cons'.height
  BY <1>1, <1>2, <1>3, <1>4
<1>7. \A r, q \in cons'.pending :
         r.block = q.block \/ r.height = q.height => r = q
  <2>1. \A r \in cons.pending : r.block # t /\ r.height # cons.height + 1
    BY <1>1, <1>3, <1>4
  <2> QED BY <1>1, <1>2, <1>3, <2>1
<1> QED BY <1>5, <1>6, <1>7 DEF RewardOnce, QueuedBlocks

\* Settling moves one block from the owed to the rewarded.
LEMMA SettleOnce ==
    ASSUME RewardInv, NEW r \in settling,
           cons' = [cons EXCEPT !.rewarded = cons.rewarded \cup {r.block},
                      !.pending = {q \in cons.pending : q.block # r.block}],
           settling' = settling \ {r}, dag' = dag
    PROVE  RewardOnce' /\ settling' \subseteq cons'.pending
<1>1. /\ cons'.height = cons.height
      /\ cons'.rewarded = cons.rewarded \cup {r.block}
      /\ cons'.pending = {q \in cons.pending : q.block # r.block}
      /\ r \in cons.pending
  BY DEF RewardInv, Typed, TypeOK, ConsType
<1>2. /\ cons.rewarded \cup QueuedBlocks(cons) \subseteq dag.txs
      /\ \A p \in cons.pending :
            p.block \notin cons.rewarded /\ p.height \in 1 .. cons.height
      /\ \A p, q \in cons.pending :
            p.block = q.block \/ p.height = q.height => p = q
  BY DEF RewardInv, RewardOnce
<1>3. cons'.rewarded \cup QueuedBlocks(cons') \subseteq dag'.txs
  BY <1>1, <1>2 DEF QueuedBlocks
<1>4. settling' \subseteq cons'.pending
  BY <1>1, <1>2 DEF RewardInv
<1> QED BY <1>1, <1>2, <1>3, <1>4 DEF RewardOnce

LEMMA RewardStep == RewardInv /\ [Next]_vars => RewardInv'
<1> SUFFICES ASSUME RewardInv, [Next]_vars
             PROVE  RewardOnce' /\ settling' \subseteq cons'.pending
  BY TypeStep DEF RewardInv
<1>1. dag.txs \subseteq dag'.txs
  BY DagGrows DEF RewardInv
<1>2. ASSUME cons' = cons, settling' \in {settling, {}}
      PROVE  RewardOnce' /\ settling' \subseteq cons'.pending
  BY <1>1, <1>2 DEF RewardInv, RewardOnce, QueuedBlocks
<1>3. CASE UNCHANGED vars
  BY <1>2, <1>3 DEF vars
<1>4. ASSUME NEW w \in Workers, Enter(w)
      PROVE  cons' = cons /\ settling' = settling
  BY <1>4 DEF Enter, SubmitMissing, SubmitReady, StoreOrphan
<1>5. ASSUME NEW w \in Workers, Pipeline(w)
      PROVE  RewardOnce' /\ settling' \subseteq cons'.pending
  <2>1. CASE Validate(w) \/ Reject(w) \/ LockBusy(w) \/ ApplyFails(w)
             \/ Admit(w) \/ AdmitFails(w) \/ Save(w) \/ SaveFails(w)
             \/ PutTx(w) \/ PutCons(w) \/ Publish(w)
    BY <1>2, <2>1 DEF Validate, Reject, LockBusy, ApplyFails, Admit, AdmitFails,
       Save, SaveFails, PutTx, PutCons, Publish, DropSnapshot
  <2>2. CASE Apply(w)
    <3>1. call[w].tx \in Tx /\ dag' = AddTx(dag, call[w].tx)
      BY <2>2 DEF Apply, RewardInv, Typed, CallsCarry
    <3>2. dag.txs \cup {call[w].tx} \subseteq dag'.txs
      BY <3>1, AddTxType DEF RewardInv, Typed, TypeOK
    <3>3. CASE Miner = NoMiner
      BY <1>2, <2>2, <3>3 DEF Apply
    <3>4. CASE Miner # NoMiner
      <4>1. CanQueue(cons, call[w].tx) /\ cons' = Queue(cons, call[w].tx)
        BY <2>2, <3>4 DEF Apply
      <4>2. RewardOnce'
        BY <3>1, <3>2, <4>1, QueueOnce
      <4>3. settling' \subseteq cons'.pending
        BY <2>2, <3>4 DEF Apply, FinalizedPending
      <4> QED BY <4>2, <4>3
    <3> QED BY <3>3, <3>4
  <2>3. ASSUME NEW r \in settling, Settle(w, r)
        PROVE  RewardOnce' /\ settling' \subseteq cons'.pending
    <3>1. dag' = dag /\ settling' = settling \ {r}
      BY <2>3 DEF Settle
    <3>2. CASE CanSettle(r)
      BY <2>3, <3>1, <3>2, SettleOnce DEF Settle, Settled
    <3>3. CASE ~CanSettle(r)
      <4>1. cons' = cons
        BY <2>3, <3>3 DEF Settle
      <4> QED BY <3>1, <4>1 DEF RewardInv, RewardOnce, QueuedBlocks
    <3> QED BY <3>2, <3>3
  <2> QED BY <1>5, <2>1, <2>2, <2>3 DEF Pipeline
<1>6. ASSUME NEW s \in Solvers, Solve(s)
      PROVE  cons' = cons /\ settling' = settling
  BY <1>6 DEF Solve, StartBatch, StartBatchWith, SkipOrphan, EndBatch
<1>7. CASE MinePop \/ MineAdd \/ Staking
  BY <1>2, <1>7 DEF MinePop, MineAdd, Staking, Stake, Unstake
<1> QED BY <1>2, <1>3, <1>4, <1>5, <1>6, <1>7 DEF Next

LEMMA RewardInit == Init => RewardInv
BY TypeInit DEF Init, InitCons, RewardInv, RewardOnce, QueuedBlocks

\* No block is rewarded twice: one that was rewarded is no longer owed, one
\* that is owed has a height of its own, and both are in the DAG.
THEOREM RewardCorrect == Spec => []RewardOnce
<1>1. RewardInv => RewardOnce
  BY DEF RewardInv
<1> QED BY <1>1, RewardInit, RewardStep, PTL DEF Spec

-----------------------------------------------------------------------------
(* One call at a time is past STEP 1, and past STEPs 2 to 6 its            *)
(* transaction is in the DAG.                                              *)
Entered == WritePhases \cup {"publish"}

HolderInv ==
    /\ Typed
    /\ \A v, w \in Workers :
          call[v].pc \in ConsPhases /\ call[w].pc \in ConsPhases => v = w
    /\ \A w \in Workers : call[w].pc \in Entered => call[w].tx \in dag.txs

\* A step that moves one call keeps this if that call takes the lock only when
\* it is free.
LEMMA HolderKept ==
    ASSUME HolderInv, [Next]_vars, NEW w \in Workers,
           \A v \in Workers \ {w} : call'[v] = call[v],
           \/ call'[w].pc \notin ConsPhases
           \/ call[w].pc \in ConsPhases
           \/ ~ConsensusLocked,
           call'[w].pc \in Entered => call'[w].tx \in dag'.txs
    PROVE  HolderInv'
<1>1. Typed' /\ dag.txs \subseteq dag'.txs
  BY TypeStep, DagGrows DEF HolderInv
<1>2. \A u, v \in Workers :
         call'[u].pc \in ConsPhases /\ call'[v].pc \in ConsPhases => u = v
  BY DEF HolderInv, ConsensusLocked
<1>3. \A v \in Workers : call'[v].pc \in Entered => call'[v].tx \in dag'.txs
  BY <1>1 DEF HolderInv
<1> QED BY <1>1, <1>2, <1>3 DEF HolderInv

LEMMA FinishHolder ==
    ASSUME HolderInv, [Next]_vars, NEW w \in Workers, Finish(w)
    PROVE  HolderInv'
<1>1. call'[w].pc \in {"idle", "batch"}
  BY IdleType DEF Finish, Idle, HolderInv, Typed, TypeOK
<1>2. call'[w].pc \notin ConsPhases /\ call'[w].pc \notin Entered
  BY <1>1 DEF ConsPhases, WritePhases, Entered
<1>3. \A v \in Workers \ {w} : call'[v] = call[v]
  BY DEF Finish, HolderInv, Typed, TypeOK
<1> QED BY <1>2, <1>3, HolderKept

LEMMA GotoHolder ==
    ASSUME HolderInv, [Next]_vars, NEW w \in Workers, NEW phase, Goto(w, phase),
           phase \notin ConsPhases \/ call[w].pc \in ConsPhases
                                   \/ ~ConsensusLocked,
           phase \in Entered => call[w].tx \in dag'.txs
    PROVE  HolderInv'
<1>1. /\ call'[w].pc = phase /\ call'[w].tx = call[w].tx
      /\ \A v \in Workers \ {w} : call'[v] = call[v]
  BY DEF Goto, HolderInv, Typed, TypeOK, CallType
<1> QED BY <1>1, HolderKept

LEMMA SameHolder ==
    ASSUME HolderInv, [Next]_vars, call' = call
    PROVE  HolderInv'
<1>1. Typed' /\ dag.txs \subseteq dag'.txs
  BY TypeStep, DagGrows DEF HolderInv
<1> QED BY <1>1 DEF HolderInv

LEMMA PipelineHolder ==
    ASSUME HolderInv, [Next]_vars, NEW w \in Workers, Pipeline(w)
    PROVE  HolderInv'
<1> USE DEF ConsPhases, WritePhases, Entered
<1>1. CASE Validate(w)
  BY <1>1, GotoHolder DEF Validate
<1>2. CASE Reject(w) \/ LockBusy(w) \/ ApplyFails(w) \/ AdmitFails(w)
           \/ SaveFails(w) \/ Publish(w)
  BY <1>2, FinishHolder DEF Reject, LockBusy, ApplyFails, AdmitFails, SaveFails,
     Publish
<1>3. CASE Apply(w)
  <2>1. call[w].tx \in Tx /\ dag \in DagType
    BY <1>3 DEF Apply, HolderInv, Typed, TypeOK, CallsCarry
  <2>2. call[w].tx \in dag'.txs
    BY <1>3, <2>1, AddTxType DEF Apply
  <2> QED BY <1>3, <2>2, GotoHolder DEF Apply
<1>4. ASSUME NEW r \in settling, Settle(w, r) PROVE HolderInv'
  BY <1>4, SameHolder DEF Settle
<1>5. CASE Admit(w) \/ Save(w) \/ PutTx(w) \/ PutCons(w)
  <2>1. dag' = dag /\ call[w].pc \in WritePhases
    BY <1>5 DEF Admit, Save, PutTx, PutCons
  <2>2. call[w].tx \in dag'.txs
    BY <2>1 DEF HolderInv
  <2> QED BY <1>5, <2>1, <2>2, GotoHolder DEF Admit, Save, PutTx, PutCons
<1> QED BY <1>1, <1>2, <1>3, <1>4, <1>5 DEF Pipeline

LEMMA HolderStep == HolderInv /\ [Next]_vars => HolderInv'
<1> SUFFICES ASSUME HolderInv, [Next]_vars PROVE HolderInv'
  OBVIOUS
<1>0. call \in [Workers -> CallType] /\ Solvers \subseteq Workers
  BY DEF HolderInv, Typed, TypeOK, Workers
<1>1. CASE UNCHANGED vars
  BY <1>1, SameHolder DEF vars
<1>2. ASSUME NEW w \in Workers, Enter(w) PROVE HolderInv'
  <2>1. ASSUME NEW t \in Tx, SubmitMissing(w, t) \/ SubmitReady(w, t)
        PROVE  HolderInv'
    <3>1. /\ call'[w].pc \in {"orphan", "waiting"}
          /\ \A v \in Workers \ {w} : call'[v] = call[v]
      BY <1>0, <2>1 DEF SubmitMissing, SubmitReady
    <3>2. call'[w].pc \notin ConsPhases /\ call'[w].pc \notin Entered
      BY <3>1 DEF ConsPhases, WritePhases, Entered
    <3> QED BY <3>1, <3>2, HolderKept
  <2>2. CASE StoreOrphan(w)
    BY <2>2, FinishHolder DEF StoreOrphan
  <2> QED BY <1>2, <2>1, <2>2 DEF Enter
<1>3. ASSUME NEW s \in Solvers, Solve(s) PROVE HolderInv'
  <2>1. CASE StartBatch(s)
    <3>1. "batch" \notin ConsPhases /\ "batch" \notin Entered
      BY DEF ConsPhases, WritePhases, Entered
    <3> QED BY <1>0, <2>1, <3>1, GotoHolder DEF StartBatch, StartBatchWith
  <2>2. CASE EndBatch(s)
    <3>1. /\ call'[s].pc = "idle"
          /\ \A v \in Workers \ {s} : call'[v] = call[v]
      BY <1>0, <2>2 DEF EndBatch, Idle
    <3>2. "idle" \notin ConsPhases /\ "idle" \notin Entered
      BY DEF ConsPhases, WritePhases, Entered
    <3> QED BY <1>0, <3>1, <3>2, HolderKept
  <2>3. ASSUME NEW t \in Tx, SkipOrphan(s, t) PROVE HolderInv'
    BY <2>3, SameHolder DEF SkipOrphan
  <2> QED BY <1>3, <2>1, <2>2, <2>3 DEF Solve
<1>4. CASE MinePop \/ MineAdd \/ Staking
  BY <1>4, SameHolder DEF MinePop, MineAdd, Staking, Stake, Unstake
<1> QED BY <1>1, <1>2, <1>3, <1>4, PipelineHolder DEF Next

LEMMA HolderInit == Init => HolderInv
<1> SUFFICES ASSUME Init PROVE HolderInv
  OBVIOUS
<1>1. \A w \in Workers : call[w].pc = "idle"
  BY DEF Init, Idle
<1>2. "idle" \notin ConsPhases /\ "idle" \notin Entered
  BY DEF ConsPhases, WritePhases, Entered
<1> QED BY <1>1, <1>2, TypeInit DEF HolderInv

-----------------------------------------------------------------------------
\* An orphan leaves the queue only once it is in the DAG or can never enter
\* it, whichever of the solvers resubmitted it and whatever came in between.
THEOREM OrphansCorrect == Spec => OrphansKept
<1>1. ASSUME HolderInv, [Next]_vars
      PROVE  [\A t \in orphans : t \notin orphans' =>
                 Conflicts(dag', t)]_<<orphans, dag>>
  <2> SUFFICES ASSUME NEW t \in orphans, t \notin orphans'
               PROVE  Conflicts(dag', t)
    OBVIOUS
  <2>1. PICK w \in Workers :
            /\ t = call[w].tx
            /\ \/ Reject(w) \/ ApplyFails(w) \/ Publish(w)
            /\ Publish(w) \/ Permanent(t)
    <3>1. CASE UNCHANGED vars
      BY <3>1 DEF vars
    <3>2. ASSUME NEW w \in Workers, Enter(w) PROVE FALSE
      BY <3>2 DEF Enter, SubmitMissing, SubmitReady, StoreOrphan
    <3>3. ASSUME NEW s \in Solvers, Solve(s) PROVE FALSE
      BY <3>3 DEF Solve, StartBatch, StartBatchWith, SkipOrphan, EndBatch
    <3>4. CASE MinePop \/ MineAdd \/ Staking
      BY <3>4 DEF MinePop, MineAdd, Staking, Stake, Unstake
    <3>5. ASSUME NEW w \in Workers, Pipeline(w)
          PROVE  /\ t = call[w].tx
                 /\ \/ Reject(w) \/ ApplyFails(w) \/ Publish(w)
                 /\ Publish(w) \/ Permanent(t)
      <4>1. CASE Reject(w)
        BY <4>1 DEF Reject, Resolve
      <4>2. CASE ApplyFails(w)
        BY <4>2 DEF ApplyFails, Resolve
      <4>3. CASE Publish(w)
        BY <4>3 DEF Publish, Resolve
      <4>4. CASE ~Reject(w) /\ ~ApplyFails(w) /\ ~Publish(w)
        BY <3>5, <4>4 DEF Pipeline, Validate, LockBusy, Apply, Settle, Admit,
           AdmitFails, Save, SaveFails, PutTx, PutCons
      <4> QED BY <4>1, <4>2, <4>3, <4>4
    <3> QED BY <1>1, <3>1, <3>2, <3>3, <3>4, <3>5 DEF Next
  <2>2. dag' = dag
    BY <2>1 DEF Reject, ApplyFails, Publish
  <2>3. CASE Publish(w)
    <3>1. t \in dag.txs
      BY <1>1, <2>1, <2>3 DEF Publish, HolderInv, Entered
    <3> QED BY <2>2, <3>1 DEF Conflicts
  <2>4. CASE Permanent(t)
    BY <2>2, <2>4 DEF Permanent
  <2> QED BY <2>1, <2>3, <2>4
<1> QED BY <1>1, HolderInit, HolderStep, PTL DEF Spec, OrphansKept

-----------------------------------------------------------------------------
(* The mempool.                                                            *)
Distinct(s) == \A i, j \in DOMAIN s : s[i] = s[j] => i = j

PoolInv ==
    /\ HolderInv
    /\ MempoolInDag
    /\ \A w \in Workers :
          call[w].pc = "settle" => call[w].tx \notin ToSet(mempool)

\* Removing an element of a sequence without repetitions, and appending one it
\* lacks.
LEMMA RemovedDistinct ==
    ASSUME NEW S, NEW s \in Seq(S), Distinct(s), NEW i \in 1 .. Len(s)
    PROVE  /\ RemoveAt(s, i) \in Seq(S)
           /\ Len(RemoveAt(s, i)) = Len(s) - 1
           /\ ToSet(RemoveAt(s, i)) \subseteq ToSet(s)
           /\ Distinct(RemoveAt(s, i))
<1> DEFINE n == Len(s)
           l == SubSeq(s, 1, i - 1)
           r == SubSeq(s, i + 1, n)
<1>1. n \in Nat /\ i \in 1 .. n /\ \A j \in 1 .. n : s[j] \in S
  OBVIOUS
<1>2. /\ l \in Seq(S) /\ Len(l) = i - 1
      /\ \A j \in 1 .. i - 1 : l[j] = s[j]
  <2>1. \A j \in 1 .. i - 1 : s[j] \in S
    BY <1>1
  <2> QED BY <1>1, <2>1, SubSeqProperties
<1>3. /\ r \in Seq(S) /\ Len(r) = n - i
      /\ \A j \in 1 .. n - i : r[j] = s[i + j]
  <2>1. \A j \in i + 1 .. n : s[j] \in S
    BY <1>1
  <2> QED BY <1>1, <2>1, SubSeqProperties
<1> DEFINE q == RemoveAt(s, i)
<1>4. q = l \o r
  BY DEF RemoveAt
<1> HIDE DEF l, r, q, n
<1>5. /\ q \in Seq(S) /\ Len(q) = n - 1
      /\ \A j \in 1 .. n - 1 : q[j] = IF j < i THEN s[j] ELSE s[j + 1]
  <2>1. /\ q \in Seq(S) /\ Len(q) = (i - 1) + (n - i)
        /\ \A j \in 1 .. (i - 1) + (n - i) :
              q[j] = IF j <= i - 1 THEN l[j] ELSE r[j - (i - 1)]
    BY <1>2, <1>3, <1>4, ConcatProperties
  <2>2. (i - 1) + (n - i) = n - 1
    BY <1>1
  <2>3. ASSUME NEW j \in 1 .. n - 1
        PROVE  q[j] = IF j < i THEN s[j] ELSE s[j + 1]
    <3>1. CASE j < i
      BY <1>1, <1>2, <2>1, <2>2, <3>1
    <3>2. CASE ~(j < i)
      <4>1. j - (i - 1) \in 1 .. n - i /\ i + (j - (i - 1)) = j + 1
        BY <1>1, <3>2
      <4>2. q[j] = r[j - (i - 1)]
        BY <1>1, <2>1, <2>2, <3>2
      <4> QED BY <1>3, <3>2, <4>1, <4>2
    <3> QED BY <3>1, <3>2
  <2> QED BY <2>1, <2>2, <2>3
<1>6. /\ DOMAIN q = 1 .. n - 1 /\ DOMAIN s = 1 .. n
  BY <1>1, <1>5 DEF n
<1>7. ToSet(q) \subseteq ToSet(s)
  BY <1>1, <1>5, <1>6 DEF ToSet
<1>8. Distinct(q)
  <2> SUFFICES ASSUME NEW j \in 1 .. n - 1, NEW k \in 1 .. n - 1, q[j] = q[k]
               PROVE  j = k
    BY <1>6 DEF Distinct
  <2> DEFINE old(x) == IF x < i THEN x ELSE x + 1
  <2>1. /\ old(j) \in 1 .. n /\ q[j] = s[old(j)]
        /\ old(k) \in 1 .. n /\ q[k] = s[old(k)]
    BY <1>1, <1>5
  <2>2. old(j) = old(k)
    <3> HIDE DEF old
    <3> QED BY <1>6, <2>1 DEF Distinct
  <2> QED BY <1>1, <2>2
<1> QED BY <1>5, <1>7, <1>8 DEF q, n

LEMMA AppendedDistinct ==
    ASSUME NEW S, NEW s \in Seq(S), NEW e \in S, Distinct(s), e \notin ToSet(s)
    PROVE  /\ Len(Append(s, e)) = Len(s) + 1
           /\ ToSet(Append(s, e)) = ToSet(s) \cup {e}
           /\ Distinct(Append(s, e))
<1> DEFINE q == Append(s, e)
           n == Len(s)
<1>1. /\ q \in Seq(S) /\ Len(q) = n + 1
      /\ \A i \in 1 .. n : q[i] = s[i]
      /\ q[n + 1] = e /\ n \in Nat
  BY AppendProperties
<1>2. DOMAIN q = 1 .. n + 1 /\ DOMAIN s = 1 .. n
  BY <1>1
<1> HIDE DEF q, n
<1>3. 1 .. n + 1 = (1 .. n) \cup {n + 1}
  BY <1>1
<1>4. ToSet(q) = ToSet(s) \cup {e}
  BY <1>1, <1>2, <1>3 DEF ToSet
<1>5. Distinct(q)
  BY <1>1, <1>2, <1>3 DEF Distinct, ToSet
<1> QED BY <1>1, <1>4, <1>5 DEF q, n

\* add_internal, of a transaction the pool does not have.
LEMMA AddInternalDistinct ==
    ASSUME mempool \in Seq(Tx), NEW t \in Tx, Distinct(mempool),
           t \notin ToSet(mempool), Len(mempool) <= PoolSize
    PROVE  /\ Len(AddInternal(t)) <= PoolSize
           /\ ToSet(AddInternal(t)) \subseteq ToSet(mempool) \cup {t}
           /\ Distinct(AddInternal(t))
<1>0. PoolSize \in Nat /\ Len(mempool) \in Nat
  BY FeeAssumption DEF FeeAssumption
<1>1. CASE ~Full
  <2>1. Len(mempool) + 1 <= PoolSize
    BY <1>0, <1>1 DEF Full
  <2>2. AddInternal(t) = Append(mempool, t)
    BY <1>1 DEF AddInternal
  <2> QED BY <2>1, <2>2, AppendedDistinct
<1>2. CASE Full
  <2> DEFINE rest == RemoveAt(mempool, Victim)
  <2>1. Victim \in 1 .. Len(mempool)
    BY <1>2, VictimInPool
  <2>2. /\ rest \in Seq(Tx) /\ Len(rest) = Len(mempool) - 1
        /\ ToSet(rest) \subseteq ToSet(mempool) /\ Distinct(rest)
    BY <2>1, RemovedDistinct
  <2>3. AddInternal(t) = Append(rest, t)
    BY <1>2 DEF AddInternal
  <2> HIDE DEF rest
  <2>4. t \notin ToSet(rest)
    BY <2>2
  <2>5. /\ Len(Append(rest, t)) = Len(rest) + 1
        /\ ToSet(Append(rest, t)) = ToSet(rest) \cup {t}
        /\ Distinct(Append(rest, t))
    BY <2>2, <2>4, AppendedDistinct
  <2> QED BY <1>0, <2>2, <2>3, <2>5
<1> QED BY <1>1, <1>2

LEMMA PoolParts ==
    ASSUME Typed, MempoolInDag
    PROVE  /\ Distinct(mempool) /\ mempool \in Seq(Tx)
           /\ Len(mempool) <= PoolSize /\ ToSet(mempool) \subseteq dag.txs
BY DEF MempoolInDag, Distinct, Typed, TypeOK

LEMMA PoolStep == PoolInv /\ [Next]_vars => PoolInv'
<1> SUFFICES ASSUME PoolInv, [Next]_vars
             PROVE  /\ MempoolInDag'
                    /\ \A w \in Workers : call'[w].pc = "settle" =>
                          call'[w].tx \notin ToSet(mempool')
  BY HolderStep DEF PoolInv
<1>0. /\ HolderInv /\ Typed /\ MempoolInDag /\ dag.txs \subseteq dag'.txs
      /\ call \in [Workers -> CallType] /\ Solvers \subseteq Workers
      /\ mempool \in Seq(Tx)
  BY DagGrows DEF PoolInv, HolderInv, Typed, TypeOK, Workers
<1>1. ASSUME mempool' = mempool, mined' = mined,
             \A w \in Workers : call'[w].pc = "settle" => call'[w] = call[w]
      PROVE  /\ MempoolInDag'
             /\ \A w \in Workers : call'[w].pc = "settle" =>
                   call'[w].tx \notin ToSet(mempool')
  BY <1>0, <1>1 DEF PoolInv, MempoolInDag
<1>2. ASSUME NEW w \in Workers, Finish(w), NEW v \in Workers,
             call'[v].pc = "settle"
      PROVE  call'[v] = call[v]
  BY <1>0, <1>2 DEF Finish, Idle
<1>3. ASSUME NEW w \in Workers, NEW phase, Goto(w, phase), phase # "settle",
             NEW v \in Workers, call'[v].pc = "settle"
      PROVE  call'[v] = call[v]
  BY <1>0, <1>3 DEF Goto, CallType
<1>4. CASE UNCHANGED vars
  BY <1>1, <1>4 DEF vars
<1>5. ASSUME NEW w \in Workers, Enter(w)
      PROVE  /\ mempool' = mempool /\ mined' = mined
             /\ \A v \in Workers : call'[v].pc = "settle" => call'[v] = call[v]
  <2>1. ASSUME NEW t \in Tx, SubmitMissing(w, t) \/ SubmitReady(w, t)
        PROVE  /\ mempool' = mempool /\ mined' = mined
               /\ \A v \in Workers :
                     call'[v].pc = "settle" => call'[v] = call[v]
    BY <1>0, <2>1 DEF SubmitMissing, SubmitReady
  <2>2. CASE StoreOrphan(w)
    BY <1>2, <2>2 DEF StoreOrphan
  <2> QED BY <1>5, <2>1, <2>2 DEF Enter
<1>6. ASSUME NEW s \in Solvers, Solve(s)
      PROVE  /\ mempool' = mempool /\ mined' = mined
             /\ \A v \in Workers : call'[v].pc = "settle" => call'[v] = call[v]
  <2>1. s \in Workers
    BY <1>0
  <2>2. CASE StartBatch(s)
    BY <1>3, <2>1, <2>2 DEF StartBatch, StartBatchWith
  <2>3. CASE EndBatch(s)
    BY <1>0, <2>3 DEF EndBatch, Idle
  <2>4. ASSUME NEW t \in Tx, SkipOrphan(s, t)
        PROVE  mempool' = mempool /\ mined' = mined /\ call' = call
    BY <2>4 DEF SkipOrphan
  <2> QED BY <1>6, <2>2, <2>3, <2>4 DEF Solve
<1>7. ASSUME NEW w \in Workers, Pipeline(w)
      PROVE  /\ MempoolInDag'
             /\ \A v \in Workers : call'[v].pc = "settle" =>
                   call'[v].tx \notin ToSet(mempool')
  <2>1. CASE Reject(w) \/ LockBusy(w) \/ ApplyFails(w) \/ AdmitFails(w)
             \/ SaveFails(w) \/ Publish(w)
    <3>1. mempool' = mempool /\ mined' = mined /\ Finish(w)
      BY <2>1 DEF Reject, LockBusy, ApplyFails, AdmitFails, SaveFails, Publish
    <3> QED BY <1>1, <1>2, <3>1
  <2>2. CASE Validate(w) \/ Save(w) \/ PutTx(w) \/ PutCons(w)
    <3>1. /\ mempool' = mempool /\ mined' = mined
          /\ \E phase \in {"validated", "putTx", "putCons", "publish"} :
                Goto(w, phase)
      BY <2>2 DEF Validate, Save, PutTx, PutCons
    <3> QED BY <1>1, <1>3, <3>1
  <2>3. ASSUME NEW r \in settling, Settle(w, r)
        PROVE  mempool' = mempool /\ mined' = mined /\ call' = call
    BY <2>3 DEF Settle
  <2>4. CASE Apply(w)
    <3>1. /\ mempool' = mempool /\ mined' = mined
          /\ call'[w].tx = call[w].tx
          /\ \A v \in Workers \ {w} : call'[v] = call[v]
      BY <1>0, <2>4 DEF Apply, Goto, CallType
    <3>2. call[w].tx \notin ToSet(mempool)
      BY <1>0, <2>4, PoolParts DEF Apply, Applicable, CanAdd, Conflicts
    <3>3. MempoolInDag'
      BY <1>0, <3>1 DEF MempoolInDag
    <3> QED BY <3>1, <3>2, <3>3 DEF PoolInv
  <2>5. CASE Admit(w)
    <3>1. /\ call[w].pc = "settle" /\ mempool' = AddInternal(call[w].tx)
          /\ mined' = mined /\ dag' = dag
      BY <2>5 DEF Admit
    <3>2. call[w].tx \in Tx /\ call[w].tx \in dag.txs
      BY <1>0, <3>1 DEF HolderInv, Typed, CallsCarry, Entered, WritePhases
    <3>3. /\ Len(mempool') <= PoolSize
          /\ ToSet(mempool') \subseteq ToSet(mempool) \cup {call[w].tx}
          /\ Distinct(mempool')
      <4>1. call[w].tx \notin ToSet(mempool)
        BY <3>1 DEF PoolInv
      <4> QED BY <1>0, <3>1, <3>2, <4>1, PoolParts, AddInternalDistinct
    <3>4. MempoolInDag'
      BY <1>0, <3>1, <3>2, <3>3 DEF MempoolInDag, Distinct
    <3>5. ASSUME NEW v \in Workers, call'[v].pc = "settle" PROVE FALSE
      <4>1. call'[v] = call[v] /\ v # w
        BY <1>0, <1>3, <2>5, <3>5 DEF Admit, Goto, CallType
      <4> QED BY <1>0, <3>1, <3>5, <4>1 DEF HolderInv, ConsPhases, WritePhases
    <3> QED BY <3>4, <3>5
  <2> QED BY <1>1, <1>7, <2>1, <2>2, <2>3, <2>4, <2>5 DEF Pipeline
<1>8. CASE MinePop
  <2>1. /\ mempool # << >> /\ mined' = Head(mempool) /\ mempool' = Tail(mempool)
        /\ call' = call /\ dag' = dag
    BY <1>8 DEF MinePop
  <2> DEFINE n == Len(mempool)
  <2>2. /\ n \in Nat /\ n >= 1 /\ Len(mempool') = n - 1
        /\ mempool' \in Seq(Tx) /\ mined' = mempool[1]
        /\ \A i \in 1 .. n - 1 : mempool'[i] = mempool[i + 1]
    BY <1>0, <2>1, HeadTailProperties
  <2>3. DOMAIN mempool = 1 .. n /\ DOMAIN mempool' = 1 .. n - 1
    BY <1>0, <2>2
  <2> HIDE DEF n
  <2>4. ToSet(mempool') \subseteq ToSet(mempool) /\ mined' \in ToSet(mempool)
    BY <2>2, <2>3 DEF ToSet
  <2>5. \A i, j \in DOMAIN mempool' : mempool'[i] = mempool'[j] => i = j
    <3> SUFFICES ASSUME NEW i \in 1 .. n - 1, NEW j \in 1 .. n - 1,
                        mempool'[i] = mempool'[j]
                 PROVE  i = j
      BY <2>3
    <3>1. i + 1 \in DOMAIN mempool /\ j + 1 \in DOMAIN mempool
      BY <2>2, <2>3
    <3>2. i + 1 = j + 1
      BY <1>0, <2>2, <3>1 DEF MempoolInDag
    <3> QED BY <3>2
  <2>6. Len(mempool') <= PoolSize
    <3>1. PoolSize \in Nat /\ n <= PoolSize
      BY <1>0, FeeAssumption DEF FeeAssumption, MempoolInDag, n
    <3> QED BY <2>2, <3>1
  <2> QED BY <1>0, <2>1, <2>4, <2>5, <2>6 DEF PoolInv, MempoolInDag
<1>9. CASE MineAdd
  BY <1>0, <1>9 DEF MineAdd, PoolInv, MempoolInDag
<1>10. CASE Staking
  BY <1>1, <1>10 DEF Staking, Stake, Unstake
<1> QED BY <1>1, <1>4, <1>5, <1>6, <1>7, <1>8, <1>9, <1>10 DEF Next

LEMMA PoolInit == Init => PoolInv
<1> SUFFICES ASSUME Init PROVE PoolInv
  OBVIOUS
<1>1. mempool = << >> /\ mined = NoTx /\ PoolSize \in Nat
  BY FeeAssumption DEF Init, FeeAssumption
<1>2. MempoolInDag
  BY <1>1 DEF MempoolInDag, ToSet
<1>3. \A w \in Workers : call[w].pc = "idle"
  BY DEF Init, Idle
<1> QED BY <1>2, <1>3, HolderInit DEF PoolInv

\* The mempool and the mining loop hold transactions of the DAG only, none of
\* them twice, and never more than the pool is allowed: what the loop pops can
\* therefore never change the DAG.
THEOREM MempoolCorrect == Spec => []MempoolInDag
<1>1. PoolInv => MempoolInDag
  BY DEF PoolInv
<1> QED BY <1>1, PoolInit, PoolStep, PTL DEF Spec

-----------------------------------------------------------------------------
(* Nonces.  What a rollback brings back tracks the DAG as well.            *)
Tracks(l, d) ==
    \A a \in Addr \ {Faucet} :
        NoncesOf(d, a) \in {1 .. l.nonce[a], 1 .. l.nonce[a] + 1}

NonceInv ==
    /\ PoolInv
    /\ Tracks(ledger, dag)
    /\ \A w \in Workers : call[w].pc = "settle" => Tracks(snap, dag)

LEMMA TransferNonce ==
    ASSUME NEW l \in LedgerType, NEW t \in Tx
    PROVE  Transfer(l, t).nonce = l.nonce
BY DEF Transfer, LedgerType

\* STEPs 4 to 6: the nonce that is committed is the one that enters the DAG.
LEMMA ApplyTracks ==
    ASSUME NEW l \in LedgerType, NEW d \in DagType, NEW t \in Tx, Tracks(l, d),
           TransferFits(l, t), NonceFits(l, t), ~SenderConflict(d, t)
    PROVE  /\ Tracks(CommitNonce(Transfer(l, t), t), AddTx(d, t))
           /\ Tracks(l, AddTx(d, t))
<1> DEFINE k == CommitNonce(Transfer(l, t), t)
           e == AddTx(d, t)
<1>1. e.txs = d.txs \cup {t} /\ Sender[t] \in Addr /\ AccountNonce[t] \in Nat
  BY AddTxType, CostNat
<1>2. /\ \A a \in Addr \ {Sender[t]} : k.nonce[a] = l.nonce[a]
      /\ Sender[t] # Faucet => k.nonce[Sender[t]] = AccountNonce[t]
      /\ l.nonce \in [Addr -> Nat]
  <2>1. Transfer(l, t) \in LedgerType /\ l \in LedgerType
    BY TransferType
  <2> QED BY <1>1, <2>1, TransferNonce DEF CommitNonce, LedgerType
<1> SUFFICES ASSUME NEW a \in Addr \ {Faucet}
             PROVE  /\ NoncesOf(e, a) \in {1 .. k.nonce[a], 1 .. k.nonce[a] + 1}
                    /\ NoncesOf(e, a) \in {1 .. l.nonce[a], 1 .. l.nonce[a] + 1}
  BY DEF Tracks
<1> HIDE DEF k, e
<1>3. CASE a # Sender[t]
  <2>1. NoncesOf(e, a) = NoncesOf(d, a)
    BY <1>1, <1>3 DEF NoncesOf
  <2> QED BY <1>2, <1>3, <2>1 DEF Tracks
<1>4. CASE a = Sender[t]
  <2> DEFINE n == l.nonce[a]
  <2>1. n \in Nat /\ AccountNonce[t] = n + 1 /\ k.nonce[a] = n + 1
    BY <1>2, <1>4 DEF NonceFits
  <2>2. NoncesOf(e, a) = NoncesOf(d, a) \cup {n + 1}
    BY <1>1, <1>4, <2>1 DEF NoncesOf
  <2>3. n + 1 \notin NoncesOf(d, a)
    BY <1>4, <2>1 DEF NoncesOf, SenderConflict
  <2>4. NoncesOf(d, a) = 1 .. n
    <3>1. n + 1 \in 1 .. n + 1
      BY <2>1
    <3> QED BY <2>3, <3>1 DEF Tracks
  <2>5. (1 .. n) \cup {n + 1} = 1 .. n + 1
    BY <2>1
  <2> QED BY <2>1, <2>2, <2>4, <2>5
<1> QED BY <1>3, <1>4

LEMMA NonceStep == NonceInv /\ [Next]_vars => NonceInv'
<1> SUFFICES ASSUME NonceInv, [Next]_vars
             PROVE  /\ Tracks(ledger, dag)'
                    /\ \A w \in Workers :
                          call'[w].pc = "settle" => Tracks(snap, dag)'
  BY PoolStep DEF NonceInv
<1>0. /\ PoolInv /\ HolderInv /\ Typed /\ Tracks(ledger, dag)
      /\ call \in [Workers -> CallType] /\ Solvers \subseteq Workers
      /\ ledger \in LedgerType /\ dag \in DagType /\ snap \in LedgerType
  BY DEF NonceInv, PoolInv, HolderInv, Typed, TypeOK, Workers
<1>1. ASSUME ledger'.nonce = ledger.nonce, dag' = dag, snap' = snap,
             \A w \in Workers : call'[w].pc = "settle" => call[w].pc = "settle"
      PROVE  /\ Tracks(ledger, dag)'
             /\ \A w \in Workers : call'[w].pc = "settle" => Tracks(snap, dag)'
  BY <1>0, <1>1 DEF NonceInv, Tracks
<1>2. ASSUME NEW w \in Workers, Finish(w), NEW v \in Workers,
             call'[v].pc = "settle"
      PROVE  call[v].pc = "settle" /\ v # w
  BY <1>0, <1>2 DEF Finish, Idle
<1>3. ASSUME NEW w \in Workers, NEW phase, Goto(w, phase), phase # "settle",
             NEW v \in Workers, call'[v].pc = "settle"
      PROVE  call[v].pc = "settle" /\ v # w
  BY <1>0, <1>3 DEF Goto, CallType
<1>4. ASSUME NEW w \in Workers, call[w].pc \in ConsPhases,
             NEW v \in Workers, call[v].pc = "settle"
      PROVE  v = w
  BY <1>0, <1>4 DEF HolderInv, ConsPhases, WritePhases
<1>5. CASE UNCHANGED vars
  BY <1>1, <1>5 DEF vars
<1>6. ASSUME NEW w \in Workers, Enter(w)
      PROVE  /\ ledger' = ledger /\ dag' = dag /\ snap' = snap
             /\ \A v \in Workers :
                   call'[v].pc = "settle" => call[v].pc = "settle"
  <2>1. ASSUME NEW t \in Tx, SubmitMissing(w, t) \/ SubmitReady(w, t)
        PROVE  /\ ledger' = ledger /\ dag' = dag /\ snap' = snap
               /\ \A v \in Workers :
                     call'[v].pc = "settle" => call[v].pc = "settle"
    BY <1>0, <2>1 DEF SubmitMissing, SubmitReady
  <2>2. CASE StoreOrphan(w)
    BY <1>2, <2>2 DEF StoreOrphan
  <2> QED BY <1>6, <2>1, <2>2 DEF Enter
<1>7. ASSUME NEW s \in Solvers, Solve(s)
      PROVE  /\ ledger' = ledger /\ dag' = dag /\ snap' = snap
             /\ \A v \in Workers :
                   call'[v].pc = "settle" => call[v].pc = "settle"
  <2>1. s \in Workers
    BY <1>0
  <2>2. CASE StartBatch(s)
    BY <1>3, <2>1, <2>2 DEF StartBatch, StartBatchWith
  <2>3. CASE EndBatch(s)
    BY <1>0, <2>3 DEF EndBatch, Idle
  <2>4. ASSUME NEW t \in Tx, SkipOrphan(s, t)
        PROVE  ledger' = ledger /\ dag' = dag /\ snap' = snap /\ call' = call
    BY <2>4 DEF SkipOrphan
  <2> QED BY <1>7, <2>2, <2>3, <2>4 DEF Solve
<1>8. ASSUME NEW w \in Workers, Pipeline(w)
      PROVE  /\ Tracks(ledger, dag)'
             /\ \A v \in Workers : call'[v].pc = "settle" => Tracks(snap, dag)'
  <2>1. CASE Reject(w) \/ LockBusy(w) \/ ApplyFails(w) \/ Publish(w)
    <3>1. ledger' = ledger /\ dag' = dag /\ snap' = snap /\ Finish(w)
      BY <2>1 DEF Reject, LockBusy, ApplyFails, Publish
    <3> QED BY <1>1, <1>2, <3>1
  <2>2. CASE Validate(w) \/ Admit(w) \/ Save(w) \/ PutTx(w)
    <3>1. /\ ledger' = ledger /\ dag' = dag /\ snap' = snap
          /\ \E phase \in {"validated", "save", "putTx", "putCons"} :
                Goto(w, phase)
      BY <2>2 DEF Validate, Admit, Save, PutTx
    <3> QED BY <1>1, <1>3, <3>1
  <2>3. CASE SaveFails(w) \/ PutCons(w)
    <3>1. /\ ledger' = ledger /\ dag' = dag /\ call[w].pc \in ConsPhases
          /\ Finish(w) \/ Goto(w, "publish")
      BY <2>3 DEF SaveFails, PutCons, ConsPhases, WritePhases
    <3>2. ASSUME NEW v \in Workers, call'[v].pc = "settle" PROVE FALSE
      BY <1>2, <1>3, <1>4, <3>1, <3>2
    <3> QED BY <1>0, <3>1, <3>2 DEF Tracks
  <2>4. CASE AdmitFails(w)
    <3>1. /\ ledger' = snap /\ dag' = dag /\ call[w].pc = "settle" /\ Finish(w)
      BY <2>4 DEF AdmitFails, Rollback
    <3>2. ASSUME NEW v \in Workers, call'[v].pc = "settle" PROVE FALSE
      BY <1>2, <1>4, <3>1, <3>2 DEF ConsPhases, WritePhases
    <3> QED BY <3>1, <3>2 DEF NonceInv, Tracks
  <2>5. ASSUME NEW r \in settling, Settle(w, r)
        PROVE  /\ ledger'.nonce = ledger.nonce /\ dag' = dag /\ snap' = snap
               /\ call' = call
    BY <1>0, <2>5 DEF Settle, CreditReward, LedgerType
  <2>6. CASE Apply(w)
    <3>1. call[w].tx \in Tx
      BY <1>0, <2>6 DEF Apply, Typed, CallsCarry
    <3>2. /\ Tracks(CommitNonce(Transfer(ledger, call[w].tx), call[w].tx),
                    AddTx(dag, call[w].tx))
          /\ Tracks(ledger, AddTx(dag, call[w].tx))
      BY <1>0, <2>6, <3>1, ApplyTracks DEF Apply, Applicable, CanAdd, Conflicts
    <3> QED BY <2>6, <3>2 DEF Apply, Tracks
  <2> QED BY <1>1, <1>8, <2>1, <2>2, <2>3, <2>4, <2>5, <2>6 DEF Pipeline
<1>9. CASE MinePop
  BY <1>1, <1>9 DEF MinePop
<1>10. CASE MineAdd
  <2>1. mined \in dag.txs
    BY <1>10 DEF MineAdd, NonceInv, PoolInv, MempoolInDag
  <2>2. dag' = dag
    BY <1>10, <2>1 DEF MineAdd, CanAdd, Conflicts
  <2> QED BY <1>1, <1>10, <2>2 DEF MineAdd
<1>11. CASE Staking
  <2>1. /\ ledger'.nonce = ledger.nonce /\ dag' = dag /\ snap' = snap
        /\ call' = call
    BY <1>0, <1>11 DEF Staking, Stake, Unstake, Subtract, AddBalance, LedgerType
  <2> QED BY <1>1, <2>1
<1> QED BY <1>1, <1>5, <1>6, <1>7, <1>8, <1>9, <1>10, <1>11 DEF Next

\* The DAG holds the nonces 1..n of an account whose committed nonce is n and
\* at most the next one besides, however many submissions the mempool refused.
THEOREM NonceCorrect == Spec => []NonceTracksDag
<1>1. Init => NonceInv
  <2> SUFFICES ASSUME Init PROVE NonceInv
    OBVIOUS
  <2>1. PoolInv
    BY PoolInit
  <2>2. \A a \in Addr : ledger.nonce[a] = 0 /\ NoncesOf(dag, a) = 1 .. 0
    BY DEF Init, InitLedger, EmptyDag, NoncesOf
  <2>3. \A w \in Workers : call[w].pc = "idle"
    BY DEF Init, Idle
  <2> QED BY <2>1, <2>2, <2>3 DEF NonceInv, Tracks
<1>2. NonceInv => NonceTracksDag
  BY DEF NonceInv, Tracks, NonceTracksDag
<1> QED BY <1>1, <1>2, NonceStep, PTL DEF Spec
=============================================================================
