----------------------------- MODULE BankProofs -----------------------------
(***************************************************************************)
(* The pipeline implements AtomicBank, for any number of clients, solvers, *)
(* accounts and transactions: through the ledger that readers see, a whole *)
(* call is one payment or nothing.                                         *)
(***************************************************************************)
EXTENDS ProcessorProofs

-----------------------------------------------------------------------------
(* What the pipeline owes the bank while it holds the write locks: the     *)
(* ledger is the snapshot with the payment and some rewards on top.        *)
Paid(l, t) == CommitNonce(Transfer(l, t), t)

Minted(l, n) ==
    IF Miner = NoMiner
    THEN l
    ELSE [l EXCEPT !.bal[Miner] = @ + n, !.supply = @ + n]

Owes(old, new, t) ==
    /\ t \in PureValid
    /\ TransferFits(old, t) /\ NonceFits(old, t)
    /\ \E n \in Nat : /\ old.supply + n <= MaxSupply
                      /\ new = Minted(Paid(old, t), n)
                      /\ new.supply = old.supply + n

BankInv ==
    /\ HolderInv
    /\ ledger.supply <= MaxSupply
    /\ \A w \in Workers :
          call[w].pc = "settle" => Owes(snap, ledger, call[w].tx)

LEMMA PaidType ==
    ASSUME NEW l \in LedgerType, NEW t \in Tx, TransferFits(l, t)
    PROVE  Paid(l, t) \in LedgerType /\ Paid(l, t).supply = l.supply
<1>1. Transfer(l, t) \in LedgerType
  BY TransferType
<1>2. Transfer(l, t).supply = l.supply
  BY DEF Transfer, LedgerType
<1>3. Paid(l, t).supply = Transfer(l, t).supply
  BY <1>1 DEF Paid, CommitNonce, LedgerType
<1> QED BY <1>1, <1>2, <1>3, CommitNonceType DEF Paid

\* Nothing minted is nothing changed.
LEMMA MintNothing ==
    ASSUME NEW l \in LedgerType
    PROVE  Minted(l, 0) = l
<1>1. CASE Miner = NoMiner
  BY <1>1 DEF Minted
<1>2. CASE Miner # NoMiner
  <2>1. Miner \in Addr
    BY <1>2, ProcessorAssumption DEF ProcessorAssumption
  <2>2. l.bal \in [Addr -> U64] /\ l.bal[Miner] \in Nat /\ l.supply \in Nat
    BY <2>1, LedgerAssumption DEF LedgerType, U64, LedgerAssumption
  <2>3. [l.bal EXCEPT ![Miner] = @ + 0] = l.bal /\ l.supply + 0 = l.supply
    BY <2>1, <2>2
  <2>4. Minted(l, 0) = [l EXCEPT !.bal = l.bal, !.supply = l.supply]
    BY <1>2, <2>3 DEF Minted
  <2> QED BY <2>4 DEF LedgerType
<1> QED BY <1>1, <1>2

\* Two mintings are one of their sum.
LEMMA MintMore ==
    ASSUME NEW l \in LedgerType, NEW n \in Nat, NEW m \in Nat, Miner # NoMiner
    PROVE  CreditReward(Minted(l, n), Miner, m) = Minted(l, n + m)
<1>1. Miner \in Addr
  BY ProcessorAssumption DEF ProcessorAssumption
<1>2. l.bal \in [Addr -> U64] /\ l.bal[Miner] \in Nat /\ l.supply \in Nat
  BY <1>1, LedgerAssumption DEF LedgerType, U64, LedgerAssumption
<1> DEFINE k == Minted(l, n)
<1>3. /\ k.bal = [l.bal EXCEPT ![Miner] = @ + n] /\ k.supply = l.supply + n
      /\ k = [l EXCEPT !.bal = k.bal, !.supply = k.supply]
  BY DEF Minted, LedgerType
<1> HIDE DEF k
<1>4. [k.bal EXCEPT ![Miner] = @ + m] = [l.bal EXCEPT ![Miner] = @ + (n + m)]
  BY <1>1, <1>2, <1>3
<1>5. k.supply + m = l.supply + (n + m)
  BY <1>2, <1>3
<1>6. CreditReward(k, Miner, m) =
        [l EXCEPT !.bal = [l.bal EXCEPT ![Miner] = @ + (n + m)],
                  !.supply = l.supply + (n + m)]
  BY <1>3, <1>4, <1>5 DEF CreditReward, LedgerType
<1> QED BY <1>6 DEF Minted, k, LedgerType

-----------------------------------------------------------------------------
(* The invariant.                                                          *)
LEMMA SettleOwes ==
    ASSUME Typed, NEW t \in Tx, Owes(snap, ledger, t), NEW r \in Pending,
           Miner # NoMiner,
           RewardFits(ledger, Miner, CalculateReward(r.height)),
           ledger' = CreditReward(ledger, Miner, CalculateReward(r.height)),
           snap' = snap
    PROVE  Owes(snap, ledger, t)' /\ ledger'.supply <= MaxSupply
<1> DEFINE m == CalculateReward(r.height)
<1>1. m \in Nat /\ snap \in LedgerType /\ ledger \in LedgerType
  BY RewardNat DEF Pending, Typed, TypeOK
<1>2. PICK n \in Nat : /\ snap.supply + n <= MaxSupply
                       /\ ledger = Minted(Paid(snap, t), n)
                       /\ ledger.supply = snap.supply + n
  BY DEF Owes
<1>3. Paid(snap, t) \in LedgerType
  BY <1>1, PaidType DEF Owes
<1> HIDE DEF m
<1>4. ledger' = Minted(Paid(snap, t), n + m)
  BY <1>1, <1>2, <1>3, MintMore DEF m
<1>5. ledger'.supply = ledger.supply + m /\ ledger.supply + m <= MaxSupply
  BY <1>1 DEF CreditReward, RewardFits, LedgerType, m
<1>6. snap.supply \in Nat
  BY <1>1, LedgerAssumption DEF LedgerType, U64, LedgerAssumption
<1>7. n + m \in Nat /\ snap.supply + (n + m) = ledger.supply + m
  BY <1>1, <1>2, <1>6
<1> QED BY <1>4, <1>5, <1>7 DEF Owes

LEMMA ApplyOwes ==
    ASSUME Typed, NEW t \in PureValid, Applicable(t),
           ledger.supply <= MaxSupply,
           ledger' = Paid(ledger, t), snap' = ledger
    PROVE  Owes(snap, ledger, t)' /\ ledger'.supply <= MaxSupply
<1>1. ledger \in LedgerType /\ t \in Tx
  BY TransactionsAssumption DEF Typed, TypeOK, TransactionsAssumption
<1>2. Paid(ledger, t) \in LedgerType /\ Paid(ledger, t).supply = ledger.supply
  BY <1>1, PaidType DEF Applicable
<1>3. ledger.supply \in Nat
  BY <1>1, LedgerAssumption DEF LedgerType, U64, LedgerAssumption
<1>4. Minted(Paid(ledger, t), 0) = Paid(ledger, t)
  BY <1>2, MintNothing
<1>5. ledger.supply + 0 = ledger.supply
  BY <1>3
<1> QED BY <1>2, <1>3, <1>4, <1>5 DEF Owes, Applicable

\* A step that leaves ledger, snapshot, stakes and rewards alone, and every call
\* that settles where it is.
Quiet ==
    /\ UNCHANGED <<ledger, snap, staked, cons, settling>>
    /\ \A v \in Workers : (call'[v].pc = "settle") = (call[v].pc = "settle")
    /\ \A v \in Workers : call'[v].pc = "settle" => call'[v].tx = call[v].tx

\* What a step does, seen from the bank: nothing, or one of seven things.
LEMMA BankCases ==
    ASSUME HolderInv, [Next]_vars
    PROVE  \/ Quiet
           \/ \E w \in Workers : Apply(w) \/ Admit(w) \/ AdmitFails(w)
                                 \/ SaveFails(w) \/ PutCons(w)
                                 \/ \E r \in settling : Settle(w, r)
           \/ Staking
<1>0. /\ call \in [Workers -> CallType] /\ Solvers \subseteq Workers
  BY DEF HolderInv, Typed, TypeOK, Workers
<1> DEFINE bank == <<ledger, snap, staked, cons, settling>>
<1>1. ASSUME UNCHANGED bank, NEW w \in Workers,
             call[w].pc # "settle", call'[w].pc # "settle",
             \A v \in Workers \ {w} : call'[v] = call[v]
      PROVE  Quiet
  BY <1>1 DEF Quiet
<1>2. ASSUME NEW w \in Workers, Finish(w)
      PROVE  /\ call'[w].pc # "settle"
             /\ \A v \in Workers \ {w} : call'[v] = call[v]
  BY <1>0, <1>2 DEF Finish, Idle
<1>3. ASSUME NEW w \in Workers, NEW phase, Goto(w, phase)
      PROVE  /\ call'[w].pc = phase
             /\ \A v \in Workers \ {w} : call'[v] = call[v]
  BY <1>0, <1>3 DEF Goto, CallType
<1>4. ASSUME UNCHANGED bank /\ call' = call PROVE Quiet
  BY <1>4 DEF Quiet
<1>5. CASE UNCHANGED vars
  BY <1>4, <1>5 DEF vars
<1>6. ASSUME NEW w \in Workers, Enter(w) PROVE Quiet
  <2>1. ASSUME NEW t \in Tx, SubmitMissing(w, t) \/ SubmitReady(w, t)
        PROVE  Quiet
    <3>1. /\ UNCHANGED bank
          /\ call[w].pc # "settle" /\ call'[w].pc # "settle"
          /\ \A v \in Workers \ {w} : call'[v] = call[v]
      BY <1>0, <2>1 DEF SubmitMissing, SubmitReady, Takes
    <3> QED BY <1>1, <3>1
  <2>2. CASE StoreOrphan(w)
    <3>1. UNCHANGED bank /\ call[w].pc # "settle"
      BY <2>2 DEF StoreOrphan
    <3>2. Finish(w)
      BY <2>2 DEF StoreOrphan
    <3> QED BY <1>1, <1>2, <3>1, <3>2
  <2> QED BY <1>6, <2>1, <2>2 DEF Enter
<1>7. ASSUME NEW s \in Solvers, Solve(s) PROVE Quiet
  <2>1. s \in Workers
    BY <1>0
  <2>2. CASE StartBatch(s)
    <3>1. /\ UNCHANGED bank /\ call[s].pc # "settle"
          /\ Goto(s, "batch")
      BY <2>2 DEF StartBatch, StartBatchWith
    <3> QED BY <1>1, <1>3, <2>1, <3>1
  <2>3. CASE EndBatch(s)
    <3>1. /\ UNCHANGED bank /\ call[s].pc # "settle"
          /\ call'[s].pc # "settle"
          /\ \A v \in Workers \ {s} : call'[v] = call[v]
      BY <1>0, <2>1, <2>3 DEF EndBatch, Idle
    <3> QED BY <1>1, <2>1, <3>1
  <2>4. ASSUME NEW t \in Tx, SkipOrphan(s, t) PROVE Quiet
    BY <1>4, <2>4 DEF SkipOrphan
  <2> QED BY <1>7, <2>2, <2>3, <2>4 DEF Solve
<1>8. ASSUME NEW w \in Workers,
             \/ Reject(w) \/ LockBusy(w) \/ ApplyFails(w) \/ Publish(w)
             \/ Validate(w) \/ Save(w) \/ PutTx(w)
      PROVE  Quiet
  <2>1. CASE Reject(w) \/ LockBusy(w) \/ ApplyFails(w) \/ Publish(w)
    <3>1. UNCHANGED bank /\ call[w].pc # "settle" /\ Finish(w)
      BY <2>1 DEF Reject, LockBusy, ApplyFails, Publish
    <3> QED BY <1>1, <1>2, <3>1
  <2>2. CASE Validate(w) \/ Save(w) \/ PutTx(w)
    <3>1. /\ UNCHANGED bank /\ call[w].pc # "settle"
          /\ \E phase \in {"validated", "putTx", "putCons"} : Goto(w, phase)
      BY <2>2 DEF Validate, Save, PutTx
    <3> QED BY <1>1, <1>3, <3>1
  <2> QED BY <1>8, <2>1, <2>2
<1>9. CASE MinePop \/ MineAdd
  BY <1>4, <1>9 DEF MinePop, MineAdd
<1> QED BY <1>5, <1>6, <1>7, <1>8, <1>9 DEF Next, Pipeline

LEMMA BankStep == BankInv /\ [Next]_vars => BankInv'
<1> SUFFICES ASSUME BankInv, [Next]_vars
             PROVE  /\ ledger'.supply <= MaxSupply
                    /\ \A v \in Workers : call'[v].pc = "settle" =>
                          Owes(snap', ledger', call'[v].tx)
  BY HolderStep DEF BankInv, Owes, Paid, Minted
<1>0. /\ HolderInv /\ Typed /\ call \in [Workers -> CallType]
      /\ ledger \in LedgerType /\ snap \in LedgerType
      /\ ledger.supply <= MaxSupply
  BY DEF BankInv, HolderInv, Typed, TypeOK
<1>1. ASSUME NEW v \in Workers, NEW w \in Workers,
             call[v].pc \in ConsPhases, call[w].pc \in ConsPhases
      PROVE  v = w
  BY <1>0, <1>1 DEF HolderInv
<1>2. CASE Quiet
  BY <1>0, <1>2 DEF BankInv, Quiet
<1>3. ASSUME NEW w \in Workers, Apply(w)
      PROVE  /\ ledger'.supply <= MaxSupply
             /\ \A v \in Workers : call'[v].pc = "settle" =>
                   Owes(snap', ledger', call'[v].tx)
  <2>1. /\ call[w].pc = "validated" /\ call'[w].tx = call[w].tx
        /\ \A v \in Workers \ {w} : call'[v] = call[v]
        /\ Applicable(call[w].tx)
        /\ ledger' = Paid(ledger, call[w].tx) /\ snap' = ledger
    BY <1>0, <1>3 DEF Apply, Goto, CallType, Paid
  <2>2. call[w].tx \in PureValid
    BY <1>0, <2>1 DEF Typed, CallsCarry
  <2>3. Owes(snap', ledger', call[w].tx) /\ ledger'.supply <= MaxSupply
    BY <1>0, <2>1, <2>2, ApplyOwes DEF Owes, Paid, Minted
  <2>4. ASSUME NEW v \in Workers, call'[v].pc = "settle" PROVE v = w
    BY <1>1, <2>1, <2>4 DEF ConsPhases, WritePhases
  <2> QED BY <2>1, <2>3, <2>4
<1>4. ASSUME NEW w \in Workers, NEW r \in settling, Settle(w, r)
      PROVE  /\ ledger'.supply <= MaxSupply
             /\ \A v \in Workers : call'[v].pc = "settle" =>
                   Owes(snap', ledger', call'[v].tx)
  <2>1. CASE CanSettle(r)
    <3>1. /\ call' = call /\ snap' = snap /\ Miner # NoMiner
          /\ call[w].pc = "settle"
          /\ ledger' = CreditReward(ledger, Miner, CalculateReward(r.height))
          /\ RewardFits(ledger, Miner, CalculateReward(r.height))
      BY <1>4, <2>1 DEF Settle, CanSettle
    <3>2. call[w].tx \in Tx /\ Owes(snap, ledger, call[w].tx) /\ r \in Pending
      BY <1>0, <3>1 DEF BankInv, Typed, TypeOK, CallsCarry
    <3>3. Owes(snap', ledger', call[w].tx) /\ ledger'.supply <= MaxSupply
      BY <1>0, <3>1, <3>2, SettleOwes DEF Owes, Paid, Minted
    <3>4. ASSUME NEW v \in Workers, call'[v].pc = "settle" PROVE v = w
      BY <1>1, <3>1, <3>4 DEF ConsPhases, WritePhases
    <3> QED BY <3>1, <3>3, <3>4
  <2>2. CASE ~CanSettle(r)
    <3>1. UNCHANGED <<ledger, snap, call>>
      BY <1>4, <2>2 DEF Settle
    <3> QED BY <1>0, <3>1 DEF BankInv
  <2> QED BY <2>1, <2>2
<1>5. ASSUME NEW w \in Workers,
             Admit(w) \/ AdmitFails(w) \/ SaveFails(w) \/ PutCons(w)
      PROVE  /\ ledger'.supply <= MaxSupply
             /\ \A v \in Workers : call'[v].pc # "settle"
  <2>1. /\ call[w].pc \in ConsPhases /\ call'[w].pc # "settle"
        /\ \A v \in Workers \ {w} : call'[v] = call[v]
    BY <1>0, <1>5 DEF Admit, AdmitFails, SaveFails, PutCons, Goto, Finish, Idle,
       ConsPhases, WritePhases, CallType
  <2>2. ASSUME NEW v \in Workers, call'[v].pc = "settle" PROVE FALSE
    BY <1>1, <2>1, <2>2 DEF ConsPhases, WritePhases
  <2>3. ledger'.supply <= MaxSupply
    <3>1. CASE AdmitFails(w)
      <4>1. ledger' = snap /\ call[w].pc = "settle"
        BY <3>1 DEF AdmitFails, Rollback
      <4>2. PICK n \in Nat : snap.supply + n <= MaxSupply
        BY <4>1 DEF BankInv, Owes
      <4>3. snap.supply \in Nat /\ MaxSupply \in Nat
        BY <1>0, LedgerAssumption DEF LedgerType, U64, LedgerAssumption
      <4> QED BY <4>1, <4>2, <4>3
    <3>2. CASE ~AdmitFails(w)
      BY <1>0, <1>5, <3>2 DEF Admit, SaveFails, PutCons
    <3> QED BY <3>1, <3>2
  <2> QED BY <2>2, <2>3
<1>6. CASE Staking
  <2>1. /\ call' = call /\ ~WriteLocked
        /\ ledger'.supply = ledger.supply
    BY <1>0, <1>6 DEF Staking, Stake, Unstake, Subtract, AddBalance, LedgerType
  <2> QED BY <1>0, <2>1 DEF WriteLocked, WritePhases
<1> QED BY <1>0, <1>2, <1>3, <1>4, <1>5, <1>6, BankCases

LEMMA BankInit == Init => BankInv
<1> SUFFICES ASSUME Init PROVE BankInv
  OBVIOUS
<1>1. \A w \in Workers : call[w].pc = "idle"
  BY DEF Init, Idle
<1>2. ledger.supply = 0 /\ MaxSupply \in Nat
  BY LedgerAssumption DEF Init, InitLedger, LedgerAssumption
<1> QED BY <1>1, <1>2, HolderInit DEF BankInv

-----------------------------------------------------------------------------
(* The bank's own operators are those of the ledger.                       *)
LEMMA SameOperators ==
    ASSUME NEW l, NEW t, NEW a, NEW n
    PROVE  /\ Bank!TransferFits(l, t) = TransferFits(l, t)
           /\ Bank!NonceFits(l, t) = NonceFits(l, t)
           /\ Bank!CommitNonce(Bank!Transfer(l, t), t) = Paid(l, t)
           /\ Bank!Minted(l, n) = Minted(l, n)
           /\ Bank!Subtract(l, a, n) = Subtract(l, a, n)
           /\ Bank!AddFits(l, a, n) = AddFits(l, a, n)
           /\ Bank!AddBalance(l, a, n) = AddBalance(l, a, n)
<1>1. Bank!TransferFits(l, t) = TransferFits(l, t)
  BY DEF Bank!TransferFits, TransferFits, Bank!Cost, Cost, Bank!FeeFits, FeeFits
<1>2. Bank!NonceFits(l, t) = NonceFits(l, t)
  BY DEF Bank!NonceFits, NonceFits
<1>3. Bank!Transfer(l, t) = Transfer(l, t)
  BY DEF Bank!Transfer, Transfer, Bank!Debit, Debit, Bank!Cost, Cost
<1>4. Bank!CommitNonce(Transfer(l, t), t) = Paid(l, t)
  BY DEF Bank!CommitNonce, CommitNonce, Paid
<1>5. Bank!Minted(l, n) = Minted(l, n)
  BY DEF Bank!Minted, Minted
<1>6. /\ Bank!Subtract(l, a, n) = Subtract(l, a, n)
      /\ Bank!AddFits(l, a, n) = AddFits(l, a, n)
      /\ Bank!AddBalance(l, a, n) = AddBalance(l, a, n)
  BY DEF Bank!Subtract, Subtract, Bank!AddFits, AddFits, Bank!AddBalance,
     AddBalance
<1> QED BY <1>1, <1>2, <1>3, <1>4, <1>5, <1>6

\* A payment that the pipeline owes is one that the bank makes.
LEMMA OwedIsPaid ==
    ASSUME NEW t, VisibleLedger = snap, VisibleLedger' = ledger,
           Owes(snap, ledger, t), staked' = staked, Typed
    PROVE  Bank!Pay(t)
<1>1. PICK n \in Nat : /\ snap.supply + n <= MaxSupply
                       /\ ledger = Minted(Paid(snap, t), n)
                       /\ ledger.supply = snap.supply + n
  BY DEF Owes
<1>2. snap.supply \in Nat /\ MaxSupply \in Nat
  BY LedgerAssumption DEF Typed, TypeOK, LedgerType, U64, LedgerAssumption
<1>3. /\ ledger.supply \in snap.supply .. MaxSupply
      /\ ledger.supply - snap.supply = n
  BY <1>1, <1>2
<1>4. TransferFits(snap, t) /\ NonceFits(snap, t)
  BY DEF Owes
<1> QED BY <1>1, <1>3, <1>4, SameOperators DEF Bank!Pay

LEMMA BankRefines ==
    BankInv /\ [Next]_vars => [Bank!Next]_<<VisibleLedger, staked>>
<1> SUFFICES ASSUME BankInv, [Next]_vars
             PROVE  \/ Bank!Next
                    \/ VisibleLedger' = VisibleLedger /\ staked' = staked
  OBVIOUS
<1>0. /\ HolderInv /\ Typed /\ call \in [Workers -> CallType]
  BY DEF BankInv, HolderInv, Typed, TypeOK
<1>1. ASSUME NEW w \in Workers, call[w].pc = "settle"
      PROVE  VisibleLedger = snap
  BY <1>1 DEF VisibleLedger
<1>2. ASSUME NEW v \in Workers, NEW w \in Workers,
             call[v].pc \in ConsPhases, call[w].pc \in ConsPhases
      PROVE  v = w
  BY <1>0, <1>2 DEF HolderInv
<1>3. CASE Quiet
  BY <1>3 DEF VisibleLedger, Quiet
<1>4. ASSUME NEW w \in Workers, call[w].pc \in ConsPhases,
             call'[w].pc # "settle", \A v \in Workers \ {w} : call'[v] = call[v]
      PROVE  VisibleLedger' = ledger'
  <2>1. \A v \in Workers : call'[v].pc # "settle"
    BY <1>2, <1>4 DEF ConsPhases, WritePhases
  <2> QED BY <2>1 DEF VisibleLedger
<1>5. ASSUME NEW w \in Workers, call[w].pc \in ConsPhases, call[w].pc # "settle"
      PROVE  VisibleLedger = ledger
  <2>1. \A v \in Workers : call[v].pc # "settle"
    BY <1>2, <1>5 DEF ConsPhases, WritePhases
  <2> QED BY <2>1 DEF VisibleLedger
<1>6. ASSUME NEW w \in Workers, Apply(w)
      PROVE  VisibleLedger' = VisibleLedger /\ staked' = staked
  <2>1. /\ call[w].pc = "validated" /\ call'[w].pc = "settle"
        /\ snap' = ledger /\ staked' = staked
    BY <1>0, <1>6 DEF Apply, Goto, CallType
  <2>2. VisibleLedger = ledger
    BY <1>5, <2>1 DEF ConsPhases
  <2>3. VisibleLedger' = snap'
    BY <2>1 DEF VisibleLedger
  <2> QED BY <2>1, <2>2, <2>3
<1>7. ASSUME NEW w \in Workers, NEW r \in settling, Settle(w, r)
      PROVE  VisibleLedger' = VisibleLedger /\ staked' = staked
  <2>1. /\ call[w].pc = "settle" /\ call' = call
        /\ snap' = snap /\ staked' = staked
    BY <1>7 DEF Settle
  <2> QED BY <2>1 DEF VisibleLedger
<1>8. ASSUME NEW w \in Workers, Admit(w) PROVE Bank!Next
  <2>1. /\ call[w].pc = "settle" /\ call'[w].pc # "settle"
        /\ \A v \in Workers \ {w} : call'[v] = call[v]
        /\ ledger' = ledger /\ staked' = staked
    BY <1>0, <1>8 DEF Admit, Goto, CallType
  <2>2. VisibleLedger = snap /\ VisibleLedger' = ledger
    BY <1>1, <1>4, <2>1 DEF ConsPhases, WritePhases
  <2>3. Owes(snap, ledger, call[w].tx) /\ call[w].tx \in PureValid
    BY <2>1 DEF BankInv, Owes
  <2>4. Bank!Pay(call[w].tx)
    BY <1>0, <2>1, <2>2, <2>3, OwedIsPaid
  <2> QED BY <2>3, <2>4 DEF Bank!Next
<1>9. ASSUME NEW w \in Workers, AdmitFails(w)
      PROVE  VisibleLedger' = VisibleLedger /\ staked' = staked
  <2>1. /\ call[w].pc = "settle" /\ call'[w].pc # "settle"
        /\ \A v \in Workers \ {w} : call'[v] = call[v]
        /\ ledger' = snap /\ staked' = staked
    BY <1>0, <1>9 DEF AdmitFails, Rollback, Finish, Idle, CallType
  <2> QED BY <1>1, <1>4, <2>1 DEF ConsPhases, WritePhases
<1>10. ASSUME NEW w \in Workers, SaveFails(w) \/ PutCons(w)
       PROVE  VisibleLedger' = VisibleLedger /\ staked' = staked
  <2>1. /\ call[w].pc \in ConsPhases /\ call[w].pc # "settle"
        /\ call'[w].pc # "settle"
        /\ \A v \in Workers \ {w} : call'[v] = call[v]
        /\ ledger' = ledger /\ staked' = staked
    BY <1>0, <1>10 DEF SaveFails, PutCons, Goto, Finish, Idle, ConsPhases,
       WritePhases, CallType
  <2> QED BY <1>4, <1>5, <2>1
<1>11. CASE Staking
  <2>1. /\ call' = call /\ \A w \in Workers : call[w].pc # "settle"
    BY <1>11 DEF Staking, Stake, Unstake, WriteLocked, WritePhases
  <2>2. VisibleLedger = ledger /\ VisibleLedger' = ledger'
    BY <2>1 DEF VisibleLedger
  <2>3. ASSUME NEW a \in Stakers, NEW n \in StakeAmounts, Stake(a, n)
        PROVE  Bank!Next
    <3>1. Bank!Lock(a, n)
      BY <2>2, <2>3, SameOperators DEF Stake, Bank!Lock
    <3> QED BY <3>1 DEF Bank!Next
  <2>4. ASSUME NEW a \in Stakers, NEW n \in Interest, Unstake(a, n)
        PROVE  Bank!Next
    <3>1. Bank!Unlock(a, n)
      BY <2>2, <2>4, SameOperators DEF Unstake, Bank!Unlock
    <3> QED BY <3>1 DEF Bank!Next
  <2> QED BY <1>11, <2>3, <2>4 DEF Staking
<1> QED BY <1>0, <1>3, <1>6, <1>7, <1>8, <1>9, <1>10, <1>11, BankCases

\* The pipeline with its snapshot, its rollback and its settle loop implements
\* the atomic bank: every behaviour of the node is, to a reader of the ledger,
\* one in which payments happen whole or not at all.
THEOREM BankCorrect == Spec => ImplementsBank
<1>1. Init => Bank!Init
  <2> SUFFICES ASSUME Init PROVE Bank!Init
    OBVIOUS
  <2>1. \A w \in Workers : call[w].pc # "settle"
    BY DEF Init, Idle
  <2> QED BY <2>1 DEF Init, Bank!Init, VisibleLedger, InitLedger
<1> QED BY <1>1, BankInit, BankStep, BankRefines, PTL
    DEF Spec, ImplementsBank, Bank!Spec

-----------------------------------------------------------------------------
(* Sums of rewards and of balances.                                        *)
RewardsOf(S) == SumFunctionOnSet([r \in S |-> CalculateReward(r.height)], S)

LEMMA EmissionGrows ==
    ASSUME NEW h \in Nat
    PROVE  /\ Emission(h) \in Nat
           /\ Emission(h + 1) = Emission(h) + CalculateReward(h + 1)
           /\ CalculateReward(h + 1) \in Nat
<1> DEFINE n == h + 1
           S == 1 .. h
           f == [i \in S |-> CalculateReward(i)]
           g == [i \in 1 .. n |-> CalculateReward(i)]
<1>1. /\ Emission(h) = SumFunctionOnSet(f, S)
      /\ Emission(n) = SumFunctionOnSet(g, 1 .. n)
  BY DEF Emission, SumFunction
<1>2. 1 .. n = S \cup {n} /\ n \notin S /\ n \in Nat /\ S \subseteq Nat
  OBVIOUS
<1>3. IsFiniteSet(S)
  BY FS_Interval
<1> HIDE DEF S, n
<1>4. \A i \in S : f[i] \in Nat /\ g[i] = f[i]
  BY <1>2, RewardNat
<1>5. g[n] = CalculateReward(n) /\ g[n] \in Nat
  BY <1>2, RewardNat
<1> HIDE DEF f, g
<1>6. SumFunctionOnSet(f, S) \in Nat
  BY <1>3, <1>4, SumNat
<1>7. SumFunctionOnSet(g, S \cup {n}) = SumFunctionOnSet(f, S) + g[n]
  BY <1>2, <1>3, <1>4, <1>5, SumGrows
<1> QED BY <1>1, <1>2, <1>5, <1>6, <1>7 DEF n

LEMMA OwedIs == Owed = RewardsOf(cons.pending)
BY DEF Owed, RewardsOf, SumFunction

LEMMA RewardsAdd ==
    ASSUME NEW S, S \subseteq Pending, IsFiniteSet(S), NEW r \in Pending,
           r \notin S
    PROVE  /\ RewardsOf(S) \in Nat /\ IsFiniteSet(S \cup {r})
           /\ RewardsOf(S \cup {r}) = RewardsOf(S) + CalculateReward(r.height)
<1> DEFINE f == [q \in S |-> CalculateReward(q.height)]
           g == [q \in S \cup {r} |-> CalculateReward(q.height)]
<1>1. \A q \in S : f[q] \in Nat /\ g[q] = f[q]
  BY RewardNat DEF Pending
<1>2. g[r] = CalculateReward(r.height) /\ g[r] \in Nat
  BY RewardNat DEF Pending
<1> HIDE DEF f, g
<1>3. SumFunctionOnSet(f, S) \in Nat
  BY <1>1, SumNat
<1>4. SumFunctionOnSet(g, S \cup {r}) = SumFunctionOnSet(f, S) + g[r]
  BY <1>1, <1>2, SumGrows
<1>5. IsFiniteSet(S \cup {r})
  BY FS_AddElement
<1> QED BY <1>2, <1>3, <1>4, <1>5 DEF RewardsOf, f, g

LEMMA TotalNat ==
    ASSUME NEW b \in [Addr -> U64]
    PROVE  /\ Total(b) \in Nat
           /\ \A a \in Addr : b[a] \in Nat /\ b[a] <= Total(b)
<1>1. IsFiniteSet(Addr) /\ \A a \in Addr : b[a] \in Nat
  BY FiniteAssumption, LedgerAssumption
  DEF FiniteAssumption, LedgerAssumption, U64
<1>2. Total(b) \in Nat
  BY <1>1, SumNat DEF Total
<1>3. ASSUME NEW a \in Addr PROVE b[a] <= Total(b)
  <2>1. Total(b) = b[a] + SumFunctionOnSet(b, Addr \ {a})
    BY <1>1, SumRemove DEF Total
  <2>2. SumFunctionOnSet(b, Addr \ {a}) \in Nat
    BY <1>1, FS_RemoveElement, SumNat
  <2> QED BY <1>1, <2>1, <2>2
<1> QED BY <1>1, <1>2, <1>3

LEMMA BalanceNat ==
    ASSUME NEW l \in LedgerType
    PROVE  \A a \in Addr : l.bal[a] \in Nat
BY TotalNat DEF LedgerType

\* One balance changed.
LEMMA TotalChange ==
    ASSUME NEW b, NEW c, NEW a \in Addr,
           \A x \in Addr : b[x] \in Nat /\ c[x] \in Nat,
           \A x \in Addr \ {a} : c[x] = b[x]
    PROVE  /\ Total(b) \in Nat /\ Total(c) \in Nat
           /\ Total(c) + b[a] = Total(b) + c[a]
<1>1. IsFiniteSet(Addr)
  BY FiniteAssumption DEF FiniteAssumption
<1> QED BY <1>1, SumChange DEF Total

\* A payment makes no coins, whoever is paid: sender, receiver and burn address
\* are written in turn.
LEMMA TransferTotal ==
    ASSUME NEW l \in LedgerType, NEW t \in Tx, TransferFits(l, t),
           Sender[t] # Burn
    PROVE  /\ Total(Transfer(l, t).bal) \in Nat /\ Total(l.bal) \in Nat
           /\ Total(Transfer(l, t).bal) <= Total(l.bal)
<1> DEFINE s == Sender[t]
           r == Receiver[t]
           b0 == l.bal
           b1 == [b0 EXCEPT ![s] = b0[s] - Debit(t)]
           b2 == [b1 EXCEPT ![r] = IF r \in {s, Burn} THEN @ ELSE @ + Amount[t]]
           b3 == [b2 EXCEPT ![Burn] = @ + Fee[t]]
<1>1. /\ s \in Addr /\ r \in Addr /\ Burn \in Addr
      /\ Amount[t] \in Nat /\ Fee[t] \in Nat
      /\ s # Burn
  BY CostNat, TransactionsAssumption DEF TransactionsAssumption
<1>2. /\ b0 \in [Addr -> Nat]
      /\ Debit(t) = IF s = r THEN Fee[t] ELSE Amount[t] + Fee[t]
      /\ b0[s] >= Amount[t] + Fee[t]
  BY LedgerAssumption DEF LedgerType, LedgerAssumption, U64, Debit, Cost,
     TransferFits
<1>3. Debit(t) \in Nat /\ b0[s] - Debit(t) \in Nat
  BY <1>1, <1>2
<1>4. b1 \in [Addr -> Nat] /\ b1[s] = b0[s] - Debit(t)
      /\ \A x \in Addr \ {s} : b1[x] = b0[x]
  BY <1>1, <1>2, <1>3
<1> HIDE DEF b1
<1>5. b2 \in [Addr -> Nat]
      /\ b2[r] = (IF r \in {s, Burn} THEN b1[r] ELSE b1[r] + Amount[t])
      /\ \A x \in Addr \ {r} : b2[x] = b1[x]
  BY <1>1, <1>4
<1> HIDE DEF b2
<1>6. b3 \in [Addr -> Nat] /\ b3[Burn] = b2[Burn] + Fee[t]
      /\ \A x \in Addr \ {Burn} : b3[x] = b2[x]
  BY <1>1, <1>5
<1>7. Transfer(l, t).bal = b3
  <2> DEFINE b == [a \in Addr |->
            IF a = Burn             THEN l.bal[a] + Fee[t]
            ELSE IF a = Sender[t]   THEN l.bal[a] - Debit(t)
            ELSE IF a = Receiver[t] THEN l.bal[a] + Amount[t]
            ELSE l.bal[a]]
  <2>1. Transfer(l, t).bal = b
    BY DEF Transfer, LedgerType
  <2>2. ASSUME NEW a \in Addr PROVE b[a] = b3[a]
    <3>1. CASE a = Burn
      <4>1. b2[a] = b0[a]
        BY <1>1, <1>4, <1>5, <3>1
      <4> QED BY <1>6, <3>1, <4>1
    <3>2. CASE a # Burn /\ a = s
      <4>1. b3[a] = b0[a] - Debit(t)
        BY <1>1, <1>4, <1>5, <1>6, <3>2
      <4> QED BY <3>2, <4>1
    <3>3. CASE a # Burn /\ a # s /\ a = r
      <4>1. b3[a] = b0[a] + Amount[t]
        BY <1>1, <1>4, <1>5, <1>6, <3>3
      <4> QED BY <3>3, <4>1
    <3>4. CASE a # Burn /\ a # s /\ a # r
      <4>1. b3[a] = b0[a]
        BY <1>1, <1>4, <1>5, <1>6, <3>4
      <4> QED BY <3>4, <4>1
    <3> QED BY <3>1, <3>2, <3>3, <3>4
  <2>3. b = [a \in Addr |-> b[a]] /\ b3 = [a \in Addr |-> b3[a]]
    BY <1>6
  <2> HIDE DEF b, b3
  <2> QED BY <2>1, <2>2, <2>3
<1> HIDE DEF b0, b3
<1>8. /\ Total(b0) \in Nat /\ Total(b1) \in Nat
      /\ Total(b1) + b0[s] = Total(b0) + b1[s]
  BY <1>1, <1>2, <1>4, TotalChange
<1>9. Total(b2) \in Nat /\ Total(b2) + b1[r] = Total(b1) + b2[r]
  BY <1>1, <1>4, <1>5, TotalChange
<1>10. Total(b3) \in Nat /\ Total(b3) + b2[Burn] = Total(b2) + b3[Burn]
  BY <1>1, <1>5, <1>6, TotalChange
<1>11. b0[s] \in Nat /\ b1[r] \in Nat /\ b2[Burn] \in Nat
  BY <1>1, <1>2, <1>4, <1>5
<1>12. Total(b1) = Total(b0) - Debit(t)
  BY <1>3, <1>4, <1>8, <1>11
<1>13. Total(b2) = Total(b1) + (IF r \in {s, Burn} THEN 0 ELSE Amount[t])
  BY <1>1, <1>5, <1>8, <1>9, <1>11
<1>14. Total(b3) = Total(b2) + Fee[t]
  BY <1>1, <1>6, <1>9, <1>10, <1>11
<1>15. Total(b3) <= Total(b0)
  BY <1>1, <1>2, <1>8, <1>12, <1>13, <1>14
<1> QED BY <1>7, <1>8, <1>10, <1>15 DEF b0

-----------------------------------------------------------------------------
(* Supply.  The snapshot must account for its coins as well, since a       *)
(* refused transaction brings it back; and what the settle loop has minted *)
(* is lost with it, so that ledger is never behind the snapshot.           *)
Accounted(l) ==
    Total(l.bal) + AllStaked <= Total(GenesisBal) + l.supply + AllPaid

Settling == \E w \in Workers : call[w].pc = "settle"

CoinsInv ==
    /\ BankInv
    /\ RewardInv
    /\ IsFiniteSet(cons.pending)
    /\ ledger.supply + Owed <= Emission(cons.height)
    /\ Accounted(ledger)
    /\ Settling => Accounted(snap)

LEMMA CoinsNat ==
    ASSUME Typed
    PROVE  /\ AllStaked \in Nat /\ AllPaid \in Nat /\ Total(GenesisBal) \in Nat
           /\ Total(ledger.bal) \in Nat /\ Total(snap.bal) \in Nat
           /\ ledger.supply \in Nat /\ snap.supply \in Nat
           /\ cons.height \in Nat /\ Emission(cons.height) \in Nat
           /\ U64Max \in Nat /\ MaxSupply \in Nat
<1> DEFINE f == [a \in Stakers |-> staked[a].amount]
           g == [a \in Stakers |-> staked[a].paid]
<1>1. AllStaked = SumFunctionOnSet(f, Stakers)
      /\ AllPaid = SumFunctionOnSet(g, Stakers)
  BY DEF AllStaked, AllPaid, SumFunction
<1>2. \A a \in Stakers : f[a] \in Nat /\ g[a] \in Nat
  BY DEF Typed, TypeOK
<1>3. IsFiniteSet(Stakers)
  BY FiniteAssumption, ProcessorAssumption, FS_Subset
  DEF FiniteAssumption, ProcessorAssumption
<1> HIDE DEF f, g
<1>4. AllStaked \in Nat /\ AllPaid \in Nat
  BY <1>1, <1>2, <1>3, SumNat
<1>5. /\ GenesisBal \in [Addr -> U64] /\ ledger.bal \in [Addr -> U64]
      /\ snap.bal \in [Addr -> U64]
      /\ ledger.supply \in U64 /\ snap.supply \in U64 /\ cons.height \in Nat
  BY ProcessorAssumption DEF ProcessorAssumption, Typed, TypeOK, LedgerType,
     ConsType
<1>6. /\ Total(GenesisBal) \in Nat /\ Total(ledger.bal) \in Nat
      /\ Total(snap.bal) \in Nat /\ Emission(cons.height) \in Nat
  BY <1>5, TotalNat, EmissionGrows
<1> QED BY <1>4, <1>5, <1>6, LedgerAssumption DEF LedgerAssumption, U64

LEMMA OwedNat ==
    ASSUME Typed, IsFiniteSet(cons.pending)
    PROVE  Owed \in Nat
<1> DEFINE f == [r \in cons.pending |-> CalculateReward(r.height)]
<1>1. \A r \in cons.pending : f[r] \in Nat
  BY RewardNat DEF Typed, TypeOK, ConsType, Pending
<1> HIDE DEF f
<1>2. SumFunctionOnSet(f, cons.pending) \in Nat
  BY <1>1, SumNat
<1> QED BY <1>2 DEF Owed, SumFunction, f

\* A step that ends or advances the call that settles leaves none settling.
LEMMA OthersIdle ==
    ASSUME HolderInv, NEW w \in Workers,
           Admit(w) \/ AdmitFails(w) \/ SaveFails(w) \/ PutCons(w)
    PROVE  ~Settling'
<1>0. call \in [Workers -> CallType]
  BY DEF HolderInv, Typed, TypeOK
<1>1. /\ call[w].pc \in ConsPhases /\ call'[w].pc # "settle"
      /\ \A v \in Workers \ {w} : call'[v] = call[v]
  BY <1>0 DEF Admit, AdmitFails, SaveFails, PutCons, Goto, Finish, Idle,
     ConsPhases, WritePhases, CallType
<1>2. ASSUME NEW v \in Workers, call'[v].pc = "settle" PROVE FALSE
  BY <1>1, <1>2 DEF HolderInv, ConsPhases, WritePhases
<1> QED BY <1>2 DEF Settling

\* A stake moves coins from the balance to the position.
LEMMA StakeCoins ==
    ASSUME Typed, NEW a \in Stakers, NEW n \in StakeAmounts, Stake(a, n)
    PROVE  /\ AllPaid' = AllPaid
           /\ AllStaked' = AllStaked + n
           /\ Total(ledger'.bal) + n = Total(ledger.bal)
           /\ ledger'.supply = ledger.supply /\ n \in Nat
<1> DEFINE f == [b \in Stakers |-> staked[b].amount]
           g == [b \in Stakers |-> staked'[b].amount]
           p == [b \in Stakers |-> staked[b].paid]
           q == [b \in Stakers |-> staked'[b].paid]
<1>1. /\ AllStaked = SumFunctionOnSet(f, Stakers)
      /\ AllStaked' = SumFunctionOnSet(g, Stakers)
      /\ AllPaid = SumFunctionOnSet(p, Stakers)
      /\ AllPaid' = SumFunctionOnSet(q, Stakers)
  BY DEF AllStaked, AllPaid, SumFunction
<1>2. /\ IsFiniteSet(Stakers) /\ IsFiniteSet(Addr)
      /\ Stakers \subseteq Addr /\ n \in Nat
  BY FiniteAssumption, ProcessorAssumption, FS_Subset
  DEF FiniteAssumption, ProcessorAssumption
<1>3. /\ staked \in [Stakers -> [amount : Nat, paid : Nat]]
      /\ ledger \in LedgerType /\ \A x \in Addr : ledger.bal[x] \in Nat
  BY BalanceNat DEF Typed, TypeOK
<1>4. /\ staked'[a].amount = staked[a].amount + n
      /\ staked'[a].paid = staked[a].paid
      /\ \A b \in Stakers \ {a} : staked'[b] = staked[b]
  BY <1>3 DEF Stake
<1>5. /\ ledger'.bal[a] = ledger.bal[a] - n /\ ledger'.bal[a] \in Nat
      /\ \A b \in Addr \ {a} : ledger'.bal[b] = ledger.bal[b]
      /\ ledger'.supply = ledger.supply
  BY <1>2, <1>3 DEF Stake, Subtract, LedgerType
<1>6. /\ \A b \in Stakers : f[b] \in Nat /\ g[b] \in Nat /\ p[b] \in Nat
                            /\ q[b] = p[b]
      /\ \A b \in Stakers \ {a} : g[b] = f[b]
      /\ g[a] = f[a] + n
  BY <1>2, <1>3, <1>4
<1> HIDE DEF f, g, p, q
<1>7. AllPaid' = AllPaid
  BY <1>1, <1>2, <1>6, SumEqual
<1>8. /\ AllStaked \in Nat /\ AllStaked' \in Nat
      /\ AllStaked' + f[a] = AllStaked + g[a]
  BY <1>1, <1>2, <1>6, SumChange
<1>9. AllStaked' = AllStaked + n
  BY <1>2, <1>6, <1>8
<1>10. /\ Total(ledger.bal) \in Nat /\ Total(ledger'.bal) \in Nat
       /\ Total(ledger'.bal) + ledger.bal[a]
            = Total(ledger.bal) + ledger'.bal[a]
  <2>1. \A x \in Addr : ledger'.bal[x] \in Nat
    BY <1>3, <1>5
  <2> QED BY <1>2, <1>3, <1>5, <2>1, TotalChange
<1>11. Total(ledger'.bal) + n = Total(ledger.bal)
  BY <1>2, <1>3, <1>5, <1>10
<1> QED BY <1>2, <1>5, <1>7, <1>9, <1>11

\* An unstake moves them back with the interest, or loses them to an overflow.
LEMMA UnstakeCoins ==
    ASSUME Typed, NEW a \in Stakers, NEW n \in Interest, Unstake(a, n)
    PROVE  /\ AllPaid' = AllPaid + n
           /\ AllStaked' + staked[a].amount = AllStaked
           /\ staked[a].amount \in Nat /\ n \in Nat /\ AllStaked' \in Nat
           /\ Total(ledger'.bal) \in Nat
           /\ Total(ledger'.bal) <= Total(ledger.bal) + staked[a].amount + n
           /\ ledger'.supply = ledger.supply
<1> DEFINE f == [b \in Stakers |-> staked[b].amount]
           g == [b \in Stakers |-> staked'[b].amount]
           p == [b \in Stakers |-> staked[b].paid]
           q == [b \in Stakers |-> staked'[b].paid]
<1>1. /\ AllStaked = SumFunctionOnSet(f, Stakers)
      /\ AllStaked' = SumFunctionOnSet(g, Stakers)
      /\ AllPaid = SumFunctionOnSet(p, Stakers)
      /\ AllPaid' = SumFunctionOnSet(q, Stakers)
  BY DEF AllStaked, AllPaid, SumFunction
<1>2. /\ IsFiniteSet(Stakers) /\ IsFiniteSet(Addr)
      /\ Stakers \subseteq Addr /\ n \in Nat
  BY FiniteAssumption, ProcessorAssumption, FS_Subset
  DEF FiniteAssumption, ProcessorAssumption
<1>3. /\ staked \in [Stakers -> [amount : Nat, paid : Nat]]
      /\ ledger \in LedgerType /\ \A x \in Addr : ledger.bal[x] \in Nat
  BY BalanceNat DEF Typed, TypeOK
<1>4. /\ staked'[a].amount = 0
      /\ staked'[a].paid = staked[a].paid + n
      /\ \A b \in Stakers \ {a} : staked'[b] = staked[b]
  BY <1>3 DEF Unstake
<1>5. /\ \A b \in Stakers : /\ f[b] \in Nat /\ g[b] \in Nat
                            /\ p[b] \in Nat /\ q[b] \in Nat
      /\ \A b \in Stakers \ {a} : g[b] = f[b] /\ q[b] = p[b]
      /\ g[a] = 0 /\ f[a] = staked[a].amount /\ q[a] = p[a] + n
  BY <1>2, <1>3, <1>4
<1> HIDE DEF f, g, p, q
<1>6. /\ AllPaid \in Nat /\ AllPaid' \in Nat
      /\ AllPaid' + p[a] = AllPaid + q[a]
  BY <1>1, <1>2, <1>5, SumChange
<1>7. /\ AllStaked \in Nat /\ AllStaked' \in Nat
      /\ AllStaked' + f[a] = AllStaked + g[a]
  BY <1>1, <1>2, <1>5, SumChange
<1>8. AllPaid' = AllPaid + n /\ AllStaked' + staked[a].amount = AllStaked
  BY <1>2, <1>5, <1>6, <1>7
<1>9. Total(ledger.bal) \in Nat
  BY <1>2, <1>3, SumNat DEF Total
<1>10. /\ Total(ledger'.bal) \in Nat
       /\ Total(ledger'.bal) <= Total(ledger.bal) + staked[a].amount + n
       /\ ledger'.supply = ledger.supply
  <2> DEFINE m == staked[a].amount + n
  <2>1. m \in Nat /\ staked[a].amount \in Nat
    BY <1>2, <1>3
  <2>2. CASE ~AddFits(ledger, a, m)
    <3>1. ledger' = ledger
      BY <2>2 DEF Unstake
    <3> QED BY <1>2, <1>9, <2>1, <3>1
  <2>3. CASE AddFits(ledger, a, m)
    <3>1. ledger' = AddBalance(ledger, a, m)
      BY <2>3 DEF Unstake
    <3> HIDE DEF m
    <3>2. /\ ledger'.bal[a] = ledger.bal[a] + m /\ ledger'.bal[a] \in Nat
          /\ \A b \in Addr \ {a} : ledger'.bal[b] = ledger.bal[b]
          /\ ledger'.supply = ledger.supply
      BY <1>2, <1>3, <2>1, <3>1 DEF AddBalance, LedgerType
    <3>3. \A x \in Addr : ledger'.bal[x] \in Nat
      BY <1>3, <3>2
    <3>4. /\ Total(ledger.bal) \in Nat /\ Total(ledger'.bal) \in Nat
          /\ Total(ledger'.bal) + ledger.bal[a]
               = Total(ledger.bal) + ledger'.bal[a]
      BY <1>2, <1>3, <3>2, <3>3, TotalChange
    <3>5. Total(ledger'.bal) = Total(ledger.bal) + m
      BY <1>2, <1>3, <2>1, <3>2, <3>4
    <3> QED BY <1>2, <1>9, <2>1, <3>2, <3>5 DEF m
  <2> QED BY <2>2, <2>3
<1>11. staked[a].amount \in Nat
  BY <1>3
<1> QED BY <1>2, <1>7, <1>8, <1>10, <1>11

\* STEPs 2 to 6: no coin is made, and the reward of the new height is owed.
LEMMA ApplyCoins ==
    ASSUME CoinsInv, NEW w \in Workers, Apply(w)
    PROVE  /\ IsFiniteSet(cons'.pending)
           /\ ledger'.supply = ledger.supply
           /\ ledger'.supply + Owed' <= Emission(cons'.height)
           /\ Accounted(ledger)' /\ Accounted(snap)'
<1> DEFINE t == call[w].tx
<1>0. Typed /\ RewardInv
  BY DEF CoinsInv, RewardInv
<1>1. /\ t \in PureValid /\ t \in Tx /\ Applicable(t) /\ ledger \in LedgerType
      /\ ledger' = CommitNonce(Transfer(ledger, t), t)
      /\ snap' = ledger /\ staked' = staked
      /\ cons' = IF Miner = NoMiner THEN cons ELSE Queue(cons, t)
  BY <1>0 DEF Apply, Typed, TypeOK, CallsCarry
<1>2. Sender[t] # Burn
  BY <1>1, HashAssumption DEF HashAssumption
<1> HIDE DEF t
<1>3. /\ Transfer(ledger, t) \in LedgerType /\ TransferFits(ledger, t)
      /\ Transfer(ledger, t).supply = ledger.supply
  BY <1>1, TransferType DEF Applicable, Transfer, LedgerType
<1>4. /\ ledger'.bal = Transfer(ledger, t).bal
      /\ ledger'.supply = ledger.supply
  BY <1>1, <1>3 DEF CommitNonce, LedgerType
<1>5. Total(ledger'.bal) \in Nat /\ Total(ledger'.bal) <= Total(ledger.bal)
  BY <1>1, <1>2, <1>3, <1>4, TransferTotal
<1>6. AllStaked' = AllStaked /\ AllPaid' = AllPaid
  BY <1>1 DEF AllStaked, AllPaid
<1>7. Accounted(ledger)' /\ Accounted(snap)'
  <2>1. Total(ledger.bal) + AllStaked
          <= Total(GenesisBal) + ledger.supply + AllPaid
    BY DEF CoinsInv, Accounted
  <2>2. Total(ledger'.bal) + AllStaked
          <= Total(GenesisBal) + ledger.supply + AllPaid
    BY <1>0, <1>5, <2>1, CoinsNat
  <2> QED BY <1>1, <1>4, <1>6, <2>1, <2>2 DEF Accounted
<1>8. CASE Miner = NoMiner
  <2>1. cons' = cons /\ Owed' = Owed
    BY <1>1, <1>8 DEF Owed
  <2> QED BY <1>4, <1>7, <2>1 DEF CoinsInv
<1>9. CASE Miner # NoMiner
  <2> DEFINE h == cons.height
             P == cons.pending
             r == [block |-> t, height |-> h + 1]
  <2>1. h \in Nat /\ P \subseteq Pending /\ IsFiniteSet(P)
    BY <1>0 DEF CoinsInv, Typed, TypeOK, ConsType
  <2>2. cons'.pending = P \cup {r} /\ cons'.height = h + 1
    BY <1>0, <1>1, <1>9 DEF Queue, Typed, TypeOK, ConsType
  <2>3. r \in Pending /\ r.height = h + 1 /\ r \notin P
    BY <1>0, <1>1, <2>1 DEF Pending, RewardInv, RewardOnce
  <2> HIDE DEF h, P, r
  <2>4. /\ RewardsOf(P) \in Nat /\ IsFiniteSet(P \cup {r})
        /\ RewardsOf(P \cup {r}) = RewardsOf(P) + CalculateReward(h + 1)
    BY <2>1, <2>3, RewardsAdd
  <2>5. Owed = RewardsOf(P) /\ Owed' = RewardsOf(P \cup {r})
    BY <2>2 DEF Owed, RewardsOf, SumFunction, P
  <2>6. /\ Emission(h + 1) = Emission(h) + CalculateReward(h + 1)
        /\ Emission(h) \in Nat /\ CalculateReward(h + 1) \in Nat
    BY <2>1, EmissionGrows
  <2>7. ledger.supply + Owed <= Emission(h) /\ ledger.supply \in Nat
    BY <1>0, CoinsNat DEF CoinsInv, h
  <2>8. ledger.supply + Owed' <= Emission(h + 1)
    BY <2>4, <2>5, <2>6, <2>7
  <2> QED BY <1>4, <1>7, <2>2, <2>4, <2>8
<1> QED BY <1>8, <1>9

\* STEP 7: a reward leaves the queue as it is minted.
LEMMA SettleCoins ==
    ASSUME CoinsInv, NEW w \in Workers, NEW r \in settling, Settle(w, r),
           CanSettle(r)
    PROVE  /\ IsFiniteSet(cons'.pending) /\ cons'.height = cons.height
           /\ Owed' \in Nat /\ CalculateReward(r.height) \in Nat
           /\ Owed = Owed' + CalculateReward(r.height)
           /\ ledger'.supply = ledger.supply + CalculateReward(r.height)
           /\ Total(ledger'.bal) = Total(ledger.bal) + CalculateReward(r.height)
           /\ Accounted(ledger)' /\ snap' = snap /\ staked' = staked
<1> DEFINE n == CalculateReward(r.height)
<1>0. Typed /\ RewardInv
  BY DEF CoinsInv, RewardInv
<1>1. /\ Miner \in Addr /\ r \in Pending /\ n \in Nat
      /\ ledger \in LedgerType /\ ledger' = CreditReward(ledger, Miner, n)
      /\ cons' = Settled(cons, r)
      /\ snap' = snap /\ staked' = staked
  BY <1>0, RewardNat, ProcessorAssumption
  DEF ProcessorAssumption, Settle, Typed, TypeOK, Pending
<1> DEFINE P == cons.pending
<1>2. /\ cons'.height = cons.height
      /\ cons'.pending = {q \in P : q.block # r.block}
      /\ r \in P /\ P \subseteq Pending /\ IsFiniteSet(P)
  BY <1>0, <1>1 DEF Settled, CoinsInv, RewardInv, Typed, TypeOK, ConsType
<1>3. cons'.pending = P \ {r}
  BY <1>0, <1>2 DEF RewardInv, RewardOnce
<1> HIDE DEF n, P
<1>4. /\ RewardsOf(P \ {r}) \in Nat
      /\ RewardsOf(P) = RewardsOf(P \ {r}) + n /\ IsFiniteSet(P \ {r})
  <2>1. /\ IsFiniteSet(P \ {r}) /\ P \ {r} \subseteq Pending
        /\ r \notin P \ {r} /\ (P \ {r}) \cup {r} = P
    BY <1>2, FS_RemoveElement
  <2> QED BY <1>1, <2>1, RewardsAdd DEF n
<1>5. Owed = RewardsOf(P) /\ Owed' = RewardsOf(P \ {r})
  BY <1>3 DEF Owed, RewardsOf, SumFunction, P
<1>6. \A x \in Addr : ledger.bal[x] \in Nat
  BY <1>1, BalanceNat
<1>7. /\ ledger'.bal[Miner] = ledger.bal[Miner] + n
      /\ \A x \in Addr \ {Miner} : ledger'.bal[x] = ledger.bal[x]
      /\ ledger'.supply = ledger.supply + n
  BY <1>1 DEF CreditReward, LedgerType
<1>8. Total(ledger'.bal) = Total(ledger.bal) + n
  <2>1. \A x \in Addr : ledger'.bal[x] \in Nat
    BY <1>1, <1>6, <1>7
  <2>2. /\ Total(ledger.bal) \in Nat /\ Total(ledger'.bal) \in Nat
        /\ Total(ledger'.bal) + ledger.bal[Miner]
             = Total(ledger.bal) + ledger'.bal[Miner]
    BY <1>1, <1>6, <1>7, <2>1, TotalChange
  <2> QED BY <1>1, <1>6, <1>7, <2>2
<1>9. Accounted(ledger)'
  <2>1. Total(ledger.bal) + AllStaked
          <= Total(GenesisBal) + ledger.supply + AllPaid
    BY DEF CoinsInv, Accounted
  <2>2. Total(ledger'.bal) + AllStaked
          <= Total(GenesisBal) + ledger'.supply + AllPaid
    BY <1>0, <1>1, <1>7, <1>8, <2>1, CoinsNat
  <2> QED BY <1>1, <2>2 DEF Accounted, AllStaked, AllPaid
<1> QED BY <1>1, <1>2, <1>3, <1>4, <1>5, <1>7, <1>8, <1>9 DEF n

LEMMA StakingCoins ==
    ASSUME CoinsInv, Staking
    PROVE  /\ Accounted(ledger)' /\ ledger'.supply = ledger.supply
           /\ AllPaid <= AllPaid' /\ AllPaid' \in Nat
           /\ UNCHANGED <<cons, snap, call, settling>> /\ ~Settling
<1>0. /\ Typed
      /\ Total(ledger.bal) + AllStaked
           <= Total(GenesisBal) + ledger.supply + AllPaid
  BY DEF CoinsInv, RewardInv, Accounted
<1>1. UNCHANGED <<cons, snap, call, settling>> /\ ~Settling
  BY DEF Staking, Stake, Unstake, WriteLocked, WritePhases, Settling
<1>2. ASSUME NEW a \in Stakers, NEW n \in StakeAmounts, Stake(a, n)
      PROVE  /\ Accounted(ledger)' /\ ledger'.supply = ledger.supply
             /\ AllPaid <= AllPaid' /\ AllPaid' \in Nat
  <2>1. Total(ledger'.bal) + AllStaked'
          <= Total(GenesisBal) + ledger'.supply + AllPaid'
    <3>1. Total(ledger'.bal) = Total(ledger.bal) - n
      <4>1. Total(ledger'.bal) \in Nat
        BY <1>0, <1>2, StakingTyped, CoinsNat, TotalNat
        DEF Staking, Typed, TypeOK, LedgerType
      <4> QED BY <1>0, <1>2, <4>1, StakeCoins, CoinsNat
    <3> QED BY <1>0, <1>2, <3>1, StakeCoins, CoinsNat
  <2> QED BY <1>0, <1>2, <2>1, StakeCoins, CoinsNat DEF Accounted
<1>3. ASSUME NEW a \in Stakers, NEW n \in Interest, Unstake(a, n)
      PROVE  /\ Accounted(ledger)' /\ ledger'.supply = ledger.supply
             /\ AllPaid <= AllPaid' /\ AllPaid' \in Nat
  <2>1. Total(ledger'.bal) + AllStaked'
          <= Total(GenesisBal) + ledger'.supply + AllPaid'
    BY <1>0, <1>3, UnstakeCoins, CoinsNat
  <2> QED BY <1>0, <1>3, <2>1, UnstakeCoins, CoinsNat DEF Accounted
<1> QED BY <1>1, <1>2, <1>3 DEF Staking

LEMMA CoinsStep == CoinsInv /\ [Next]_vars => CoinsInv'
<1> SUFFICES ASSUME CoinsInv, [Next]_vars
             PROVE  /\ IsFiniteSet(cons'.pending)
                    /\ ledger'.supply + Owed' <= Emission(cons'.height)
                    /\ Accounted(ledger)'
                    /\ Settling' => Accounted(snap)'
  BY BankStep, RewardStep DEF CoinsInv
<1>0. /\ BankInv /\ HolderInv /\ Typed /\ IsFiniteSet(cons.pending)
      /\ ledger.supply + Owed <= Emission(cons.height)
      /\ Accounted(ledger) /\ (Settling => Accounted(snap))
      /\ call \in [Workers -> CallType]
  BY DEF CoinsInv, BankInv, HolderInv, Typed, TypeOK
<1>1. Owed \in Nat
  BY <1>0, OwedNat
<1>2. CASE Quiet
  <2>1. /\ Owed' = Owed /\ AllStaked' = AllStaked /\ AllPaid' = AllPaid
        /\ Settling' => Settling
    BY <1>2 DEF Owed, AllStaked, AllPaid, Settling, Quiet
  <2> QED BY <1>0, <1>2, <2>1 DEF Accounted, Quiet
<1>3. ASSUME NEW w \in Workers, Apply(w)
      PROVE  /\ IsFiniteSet(cons'.pending)
             /\ ledger'.supply + Owed' <= Emission(cons'.height)
             /\ Accounted(ledger)' /\ Accounted(snap)'
  BY <1>3, ApplyCoins
<1>4. ASSUME NEW w \in Workers, NEW r \in settling, Settle(w, r)
      PROVE  /\ IsFiniteSet(cons'.pending)
             /\ ledger'.supply + Owed' <= Emission(cons'.height)
             /\ Accounted(ledger)' /\ Accounted(snap)'
  <2>1. Settling
    BY <1>4 DEF Settle, Settling
  <2>2. CASE CanSettle(r)
    <3>1. Accounted(snap)'
      BY <1>0, <1>4, <2>1, <2>2, SettleCoins
      DEF Accounted, AllStaked, AllPaid
    <3>2. ledger'.supply + Owed' <= Emission(cons'.height)
      BY <1>0, <1>4, <2>2, SettleCoins, CoinsNat
    <3> QED BY <1>4, <2>2, <3>1, <3>2, SettleCoins
  <2>3. CASE ~CanSettle(r)
    <3>1. UNCHANGED <<ledger, cons, snap, staked>>
      BY <1>4, <2>3 DEF Settle
    <3> QED BY <1>0, <2>1, <3>1 DEF Accounted, AllStaked, AllPaid, Owed
  <2> QED BY <2>2, <2>3
<1>5. ASSUME NEW w \in Workers,
             Admit(w) \/ SaveFails(w) \/ PutCons(w)
      PROVE  /\ IsFiniteSet(cons'.pending)
             /\ ledger'.supply + Owed' <= Emission(cons'.height)
             /\ Accounted(ledger)' /\ ~Settling'
  <2>1. UNCHANGED <<ledger, cons, staked>>
    BY <1>5 DEF Admit, SaveFails, PutCons
  <2> QED BY <1>0, <1>5, <2>1, OthersIdle
     DEF Accounted, AllStaked, AllPaid, Owed
<1>6. ASSUME NEW w \in Workers, AdmitFails(w)
      PROVE  /\ IsFiniteSet(cons'.pending)
             /\ ledger'.supply + Owed' <= Emission(cons'.height)
             /\ Accounted(ledger)' /\ ~Settling'
  <2>1. /\ UNCHANGED <<cons, staked>> /\ ledger' = snap
        /\ call[w].pc = "settle"
    BY <1>6 DEF AdmitFails, Rollback
  <2>2. Accounted(snap) /\ snap.supply <= ledger.supply
    <3>1. PICK n \in Nat : ledger.supply = snap.supply + n
      BY <1>0, <2>1 DEF BankInv, Owes
    <3> QED BY <1>0, <2>1, <3>1, CoinsNat DEF Settling
  <2>3. snap.supply + Owed <= Emission(cons.height)
    BY <1>0, <1>1, <2>2, CoinsNat
  <2>4. Owed' = Owed /\ AllStaked' = AllStaked /\ AllPaid' = AllPaid
    BY <2>1 DEF Owed, AllStaked, AllPaid
  <2> QED BY <1>0, <1>6, <2>1, <2>2, <2>3, <2>4, OthersIdle DEF Accounted
<1>7. CASE Staking
  <2>1. Owed' = Owed /\ ~Settling'
    BY <1>7, StakingCoins DEF Owed, Settling
  <2> QED BY <1>0, <1>7, <2>1, StakingCoins
<1> QED BY <1>0, <1>2, <1>3, <1>4, <1>5, <1>6, <1>7, BankCases

LEMMA CoinsInit == Init => CoinsInv
<1> SUFFICES ASSUME Init PROVE CoinsInv
  OBVIOUS
<1>1. BankInv /\ RewardInv /\ Typed
  BY BankInit, RewardInit DEF RewardInv
<1>2. /\ cons.pending = {} /\ ledger.supply = 0 /\ ledger.bal = GenesisBal
      /\ \A a \in Stakers : staked[a].amount = staked[a].paid
      /\ ~Settling
  BY DEF Init, InitCons, InitLedger, Settling, Idle
<1>3. Owed = 0
  BY <1>2, SumEmpty DEF Owed, SumFunction
<1>4. AllStaked = AllPaid
  <2> DEFINE f == [a \in Stakers |-> staked[a].amount]
             g == [a \in Stakers |-> staked[a].paid]
  <2>1. f = g
    BY <1>2
  <2> QED BY <2>1 DEF AllStaked, AllPaid
<1>5. Accounted(ledger)
  BY <1>1, <1>2, <1>4, CoinsNat DEF Accounted
<1>6. ledger.supply + Owed <= Emission(cons.height)
  BY <1>1, <1>2, <1>3, CoinsNat
<1> QED BY <1>1, <1>2, <1>5, <1>6, FS_EmptySet DEF CoinsInv

\* What was minted and what is still owed never exceed the rewards of the
\* heights reached, MAX_SUPPLY holds, and no coin has another origin than
\* genesis, a reward or an interest: rollbacks, self-payments, payments to the
\* burn address and the faucet's repeated nonces included.
THEOREM EmissionCorrect == Spec => []EmissionBound
<1>1. CoinsInv => EmissionBound
  BY DEF CoinsInv, BankInv, Accounted, CoinsAccounted, EmissionBound
<1> QED BY <1>1, CoinsInit, CoinsStep, PTL DEF Spec

-----------------------------------------------------------------------------
(* Promptness.  While cap and u64 leave room, every reward that has reached *)
(* finality is one that the settle loop of some call has still before it.  *)
Room == Emission(cons.height) <= MaxSupply /\ RoomForCoins

PromptInv ==
    /\ CoinsInv
    /\ settling # {} => Settling
    /\ Room => FinalizedPending(cons) \subseteq settling

\* An owed reward fits, as long as there is room.
LEMMA OwedFits ==
    ASSUME CoinsInv, Room, Miner # NoMiner, NEW r \in cons.pending,
           Finalized(cons, r)
    PROVE  CanSettle(r)
<1> DEFINE n == CalculateReward(r.height)
           P == cons.pending
<1>0. /\ Typed /\ RewardOnce /\ Miner \in Addr
      /\ r \in P /\ P \subseteq Pending /\ IsFiniteSet(P)
      /\ ledger \in LedgerType
  BY ProcessorAssumption
  DEF ProcessorAssumption, CoinsInv, RewardInv, Typed, TypeOK, ConsType
<1>1. n \in Nat
  BY <1>0, RewardNat DEF Pending
<1>2. r.block \notin cons.rewarded
  BY <1>0 DEF RewardOnce
<1> HIDE DEF n, P
<1>3. RewardsOf(P \ {r}) \in Nat /\ RewardsOf(P) = RewardsOf(P \ {r}) + n
  <2>1. /\ IsFiniteSet(P \ {r}) /\ P \ {r} \subseteq Pending
        /\ r \notin P \ {r} /\ (P \ {r}) \cup {r} = P
    BY <1>0, FS_RemoveElement
  <2> QED BY <1>0, <2>1, RewardsAdd DEF n
<1>4. Owed = RewardsOf(P)
  BY OwedIs DEF P
<1>5. /\ ledger.supply + Owed <= Emission(cons.height)
      /\ Total(ledger.bal) + AllStaked
           <= Total(GenesisBal) + ledger.supply + AllPaid
      /\ Emission(cons.height) <= MaxSupply
      /\ Total(GenesisBal) + Emission(cons.height) + AllPaid <= U64Max
  BY DEF CoinsInv, Accounted, Room, RoomForCoins
<1>6. ledger.supply + n <= Emission(cons.height)
  BY <1>0, <1>1, <1>3, <1>4, <1>5, CoinsNat
<1>7. ledger.bal[Miner] <= Total(ledger.bal) /\ ledger.bal[Miner] \in Nat
  BY <1>0, TotalNat DEF LedgerType
<1>8. ledger.supply + n <= MaxSupply
  BY <1>0, <1>1, <1>5, <1>6, CoinsNat
<1>9. ledger.bal[Miner] + n <= U64Max
  BY <1>0, <1>1, <1>5, <1>6, <1>7, CoinsNat
<1> QED BY <1>2, <1>8, <1>9 DEF CanSettle, RewardFits, n

LEMMA PromptStep == PromptInv /\ [Next]_vars => PromptInv'
<1> SUFFICES ASSUME PromptInv, [Next]_vars
             PROVE  /\ settling' # {} => Settling'
                    /\ Room' => FinalizedPending(cons') \subseteq settling'
  BY CoinsStep DEF PromptInv, FinalizedPending, Finalized
<1>0. /\ CoinsInv /\ HolderInv /\ Typed /\ RewardInv
      /\ (settling # {} => Settling)
      /\ (Room => FinalizedPending(cons) \subseteq settling)
      /\ call \in [Workers -> CallType]
  BY DEF PromptInv, CoinsInv, BankInv, HolderInv, Typed, TypeOK
<1>1. ASSUME NEW w \in Workers, call[w].pc \in ConsPhases,
             call[w].pc # "settle"
      PROVE  settling = {}
  BY <1>0, <1>1 DEF HolderInv, Settling, ConsPhases, WritePhases
<1>2. ASSUME cons' = cons, staked' = staked PROVE Room' = Room
  BY <1>2 DEF Room, RoomForCoins, AllPaid
<1>3. CASE Quiet
  <2>1. Settling' = Settling
    BY <1>3 DEF Settling, Quiet
  <2> QED BY <1>0, <1>2, <1>3, <2>1 DEF Quiet
<1>4. ASSUME NEW w \in Workers, Apply(w)
      PROVE  /\ Settling'
             /\ Room' => FinalizedPending(cons') \subseteq settling'
  <2>1. Settling'
    BY <1>0, <1>4 DEF Apply, Goto, CallType, Settling
  <2>2. CASE Miner # NoMiner
    BY <1>4, <2>1, <2>2 DEF Apply
  <2>3. CASE Miner = NoMiner
    <3>1. cons' = cons /\ staked' = staked /\ settling = {} /\ settling' = {}
      BY <1>1, <1>4, <2>3 DEF Apply, ConsPhases
    <3> QED BY <1>0, <1>2, <2>1, <3>1
  <2> QED BY <2>2, <2>3
<1>5. ASSUME NEW w \in Workers, NEW r \in settling, Settle(w, r)
      PROVE  /\ Settling'
             /\ Room' => FinalizedPending(cons') \subseteq settling'
  <2>1. /\ Settling' /\ Miner # NoMiner /\ settling' = settling \ {r}
        /\ staked' = staked
    BY <1>5 DEF Settle, Settling
  <2>2. CASE CanSettle(r)
    <3>1. /\ cons'.height = cons.height
          /\ cons'.pending = {q \in cons.pending : q.block # r.block}
      BY <1>0, <1>5, <2>2 DEF Settle, Settled, Typed, TypeOK, ConsType
    <3>2. FinalizedPending(cons') \subseteq FinalizedPending(cons) \ {r}
      BY <3>1 DEF FinalizedPending, Finalized
    <3>3. Room' = Room
      BY <2>1, <3>1 DEF Room, RoomForCoins, AllPaid
    <3> QED BY <1>0, <2>1, <3>2, <3>3
  <2>3. CASE ~CanSettle(r)
    <3>1. cons' = cons
      BY <1>5, <2>3 DEF Settle
    <3>2. Room => r \notin FinalizedPending(cons)
      BY <1>0, <2>1, <2>3, OwedFits DEF FinalizedPending
    <3> QED BY <1>0, <1>2, <2>1, <3>1, <3>2
  <2> QED BY <2>2, <2>3
<1>6. ASSUME NEW w \in Workers,
             Admit(w) \/ AdmitFails(w) \/ SaveFails(w) \/ PutCons(w)
      PROVE  /\ settling' = {}
             /\ Room' => FinalizedPending(cons') \subseteq settling'
  <2>1. cons' = cons /\ staked' = staked /\ settling = {} /\ settling' = {}
    BY <1>1, <1>6 DEF Admit, AdmitFails, SaveFails, PutCons, DropSnapshot,
       ConsPhases, WritePhases
  <2> QED BY <1>0, <1>2, <2>1
<1>7. CASE Staking
  <2>1. UNCHANGED <<cons, settling, call>> /\ AllPaid <= AllPaid'
    BY <1>0, <1>7, StakingCoins
  <2>2. Settling' = Settling
    BY <2>1 DEF Settling
  <2>3. Room' => Room
    BY <1>0, <1>7, <2>1, StakingCoins, CoinsNat DEF Room, RoomForCoins
  <2> QED BY <1>0, <2>1, <2>2, <2>3
<1> QED BY <1>0, <1>3, <1>4, <1>5, <1>6, <1>7, BankCases

\* Outside STEP 7 no reward that has reached finality is left waiting, as long
\* as MAX_SUPPLY and u64 leave room for the rewards: a failed call, a rollback
\* and concurrent stakes leave none behind.
THEOREM SettledCorrect == Spec => []SettledPromptly
<1>1. Init => PromptInv
  <2> SUFFICES ASSUME Init PROVE PromptInv
    OBVIOUS
  <2>1. cons.pending = {} /\ settling = {}
    BY DEF Init, InitCons
  <2> QED BY <2>1, CoinsInit DEF PromptInv, FinalizedPending
<1>2. PromptInv => SettledPromptly
  BY DEF PromptInv, SettledPromptly, Room, Settling, WriteLocked, WritePhases
<1> QED BY <1>1, <1>2, PromptStep, PTL DEF Spec

-----------------------------------------------------------------------------
(* Replaying the ledger from the DAG.                                      *)
CommittedBy(l) == {t \in dag.txs : AccountNonce[t] <= l.nonce[Sender[t]]}

SentIn(C, a) == {t \in C : Sender[t] = a}
ReceivedIn(C, a) == {t \in C : Receiver[t] = a /\ a # Burn}

Spent(C, a) == SumFunction([t \in SentIn(C, a) |-> Cost(t)])
Got(C, a)   == SumFunctionOnSet(Amount, ReceivedIn(C, a))
Burnt(C, a) == IF a = Burn THEN SumFunctionOnSet(Fee, C) ELSE 0
Minting(l, a) == IF a = Miner THEN l.supply ELSE 0
Locked(a)   == IF a \in Stakers THEN staked[a].amount ELSE 0
Gained(a)   == IF a \in Stakers THEN staked[a].paid ELSE 0

\* The account holds what the transactions of C left it.
Even(l, C, locked, gained, a) ==
    l.bal[a] + locked + Spent(C, a)
        = GenesisBal[a] + Got(C, a) + Burnt(C, a) + Minting(l, a) + gained

Replays(l) == \A a \in Addr : Even(l, CommittedBy(l), Locked(a), Gained(a), a)

Ordinary == \A t \in Tx : Sender[t] # Faucet

ReplayInv ==
    /\ CoinsInv
    /\ PoolInv
    /\ Ordinary /\ RoomForCoins => /\ Replays(ledger)
                                   /\ Settling => Replays(snap)

LEMMA SpentAdd ==
    ASSUME NEW C, C \subseteq Tx, IsFiniteSet(C), NEW t \in Tx, t \notin C,
           NEW a
    PROVE  /\ Spent(C, a) \in Nat
           /\ Spent(C \cup {t}, a)
                = Spent(C, a) + (IF a = Sender[t] THEN Cost(t) ELSE 0)
<1> DEFINE S == SentIn(C, a)
           T == SentIn(C \cup {t}, a)
           f == [u \in S |-> Cost(u)]
           g == [u \in T |-> Cost(u)]
<1>1. /\ IsFiniteSet(S) /\ S \subseteq Tx /\ t \notin S
      /\ T = IF a = Sender[t] THEN S \cup {t} ELSE S
  BY FS_Subset DEF SentIn
<1>2. Spent(C, a) = SumFunctionOnSet(f, S)
      /\ Spent(C \cup {t}, a) = SumFunctionOnSet(g, T)
  BY DEF Spent, SumFunction
<1> HIDE DEF S, T
<1>3. \A u \in S : f[u] \in Nat
  BY <1>1, CostNat
<1> HIDE DEF f
<1>4. SumFunctionOnSet(f, S) \in Nat
  BY <1>1, <1>3, SumNat
<1>5. CASE a = Sender[t]
  <2>1. /\ g[t] = Cost(t) /\ g[t] \in Nat /\ T = S \cup {t}
        /\ \A u \in S : f[u] \in Nat /\ g[u] = f[u]
    BY <1>1, <1>3, <1>5, CostNat DEF f
  <2> HIDE DEF g
  <2>2. SumFunctionOnSet(g, S \cup {t}) = SumFunctionOnSet(f, S) + g[t]
    BY <1>1, <2>1, SumGrows
  <2> QED BY <1>2, <1>4, <1>5, <2>1, <2>2
<1>6. CASE a # Sender[t]
  <2>1. g = f /\ T = S
    BY <1>1, <1>6 DEF f
  <2> HIDE DEF g
  <2> QED BY <1>2, <1>4, <1>6, <2>1
<1> QED BY <1>5, <1>6

LEMMA GotAdd ==
    ASSUME NEW C, C \subseteq Tx, IsFiniteSet(C), NEW t \in Tx, t \notin C,
           NEW a
    PROVE  /\ Got(C, a) \in Nat
           /\ Got(C \cup {t}, a) = Got(C, a) +
                (IF a = Receiver[t] /\ a # Burn THEN Amount[t] ELSE 0)
<1> DEFINE S == ReceivedIn(C, a)
           T == ReceivedIn(C \cup {t}, a)
<1>1. /\ IsFiniteSet(S) /\ S \subseteq Tx /\ t \notin S
      /\ T = IF a = Receiver[t] /\ a # Burn THEN S \cup {t} ELSE S
  BY FS_Subset DEF ReceivedIn
<1>2. \A u \in S \cup {t} : Amount[u] \in Nat
  BY <1>1, CostNat
<1> HIDE DEF S, T
<1>3. SumFunctionOnSet(Amount, S) \in Nat
  BY <1>1, <1>2, SumNat
<1>4. SumFunctionOnSet(Amount, S \cup {t})
         = Amount[t] + SumFunctionOnSet(Amount, S)
  BY <1>1, <1>2, SumAdd
<1> QED BY <1>1, <1>2, <1>3, <1>4 DEF Got, S, T

LEMMA BurntAdd ==
    ASSUME NEW C, C \subseteq Tx, IsFiniteSet(C), NEW t \in Tx, t \notin C,
           NEW a
    PROVE  /\ Burnt(C, a) \in Nat
           /\ Burnt(C \cup {t}, a)
                = Burnt(C, a) + (IF a = Burn THEN Fee[t] ELSE 0)
<1>1. \A u \in C \cup {t} : Fee[u] \in Nat
  BY CostNat
<1>2. SumFunctionOnSet(Fee, C) \in Nat
  BY <1>1, SumNat
<1>3. SumFunctionOnSet(Fee, C \cup {t}) = Fee[t] + SumFunctionOnSet(Fee, C)
  BY <1>1, SumAdd
<1> QED BY <1>1, <1>2, <1>3 DEF Burnt

LEMMA TxFinite ==
    ASSUME NEW C, C \subseteq Tx
    PROVE  IsFiniteSet(C)
BY FiniteAssumption, FS_Subset DEF FiniteAssumption

LEMMA GenesisNat ==
    ASSUME NEW a \in Addr
    PROVE  GenesisBal[a] \in Nat
BY ProcessorAssumption, LedgerAssumption
DEF ProcessorAssumption, LedgerAssumption, U64

LEMMA SumsNat ==
    ASSUME NEW C, C \subseteq Tx, NEW a
    PROVE  Spent(C, a) \in Nat /\ Got(C, a) \in Nat /\ Burnt(C, a) \in Nat
<1> DEFINE S == SentIn(C, a)
           R == ReceivedIn(C, a)
           f == [t \in S |-> Cost(t)]
<1>1. /\ S \subseteq Tx /\ IsFiniteSet(S) /\ R \subseteq Tx /\ IsFiniteSet(R)
      /\ IsFiniteSet(C)
  BY TxFinite DEF SentIn, ReceivedIn
<1> HIDE DEF S, R
<1>2. \A t \in S : f[t] \in Nat
  BY <1>1, CostNat
<1>3. Spent(C, a) = SumFunctionOnSet(f, S)
  BY DEF Spent, SumFunction, S
<1> HIDE DEF f
<1>4. SumFunctionOnSet(f, S) \in Nat
  BY <1>1, <1>2, SumNat
<1>5. SumFunctionOnSet(Amount, R) \in Nat /\ SumFunctionOnSet(Fee, C) \in Nat
  BY <1>1, CostNat, SumNat
<1> QED BY <1>3, <1>4, <1>5 DEF Got, Burnt, R

LEMMA StakesNat ==
    ASSUME Typed, NEW a
    PROVE  Locked(a) \in Nat /\ Gained(a) \in Nat
BY DEF Locked, Gained, Typed, TypeOK

\* One more payment.
LEMMA PaymentEven ==
    ASSUME NEW l \in LedgerType,
           NEW C, C \subseteq Tx, NEW t \in Tx, t \notin C,
           TransferFits(l, t), Sender[t] # Burn, NEW a \in Addr,
           NEW locked \in Nat, NEW gained \in Nat,
           Even(l, C, locked, gained, a)
    PROVE  Even(Transfer(l, t), C \cup {t}, locked, gained, a)
<1> DEFINE s == Sender[t]
           r == Receiver[t]
           k == Transfer(l, t)
<1>1. /\ Amount[t] \in Nat /\ Fee[t] \in Nat
      /\ Cost(t) = Amount[t] + Fee[t]
      /\ Debit(t) = IF s = r THEN Fee[t] ELSE Amount[t] + Fee[t]
      /\ l.bal[a] \in Nat /\ GenesisBal[a] \in Nat
  BY CostNat, BalanceNat, LedgerAssumption, ProcessorAssumption
  DEF Cost, Debit, LedgerAssumption, ProcessorAssumption, U64
<1>2. l.bal[s] >= Amount[t] + Fee[t]
  BY <1>1 DEF TransferFits
<1>3. /\ k.supply = l.supply
      /\ k.bal[a] = IF a = Burn  THEN l.bal[a] + Fee[t]
                    ELSE IF a = s THEN l.bal[a] - Debit(t)
                    ELSE IF a = r THEN l.bal[a] + Amount[t]
                    ELSE l.bal[a]
  BY DEF Transfer, LedgerType
<1>4. /\ Spent(C, a) \in Nat
      /\ Spent(C \cup {t}, a)
           = Spent(C, a) + (IF a = s THEN Cost(t) ELSE 0)
      /\ Got(C, a) \in Nat
      /\ Got(C \cup {t}, a) = Got(C, a) +
           (IF a = r /\ a # Burn THEN Amount[t] ELSE 0)
      /\ Burnt(C, a) \in Nat
      /\ Burnt(C \cup {t}, a) = Burnt(C, a) + (IF a = Burn THEN Fee[t] ELSE 0)
  BY TxFinite, SpentAdd, GotAdd, BurntAdd
<1>5. /\ Minting(k, a) = Minting(l, a) /\ Minting(l, a) \in Nat
  <2>1. l.supply \in Nat
    BY LedgerAssumption DEF LedgerType, U64, LedgerAssumption
  <2>2. Minting(k, a) = Minting(l, a) /\ Minting(l, a) \in Nat
    BY <1>3, <2>1 DEF Minting
  <2> QED BY <2>2
<1>6. l.bal[a] + locked + Spent(C, a)
        = GenesisBal[a] + Got(C, a) + Burnt(C, a) + Minting(l, a) + gained
  BY DEF Even
<1> HIDE DEF s, r, k
<1>7. s # Burn
  BY DEF s
<1>8. CASE a = Burn
  <2>1. /\ k.bal[a] = l.bal[a] + Fee[t] /\ Spent(C \cup {t}, a) = Spent(C, a)
        /\ Got(C \cup {t}, a) = Got(C, a)
        /\ Burnt(C \cup {t}, a) = Burnt(C, a) + Fee[t]
    BY <1>3, <1>4, <1>7, <1>8
  <2> QED BY <1>1, <1>4, <1>5, <1>6, <2>1 DEF Even, k
<1>9. CASE a # Burn /\ a = s /\ a = r
  <2>1. /\ k.bal[a] = l.bal[a] - Fee[t] /\ l.bal[a] >= Fee[t]
        /\ Spent(C \cup {t}, a) = Spent(C, a) + Amount[t] + Fee[t]
        /\ Got(C \cup {t}, a) = Got(C, a) + Amount[t]
        /\ Burnt(C \cup {t}, a) = Burnt(C, a)
    BY <1>1, <1>2, <1>3, <1>4, <1>9
  <2>2. k.bal[a] + locked + Spent(C \cup {t}, a)
          = l.bal[a] + locked + Spent(C, a) + Amount[t]
    BY <1>1, <1>4, <1>5, <2>1
  <2>3. GenesisBal[a] + Got(C \cup {t}, a) + Burnt(C \cup {t}, a)
              + Minting(k, a) + gained
          = GenesisBal[a] + Got(C, a) + Burnt(C, a) + Minting(l, a) + gained
              + Amount[t]
    BY <1>1, <1>4, <1>5, <2>1
  <2> QED BY <1>6, <2>2, <2>3 DEF Even, k
<1>10. CASE a # Burn /\ a = s /\ a # r
  <2>1. /\ k.bal[a] = l.bal[a] - (Amount[t] + Fee[t])
        /\ Spent(C \cup {t}, a) = Spent(C, a) + Amount[t] + Fee[t]
        /\ Got(C \cup {t}, a) = Got(C, a)
        /\ Burnt(C \cup {t}, a) = Burnt(C, a)
    BY <1>1, <1>2, <1>3, <1>4, <1>10
  <2> QED BY <1>1, <1>4, <1>5, <1>6, <2>1 DEF Even, k
<1>11. CASE a # Burn /\ a # s /\ a = r
  <2>1. /\ k.bal[a] = l.bal[a] + Amount[t]
        /\ Spent(C \cup {t}, a) = Spent(C, a)
        /\ Got(C \cup {t}, a) = Got(C, a) + Amount[t]
        /\ Burnt(C \cup {t}, a) = Burnt(C, a)
    BY <1>1, <1>3, <1>4, <1>11
  <2> QED BY <1>1, <1>4, <1>5, <1>6, <2>1 DEF Even, k
<1>12. CASE a # Burn /\ a # s /\ a # r
  <2>1. /\ k.bal[a] = l.bal[a]
        /\ Spent(C \cup {t}, a) = Spent(C, a)
        /\ Got(C \cup {t}, a) = Got(C, a)
        /\ Burnt(C \cup {t}, a) = Burnt(C, a)
    BY <1>1, <1>3, <1>4, <1>12
  <2> QED BY <1>1, <1>4, <1>5, <1>6, <2>1 DEF Even, k
<1> QED BY <1>8, <1>9, <1>10, <1>11, <1>12

\* Only STEP 6 changes the DAG: what the mining loop pops is already in it.
LEMMA DagCases ==
    ASSUME PoolInv, [Next]_vars
    PROVE  dag' = dag \/ \E w \in Workers : Apply(w)
<1>1. CASE UNCHANGED vars
  BY <1>1 DEF vars
<1>2. ASSUME NEW w \in Workers, Enter(w) PROVE dag' = dag
  BY <1>2 DEF Enter, SubmitMissing, SubmitReady, StoreOrphan
<1>3. ASSUME NEW w \in Workers, Pipeline(w), ~Apply(w) PROVE dag' = dag
  BY <1>3 DEF Pipeline, Validate, Reject, LockBusy, ApplyFails, Settle,
     Admit, AdmitFails, Save, SaveFails, PutTx, PutCons, Publish
<1>4. ASSUME NEW s \in Solvers, Solve(s) PROVE dag' = dag
  BY <1>4 DEF Solve, StartBatch, StartBatchWith, SkipOrphan, EndBatch
<1>5. CASE MinePop
  BY <1>5 DEF MinePop
<1>6. CASE MineAdd
  <2>1. mined \in dag.txs
    BY <1>6 DEF MineAdd, PoolInv, MempoolInDag
  <2> QED BY <1>6, <2>1 DEF MineAdd, CanAdd, Conflicts
<1>7. CASE Staking
  BY <1>7 DEF Staking, Stake, Unstake
<1> QED BY <1>1, <1>2, <1>3, <1>4, <1>5, <1>6, <1>7 DEF Next

\* Coins are only ever added: room now is room before.
LEMMA RoomBefore ==
    ASSUME CoinsInv, [Next]_vars, RoomForCoins'
    PROVE  RoomForCoins
<1>0. HolderInv /\ Typed
  BY DEF CoinsInv, BankInv, HolderInv
<1>1. CASE Quiet
  BY <1>1 DEF RoomForCoins, AllPaid, Quiet
<1>2. ASSUME NEW w \in Workers, Apply(w) PROVE RoomForCoins
  <2>1. /\ staked' = staked
        /\ cons'.height \in {cons.height, cons.height + 1}
    BY <1>0, <1>2 DEF Apply, Queue, Typed, TypeOK, ConsType
  <2>2. AllPaid' = AllPaid
    BY <2>1 DEF AllPaid
  <2>3. Emission(cons'.height) >= Emission(cons.height)
        /\ Emission(cons'.height) \in Nat
    BY <1>0, <2>1, CoinsNat, EmissionGrows
  <2> QED BY <1>0, <2>2, <2>3, CoinsNat DEF RoomForCoins
<1>3. ASSUME NEW w \in Workers, NEW r \in settling, Settle(w, r)
      PROVE  RoomForCoins
  <2>1. cons'.height = cons.height /\ staked' = staked
    BY <1>0, <1>3 DEF Settle, Settled, Typed, TypeOK, ConsType
  <2> QED BY <2>1 DEF RoomForCoins, AllPaid
<1>4. ASSUME NEW w \in Workers,
             Admit(w) \/ AdmitFails(w) \/ SaveFails(w) \/ PutCons(w)
      PROVE  RoomForCoins
  <2>1. cons' = cons /\ staked' = staked
    BY <1>4 DEF Admit, AdmitFails, SaveFails, PutCons
  <2> QED BY <2>1 DEF RoomForCoins, AllPaid
<1>5. CASE Staking
  <2>1. cons' = cons /\ AllPaid <= AllPaid' /\ AllPaid' \in Nat
    BY <1>5, StakingCoins
  <2> QED BY <1>0, <2>1, CoinsNat DEF RoomForCoins
<1> QED BY <1>0, <1>1, <1>2, <1>3, <1>4, <1>5, BankCases

\* A step that changes neither DAG nor stakes.
LEMMA SameReplay ==
    ASSUME dag' = dag, staked' = staked, NEW l, Replays(l)
    PROVE  Replays(l)'
<1>1. CommittedBy(l)' = CommittedBy(l)
  BY DEF CommittedBy
<1>2. \A a \in Addr : Locked(a)' = Locked(a) /\ Gained(a)' = Gained(a)
  BY DEF Locked, Gained
<1> QED BY <1>1, <1>2 DEF Replays, Even

\* STEPs 2 to 6: the transaction is committed by the ledger and not by the
\* snapshot.
LEMMA ApplyReplays ==
    ASSUME Typed, Ordinary, Replays(ledger), NEW w \in Workers, Apply(w)
    PROVE  Replays(ledger)' /\ Replays(snap)'
<1> DEFINE t == call[w].tx
           s == Sender[t]
           C == CommittedBy(ledger)
           k == Transfer(ledger, t)
<1>1. /\ t \in PureValid /\ t \in Tx /\ ledger \in LedgerType
      /\ dag \in DagType /\ Applicable(t)
      /\ ledger' = CommitNonce(k, t)
      /\ dag'.txs = dag.txs \cup {t}
      /\ snap' = ledger /\ staked' = staked
  BY AddTxType DEF Apply, Typed, TypeOK, CallsCarry
<1>2. s # Burn /\ s # Faucet /\ s \in Addr /\ AccountNonce[t] \in Nat
  BY <1>1, HashAssumption, CostNat DEF HashAssumption, Ordinary
<1>3. /\ k \in LedgerType /\ k.nonce = ledger.nonce
      /\ TransferFits(ledger, t) /\ t \notin dag.txs
      /\ AccountNonce[t] = ledger.nonce[s] + 1
      /\ \A u \in dag.txs : Sender[u] = s => AccountNonce[u] # AccountNonce[t]
  BY <1>1, <1>2, TransferType, TransferNonce
  DEF Applicable, CanAdd, Conflicts, SenderConflict, NonceFits
<1> HIDE DEF t, k
<1>4. /\ ledger'.bal = k.bal /\ ledger'.supply = k.supply
      /\ ledger'.nonce[s] = ledger.nonce[s] + 1
      /\ \A b \in Addr \ {s} : ledger'.nonce[b] = ledger.nonce[b]
  BY <1>1, <1>2, <1>3 DEF CommitNonce, LedgerType, s
<1>5. ledger.nonce \in [Addr -> Nat]
  BY <1>1 DEF LedgerType
<1>6. CommittedBy(ledger)' = C \cup {t}
  <2>1. ASSUME NEW u \in dag.txs
        PROVE  AccountNonce[u] <= ledger'.nonce[Sender[u]]
                 <=> AccountNonce[u] <= ledger.nonce[Sender[u]]
    <3>1. u \in Tx /\ Sender[u] \in Addr /\ AccountNonce[u] \in Nat
      BY <1>1, CostNat DEF DagType
    <3>2. CASE Sender[u] = s
      <4>1. AccountNonce[u] # ledger.nonce[s] + 1 /\ ledger.nonce[s] \in Nat
        BY <1>2, <1>3, <1>5, <3>2
      <4> QED BY <1>4, <3>1, <3>2, <4>1
    <3>3. CASE Sender[u] # s
      BY <1>4, <3>1, <3>3
    <3> QED BY <3>2, <3>3
  <2>2. AccountNonce[t] <= ledger'.nonce[Sender[t]]
    BY <1>2, <1>3, <1>4, <1>5 DEF s
  <2> QED BY <1>1, <2>1, <2>2 DEF CommittedBy
<1>7. CommittedBy(snap)' = C
  <2>1. ~(AccountNonce[t] <= ledger.nonce[Sender[t]])
    BY <1>2, <1>3, <1>5 DEF s
  <2> QED BY <1>1, <2>1 DEF CommittedBy
<1>8. \A a \in Addr : Locked(a)' = Locked(a) /\ Gained(a)' = Gained(a)
  BY <1>1 DEF Locked, Gained
<1>9. C \subseteq Tx /\ t \notin C
  BY <1>1, <1>3 DEF CommittedBy, DagType
<1>10. \A a \in Addr : Even(ledger, C, Locked(a), Gained(a), a)
  BY DEF Replays
<1> HIDE DEF C, s
<1>11. ASSUME NEW a \in Addr 
      PROVE  Even(ledger', C \cup {t}, Locked(a)', Gained(a)', a)
  <2>1. Even(k, C \cup {t}, Locked(a), Gained(a), a)
    BY <1>1, <1>2, <1>3, <1>9, <1>10, StakesNat, PaymentEven DEF k, s
  <2> QED BY <1>4, <1>8, <2>1 DEF Even, Minting
<1>12. ASSUME NEW a \in Addr
       PROVE  Even(snap', C, Locked(a)', Gained(a)', a)
  BY <1>1, <1>8, <1>10 DEF Even
<1> QED BY <1>6, <1>7, <1>11, <1>12 DEF Replays

\* STEP 7.
LEMMA SettleReplays ==
    ASSUME Typed, Replays(ledger), NEW w \in Workers, NEW r \in settling,
           Settle(w, r)
    PROVE  Replays(ledger)'
<1>1. dag' = dag /\ staked' = staked
  BY DEF Settle
<1>2. CASE ~CanSettle(r)
  <2>1. ledger' = ledger
    BY <1>2 DEF Settle
  <2> QED BY <1>1, <2>1, SameReplay
<1>3. CASE CanSettle(r)
  <2> DEFINE n == CalculateReward(r.height)
  <2>1. /\ Miner \in Addr \ {Burn} /\ n \in Nat /\ ledger \in LedgerType
        /\ ledger' = CreditReward(ledger, Miner, n)
    BY <1>3, RewardNat, ProcessorAssumption
    DEF ProcessorAssumption, Settle, Typed, TypeOK, Pending
  <2> HIDE DEF n
  <2>2. /\ ledger'.bal[Miner] = ledger.bal[Miner] + n
        /\ \A x \in Addr \ {Miner} : ledger'.bal[x] = ledger.bal[x]
        /\ ledger'.supply = ledger.supply + n
        /\ ledger'.nonce = ledger.nonce
    BY <2>1 DEF CreditReward, LedgerType
  <2>3. CommittedBy(ledger)' = CommittedBy(ledger)
    BY <1>1, <2>2 DEF CommittedBy
  <2> DEFINE C == CommittedBy(ledger)
  <2>4. C \subseteq Tx
    BY DEF CommittedBy, Typed, TypeOK, DagType
  <2> HIDE DEF C
  <2>5. ASSUME NEW a \in Addr
        PROVE  Even(ledger', C, Locked(a)', Gained(a)', a)
    <3>1. Locked(a)' = Locked(a) /\ Gained(a)' = Gained(a)
      BY <1>1 DEF Locked, Gained
    <3>2. Even(ledger, C, Locked(a), Gained(a), a)
      BY DEF Replays, C
    <3>3. CASE a # Miner
      BY <2>2, <3>1, <3>2, <3>3 DEF Even, Minting
    <3>4. CASE a = Miner
      <4>1. /\ Minting(ledger, a) = ledger.supply
            /\ Minting(ledger', a) = ledger.supply + n
            /\ ledger'.bal[a] = ledger.bal[a] + n
        BY <2>2, <3>4 DEF Minting
      <4>2. /\ ledger.bal[a] \in Nat /\ ledger.supply \in Nat
            /\ GenesisBal[a] \in Nat /\ Locked(a) \in Nat /\ Gained(a) \in Nat
        BY <2>1, BalanceNat, StakesNat, CoinsNat, GenesisNat
      <4>3. Spent(C, a) \in Nat /\ Got(C, a) \in Nat /\ Burnt(C, a) \in Nat
        BY <2>4, SumsNat
      <4>4. ledger.bal[a] + Locked(a) + Spent(C, a)
              = GenesisBal[a] + Got(C, a) + Burnt(C, a)
                  + ledger.supply + Gained(a)
        BY <3>2, <4>1 DEF Even
      <4>5. n \in Nat
        BY <2>1
      <4>6. (ledger.bal[a] + n) + Locked(a) + Spent(C, a)
              = (ledger.bal[a] + Locked(a) + Spent(C, a)) + n
        BY <4>2, <4>3, <4>5
      <4>7. GenesisBal[a] + Got(C, a) + Burnt(C, a)
                  + (ledger.supply + n) + Gained(a)
              = (GenesisBal[a] + Got(C, a) + Burnt(C, a)
                  + ledger.supply + Gained(a)) + n
        BY <4>2, <4>3, <4>5
      <4>8. (ledger.bal[a] + n) + Locked(a) + Spent(C, a)
              = GenesisBal[a] + Got(C, a) + Burnt(C, a)
                  + (ledger.supply + n) + Gained(a)
        BY <4>4, <4>6, <4>7
      <4> QED BY <3>1, <4>1, <4>8 DEF Even
    <3> QED BY <3>3, <3>4
  <2> QED BY <2>3, <2>5 DEF Replays, C
<1> QED BY <1>2, <1>3

\* Stakes: while u64 has room, unstaking loses nothing.
LEMMA StakingReplays ==
    ASSUME CoinsInv, Replays(ledger), RoomForCoins', Staking
    PROVE  Replays(ledger)'
<1> DEFINE C == CommittedBy(ledger)
<1>0. /\ Typed /\ ledger \in LedgerType /\ dag' = dag
      /\ ledger'.nonce = ledger.nonce /\ ledger'.supply = ledger.supply
      /\ staked \in [Stakers -> [amount : Nat, paid : Nat]]
      /\ Stakers \subseteq Addr
      /\ StakeAmounts \subseteq Nat /\ Interest \subseteq Nat
  BY ProcessorAssumption DEF ProcessorAssumption, CoinsInv, RewardInv, Typed,
     TypeOK, Staking, Stake, Unstake, Subtract, AddBalance, LedgerType
<1>1. CommittedBy(ledger)' = C
  BY <1>0 DEF CommittedBy
<1>2. C \subseteq Tx
  BY <1>0 DEF CommittedBy, Typed, TypeOK, DagType
<1>3. \A a \in Addr : Even(ledger, C, Locked(a), Gained(a), a)
  BY DEF Replays
<1> HIDE DEF C
<1>4. ASSUME NEW a \in Addr, ledger'.bal[a] = ledger.bal[a],
             Locked(a)' = Locked(a), Gained(a)' = Gained(a)
      PROVE  Even(ledger', C, Locked(a)', Gained(a)', a)
  BY <1>0, <1>3, <1>4 DEF Even, Minting
<1>5. ASSUME NEW a \in Stakers, NEW n \in StakeAmounts, Stake(a, n)
      PROVE  \A b \in Addr : Even(ledger', C, Locked(b)', Gained(b)', b)
  <2>1. /\ n \in Nat /\ ledger.bal[a] >= n
        /\ ledger'.bal[a] = ledger.bal[a] - n
        /\ Locked(a)' = Locked(a) + n /\ Gained(a)' = Gained(a)
    BY <1>0, <1>5 DEF Stake, Subtract, LedgerType, Locked, Gained
  <2>2. ASSUME NEW b \in Addr \ {a}
        PROVE  /\ ledger'.bal[b] = ledger.bal[b]
               /\ Locked(b)' = Locked(b) /\ Gained(b)' = Gained(b)
    BY <1>0, <1>5 DEF Stake, Subtract, LedgerType, Locked, Gained
  <2>3. ledger.bal[a] \in Nat /\ Locked(a) \in Nat /\ Spent(C, a) \in Nat
    BY <1>0, <1>2, BalanceNat, StakesNat, SumsNat
  <2>4. ledger'.bal[a] + Locked(a)' + Spent(C, a)
          = ledger.bal[a] + Locked(a) + Spent(C, a)
    BY <2>1, <2>3
  <2>5. Even(ledger', C, Locked(a)', Gained(a)', a)
    BY <1>0, <1>3, <2>1, <2>4 DEF Even, Minting
  <2> QED BY <1>4, <2>2, <2>5
<1>6. ASSUME NEW a \in Stakers, NEW n \in Interest, Unstake(a, n)
      PROVE  \A b \in Addr : Even(ledger', C, Locked(b)', Gained(b)', b)
  <2> DEFINE m == staked[a].amount + n
  <2>1. AddFits(ledger, a, m)
    <3>1. /\ Total(ledger.bal) + AllStaked
                <= Total(GenesisBal) + ledger.supply + AllPaid
          /\ ledger.supply + Owed <= Emission(cons.height)
          /\ Owed \in Nat
      BY <1>0, OwedNat DEF CoinsInv, Accounted
    <3>2. /\ AllPaid' = AllPaid + n /\ staked[a].amount <= AllStaked
          /\ staked[a].amount \in Nat /\ n \in Nat
      BY <1>0, <1>6, UnstakeCoins
    <3>3. Total(GenesisBal) + Emission(cons.height) + AllPaid' <= U64Max
      BY <1>6 DEF RoomForCoins, Unstake
    <3>4. ledger.bal[a] <= Total(ledger.bal) /\ ledger.bal[a] \in Nat
      BY <1>0, TotalNat DEF LedgerType
    <3>5. ledger.bal[a] + (staked[a].amount + n) <= U64Max
      BY <1>0, <3>1, <3>2, <3>3, <3>4, CoinsNat
    <3> QED BY <3>5 DEF AddFits
  <2>2. /\ n \in Nat /\ m = Locked(a) + n
        /\ ledger'.bal[a] = ledger.bal[a] + m
        /\ Locked(a)' = 0 /\ Gained(a)' = Gained(a) + n
    BY <1>0, <1>6, <2>1 DEF Unstake, AddBalance, LedgerType, Locked, Gained
  <2>3. ASSUME NEW b \in Addr \ {a}
        PROVE  /\ ledger'.bal[b] = ledger.bal[b]
               /\ Locked(b)' = Locked(b) /\ Gained(b)' = Gained(b)
    BY <1>0, <1>6, <2>1 DEF Unstake, AddBalance, LedgerType, Locked, Gained
  <2>4. /\ ledger.bal[a] \in Nat /\ Locked(a) \in Nat /\ Spent(C, a) \in Nat
        /\ Gained(a) \in Nat /\ Got(C, a) \in Nat /\ Burnt(C, a) \in Nat
        /\ GenesisBal[a] \in Nat /\ Minting(ledger, a) \in Nat
        /\ Minting(ledger', a) = Minting(ledger, a)
    BY <1>0, <1>2, BalanceNat, StakesNat, SumsNat, GenesisNat, CoinsNat
    DEF Minting
  <2> HIDE DEF m
  <2>5. ledger'.bal[a] + Locked(a)' + Spent(C, a)
          = GenesisBal[a] + Got(C, a) + Burnt(C, a)
              + Minting(ledger', a) + Gained(a)'
    <3>1. ledger.bal[a] + Locked(a) + Spent(C, a)
          = GenesisBal[a] + Got(C, a) + Burnt(C, a)
              + Minting(ledger, a) + Gained(a)
      BY <1>0, <1>3 DEF Even
    <3> QED BY <2>2, <2>4, <3>1
  <2>6. Even(ledger', C, Locked(a)', Gained(a)', a)
    BY <2>5 DEF Even
  <2> QED BY <1>4, <2>3, <2>6
<1> QED BY <1>1, <1>5, <1>6 DEF Staking, Replays

LEMMA ReplayStep == ReplayInv /\ [Next]_vars => ReplayInv'
<1> SUFFICES ASSUME ReplayInv, [Next]_vars, Ordinary, RoomForCoins'
             PROVE  /\ Replays(ledger)'
                    /\ Settling' => Replays(snap)'
  BY CoinsStep, PoolStep DEF ReplayInv
<1>0. /\ CoinsInv /\ PoolInv /\ HolderInv /\ Typed
      /\ Replays(ledger) /\ (Settling => Replays(snap))
  BY RoomBefore DEF ReplayInv, PoolInv, HolderInv
<1>1. ASSUME NEW w \in Workers, Apply(w)
      PROVE  Replays(ledger)' /\ Replays(snap)'
  BY <1>0, <1>1, ApplyReplays
<1>2. CASE Quiet /\ dag' = dag
  <2>1. Settling' = Settling
    BY <1>2 DEF Settling, Quiet
  <2> QED BY <1>0, <1>2, <2>1, SameReplay DEF Quiet
<1>3. ASSUME NEW w \in Workers, NEW r \in settling, Settle(w, r)
      PROVE  Replays(ledger)' /\ Replays(snap)'
  <2>1. Settling /\ dag' = dag /\ staked' = staked /\ snap' = snap
    BY <1>3 DEF Settle, Settling
  <2> QED BY <1>0, <1>3, <2>1, SettleReplays, SameReplay
<1>4. ASSUME NEW w \in Workers,
             Admit(w) \/ AdmitFails(w) \/ SaveFails(w) \/ PutCons(w)
      PROVE  Replays(ledger)' /\ ~Settling'
  <2>1. /\ dag' = dag /\ staked' = staked
        /\ \/ ledger' = ledger
           \/ ledger' = snap /\ Settling
    BY <1>4 DEF Admit, AdmitFails, Rollback, SaveFails, PutCons, Settling
  <2> QED BY <1>0, <1>4, <2>1, SameReplay, OthersIdle
<1>5. CASE Staking
  <2>1. ~Settling'
    BY <1>0, <1>5, StakingCoins DEF Settling
  <2> QED BY <1>0, <1>5, <2>1, StakingReplays
<1> QED BY <1>0, <1>1, <1>2, <1>3, <1>4, <1>5, BankCases, DagCases

\* The ledger can be replayed from the DAG: every account holds what genesis,
\* the committed transactions, its rewards and its stakes leave it, whatever
\* was rolled back and however stakes and payments interleave.
THEOREM ReplayCorrect == Spec => []LedgerReplaysDag
<1>1. Init => ReplayInv
  <2> SUFFICES ASSUME Init PROVE Replays(ledger) /\ ~Settling
    BY CoinsInit, PoolInit DEF ReplayInv
  <2>1. /\ dag.txs = {} /\ ledger.bal = GenesisBal /\ ledger.supply = 0
        /\ \A a \in Stakers : staked[a].amount = 0 /\ staked[a].paid = 0
        /\ ~Settling
    BY DEF Init, EmptyDag, InitLedger, Settling, Idle
  <2>2. CommittedBy(ledger) = {}
    BY <2>1 DEF CommittedBy
  <2>3. ASSUME NEW a \in Addr 
        PROVE  Even(ledger, {}, Locked(a), Gained(a), a)
    <3>1. SentIn({}, a) = {} /\ ReceivedIn({}, a) = {}
      BY DEF SentIn, ReceivedIn
    <3>2. Spent({}, a) = 0 /\ Got({}, a) = 0 /\ Burnt({}, a) = 0
      BY <3>1, SumEmpty DEF Spent, Got, Burnt, SumFunction
    <3>3. Minting(ledger, a) = 0 /\ Locked(a) = 0 /\ Gained(a) = 0
      BY <2>1 DEF Minting, Locked, Gained
    <3> QED BY <2>1, <3>2, <3>3, GenesisNat DEF Even
  <2> QED BY <2>1, <2>2, <2>3 DEF Replays
<1>2. ReplayInv => LedgerReplaysDag
  <2> SUFFICES ASSUME ReplayInv, Ordinary, RoomForCoins, NEW a \in Addr
               PROVE  ledger.bal[a]
                        + (IF a \in Stakers THEN staked[a].amount ELSE 0)
                        + SumFunction([t \in Sent(a) |-> Cost(t)])
                      = GenesisBal[a]
                        + SumFunctionOnSet(Amount, Received(a))
                        + (IF a = Burn THEN SumFunctionOnSet(Fee, Committed)
                                       ELSE 0)
                        + (IF a = Miner THEN ledger.supply ELSE 0)
                        + (IF a \in Stakers THEN staked[a].paid ELSE 0)
    BY DEF LedgerReplaysDag, Ordinary
  <2>1. CommittedBy(ledger) = Committed
    BY DEF CommittedBy, Committed
  <2>2. SentIn(Committed, a) = Sent(a) /\ ReceivedIn(Committed, a) = Received(a)
    BY DEF SentIn, ReceivedIn, Sent, Received
  <2>3. Even(ledger, Committed, Locked(a), Gained(a), a)
    BY <2>1 DEF ReplayInv, Replays
  <2> QED BY <2>2, <2>3 DEF Even, Spent, Got, Burnt, Minting, Locked, Gained
<1> QED BY <1>1, <1>2, ReplayStep, PTL DEF Spec
=============================================================================
