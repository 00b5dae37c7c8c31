---------------------------- MODULE StakingProofs ----------------------------
(***************************************************************************)
(* Theorems about staking requests, for any accounts, amounts and number   *)
(* of faults.  What holds although requests of one account race comes      *)
(* first; what needs one client per account follows.                       *)
(***************************************************************************)
EXTENDS Staking, TLAPS

-----------------------------------------------------------------------------
(* Types, whatever the clients.                                            *)
StakingTyped ==
    /\ StakingTypeOK
    /\ \A c \in Clients :
          req[c].pc \in {"close", "credit"} => req[c].read <= req[c].amount

\* A request that moves on, or ends, has its type.
LEMMA GotoTyped ==
    ASSUME StakingTyped, NEW c \in Clients, NEW pc \in Phases, Goto(c, pc)
    PROVE  /\ req' \in [Clients -> ReqType]
           /\ req'[c].pc = pc /\ req'[c].amount = req[c].amount
           /\ req'[c].read = req[c].read
           /\ \A d \in Clients \ {c} : req'[d] = req[d]
BY DEF Goto, StakingTyped, StakingTypeOK, ReqType

LEMMA DoneTyped ==
    ASSUME StakingTyped, NEW c \in Clients, Done(c)
    PROVE  /\ req' \in [Clients -> ReqType]
           /\ req'[c].pc = "idle" /\ req'[c].amount = 0 /\ req'[c].read = 0
           /\ \A d \in Clients \ {c} : req'[d] = req[d]
BY DEF Done, Idle, StakingTyped, StakingTypeOK, ReqType, Phases

\* What every step does to the requests: one of them changes, or a crash ends
\* them all; and in which order it goes through its phases.
LEMMA StakingTypeStep == StakingTyped /\ [Next]_vars => StakingTyped'
<1> SUFFICES ASSUME StakingTyped, [Next]_vars PROVE StakingTyped'
  OBVIOUS
<1>0. /\ AccountOf \in [Clients -> Accounts] /\ StakeAmounts \subseteq Nat
      /\ Interest \subseteq Nat
      /\ bal \in [Accounts -> Nat] /\ saved \in [Accounts -> Nat]
      /\ pos \in [Accounts -> Nat] /\ validators \in [Accounts -> Nat]
      /\ req \in [Clients -> ReqType] /\ paid \in [Accounts -> Nat]
      /\ failures \in Nat /\ crashes \in Nat
  BY StakingAssumption DEF StakingAssumption, StakingTyped, StakingTypeOK
<1>1. CASE UNCHANGED vars
  BY <1>1 DEF vars, StakingTyped, StakingTypeOK
<1>2. ASSUME NEW c \in Clients, NEW pc \in Phases, Goto(c, pc),
             pc \in {"close", "credit"} => req[c].read <= req[c].amount
      PROVE  /\ req' \in [Clients -> ReqType]
             /\ \A d \in Clients : req'[d].pc \in {"close", "credit"} =>
                   req'[d].read <= req'[d].amount
  BY <1>2, GotoTyped DEF StakingTyped
<1>3. ASSUME NEW c \in Clients, Done(c)
      PROVE  /\ req' \in [Clients -> ReqType]
             /\ \A d \in Clients : req'[d].pc \in {"close", "credit"} =>
                   req'[d].read <= req'[d].amount
  BY <1>3, DoneTyped DEF StakingTyped
<1>4. ASSUME NEW c \in Clients, NEW n \in StakeAmounts, Withhold(c, n)
      PROVE  StakingTyped'
  <2>1. bal' \in [Accounts -> Nat]
    BY <1>0, <1>4 DEF Withhold, Affords
  <2>2. [pc |-> "withheld", amount |-> n, read |-> 0] \in ReqType
    BY <1>0 DEF ReqType, Phases
  <2> QED BY <1>0, <1>4, <2>1, <2>2 DEF Withhold, StakingTyped, StakingTypeOK
<1>5. ASSUME NEW c \in Clients, ReadPosition(c) PROVE StakingTyped'
  <2>1. req' = [req EXCEPT ![c] = [pc |-> "update", amount |-> req[c].amount,
                                   read |-> pos[AccountOf[c]]]]
    BY <1>0, <1>5 DEF ReadPosition, ReqType
  <2>2. req' \in [Clients -> ReqType]
    BY <1>0, <2>1 DEF ReqType, Phases
  <2> QED BY <1>0, <1>5, <2>1, <2>2 DEF ReadPosition, StakingTyped, StakingTypeOK
<1>6. ASSUME NEW c \in Clients, PutPosition(c) PROVE StakingTyped'
  <2>1. pos' \in [Accounts -> Nat]
    BY <1>0, <1>6 DEF PutPosition, ReqType
  <2> QED BY <1>0, <1>2, <1>6, <2>1
      DEF PutPosition, StakingTyped, StakingTypeOK, Phases
<1>7. ASSUME NEW c \in Clients, PutFails(c) PROVE StakingTyped'
  BY <1>0, <1>2, <1>7 DEF PutFails, Fails, StakingTyped, StakingTypeOK, Phases
<1>8. ASSUME NEW c \in Clients, GiveBack(c) PROVE StakingTyped'
  <2>1. bal' \in [Accounts -> Nat]
    BY <1>0, <1>8 DEF GiveBack, ReqType
  <2> QED BY <1>0, <1>3, <1>8, <2>1 DEF GiveBack, StakingTyped, StakingTypeOK
<1>9. ASSUME NEW c \in Clients, Register(c) PROVE StakingTyped'
  <2>1. validators' \in [Accounts -> Nat]
    BY <1>0, <1>9 DEF Register, ReqType
  <2> QED BY <1>0, <1>3, <1>9, <2>1 DEF Register, StakingTyped, StakingTypeOK
<1>10. ASSUME NEW c \in Clients, BeginSave(c) \/ EndSave(c) PROVE StakingTyped'
  BY <1>0, <1>2, <1>10 DEF BeginSave, EndSave, StakingTyped, StakingTypeOK, Phases
<1>11. ASSUME NEW c \in Clients, SaveFails(c) PROVE StakingTyped'
  BY <1>0, <1>2, <1>11
     DEF SaveFails, Fails, StakingTyped, StakingTypeOK, Phases
<1>12. ASSUME NEW c \in Clients, NEW a \in Accounts, SaveBalance(c, a)
       PROVE  StakingTyped'
  BY <1>0, <1>12 DEF SaveBalance, StakingTyped, StakingTypeOK
<1>13. ASSUME NEW c \in Clients, NEW n \in Interest, ReadStake(c, n)
       PROVE  StakingTyped'
  <2>1. /\ pos[AccountOf[c]] \in Nat /\ n \in Nat
        /\ [pc |-> "close", read |-> pos[AccountOf[c]],
            amount |-> pos[AccountOf[c]] + n] \in ReqType
    BY <1>0 DEF ReqType, Phases
  <2> QED BY <1>0, <1>13, <2>1 DEF ReadStake, StakingTyped, StakingTypeOK
<1>14. ASSUME NEW c \in Clients, Close(c) PROVE StakingTyped'
  <2>1. "credit" \in Phases /\ req[c].read <= req[c].amount
    BY <1>14 DEF Close, At, StakingTyped, Phases
  <2> QED BY <1>0, <1>2, <1>14, <2>1 DEF Close, StakingTyped, StakingTypeOK
<1>15. ASSUME NEW c \in Clients, CloseFails(c) PROVE StakingTyped'
  BY <1>0, <1>3, <1>15 DEF CloseFails, Fails, StakingTyped, StakingTypeOK
<1>16. ASSUME NEW c \in Clients, Credit(c) PROVE StakingTyped'
  <2>1. req[c].amount \in Nat /\ req[c].read \in Nat
        /\ req[c].read <= req[c].amount
    BY <1>0, <1>16 DEF Credit, At, StakingTyped, ReqType
  <2>2. bal' \in [Accounts -> Nat]
    BY <1>0, <1>16, <2>1 DEF Credit
  <2>3. paid' \in [Accounts -> Nat]
    <3>1. \A a \in Accounts : paid[a] + req[c].amount - req[c].read \in Nat
      BY <1>0, <2>1
    <3> QED BY <1>0, <1>16, <3>1 DEF Credit
  <2> QED BY <1>0, <1>2, <1>16, <2>2, <2>3
      DEF Credit, StakingTyped, StakingTypeOK, Phases
<1>17. ASSUME NEW c \in Clients, Unregister(c) PROVE StakingTyped'
  BY <1>0, <1>3, <1>17 DEF Unregister, StakingTyped, StakingTypeOK
<1>18. CASE Crash
  <2>1. Idle \in ReqType /\ Idle.pc = "idle"
    BY DEF Idle, ReqType, Phases
  <2> QED BY <1>0, <1>18, <2>1 DEF Crash, StakingTyped, StakingTypeOK
<1>19. ASSUME NEW c \in Clients, ReadAgain(c) PROVE StakingTyped'
  <2>1. req' = [req EXCEPT ![c] = [pc |-> "registering", amount |-> req[c].amount,
                                   read |-> pos[AccountOf[c]]]]
    BY <1>0, <1>19 DEF ReadAgain, ReqType
  <2>2. req' \in [Clients -> ReqType]
    BY <1>0, <2>1 DEF ReqType, Phases
  <2> QED BY <1>0, <1>19, <2>1, <2>2 DEF ReadAgain, StakingTyped, StakingTypeOK
<1> QED BY <1>1, <1>4, <1>5, <1>6, <1>7, <1>8, <1>9, <1>10, <1>11, <1>12,
           <1>13, <1>14, <1>15, <1>16, <1>17, <1>18, <1>19
    DEF Next, Stake, Unstake, Save

LEMMA StakingTypeInit == Init => StakingTyped
<1>1. Idle \in ReqType /\ Idle.pc = "idle"
  BY DEF Idle, ReqType, Phases
<1> QED BY <1>1, StakingAssumption
    DEF Init, StakingTyped, StakingTypeOK, StakingAssumption

\* Balances, positions and interest never fall below zero, for any requests.
THEOREM StakingTypeCorrect == Spec => []StakingTypeOK
<1>1. StakingTyped => StakingTypeOK
  BY DEF StakingTyped
<1> QED BY <1>1, StakingTypeInit, StakingTypeStep, PTL DEF Spec

-----------------------------------------------------------------------------
(* An account whose balance on disk is not the one in memory has a request *)
(* that will save it, unless a write has failed: whatever the clients.     *)
Unsaved == {"withheld", "update", "saveStake", "savingStake",
            "saveCredit", "savingCredit"}

SavedInv ==
    failures = 0 =>
        /\ \A c \in Clients : ~At(c, "giveBack") /\ ~At(c, "refund")
        /\ \A a \in Accounts :
              \/ saved[a] = bal[a]
              \/ \E c \in Clients : AccountOf[c] = a /\ req[c].pc \in Unsaved

\* A request that stays, or becomes, unsaved keeps the balance of its account
\* accounted for.
LEMMA SavedKept ==
    ASSUME StakingTyped, SavedInv, failures' = 0 => failures = 0,
           NEW c \in Clients, AccountOf[c] \in Accounts,
           req'[c].pc \notin {"giveBack", "refund"},
           \A d \in Clients \ {c} : req'[d] = req[d],
           \A a \in Accounts : a # AccountOf[c] =>
               bal'[a] = bal[a] /\ saved'[a] \in {saved[a], bal[a]},
           failures' = 0 =>
               \/ req'[c].pc \in Unsaved
               \/ saved'[AccountOf[c]] = bal'[AccountOf[c]]
               \/ /\ req[c].pc \notin Unsaved
                  /\ bal'[AccountOf[c]] = bal[AccountOf[c]]
                  /\ saved'[AccountOf[c]] = saved[AccountOf[c]]
    PROVE  SavedInv'
<1> SUFFICES ASSUME failures' = 0
             PROVE  /\ \A d \in Clients : ~At(d, "giveBack")' /\ ~At(d, "refund")'
                    /\ \A a \in Accounts :
                          \/ saved'[a] = bal'[a]
                          \/ \E d \in Clients :
                                AccountOf[d] = a /\ req'[d].pc \in Unsaved
  BY DEF SavedInv
<1>1. /\ \A d \in Clients : req[d].pc # "giveBack" /\ req[d].pc # "refund"
      /\ \A a \in Accounts :
            \/ saved[a] = bal[a]
            \/ \E d \in Clients : AccountOf[d] = a /\ req[d].pc \in Unsaved
  BY DEF SavedInv, At
<1>2. \A d \in Clients : ~At(d, "giveBack")' /\ ~At(d, "refund")'
  BY <1>1 DEF At
<1>3. ASSUME NEW a \in Accounts
      PROVE  \/ saved'[a] = bal'[a]
             \/ \E d \in Clients : AccountOf[d] = a /\ req'[d].pc \in Unsaved
  <2>1. CASE a # AccountOf[c]
    <3>1. \A d \in Clients : AccountOf[d] = a => req'[d] = req[d]
      BY <2>1
    <3> QED BY <1>1, <2>1, <3>1
  <2>2. CASE a = AccountOf[c]
    BY <1>1, <2>2
  <2> QED BY <2>1, <2>2
<1> QED BY <1>2, <1>3

LEMMA SavedStep ==
    StakingTyped /\ SavedInv /\ [Next]_vars => SavedInv'
<1> SUFFICES ASSUME StakingTyped, SavedInv, [Next]_vars PROVE SavedInv'
  OBVIOUS
<1>0. /\ AccountOf \in [Clients -> Accounts]
      /\ bal \in [Accounts -> Nat] /\ saved \in [Accounts -> Nat]
      /\ req \in [Clients -> ReqType] /\ failures \in Nat
  BY StakingAssumption DEF StakingAssumption, StakingTyped, StakingTypeOK
<1>1. CASE UNCHANGED vars
  BY <1>1 DEF vars, SavedInv, At
<1>2. ASSUME NEW c \in Clients, NEW n \in StakeAmounts, Withhold(c, n)
      PROVE  SavedInv'
  <2>1. /\ req'[c].pc = "withheld" /\ \A d \in Clients \ {c} : req'[d] = req[d]
        /\ UNCHANGED <<saved, failures>>
        /\ \A a \in Accounts : a # AccountOf[c] => bal'[a] = bal[a]
    BY <1>0, <1>2 DEF Withhold
  <2> QED BY <1>0, <2>1, SavedKept DEF Unsaved
<1>3. ASSUME NEW c \in Clients, ReadPosition(c) PROVE SavedInv'
  <2>1. /\ req'[c].pc = "update" /\ \A d \in Clients \ {c} : req'[d] = req[d]
        /\ UNCHANGED <<saved, bal, failures>>
    BY <1>0, <1>3 DEF ReadPosition
  <2> QED BY <1>0, <2>1, SavedKept DEF Unsaved
<1>4. ASSUME NEW c \in Clients, PutPosition(c) PROVE SavedInv'
  <2>1. /\ req'[c].pc = "saveStake" /\ \A d \in Clients \ {c} : req'[d] = req[d]
        /\ UNCHANGED <<saved, bal, failures>>
    BY <1>4, GotoTyped DEF PutPosition, Phases
  <2> QED BY <1>0, <2>1, SavedKept DEF Unsaved
<1>5. ASSUME Fails PROVE SavedInv'
  BY <1>0, <1>5 DEF Fails, SavedInv
<1>6. ASSUME NEW c \in Clients, GiveBack(c) PROVE SavedInv'
  BY <1>6 DEF GiveBack, SavedInv
<1>7. ASSUME NEW c \in Clients, Register(c) \/ Unregister(c) \/ CloseFails(c)
      PROVE SavedInv'
  <2>1. CASE CloseFails(c)
    BY <1>5, <2>1 DEF CloseFails
  <2>2. CASE ~CloseFails(c)
    <3>1. /\ req[c].pc \in {"registering", "unregister"} /\ req'[c].pc = "idle"
          /\ \A d \in Clients \ {c} : req'[d] = req[d]
          /\ UNCHANGED <<saved, bal, failures>>
      BY <1>7, <2>2, DoneTyped DEF Register, Unregister, At
    <3> QED BY <1>0, <3>1, SavedKept DEF Unsaved
  <2> QED BY <2>1, <2>2
<1>8. ASSUME NEW c \in Clients, BeginSave(c) PROVE SavedInv'
  <2>1. /\ req'[c].pc \in {"savingStake", "savingCredit"}
        /\ \A d \in Clients \ {c} : req'[d] = req[d]
        /\ UNCHANGED <<saved, bal, failures>>
    BY <1>8, GotoTyped DEF BeginSave, Phases
  <2> QED BY <1>0, <2>1, SavedKept DEF Unsaved
<1>9. ASSUME NEW c \in Clients, EndSave(c) PROVE SavedInv'
  <2>1. /\ req'[c].pc \in {"register", "unregister"}
        /\ \A d \in Clients \ {c} : req'[d] = req[d]
        /\ UNCHANGED <<saved, bal, failures>> /\ saved = bal
    BY <1>9, GotoTyped DEF EndSave, Written, Phases
  <2> QED BY <1>0, <2>1, SavedKept
<1>10. ASSUME NEW c \in Clients, NEW a \in Accounts, SaveBalance(c, a)
       PROVE  SavedInv'
  <2>1. /\ UNCHANGED <<bal, failures, req>>
        /\ \A b \in Accounts : saved'[b] \in {saved[b], bal[b]}
    BY <1>0, <1>10 DEF SaveBalance
  <2>2. req[c].pc \in Unsaved
    BY <1>10 DEF SaveBalance, At, Unsaved
  <2>3. req'[c].pc \notin {"giveBack", "refund"}
    BY <2>1, <2>2 DEF Unsaved
  <2> QED BY <1>0, <2>1, <2>2, <2>3, SavedKept
<1>11. ASSUME NEW c \in Clients, NEW n \in Interest, ReadStake(c, n)
       PROVE  SavedInv'
  <2>1. /\ req[c].pc = "idle" /\ req'[c].pc = "close"
        /\ \A d \in Clients \ {c} : req'[d] = req[d]
        /\ UNCHANGED <<saved, bal, failures>>
    BY <1>0, <1>11 DEF ReadStake, At
  <2> QED BY <1>0, <2>1, SavedKept DEF Unsaved
<1>12. ASSUME NEW c \in Clients, Close(c) PROVE SavedInv'
  <2>1. /\ req[c].pc = "close" /\ req'[c].pc = "credit"
        /\ \A d \in Clients \ {c} : req'[d] = req[d]
        /\ UNCHANGED <<saved, bal, failures>>
    BY <1>12, GotoTyped DEF Close, At, Phases
  <2> QED BY <1>0, <2>1, SavedKept DEF Unsaved
<1>13. ASSUME NEW c \in Clients, Credit(c) PROVE SavedInv'
  <2>1. /\ req'[c].pc = "saveCredit" /\ \A d \in Clients \ {c} : req'[d] = req[d]
        /\ UNCHANGED <<saved, failures>>
    BY <1>13, GotoTyped DEF Credit, Phases
  <2>2. \A a \in Accounts : a # AccountOf[c] => bal'[a] = bal[a]
    BY <1>0, <1>13 DEF Credit
  <2> QED BY <1>0, <2>1, <2>2, SavedKept DEF Unsaved
<1>14. CASE Crash
  BY <1>0, <1>14 DEF Crash, SavedInv, At, Idle
<1>15. ASSUME NEW c \in Clients, ReadAgain(c) PROVE SavedInv'
  <2>1. /\ req[c].pc = "register" /\ req'[c].pc = "registering"
        /\ \A d \in Clients \ {c} : req'[d] = req[d]
        /\ UNCHANGED <<saved, bal, failures>>
    BY <1>0, <1>15 DEF ReadAgain, At
  <2> QED BY <1>0, <2>1, SavedKept DEF Unsaved
<1> QED BY <1>1, <1>2, <1>3, <1>4, <1>5, <1>6, <1>7, <1>8, <1>9, <1>10, <1>11,
           <1>12, <1>13, <1>14, <1>15
    DEF Next, Stake, Unstake, Save, PutFails, SaveFails

\* An answered request survives a crash, also when requests of one account
\* overlap, as long as no write fails.
THEOREM AcknowledgedCorrect == Spec => []AcknowledgedIsSaved
<1>1. Init => SavedInv
  BY DEF Init, SavedInv, At, Idle
<1>2. StakingTyped /\ SavedInv => AcknowledgedIsSaved
  BY DEF SavedInv, AcknowledgedIsSaved, RequestsOf, At, Unsaved
<1> QED BY <1>1, <1>2, StakingTypeInit, StakingTypeStep, SavedStep, PTL DEF Spec

-----------------------------------------------------------------------------
(* One client per account, which nothing in the code sees to: coins, crash *)
(* drift and validators.  What an account has is stated by its request.    *)
OnePerAccount ==
    \A c, d \in Clients : AccountOf[c] = AccountOf[d] => c = d

ReqOf(a) ==
    IF \E c \in Clients : AccountOf[c] = a
    THEN req[CHOOSE c \in Clients : AccountOf[c] = a]
    ELSE Idle

HeldBy(r) ==
    IF r.pc \in {"withheld", "update", "giveBack"} THEN r.amount
    ELSE IF r.pc = "credit" THEN r.read
    ELSE 0

\* The phases of unstake after the position was removed, and the phases in
\* which the validators do not follow it yet.
Closing == {"credit", "saveCredit", "savingCredit", "unregister"}
Following == {"idle", "withheld", "update", "close"}

SavedFor(a, r) ==
    /\ r.pc \notin {"giveBack", "refund"}
    /\ IF r.pc \in {"withheld", "update", "saveStake", "savingStake"}
          THEN saved[a] = bal[a] \/ saved[a] = bal[a] + r.amount
        ELSE IF r.pc \in {"saveCredit", "savingCredit"}
          THEN saved[a] = bal[a] \/ saved[a] + r.amount = bal[a]
        ELSE saved[a] = bal[a]

\* The phases of stake that know its amount.
Staked == {"withheld", "update", "giveBack", "saveStake", "savingStake", "refund"}

SurplusOf(a, r) == bal[a] + pos[a] + HeldBy(r) - (Funds[a] + paid[a])

\* A failed save has made the coins of one stake, once they are given back.
FundsFor(a, r) ==
    /\ SurplusOf(a, r) >= 0
    /\ failures = 0 => SurplusOf(a, r) = 0 /\ r.pc # "refund"
    /\ failures = 1 => \/ SurplusOf(a, r) = 0
                       \/ SurplusOf(a, r) \in StakeAmounts /\ r.pc # "refund"

Sound(a, r) ==
    /\ r.pc \in Staked => r.amount \in StakeAmounts
    /\ crashes = 0 => FundsFor(a, r)
    /\ r.pc \in {"update", "registering", "close"} => r.read = pos[a]
    /\ r.pc \in Closing => pos[a] = 0
    /\ validators[a] # 0 => Eligible(validators[a])
    /\ r.pc \notin Closing => validators[a] <= pos[a]
    /\ failures = 0 => SavedFor(a, r)
    /\ (failures = 0 /\ crashes = 0 /\ r.pc \in Following /\ Eligible(pos[a]))
           => validators[a] = pos[a]

AccountsSound == \A a \in Accounts : Sound(a, ReqOf(a))

LEMMA ReqOfClient ==
    ASSUME OnePerAccount, NEW c \in Clients
    PROVE  /\ ReqOf(AccountOf[c]) = req[c]
           /\ ReqOf(AccountOf[c])' = req'[c]
<1>1. (CHOOSE d \in Clients : AccountOf[d] = AccountOf[c]) = c
  BY DEF OnePerAccount
<1> QED BY <1>1 DEF ReqOf

\* A step of one client leaves the other accounts sound.
LEMMA Elsewhere ==
    ASSUME OnePerAccount, StakingTyped, AccountsSound,
           failures' \in {failures, failures + 1}, crashes' = crashes,
           NEW c \in Clients, AccountOf[c] \in Accounts,
           \A d \in Clients \ {c} : req'[d] = req[d],
           \A a \in Accounts : a # AccountOf[c] =>
               /\ bal'[a] = bal[a] /\ saved'[a] \in {saved[a], bal[a]}
               /\ pos'[a] = pos[a] /\ validators'[a] = validators[a]
               /\ paid'[a] = paid[a],
           Sound(AccountOf[c], req[c])'
    PROVE  AccountsSound'
<1>0. failures \in Nat
  BY DEF StakingTyped, StakingTypeOK
<1>1. SUFFICES ASSUME NEW a \in Accounts PROVE Sound(a, ReqOf(a))'
  BY DEF AccountsSound
<1>2. CASE a = AccountOf[c]
  BY <1>2, ReqOfClient
<1>3. CASE a # AccountOf[c]
  <2>1. ReqOf(a)' = ReqOf(a)
    <3>1. CASE \E d \in Clients : AccountOf[d] = a
      <4>1. PICK d \in Clients : d = CHOOSE e \in Clients : AccountOf[e] = a
        BY <3>1
      <4>2. AccountOf[d] = a
        BY <3>1, <4>1
      <4>3. req'[d] = req[d]
        BY <1>3, <4>2
      <4> QED BY <3>1, <4>1, <4>3 DEF ReqOf
    <3>2. CASE ~\E d \in Clients : AccountOf[d] = a
      BY <3>2 DEF ReqOf, Idle
    <3> QED BY <3>1, <3>2
  <2>2. Sound(a, ReqOf(a))
    BY DEF AccountsSound
  <2> DEFINE r == ReqOf(a)
  <2>3. Sound(a, r)'
    <3>1. r' = r
      BY <2>1
    <3> HIDE DEF r
    <3>2. Sound(a, r)
      BY <2>2 DEF r
    <3> QED BY <1>0, <1>3, <3>1, <3>2
            DEF Sound, SavedFor, HeldBy, Eligible, FundsFor, SurplusOf
  <2> QED BY <2>3
<1> QED BY <1>2, <1>3

LEMMA AccountsStep ==
    ASSUME OnePerAccount
    PROVE  StakingTyped /\ AccountsSound /\ [Next]_vars => AccountsSound'
<1> SUFFICES ASSUME StakingTyped, AccountsSound, [Next]_vars PROVE AccountsSound'
  OBVIOUS
<1>0. /\ AccountOf \in [Clients -> Accounts] /\ Funds \in [Accounts -> Nat]
      /\ StakeAmounts \subseteq Nat /\ Interest \subseteq Nat
      /\ MinStake \in Nat \ {0} /\ MaxStake \in Nat
      /\ bal \in [Accounts -> Nat] /\ saved \in [Accounts -> Nat]
      /\ pos \in [Accounts -> Nat] /\ validators \in [Accounts -> Nat]
      /\ req \in [Clients -> ReqType] /\ paid \in [Accounts -> Nat]
      /\ failures \in Nat /\ crashes \in Nat
  BY StakingAssumption DEF StakingAssumption, StakingTyped, StakingTypeOK
\* What is known of the client that moves and of its account.
<1>a. ASSUME NEW c \in Clients
      PROVE  /\ AccountOf[c] \in Accounts /\ Sound(AccountOf[c], req[c])
             /\ req[c].amount \in Nat /\ req[c].read \in Nat
             /\ bal[AccountOf[c]] \in Nat /\ saved[AccountOf[c]] \in Nat
             /\ pos[AccountOf[c]] \in Nat /\ validators[AccountOf[c]] \in Nat
             /\ paid[AccountOf[c]] \in Nat /\ Funds[AccountOf[c]] \in Nat
             /\ failures \in Nat /\ StakeAmounts \subseteq Nat
  BY <1>0, ReqOfClient DEF AccountsSound, ReqType
<1>1. CASE UNCHANGED vars
  BY <1>1 DEF vars, AccountsSound, ReqOf, Idle, Sound, SavedFor, HeldBy, Eligible,
              FundsFor, SurplusOf
<1>2. ASSUME NEW c \in Clients, NEW n \in StakeAmounts, Withhold(c, n)
      PROVE  AccountsSound'
  <2>1. /\ req[c].pc = "idle" /\ req'[c].pc = "withheld" /\ req'[c].amount = n
        /\ \A d \in Clients \ {c} : req'[d] = req[d]
        /\ UNCHANGED <<saved, pos, validators, paid, failures, crashes>>
        /\ \A a \in Accounts :
              bal'[a] = IF a = AccountOf[c] THEN bal[a] - n ELSE bal[a]
        /\ n \in Nat
    BY <1>0, <1>2 DEF Withhold, At
  <2>2. Sound(AccountOf[c], req[c])'
    BY <1>a, <2>1 DEF Sound, SavedFor, HeldBy, Following, Closing, Eligible,
               Staked, FundsFor, SurplusOf
  <2> QED BY <1>a, <2>1, <2>2, Elsewhere
<1>3. ASSUME NEW c \in Clients, ReadPosition(c) PROVE AccountsSound'
  <2>1. /\ req[c].pc = "withheld" /\ req'[c].pc = "update"
        /\ req'[c].amount = req[c].amount /\ req'[c].read = pos[AccountOf[c]]
        /\ \A d \in Clients \ {c} : req'[d] = req[d]
        /\ UNCHANGED <<bal, saved, pos, validators, paid, failures, crashes>>
    BY <1>0, <1>3 DEF ReadPosition, At
  <2>2. Sound(AccountOf[c], req[c])'
    BY <1>a, <2>1 DEF Sound, SavedFor, HeldBy, Following, Closing, Eligible,
               Staked, FundsFor, SurplusOf
  <2> QED BY <1>a, <2>1, <2>2, Elsewhere
<1>4. ASSUME NEW c \in Clients, PutPosition(c) PROVE AccountsSound'
  <2>1. /\ req[c].pc = "update" /\ req'[c].pc = "saveStake"
        /\ req'[c].amount = req[c].amount
        /\ \A d \in Clients \ {c} : req'[d] = req[d]
        /\ UNCHANGED <<bal, saved, validators, paid, failures, crashes>>
        /\ \A a \in Accounts :
              pos'[a] = IF a = AccountOf[c] THEN req[c].read + req[c].amount
                        ELSE pos[a]
    BY <1>0, <1>4, GotoTyped DEF PutPosition, At, Phases
  <2>2. Sound(AccountOf[c], req[c])'
    BY <1>a, <2>1 DEF Sound, SavedFor, HeldBy, Following, Closing, Eligible,
               Staked, FundsFor, SurplusOf
  <2> QED BY <1>a, <2>1, <2>2, Elsewhere
<1>5. ASSUME NEW c \in Clients, PutFails(c) PROVE AccountsSound'
  <2>1. /\ req[c].pc = "update" /\ req'[c].pc = "giveBack"
        /\ req'[c].amount = req[c].amount
        /\ \A d \in Clients \ {c} : req'[d] = req[d]
        /\ UNCHANGED <<bal, saved, pos, validators, paid, crashes>>
        /\ failures' = failures + 1
    BY <1>0, <1>5, GotoTyped DEF PutFails, Fails, At, Phases
  <2>2. Sound(AccountOf[c], req[c])'
    <3>1. SurplusOf(AccountOf[c], req[c])' = SurplusOf(AccountOf[c], req[c])
      BY <1>a, <2>1 DEF SurplusOf, HeldBy
    <3>2. crashes' = 0 => FundsFor(AccountOf[c], req[c])'
      BY <1>a, <2>1, <3>1 DEF FundsFor, Sound
    <3> QED BY <1>a, <2>1, <3>2 DEF Sound, Closing, Eligible, Staked
  <2> QED BY <1>a, <2>1, <2>2, Elsewhere
<1>6. ASSUME NEW c \in Clients, GiveBack(c) PROVE AccountsSound'
  <2>1. /\ req[c].pc \in {"giveBack", "refund"} /\ req'[c].pc = "idle"
        /\ \A d \in Clients \ {c} : req'[d] = req[d]
        /\ UNCHANGED <<saved, pos, validators, paid, failures, crashes>>
        /\ \A a \in Accounts :
              bal'[a] = IF a = AccountOf[c] THEN bal[a] + req[c].amount ELSE bal[a]
    BY <1>0, <1>6, DoneTyped DEF GiveBack, At
  <2>2. Sound(AccountOf[c], req[c])'
    <3>1. SurplusOf(AccountOf[c], req[c])' =
             SurplusOf(AccountOf[c], req[c])
                + IF req[c].pc = "refund" THEN req[c].amount ELSE 0
      BY <1>a, <2>1 DEF SurplusOf, HeldBy
    <3>2. req[c].amount \in StakeAmounts /\ SurplusOf(AccountOf[c], req[c]) \in Int
      BY <1>a, <2>1 DEF Sound, Staked, SurplusOf, HeldBy
    <3>3. failures # 0
      BY <1>a, <2>1 DEF Sound, SavedFor
    <3>4. crashes' = 0 => FundsFor(AccountOf[c], req[c])'
      BY <1>a, <2>1, <3>1, <3>2, <3>3 DEF FundsFor, Sound
    <3> QED BY <1>a, <2>1, <3>3, <3>4 DEF Sound, Closing, Eligible, Staked
  <2> QED BY <1>a, <2>1, <2>2, Elsewhere
<1>7. ASSUME NEW c \in Clients, Register(c) PROVE AccountsSound'
  <2>1. /\ req[c].pc = "registering" /\ req'[c].pc = "idle"
        /\ \A d \in Clients \ {c} : req'[d] = req[d]
        /\ UNCHANGED <<bal, saved, pos, paid, failures, crashes>>
        /\ \A a \in Accounts :
              validators'[a] = IF a = AccountOf[c] /\ Eligible(req[c].read)
                               THEN req[c].read ELSE validators[a]
    BY <1>0, <1>7, DoneTyped DEF Register, At
  <2>2. Sound(AccountOf[c], req[c])'
    BY <1>a, <2>1 DEF Sound, SavedFor, HeldBy, Following, Closing, Eligible,
               Staked, FundsFor, SurplusOf
  <2> QED BY <1>a, <2>1, <2>2, Elsewhere
<1>8. ASSUME NEW c \in Clients, BeginSave(c) PROVE AccountsSound'
  <2>1. /\ \/ req[c].pc = "saveStake" /\ req'[c].pc = "savingStake"
           \/ req[c].pc = "saveCredit" /\ req'[c].pc = "savingCredit"
        /\ req'[c].amount = req[c].amount
        /\ \A d \in Clients \ {c} : req'[d] = req[d]
        /\ UNCHANGED <<bal, saved, pos, validators, paid, failures, crashes>>
    BY <1>8, GotoTyped DEF BeginSave, At, Phases
  <2>2. Sound(AccountOf[c], req[c])'
    BY <1>a, <2>1 DEF Sound, SavedFor, HeldBy, Following, Closing, Eligible,
               Staked, FundsFor, SurplusOf
  <2> QED BY <1>a, <2>1, <2>2, Elsewhere
<1>9. ASSUME NEW c \in Clients, EndSave(c) PROVE AccountsSound'
  <2>1. /\ \/ req[c].pc = "savingStake" /\ req'[c].pc = "register"
           \/ req[c].pc = "savingCredit" /\ req'[c].pc = "unregister"
        /\ \A d \in Clients \ {c} : req'[d] = req[d]
        /\ UNCHANGED <<bal, saved, pos, validators, paid, failures, crashes>>
        /\ saved = bal
    BY <1>9, GotoTyped DEF EndSave, Written, At, Phases
  <2>2. Sound(AccountOf[c], req[c])'
    BY <1>a, <2>1 DEF Sound, SavedFor, HeldBy, Following, Closing, Eligible,
               Staked, FundsFor, SurplusOf
  <2> QED BY <1>a, <2>1, <2>2, Elsewhere
<1>10. ASSUME NEW c \in Clients, SaveFails(c) PROVE AccountsSound'
  <2>1. /\ \/ req[c].pc = "savingStake" /\ req'[c].pc = "refund"
           \/ req[c].pc = "savingCredit" /\ req'[c].pc = "unregister"
        /\ req'[c].amount = req[c].amount
        /\ \A d \in Clients \ {c} : req'[d] = req[d]
        /\ UNCHANGED <<bal, saved, pos, validators, paid, crashes>>
        /\ failures' = failures + 1
    BY <1>0, <1>10, GotoTyped DEF SaveFails, Fails, At, Phases
  <2>2. Sound(AccountOf[c], req[c])'
    <3>1. SurplusOf(AccountOf[c], req[c])' = SurplusOf(AccountOf[c], req[c])
      BY <1>a, <2>1 DEF SurplusOf, HeldBy
    <3>2. crashes' = 0 => FundsFor(AccountOf[c], req[c])'
      BY <1>a, <2>1, <3>1 DEF FundsFor, Sound
    <3> QED BY <1>a, <2>1, <3>2 DEF Sound, Closing, Eligible, Staked
  <2> QED BY <1>a, <2>1, <2>2, Elsewhere
<1>11. ASSUME NEW c \in Clients, NEW a \in Accounts, SaveBalance(c, a)
       PROVE  AccountsSound'
  <2>1. /\ req[c].pc \in {"savingStake", "savingCredit"}
        /\ UNCHANGED <<bal, pos, validators, req, paid, failures, crashes>>
        /\ \A b \in Accounts : saved'[b] \in {saved[b], bal[b]}
    BY <1>0, <1>11 DEF SaveBalance, At
  <2>2. Sound(AccountOf[c], req[c])'
    BY <1>a, <2>1 DEF Sound, SavedFor, HeldBy, Following, Closing, Eligible,
               Staked, FundsFor, SurplusOf
  <2> QED BY <1>a, <2>1, <2>2, Elsewhere
<1>12. ASSUME NEW c \in Clients, NEW n \in Interest, ReadStake(c, n)
       PROVE  AccountsSound'
  <2>1. /\ req[c].pc = "idle" /\ req'[c].pc = "close"
        /\ req'[c].read = pos[AccountOf[c]]
        /\ \A d \in Clients \ {c} : req'[d] = req[d]
        /\ UNCHANGED <<bal, saved, pos, validators, paid, failures, crashes>>
    BY <1>0, <1>12 DEF ReadStake, At
  <2>2. Sound(AccountOf[c], req[c])'
    BY <1>a, <2>1 DEF Sound, SavedFor, HeldBy, Following, Closing, Eligible,
               Staked, FundsFor, SurplusOf
  <2> QED BY <1>a, <2>1, <2>2, Elsewhere
<1>13. ASSUME NEW c \in Clients, Close(c) PROVE AccountsSound'
  <2>1. /\ req[c].pc = "close" /\ req'[c].pc = "credit"
        /\ req'[c].read = req[c].read
        /\ \A d \in Clients \ {c} : req'[d] = req[d]
        /\ UNCHANGED <<bal, saved, validators, paid, failures, crashes>>
        /\ \A a \in Accounts : pos'[a] = IF a = AccountOf[c] THEN 0 ELSE pos[a]
    BY <1>0, <1>13, GotoTyped DEF Close, At, Phases
  <2>2. Sound(AccountOf[c], req[c])'
    BY <1>a, <2>1 DEF Sound, SavedFor, HeldBy, Following, Closing, Eligible,
               Staked, FundsFor, SurplusOf
  <2> QED BY <1>a, <2>1, <2>2, Elsewhere
<1>14. ASSUME NEW c \in Clients, CloseFails(c) PROVE AccountsSound'
  <2>1. /\ req[c].pc = "close" /\ req'[c].pc = "idle"
        /\ \A d \in Clients \ {c} : req'[d] = req[d]
        /\ UNCHANGED <<bal, saved, pos, validators, paid, crashes>>
        /\ failures' = failures + 1
    BY <1>0, <1>14, DoneTyped DEF CloseFails, Fails, At
  <2>2. Sound(AccountOf[c], req[c])'
    BY <1>a, <2>1 DEF Sound, Closing, Eligible, HeldBy, Staked, FundsFor, SurplusOf
  <2> QED BY <1>a, <2>1, <2>2, Elsewhere
<1>15. ASSUME NEW c \in Clients, Credit(c) PROVE AccountsSound'
  <2>1. /\ req[c].pc = "credit" /\ req'[c].pc = "saveCredit"
        /\ req'[c].amount = req[c].amount
        /\ \A d \in Clients \ {c} : req'[d] = req[d]
        /\ UNCHANGED <<saved, pos, validators, failures, crashes>>
        /\ \A a \in Accounts :
              /\ bal'[a] = IF a = AccountOf[c] THEN bal[a] + req[c].amount
                           ELSE bal[a]
              /\ paid'[a] = IF a = AccountOf[c]
                            THEN paid[a] + req[c].amount - req[c].read
                            ELSE paid[a]
    BY <1>0, <1>15, GotoTyped DEF Credit, At, Phases
  <2> DEFINE a == AccountOf[c]
  <2>2. /\ pos'[a] = 0 /\ bal'[a] = bal[a] + req[c].amount /\ saved'[a] = saved[a]
        /\ paid'[a] = paid[a] + req[c].amount - req[c].read
        /\ validators'[a] # 0 => Eligible(validators'[a])
    BY <1>a, <2>1 DEF Sound, Closing, Eligible, HeldBy, Staked, FundsFor, SurplusOf
  <2>3. failures = 0 => saved[a] = bal[a]
    BY <1>a, <2>1 DEF Sound, SavedFor
  <2>4. failures' = 0 => SavedFor(a, req[c])'
    <3>1. failures' = 0 => saved'[a] + req'[c].amount = bal'[a]
      BY <2>1, <2>2, <2>3
    <3> QED BY <2>1, <3>1 DEF SavedFor
  <2>5. SurplusOf(a, req[c])' = SurplusOf(a, req[c])
    BY <1>a, <2>1, <2>2 DEF SurplusOf, HeldBy, Sound, Closing
  <2>6. crashes' = 0 => FundsFor(a, req[c])'
    BY <1>a, <2>1, <2>5 DEF FundsFor, Sound
  <2>7. Sound(a, req[c])'
    BY <2>1, <2>2, <2>4, <2>6 DEF Sound, Closing, Following, Eligible, Staked
  <2> QED BY <1>a, <2>1, <2>7, Elsewhere
<1>16. ASSUME NEW c \in Clients, Unregister(c) PROVE AccountsSound'
  <2>1. /\ req[c].pc = "unregister" /\ req'[c].pc = "idle"
        /\ \A d \in Clients \ {c} : req'[d] = req[d]
        /\ UNCHANGED <<bal, saved, pos, paid, failures, crashes>>
        /\ \A a \in Accounts :
              validators'[a] = IF a = AccountOf[c] THEN 0 ELSE validators[a]
    BY <1>0, <1>16, DoneTyped DEF Unregister, At
  <2>2. Sound(AccountOf[c], req[c])'
    BY <1>a, <2>1 DEF Sound, SavedFor, HeldBy, Following, Closing, Eligible,
               Staked, FundsFor, SurplusOf
  <2> QED BY <1>a, <2>1, <2>2, Elsewhere
<1>17. CASE Crash
  <2>1. ASSUME NEW a \in Accounts PROVE Sound(a, ReqOf(a))'
    <3>1. /\ \A c \in Clients : req'[c] = Idle
          /\ bal' = saved /\ saved' = saved /\ validators'[a] = 0
          /\ pos' = pos /\ crashes' # 0
      BY <1>0, <1>17 DEF Crash
    <3>2. ReqOf(a)'.pc = "idle"
      <4>1. Idle.pc = "idle"
        BY DEF Idle
      <4>2. CASE \E c \in Clients : AccountOf[c] = a
        <5>1. (CHOOSE c \in Clients : AccountOf[c] = a) \in Clients
          BY <4>2
        <5> QED BY <3>1, <4>1, <4>2, <5>1 DEF ReqOf
      <4>3. CASE ~\E c \in Clients : AccountOf[c] = a
        BY <4>1, <4>3 DEF ReqOf, Idle
      <4> QED BY <4>2, <4>3
    <3> QED BY <1>0, <3>1, <3>2 DEF Sound, SavedFor, Closing, Staked
  <2> QED BY <2>1 DEF AccountsSound
<1>18. ASSUME NEW c \in Clients, ReadAgain(c) PROVE AccountsSound'
  <2>1. /\ req[c].pc = "register" /\ req'[c].pc = "registering"
        /\ req'[c].amount = req[c].amount /\ req'[c].read = pos[AccountOf[c]]
        /\ \A d \in Clients \ {c} : req'[d] = req[d]
        /\ UNCHANGED <<bal, saved, pos, validators, paid, failures, crashes>>
    BY <1>0, <1>18 DEF ReadAgain, At
  <2>2. Sound(AccountOf[c], req[c])'
    BY <1>a, <2>1 DEF Sound, SavedFor, HeldBy, Following, Closing, Eligible,
               Staked, FundsFor, SurplusOf
  <2> QED BY <1>a, <2>1, <2>2, Elsewhere
<1> QED BY <1>1, <1>2, <1>3, <1>4, <1>5, <1>6, <1>7, <1>8, <1>9, <1>10, <1>11,
           <1>12, <1>13, <1>14, <1>15, <1>16, <1>17, <1>18
    DEF Next, Stake, Unstake, Save

LEMMA AccountsInit == Init => AccountsSound
  BY StakingAssumption
     DEF Init, StakingAssumption, AccountsSound, ReqOf, Sound, SavedFor, HeldBy,
         Idle, Closing, Following, Eligible, Staked, FundsFor, SurplusOf

\* The sums of the properties, over no request and over one.
LEMMA SumNone ==
    ASSUME NEW f
    PROVE  SumFunctionOnSet(f, {}) = 0
<1> DEFINE Def(iter) == iter = [s \in SUBSET {} |->
                IF s = {} THEN 0
                ELSE f[CHOOSE x \in s : TRUE]
                       + iter[s \ {CHOOSE x \in s : TRUE}]]
<1>1. SumFunctionOnSet(f, {}) = (CHOOSE iter : Def(iter))[{}]
  BY DEF SumFunctionOnSet, FoldFunctionOnSet, MapThenFoldSet
<1>2. \E iter : Def(iter)
  <2> DEFINE it == [s \in SUBSET {} |-> 0]
  <2>1. Def(it)
    OBVIOUS
  <2> HIDE DEF it, Def
  <2> QED BY <2>1
<1>3. Def(CHOOSE iter : Def(iter))
  <2> HIDE DEF Def
  <2> QED BY <1>2
<1> DEFINE i == CHOOSE iter : Def(iter)
<1> HIDE DEF i
<1>4. Def(i)
  BY <1>3 DEF i
<1>5. i[{}] = 0
  BY <1>4
<1> QED BY <1>1, <1>5 DEF i

LEMMA SumOne ==
    ASSUME NEW f, NEW c, f[c] \in Nat
    PROVE  SumFunctionOnSet(f, {c}) = f[c]
<1> DEFINE Def(iter) == iter = [s \in SUBSET {c} |->
                IF s = {} THEN 0
                ELSE f[CHOOSE x \in s : TRUE]
                       + iter[s \ {CHOOSE x \in s : TRUE}]]
<1>1. SumFunctionOnSet(f, {c}) = (CHOOSE iter : Def(iter))[{c}]
  BY DEF SumFunctionOnSet, FoldFunctionOnSet, MapThenFoldSet
<1>2. (CHOOSE x \in {c} : TRUE) = c /\ {c} \ {c} = {}
  OBVIOUS
<1>3. \E iter : Def(iter)
  <2> DEFINE it == [s \in SUBSET {c} |-> IF s = {} THEN 0 ELSE f[c]]
             g == [s \in SUBSET {c} |-> IF s = {} THEN 0
                ELSE f[CHOOSE x \in s : TRUE]
                       + it[s \ {CHOOSE x \in s : TRUE}]]
  <2>1. it[{}] = 0 /\ f[c] + it[{}] = f[c]
    OBVIOUS
  <2>2. ASSUME NEW s \in SUBSET {c} PROVE it[s] = g[s]
    <3>1. CASE s = {}
      BY <3>1
    <3>2. CASE s = {c}
      <4>1. it[s] = f[c]
        BY <3>2
      <4> HIDE DEF it
      <4> QED BY <1>2, <2>1, <3>2, <4>1
    <3> QED BY <3>1, <3>2
  <2>3. it = [s \in SUBSET {c} |-> it[s]] /\ g = [s \in SUBSET {c} |-> g[s]]
    OBVIOUS
  <2>4. it = g
    <3> HIDE DEF it, g
    <3> QED BY <2>2, <2>3
  <2>5. Def(it)
    <3> HIDE DEF it
    <3> QED BY <2>4 DEF g
  <2> HIDE DEF it, Def
  <2> QED BY <2>5
<1> DEFINE i == CHOOSE iter : Def(iter)
<1>4. Def(i)
  <2> HIDE DEF Def
  <2> QED BY <1>3
<1> HIDE DEF i
<1>5. i[{}] = 0
  BY <1>4
<1>6. i[{c}] = f[CHOOSE x \in {c} : TRUE] + i[{c} \ {CHOOSE x \in {c} : TRUE}]
  BY <1>4
<1>7. i[{c}] = f[c] + i[{}]
  BY <1>2, <1>6
<1>8. i[{c}] = f[c]
  BY <1>5, <1>7
<1> QED BY <1>1, <1>8 DEF i

\* The requests of an account are the one of its client, if that is active.
LEMMA RequestSums ==
    ASSUME OnePerAccount, StakingTyped, NEW a \in Accounts
    PROVE  /\ HeldFor(a) = HeldBy(ReqOf(a)) /\ HeldFor(a) \in Nat
           /\ ReqOf(a).pc # "idle" => InFlight(a) = ReqOf(a).amount
           /\ ReqOf(a).pc = "idle" => InFlight(a) = 0
           /\ ReqOf(a) \in ReqType
           /\ RequestsOf(a) = {} => ReqOf(a).pc = "idle"
           /\ ReqOf(a).pc \in {"close", "credit"} =>
                  ReqOf(a).read <= ReqOf(a).amount
<1>0. /\ \A c \in Clients : req[c] \in ReqType
      /\ Idle.pc = "idle" /\ Idle \in ReqType
  BY DEF StakingTyped, StakingTypeOK, Idle, ReqType, Phases
<1>1. CASE ReqOf(a).pc = "idle"
  <2>1. RequestsOf(a) = {}
    BY <1>1, ReqOfClient DEF RequestsOf, At
  <2>2. HeldFor(a) = 0 /\ InFlight(a) = 0
    BY <2>1, SumNone DEF HeldFor, InFlight
  <2>3. ReqOf(a) \in ReqType
    BY <1>0 DEF ReqOf
  <2> QED BY <1>1, <2>2, <2>3 DEF HeldBy
<1>2. CASE ReqOf(a).pc # "idle"
  <2>1. \E c \in Clients : AccountOf[c] = a
    BY <1>0, <1>2 DEF ReqOf
  <2>2. PICK c \in Clients : AccountOf[c] = a
    BY <2>1
  <2>3. ReqOf(a) = req[c]
    BY <2>2, ReqOfClient
  <2>4. RequestsOf(a) = {c}
    BY <1>2, <2>2, <2>3 DEF RequestsOf, At, OnePerAccount
  <2>5. req[c].amount \in Nat /\ req[c].read \in Nat /\ Held(c) \in Nat
    BY <1>0 DEF ReqType, Held
  <2>6. HeldFor(a) = Held(c)
    <3> DEFINE f == [d \in Clients |-> Held(d)]
    <3>1. f[c] = Held(c)
      OBVIOUS
    <3> HIDE DEF f
    <3>2. SumFunctionOnSet(f, {c}) = Held(c)
      BY <2>5, <3>1, SumOne
    <3> QED BY <2>4, <3>2 DEF HeldFor, f
  <2>7. InFlight(a) = req[c].amount
    <3> DEFINE f == [d \in Clients |-> req[d].amount]
    <3>1. f[c] = req[c].amount
      OBVIOUS
    <3> HIDE DEF f
    <3>2. SumFunctionOnSet(f, {c}) = req[c].amount
      BY <2>5, <3>1, SumOne
    <3> QED BY <2>4, <3>2 DEF InFlight, f
  <2>8. Held(c) = HeldBy(req[c])
    BY DEF Held, HeldBy
  <2> QED BY <1>0, <1>2, <2>3, <2>4, <2>5, <2>6, <2>7, <2>8 DEF StakingTyped
<1> QED BY <1>1, <1>2

\* What an account has between, or in, its requests.
LEMMA AccountsImply ==
    ASSUME OnePerAccount, StakingTyped, AccountsSound
    PROVE  FundsOnlyMove /\ CrashDriftBounded /\ ValidatorsStaked
<1>1. ASSUME NEW a \in Accounts
      PROVE  /\ Sound(a, ReqOf(a))
             /\ bal[a] \in Nat /\ saved[a] \in Nat /\ pos[a] \in Nat
             /\ validators[a] \in Nat
  BY DEF AccountsSound, StakingTyped, StakingTypeOK
<1>2. FundsOnlyMove
  <2>1. \A a \in Accounts : Surplus(a) = SurplusOf(a, ReqOf(a))
    BY RequestSums DEF Surplus, SurplusOf
  <2> QED BY <1>1, <2>1 DEF FundsOnlyMove, Sound, FundsFor
<1>3. ValidatorsStaked
  BY <1>1, RequestSums DEF ValidatorsStaked, Sound, Closing, Following
<1>4. CrashDriftBounded
  <2> SUFFICES ASSUME failures = 0, NEW a \in Accounts
      PROVE  (saved[a] + pos[a]) - (bal[a] + pos[a] + HeldFor(a))
                \in -InFlight(a) .. InFlight(a)
    BY DEF CrashDriftBounded
  <2> DEFINE r == ReqOf(a)
  <2>1. SavedFor(a, r) /\ bal[a] \in Nat /\ saved[a] \in Nat /\ pos[a] \in Nat
    BY <1>1 DEF Sound
  <2>2. /\ HeldFor(a) = HeldBy(r)
        /\ InFlight(a) = IF r.pc = "idle" THEN 0 ELSE r.amount
        /\ r.amount \in Nat /\ r.read \in Nat
        /\ r.pc \in {"close", "credit"} => r.read <= r.amount
    BY RequestSums DEF ReqType
  <2> HIDE DEF r
  <2>3. HeldBy(r) \in Nat /\ InFlight(a) \in Nat
    BY <2>2 DEF HeldBy
  <2>4. saved[a] - bal[a] - HeldBy(r) \in -InFlight(a) .. InFlight(a)
    BY <2>1, <2>2, <2>3 DEF SavedFor, HeldBy
  <2> QED BY <2>1, <2>2, <2>3, <2>4
<1> QED BY <1>2, <1>3, <1>4

LEMMA StakingCorrect ==
    ASSUME OnePerAccount
    PROVE  Spec => [](FundsOnlyMove /\ CrashDriftBounded /\ ValidatorsStaked)
<1>1. StakingTyped /\ AccountsSound =>
         FundsOnlyMove /\ CrashDriftBounded /\ ValidatorsStaked
  BY AccountsImply
<1>2. StakingTyped /\ AccountsSound /\ [Next]_vars => AccountsSound'
  BY AccountsStep
<1> QED BY <1>1, <1>2, StakingTypeInit, StakingTypeStep, AccountsInit, PTL DEF Spec

\* Staking moves coins and makes none, if an account has one client.
THEOREM FundsCorrect ==
    ASSUME OnePerAccount PROVE Spec => []FundsOnlyMove
BY StakingCorrect, PTL

\* A crash costs or gives at most the request at hand.
THEOREM DriftCorrect ==
    ASSUME OnePerAccount PROVE Spec => []CrashDriftBounded
BY StakingCorrect, PTL

\* The validators follow the positions between requests.
THEOREM ValidatorsCorrect ==
    ASSUME OnePerAccount PROVE Spec => []ValidatorsStaked
BY StakingCorrect, PTL
=============================================================================
