------------------------------ MODULE Staking ------------------------------
(***************************************************************************)
(* stake_tokens and unstake_tokens of src/rpc.rs with the positions of     *)
(* src/storage.rs, step by step.  Balances are in the ledger, positions in *)
(* Sled only; a request moves coins from one to the other and saves the    *)
(* ledger last.  The positions are read and written under a shared lock,   *)
(* so requests interleave between any two steps.  Other payments are left  *)
(* to Processor, which takes a request as one step.  The accounts are not  *)
(* those of the genesis block, whose empty balances a boot refills; see    *)
(* BootMintsNothing in Durability for these.                               *)
(***************************************************************************)
EXTENDS Integers, FiniteSetsExt

CONSTANTS
    Accounts,
    Clients,        \* the requests that may run at the same time
    AccountOf,      \* the account each client stakes for
    Funds,          \* their balances at the start
    StakeAmounts,   \* the amounts they stake
    Interest,       \* bound of the model: all the interest an account is paid
    MinStake,       \* min_stake of the consensus engine
    MaxStake,       \* max_stake
    MaxFaults       \* bound of the model: crashes and failed writes

StakingAssumption ==
    /\ AccountOf \in [Clients -> Accounts]
    /\ Funds \in [Accounts -> Nat]
    /\ StakeAmounts \subseteq Nat \ {0}
    /\ Interest \subseteq Nat
    /\ MinStake \in Nat \ {0}
    /\ MaxStake \in Nat
    /\ MaxFaults \in Nat

ASSUME StakingAssumption

VARIABLES
    bal,        \* balances in memory
    saved,      \* balances on disk
    pos,        \* staked_amount of the position on disk, 0 without one
    validators, \* stake each account is registered with, 0 if it is not
    req,        \* what each client is doing
    paid,       \* interest paid to each account so far
    failures,   \* writes that failed
    crashes

vars == <<bal, saved, pos, validators, req, paid, failures, crashes>>

-----------------------------------------------------------------------------
Phases == {"idle",
           "withheld",      \* stake: balance taken, position not read yet
           "update",        \* stake: position read, to be put
           "giveBack",      \* stake: the put failed, balance to be returned
           "saveStake",     \* stake: position put, ledger to be saved
           "savingStake",   \* the same, under the ledger's read lock
           "refund",        \* stake: the save failed, balance to be returned
           "register",      \* stake: saved, position to be read again
           "registering",   \* stake: read again, to become a validator
           "close",         \* unstake: position read, to be removed
           "credit",        \* unstake: removed, balance to be credited
           "saveCredit",    \* unstake: credited, ledger to be saved
           "savingCredit",  \* the same, under the ledger's read lock
           "unregister"}    \* unstake: to leave the validators

\* The amount of the request; what the position held when it was read.
ReqType == [pc : Phases, amount : Nat, read : Nat]

Idle == [pc |-> "idle", amount |-> 0, read |-> 0]

Init ==
    /\ bal = Funds /\ saved = Funds
    /\ pos = [a \in Accounts |-> 0]
    /\ validators = [a \in Accounts |-> 0]
    /\ req = [c \in Clients |-> Idle]
    /\ paid = [a \in Accounts |-> 0]
    /\ failures = 0 /\ crashes = 0

At(c, pc) == req[c].pc = pc
Goto(c, pc) == req' = [req EXCEPT ![c].pc = pc]
Done(c) == req' = [req EXCEPT ![c] = Idle]

\* ledger.save() holds the read lock from its first write to its last.
LedgerRead == \E c \in Clients : req[c].pc \in {"savingStake", "savingCredit"}

MayFail == failures + crashes < MaxFaults
Fails == MayFail /\ failures' = failures + 1

-----------------------------------------------------------------------------
(* stake_tokens.                                                           *)
\* Mutant: a stake is not checked against the balance.
AffordsAny(a, n) == n > 0

Affords(a, n) == bal[a] >= n

Withhold(c, n) ==
    /\ At(c, "idle") /\ ~LedgerRead
    /\ Affords(AccountOf[c], n)
    /\ bal' = [bal EXCEPT ![AccountOf[c]] = @ - n]
    /\ req' = [req EXCEPT ![c] = [pc |-> "withheld", amount |-> n, read |-> 0]]
    /\ UNCHANGED <<saved, pos, validators, paid, failures, crashes>>

ReadPosition(c) ==
    /\ At(c, "withheld")
    /\ req' = [req EXCEPT ![c] = [pc |-> "update", amount |-> @.amount,
                                  read |-> pos[AccountOf[c]]]]
    /\ UNCHANGED <<bal, saved, pos, validators, paid, failures, crashes>>

\* Mutant: a second stake replaces the position.
PutPositionReplaces(c) ==
    /\ At(c, "update")
    /\ pos' = [pos EXCEPT ![AccountOf[c]] = req[c].amount]
    /\ Goto(c, "saveStake")
    /\ UNCHANGED <<bal, saved, validators, paid, failures, crashes>>

PutPosition(c) ==
    /\ At(c, "update")
    /\ pos' = [pos EXCEPT ![AccountOf[c]] = req[c].read + req[c].amount]
    /\ Goto(c, "saveStake")
    /\ UNCHANGED <<bal, saved, validators, paid, failures, crashes>>

PutFails(c) ==
    /\ At(c, "update")
    /\ Fails
    /\ Goto(c, "giveBack")
    /\ UNCHANGED <<bal, saved, pos, validators, paid, crashes>>

\* The two roll-backs of the ledger: that of a failed save leaves the position.
GiveBack(c) ==
    /\ At(c, "giveBack") \/ At(c, "refund")
    /\ ~LedgerRead
    /\ bal' = [bal EXCEPT ![AccountOf[c]] = @ + req[c].amount]
    /\ Done(c)
    /\ UNCHANGED <<saved, pos, validators, paid, failures, crashes>>

Eligible(n) == MinStake <= n /\ n <= MaxStake

\* The position is read again under the storage's lock and registered under the
\* engine's: what another request of the account puts in between is not seen.
ReadAgain(c) ==
    /\ At(c, "register")
    /\ req' = [req EXCEPT ![c] = [pc |-> "registering", amount |-> @.amount,
                                  read |-> pos[AccountOf[c]]]]
    /\ UNCHANGED <<bal, saved, pos, validators, paid, failures, crashes>>

\* An ineligible stake leaves the registration alone.
Register(c) ==
    LET n == req[c].read IN
    /\ At(c, "registering")
    /\ validators' = IF Eligible(n) THEN [validators EXCEPT ![AccountOf[c]] = n]
                                    ELSE validators
    /\ Done(c)
    /\ UNCHANGED <<bal, saved, pos, paid, failures, crashes>>

-----------------------------------------------------------------------------
(* ledger.save(), by either request.                                       *)
BeginSave(c) ==
    /\ \/ At(c, "saveStake") /\ Goto(c, "savingStake")
       \/ At(c, "saveCredit") /\ Goto(c, "savingCredit")
    /\ UNCHANGED <<bal, saved, pos, validators, paid, failures, crashes>>

SaveBalance(c, a) ==
    /\ At(c, "savingStake") \/ At(c, "savingCredit")
    /\ saved[a] # bal[a]
    /\ saved' = [saved EXCEPT ![a] = bal[a]]
    /\ UNCHANGED <<bal, pos, validators, req, paid, failures, crashes>>

\* Mutant: the request does not wait for the save.
WrittenNot == TRUE

Written == saved = bal

EndSave(c) ==
    /\ Written
    /\ \/ At(c, "savingStake") /\ Goto(c, "register")
       \/ At(c, "savingCredit") /\ Goto(c, "unregister")
    /\ UNCHANGED <<bal, saved, pos, validators, paid, failures, crashes>>

\* A failed save is rolled back by a stake and only logged by an unstake.
SaveFails(c) ==
    /\ Fails
    /\ \/ At(c, "savingStake") /\ Goto(c, "refund")
       \/ At(c, "savingCredit") /\ Goto(c, "unregister")
    /\ UNCHANGED <<bal, saved, pos, validators, paid, crashes>>

-----------------------------------------------------------------------------
(* unstake_tokens.                                                         *)
\* The position and the interest of the time elapsed are to be returned.
ReadStake(c, interest) ==
    LET a == AccountOf[c] IN
    /\ At(c, "idle")
    /\ pos[a] > 0
    /\ paid[a] + interest \in Interest
    /\ req' = [req EXCEPT ![c] = [pc |-> "close", read |-> pos[a],
                                  amount |-> pos[a] + interest]]
    /\ UNCHANGED <<bal, saved, pos, validators, paid, failures, crashes>>

Close(c) ==
    /\ At(c, "close")
    /\ pos' = [pos EXCEPT ![AccountOf[c]] = 0]
    /\ Goto(c, "credit")
    /\ UNCHANGED <<bal, saved, validators, paid, failures, crashes>>

CloseFails(c) ==
    /\ At(c, "close")
    /\ Fails
    /\ Done(c)
    /\ UNCHANGED <<bal, saved, pos, validators, paid, crashes>>

\* The coins of all accounts fit u64, so add_balance does not fail.
Credit(c) ==
    LET a == AccountOf[c] IN
    /\ At(c, "credit") /\ ~LedgerRead
    /\ bal' = [bal EXCEPT ![a] = @ + req[c].amount]
    /\ paid' = [paid EXCEPT ![a] = @ + req[c].amount - req[c].read]
    /\ Goto(c, "saveCredit")
    /\ UNCHANGED <<saved, pos, validators, failures, crashes>>

\* Mutant: the account stays a validator.
UnregisterNot(c) ==
    /\ At(c, "unregister")
    /\ Done(c)
    /\ UNCHANGED <<bal, saved, pos, validators, paid, failures, crashes>>

Unregister(c) ==
    /\ At(c, "unregister")
    /\ validators' = [validators EXCEPT ![AccountOf[c]] = 0]
    /\ Done(c)
    /\ UNCHANGED <<bal, saved, pos, paid, failures, crashes>>

-----------------------------------------------------------------------------
\* The node dies and boots: nobody is registered as a validator again.
Crash ==
    /\ MayFail
    /\ crashes' = crashes + 1
    /\ bal' = saved
    /\ validators' = [a \in Accounts |-> 0]
    /\ req' = [c \in Clients |-> Idle]
    /\ UNCHANGED <<saved, pos, paid, failures>>

Stake(c) ==
    \/ \E n \in StakeAmounts : Withhold(c, n)
    \/ ReadPosition(c) \/ PutPosition(c) \/ PutFails(c)
    \/ GiveBack(c) \/ ReadAgain(c) \/ Register(c)

Unstake(c) ==
    \/ \E n \in Interest : ReadStake(c, n)
    \/ Close(c) \/ CloseFails(c) \/ Credit(c) \/ Unregister(c)

Save(c) ==
    \/ BeginSave(c) \/ EndSave(c) \/ SaveFails(c)
    \/ \E a \in Accounts : SaveBalance(c, a)

Next == (\E c \in Clients : Stake(c) \/ Unstake(c) \/ Save(c)) \/ Crash

Spec == Init /\ [][Next]_vars

-----------------------------------------------------------------------------
StakingTypeOK ==
    /\ bal \in [Accounts -> Nat] /\ saved \in [Accounts -> Nat]
    /\ pos \in [Accounts -> Nat] /\ validators \in [Accounts -> Nat]
    /\ req \in [Clients -> ReqType]
    /\ paid \in [Accounts -> Nat]
    /\ failures \in Nat /\ crashes \in Nat

RequestsOf(a) == {c \in Clients : AccountOf[c] = a /\ ~At(c, "idle")}

\* Coins that a request has taken from one place and not put in the other.
Held(c) ==
    IF req[c].pc \in {"withheld", "update", "giveBack"} THEN req[c].amount
    ELSE IF req[c].pc = "credit" THEN req[c].read
    ELSE 0

HeldFor(a) == SumFunctionOnSet([c \in Clients |-> Held(c)], RequestsOf(a))

\* What an account has in its balance, its position and its requests beyond
\* what it started with and the interest it was paid.
Surplus(a) == bal[a] + pos[a] + HeldFor(a) - (Funds[a] + paid[a])

\* storage.rs:490 says stake_tokens moves funds from balance to staking.  While
\* the node runs no coins are lost, and none are made as long as every write
\* succeeds; the first that fails makes at most the coins of one stake, since a
\* save that fails gives them back and leaves the position (rpc.rs:1477).  True
\* when one request per account runs at a time; nothing in the code sees to it.
FundsOnlyMove ==
    crashes = 0 =>
        \A a \in Accounts :
            /\ Surplus(a) >= 0
            /\ failures = 0 => Surplus(a) = 0
            /\ failures = 1 => Surplus(a) \in {0} \cup StakeAmounts

\* An answered request survives a crash: the account's balance on disk is the
\* one in memory ("survives restart", rpc.rs:1470 and 1570).  A failed save of
\* an unstake is only logged, hence the condition on failures.
AcknowledgedIsSaved ==
    failures = 0 =>
        \A a \in Accounts : RequestsOf(a) = {} => saved[a] = bal[a]

InFlight(a) ==
    SumFunctionOnSet([c \in Clients |-> req[c].amount], RequestsOf(a))

\* A crash leaves an account with saved[a] + pos[a].  That is what it had, give
\* or take the amount of the request that the crash interrupts: the order of
\* balance, position and save loses or doubles no other request's coins.
CrashDriftBounded ==
    failures = 0 =>
        \A a \in Accounts :
            LET drift == (saved[a] + pos[a]) - (bal[a] + pos[a] + HeldFor(a))
            IN  drift \in -InFlight(a) .. InFlight(a)

\* The validators of VQV follow the positions: between requests an account is
\* registered with a stake it has, within the bounds, and while nothing fails
\* with all of it, as long as that stays within the bounds.
ValidatorsStaked ==
    \A a \in Accounts : RequestsOf(a) = {} =>
        /\ validators[a] # 0 => Eligible(validators[a])
        /\ validators[a] <= pos[a]
        /\ failures = 0 /\ crashes = 0 /\ Eligible(pos[a])
               => validators[a] = pos[a]
=============================================================================
