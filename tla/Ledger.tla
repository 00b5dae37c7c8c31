------------------------------- MODULE Ledger -------------------------------
(***************************************************************************)
(* src/ledger.rs as operators on a ledger value: balances, account nonces, *)
(* the fees burned so far and the supply counter that MAX_SUPPLY caps.     *)
(* A HashMap without an entry reads as 0, so the maps are total functions. *)
(* Arithmetic is u64 with checked_add: what does not fit is an error.      *)
(***************************************************************************)
EXTENDS Transactions

CONSTANTS
    U64Max,             \* 2^64 - 1
    MaxSupply,          \* MAX_SUPPLY
    HalvingInterval,    \* HALVING_INTERVAL
    RewardEra           \* RewardEra[k] = INITIAL_BLOCK_REWARD >> k

LedgerAssumption ==
    /\ U64Max \in Nat
    /\ MaxSupply \in 0 .. U64Max
    /\ HalvingInterval \in Nat \ {0}
    /\ RewardEra \in [0 .. 62 -> 0 .. U64Max]
    /\ \A k \in 0 .. 61 : RewardEra[k + 1] = RewardEra[k] \div 2

ASSUME LedgerAssumption

U64 == 0 .. U64Max

LedgerType == [bal : [Addr -> U64], nonce : [Addr -> Nat],
               burned : U64, supply : U64]

-----------------------------------------------------------------------------
\* calculate_reward: zero from the 63rd halving on, never below one before.
CalculateReward(h) ==
    LET era == h \div HalvingInterval IN
    IF era >= 63 THEN 0 ELSE IF RewardEra[era] = 0 THEN 1 ELSE RewardEra[era]

-----------------------------------------------------------------------------
Cost(t) == Amount[t] + Fee[t]

\* The checked_add of the fee into the burn balance and the fee counter.
FeeFits(l, t) ==
    Fee[t] > 0 => /\ l.bal[Burn] + Fee[t] <= U64Max
                  /\ l.burned + Fee[t] <= U64Max

\* Mutant: STEP 1's balance check is trusted at STEP 4.
TransferFitsUnchecked(l, t) ==
    /\ Cost(t) <= U64Max
    /\ Sender[t] # Receiver[t] =>
           l.bal[Receiver[t]] + Amount[t] <= U64Max
    /\ FeeFits(l, t)

\* transfer_internal returns Ok.
TransferFits(l, t) ==
    /\ Cost(t) <= U64Max
    /\ l.bal[Sender[t]] >= Cost(t)
    /\ Sender[t] # Receiver[t] =>
           l.bal[Receiver[t]] + Amount[t] <= U64Max
    /\ FeeFits(l, t)

\* Mutant: the amount of a self-payment is not given back.
DebitAll(t) == Cost(t)

\* What a sender loses: only the fee when it pays itself.
Debit(t) == IF Sender[t] = Receiver[t] THEN Fee[t] ELSE Cost(t)

\* Mutant: the burn address keeps what it is paid.
TransferToBurn(l, t) ==
    [l EXCEPT
        !.bal = [a \in Addr |->
            l.bal[a] + (IF a = Burn THEN Fee[t] ELSE 0)
                     + (IF a = Receiver[t] THEN Amount[t] ELSE 0)
                     - (IF a = Sender[t] THEN Cost(t) ELSE 0)],
        !.burned = @ + Fee[t]]

\* transfer_internal writes sender, receiver and burn address in that order,
\* each from the balance read at the start: the last write wins.  A payment to
\* the burn address therefore leaves it with the fee alone.
Transfer(l, t) ==
    [l EXCEPT
        !.bal = [a \in Addr |->
            IF a = Burn             THEN l.bal[a] + Fee[t]
            ELSE IF a = Sender[t]   THEN l.bal[a] - Debit(t)
            ELSE IF a = Receiver[t] THEN l.bal[a] + Amount[t]
            ELSE l.bal[a]],
        !.burned = @ + Fee[t]]

-----------------------------------------------------------------------------
\* Mutant: the nonce need only grow.
NonceFitsAbove(l, t) ==
    Sender[t] = Faucet \/ AccountNonce[t] > l.nonce[Sender[t]]

\* validate_account_nonce, and the check repeated when the nonce is committed.
NonceFits(l, t) ==
    \/ Sender[t] = Faucet
    \/ AccountNonce[t] = l.nonce[Sender[t]] + 1

\* validate_and_commit_nonce_internal: the faucet's nonce only moves forward.
CommitNonce(l, t) ==
    IF Sender[t] = Faucet /\ AccountNonce[t] <= l.nonce[Faucet]
    THEN l
    ELSE [l EXCEPT !.nonce[Sender[t]] = AccountNonce[t]]

-----------------------------------------------------------------------------
\* Mutant: MAX_SUPPLY is not checked.
RewardFitsUncapped(l, validator, reward) ==
    l.bal[validator] + reward <= U64Max

\* The checks of apply_block_reward that depend on the ledger alone.
RewardFits(l, validator, reward) ==
    /\ l.supply + reward <= MaxSupply
    /\ l.bal[validator] + reward <= U64Max

CreditReward(l, validator, reward) ==
    [l EXCEPT !.bal[validator] = @ + reward, !.supply = @ + reward]

\* subtract_balance and add_balance.
Subtract(l, a, n) == [l EXCEPT !.bal[a] = @ - n]
AddFits(l, a, n)  == l.bal[a] + n <= U64Max
AddBalance(l, a, n) == [l EXCEPT !.bal[a] = @ + n]
=============================================================================
