----------------------------- MODULE AtomicBank -----------------------------
(***************************************************************************)
(* What the transaction pipeline promises to whoever reads the ledger:     *)
(* one book, in which a payment happens whole or not at all.  A payment    *)
(* moves the amount, burns the fee, advances the sender's nonce and may    *)
(* mint block rewards within MAX_SUPPLY, all in one step; apart from       *)
(* payments a balance only changes when a stake is locked, or unlocked     *)
(* with the interest it has earned, by whoever asks (rpc.rs:2114).         *)
(***************************************************************************)
EXTENDS Ledger

CONSTANTS Miner, NoMiner, Stakers, StakeAmounts, Interest, GenesisBal

VARIABLES
    book,       \* the ledger as its readers see it
    stake       \* the amount each account has locked, the interest paid

Init ==
    /\ book = [bal |-> GenesisBal, nonce |-> [a \in Addr |-> 0],
               burned |-> 0, supply |-> 0]
    /\ stake = [a \in Stakers |-> [amount |-> 0, paid |-> 0]]

Minted(l, n) ==
    IF Miner = NoMiner
    THEN l
    ELSE [l EXCEPT !.bal[Miner] = @ + n, !.supply = @ + n]

Pay(t) ==
    /\ TransferFits(book, t)
    /\ NonceFits(book, t)
    /\ book'.supply \in book.supply .. MaxSupply
    /\ book' = Minted(CommitNonce(Transfer(book, t), t),
                      book'.supply - book.supply)
    /\ UNCHANGED stake

Lock(a, n) ==
    /\ book.bal[a] >= n
    /\ book' = Subtract(book, a, n)
    /\ stake' = [stake EXCEPT ![a].amount = @ + n]

\* What u64 cannot hold is lost.
Unlock(a, n) ==
    LET return == stake[a].amount + n IN
    /\ stake[a].amount > 0
    /\ book' = IF AddFits(book, a, return)
               THEN AddBalance(book, a, return) ELSE book
    /\ stake' = [stake EXCEPT ![a] = [amount |-> 0, paid |-> @.paid + n]]

Next ==
    \/ \E t \in PureValid : Pay(t)
    \/ \E a \in Stakers, n \in Interest : Unlock(a, n)
    \/ \E a \in Stakers, n \in StakeAmounts : Lock(a, n)

Spec == Init /\ [][Next]_<<book, stake>>
=============================================================================
