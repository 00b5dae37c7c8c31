---------------------------- MODULE FaucetCalls -----------------------------
(***************************************************************************)
(* Concurrent faucet requests (AetherRpcImpl::faucet, src/rpc.rs).  The    *)
(* cooldown is taken first; parents are then read from the DAG, and the    *)
(* payment is mined and submitted with no lock in between, while others    *)
(* add transactions.                                                       *)
(*                                                                         *)
(* The DAG is here the sequence of the parent pairs of its transactions;   *)
(* a transaction is its place in it, and 0 is genesis.                     *)
(***************************************************************************)
EXTENDS Naturals, Sequences, FiniteSets, FiniteSetsExt, Functions

CONSTANTS
    Callers,        \* concurrent requests
    Customers,      \* the addresses they ask for
    Cooldown,       \* time between two requests for an address (60 s)
    MaxPlaced,      \* bound of the model: transactions in the DAG
    MaxClock        \* bound of the model: time that passes

FaucetAssumption ==
    /\ IsFiniteSet(Callers)
    /\ Cooldown \in Nat \ {0}
    /\ MaxPlaced \in Nat
    /\ MaxClock \in Nat

ASSUME FaucetAssumption

VARIABLES
    placed,     \* the parents of each transaction of the DAG
    since,      \* time since the last request for each address was let in
    asked,      \* what each request is doing: [pc, to, parents, read]
    paid,       \* history: payments to each address
    clock       \* history: the time

faucetVars == <<placed, since, asked, paid, clock>>

Waiting == [pc |-> "none", to |-> "nobody", parents |-> <<0, 0>>, read |-> 0]

\* Nobody has asked yet: an address without an entry is let in.
FaucetInit ==
    /\ placed = << >>
    /\ since = [a \in Customers |-> Cooldown]
    /\ asked = [w \in Callers |-> Waiting]
    /\ paid = [a \in Customers |-> 0]
    /\ clock = 0

-----------------------------------------------------------------------------
\* Mutant: every transaction is taken for a tip.
ChildlessAll == DOMAIN placed

\* What the children map has no entry for.
Childless ==
    {t \in DOMAIN placed :
        \A pair \in Range(placed) : pair[1] # t /\ pair[2] # t}

\* Two of the tips in any order, one and genesis, or genesis twice.
TipPairs ==
    IF Cardinality(Childless) >= 2
    THEN {pair \in Childless \X Childless : pair[1] # pair[2]}
    ELSE IF Childless = {} THEN {<<0, 0>>}
    ELSE {<<t, 0>> : t \in Childless}

\* No other transaction has these parents; roots may be many.
Free(pair) == pair = <<0, 0>> \/ pair \notin Range(placed)

\* Mutant: the cooldown is not recorded.
AdmitAgain(a) ==
    /\ since[a] >= Cooldown
    /\ UNCHANGED since

\* The check of the cooldown and its entry, under one write lock.
Admit(a) ==
    /\ since[a] >= Cooldown
    /\ since' = [since EXCEPT ![a] = 0]

Ask(w, a) ==
    /\ asked[w].pc = "none"
    /\ Admit(a)
    /\ asked' = [asked EXCEPT ![w] = [Waiting EXCEPT !.pc = "tips", !.to = a]]
    /\ UNCHANGED <<placed, paid, clock>>

\* The tips are read and the transaction is built and mined with them.
ReadTips(w) ==
    /\ asked[w].pc = "tips"
    /\ \E pair \in TipPairs :
          asked' = [asked EXCEPT ![w] =
                        [pc |-> "mining", to |-> @.to,
                         parents |-> pair, read |-> Len(placed)]]
    /\ UNCHANGED <<placed, since, paid, clock>>

\* process_transaction accepts the payment ...
Pay(w) ==
    /\ asked[w].pc = "mining"
    /\ Free(asked[w].parents)
    /\ Len(placed) < MaxPlaced
    /\ placed' = Append(placed, asked[w].parents)
    /\ paid' = [paid EXCEPT ![asked[w].to] = @ + 1]
    /\ asked' = [asked EXCEPT ![w] = Waiting]
    /\ UNCHANGED <<since, clock>>

\* ... or refuses it, for its parents, a busy lock or a full mempool.  The
\* cooldown stays.
Refused(w) ==
    /\ asked[w].pc = "mining"
    /\ asked' = [asked EXCEPT ![w] = Waiting]
    /\ UNCHANGED <<placed, since, paid, clock>>

\* Another transaction, with any parents.
Others ==
    /\ Len(placed) < MaxPlaced
    /\ \E p, q \in 0 .. Len(placed) :
          Free(<<p, q>>) /\ placed' = Append(placed, <<p, q>>)
    /\ UNCHANGED <<since, asked, paid, clock>>

Second ==
    /\ clock < MaxClock
    /\ clock' = clock + 1
    /\ since' = [a \in Customers |->
                    IF since[a] < Cooldown THEN since[a] + 1 ELSE Cooldown]
    /\ UNCHANGED <<placed, asked, paid>>

FaucetNext ==
    \/ \E w \in Callers : ReadTips(w) \/ Pay(w) \/ Refused(w)
    \/ \E w \in Callers, a \in Customers : Ask(w, a)
    \/ Others \/ Second

FaucetSpec == FaucetInit /\ [][FaucetNext]_faucetVars

-----------------------------------------------------------------------------
\* Nothing is locked between the reading of the tips and the submission
\* (rpc.rs:1822), so several requests and others may hold one place.  A request
\* that finds its place taken was overtaken: exactly one transaction has the
\* place, and it came after this request had read the tips.
OvertakenOnce ==
    \A w \in Callers :
        asked[w].pc = "mining" /\ ~Free(asked[w].parents) =>
            \E k \in asked[w].read + 1 .. Len(placed) :
                {j \in DOMAIN placed : placed[j] = asked[w].parents} = {k}

UnderWay(a) == {w \in Callers : asked[w].pc # "none" /\ asked[w].to = a}

\* Payments made and under way never exceed one per cooldown that has begun,
\* also when mining takes longer than the cooldown and requests for one address
\* overlap.
OnePerCooldown ==
    \A a \in Customers :
        paid[a] + Cardinality(UnderWay(a)) <= 1 + clock \div Cooldown
=============================================================================
