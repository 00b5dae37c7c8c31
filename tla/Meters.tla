------------------------------- MODULE Meters -------------------------------
(***************************************************************************)
(* What the RPC server keeps to hold back its callers: the rate limiter of *)
(* each method and the fee oracle (src/rpc.rs), driven by time and load.   *)
(***************************************************************************)
EXTENDS FeeRules, Sequences, Functions

CONSTANTS
    Methods,        \* the keys of the limiter are method names, not clients
    MaxRequests,    \* max_requests (200)
    Window,         \* window_secs (10)
    OracleInterval, \* time between two adjustments of the fee (10 s)
    MaxFee          \* bound of the model: largest fee the oracle reaches

MetersAssumption ==
    /\ MaxRequests \in Nat \ {0}
    /\ Window \in Nat \ {0}
    /\ OracleInterval \in Nat \ {0}
    /\ MaxFee \in Nat

ASSUME MetersAssumption

VARIABLES
    bucket,     \* bucket[m]: requests in the current window and its age
    recent,     \* history: requests let in, in each of the last Window ticks
    fee,        \* base_fee
    rested,     \* time since last_adjustment
    pending     \* transactions in the mempool

metersVars == <<bucket, recent, fee, rested, pending>>

\* A method without an entry is one whose window is over.
MetersInit ==
    /\ bucket = [m \in Methods |-> [count |-> 0, age |-> Window]]
    /\ recent = [m \in Methods |-> [i \in 1 .. Window |-> 0]]
    /\ fee = 1
    /\ rested = 0
    /\ pending = 0

-----------------------------------------------------------------------------
\* Mutant: the count starts anew, the window does not.
CurrentOld(m) ==
    IF bucket[m].age >= Window
    THEN [bucket[m] EXCEPT !.count = 0]
    ELSE bucket[m]

\* The bucket a request meets.
Current(m) ==
    IF bucket[m].age >= Window THEN [count |-> 0, age |-> 0] ELSE bucket[m]

\* RateLimiter::check.
Request(m) ==
    /\ IF Current(m).count >= MaxRequests
       THEN bucket' = [bucket EXCEPT ![m] = Current(m)] /\ UNCHANGED recent
       ELSE /\ bucket' = [bucket EXCEPT ![m] =
                             [Current(m) EXCEPT !.count = @ + 1]]
            /\ recent' = [recent EXCEPT ![m][1] = @ + 1]
    /\ UNCHANGED <<fee, rested, pending>>

\* FeeOracle::adjust, which every submission that has its parents calls.
Quote ==
    /\ rested >= OracleInterval
    /\ Adjusted(fee, pending) <= MaxFee
    /\ fee' = Adjusted(fee, pending)
    /\ rested' = 0
    /\ UNCHANGED <<bucket, recent, pending>>

\* The mempool fills and drains.
Load(n) ==
    /\ pending' = n
    /\ UNCHANGED <<bucket, recent, fee, rested>>

Tick ==
    /\ bucket' = [m \in Methods |-> [bucket[m] EXCEPT !.age =
                     IF @ < Window THEN @ + 1 ELSE Window]]
    /\ recent' = [m \in Methods |-> <<0>> \o SubSeq(recent[m], 1, Window - 1)]
    /\ rested' = IF rested < OracleInterval THEN rested + 1 ELSE rested
    /\ UNCHANGED <<fee, pending>>

MetersNext ==
    \/ \E m \in Methods : Request(m)
    \/ \E n \in 0 .. PoolSize : Load(n)
    \/ Quote \/ Tick

MetersSpec == MetersInit /\ [][MetersNext]_metersVars

-----------------------------------------------------------------------------
\* rpc.rs:28 calls it a sliding window, but the window is fixed: up to twice
\* max_requests pass within one window's time, and never more.
WindowBounded ==
    \A m \in Methods : SumFunction(recent[m]) <= 2 * MaxRequests

NearlyEmpty == {n \in 0 .. PoolSize : 5 * n < PoolSize}

\* Once the mempool stays nearly empty, submissions bring the fee back to one,
\* however far its uncapped branch (rpc.rs:759) took it and whatever the
\* rounding of the halvings.
FeeRecovers ==
    <>[](pending \in NearlyEmpty) /\ []<><<Quote>>_metersVars => <>[](fee = 1)
=============================================================================
