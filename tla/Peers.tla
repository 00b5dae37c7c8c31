------------------------------- MODULE Peers --------------------------------
(***************************************************************************)
(* How a node finds and keeps its peers: the connection table of           *)
(* src/p2p.rs, the tasks that dial and the handlers that come and go.      *)
(*                                                                         *)
(* A handler removes the table's entry for its address when it ends, also  *)
(* when the entry is that of a later connection to the same address.       *)
(***************************************************************************)
EXTENDS Naturals, Sequences, FiniteSetsExt

CONSTANTS
    Hosts,          \* the addresses this node meets
    Bootnodes,      \* config.bootnodes, in order
    Seeds,          \* what the DNS seeds resolve to
    Guests,         \* addresses that connect to it and cannot be dialled
    MaxTrouble,     \* bound of the model: connections and hosts that fail
    MaxQueue        \* bound of the model: addresses waiting to be dialled

Boot == {Bootnodes[i] : i \in DOMAIN Bootnodes}

PeersAssumption ==
    /\ Bootnodes \in Seq(Hosts)
    /\ Seeds \subseteq Hosts
    /\ Guests \subseteq Hosts \ (Boot \cup Seeds)
    /\ MaxTrouble \in Nat
    /\ MaxQueue \in Nat

ASSUME PeersAssumption

\* A handler, by the address of its connection: in its handshake, in its loop
\* or about to end, and whether the entry of the table is its own.
Handlers == [host   : Hosts,
             state  : {"greeting", "open", "broken"},
             listed : BOOLEAN]

VARIABLES
    peers,      \* the addresses the table has an entry for
    handlers,   \* how many handlers of each sort run
    known,      \* known_peers
    discovery,  \* peer_discovery channel
    toDial,     \* bootnodes start() or the heartbeat has still to dial
    started,    \* the first of these rounds is over, the tasks run
    atStart,    \* seeds the look-up at the start has still to bring
    turn,       \* the bootnode the reconnection task is at
    asleep,     \* it found that one disconnected and sleeps before dialling
    up,         \* the hosts that accept connections
    trouble     \* how many failures so far

peersVars == <<peers, handlers, known, discovery, toDial, started, atStart, turn,
               asleep, up, trouble>>

\* start() dials every bootnode before it starts the tasks; it listens already.
\* The hosts that do not answer then are one failure.
PeersInit ==
    /\ peers = {}
    /\ handlers = [c \in Handlers |-> 0]
    /\ known = {}
    /\ discovery = << >>
    /\ toDial = Boot
    /\ started = (Boot = {})
    /\ atStart = Seeds
    /\ turn = 1
    /\ asleep = FALSE
    /\ up \in SUBSET (Hosts \ Guests)
    /\ trouble = IF up = Hosts \ Guests THEN 0 ELSE 1

-----------------------------------------------------------------------------
\* The handlers hs, none of those of h being listed any more.
Delisted(hs, h) ==
    [c \in Handlers |->
        IF c.host # h THEN hs[c]
        ELSE IF c.listed THEN 0
        ELSE hs[c] + hs[[c EXCEPT !.listed = TRUE]]]

\* An entry in the table and a handler for it, whatever was there before.
Open(h) ==
    LET new == [host |-> h, state |-> "greeting", listed |-> TRUE] IN
    /\ peers' = peers \cup {h}
    /\ handlers' = [Delisted(handlers, h) EXCEPT ![new] = 1]

\* connect_to_peer: nothing but a warning when the host does not answer.
Dial(h) == IF h \in up THEN Open(h) ELSE UNCHANGED <<peers, handlers>>

\* accept_loop.
Accept(h) ==
    /\ h \in Guests
    /\ \A c \in Handlers : c.host = h => handlers[c] = 0
    /\ Open(h)
    /\ UNCHANGED <<known, discovery, toDial, started, atStart, turn, asleep, up,
                   trouble>>

\* The heartbeat looks every ten seconds whether there is any peer at all.
Heartbeat ==
    /\ started /\ toDial = {}
    /\ peers = {}
    /\ toDial' = Boot
    /\ UNCHANGED <<peers, handlers, known, discovery, started, atStart, turn,
                   asleep, up, trouble>>

DialNext(h) ==
    /\ h \in toDial
    /\ toDial' = toDial \ {h}
    /\ started' = (started \/ toDial' = {})
    /\ Dial(h)
    /\ UNCHANGED <<known, discovery, atStart, turn, asleep, up, trouble>>

Following == IF turn = Len(Bootnodes) THEN 1 ELSE turn + 1

\* Mutant: an address that is known is taken to be connected.
AbsentUnknown(h) == h \notin known

\* The reconnection task finds no entry for the bootnode.
Absent(h) == h \notin peers

\* It goes to sleep when the bootnode at its turn is not connected ...
Look ==
    /\ started /\ ~asleep
    /\ IF Absent(Bootnodes[turn])
       THEN asleep' = TRUE /\ UNCHANGED turn
       ELSE turn' = Following /\ UNCHANGED asleep
    /\ UNCHANGED <<peers, handlers, known, discovery, toDial, started, atStart, up,
                   trouble>>

\* ... and dials it when it wakes, whatever has happened meanwhile.
Reconnect ==
    /\ asleep
    /\ Dial(Bootnodes[turn])
    /\ asleep' = FALSE
    /\ turn' = Following
    /\ UNCHANGED <<known, discovery, toDial, started, atStart, up, trouble>>

\* The periodic DNS task dials an address the first time it is known.
ResolveAgain(h) ==
    /\ started /\ h \in Seeds \ known
    /\ known' = known \cup {h}
    /\ IF Absent(h) THEN Dial(h) ELSE UNCHANGED <<peers, handlers>>
    /\ UNCHANGED <<discovery, toDial, started, atStart, turn, asleep, up, trouble>>

\* The look-up at the start dials an address also if it was known, unless it is
\* connected.  A look-up that fails brings nothing.
ResolveAtStart(h) ==
    /\ started /\ h \in atStart
    /\ atStart' = atStart \ {h}
    /\ known' = known \cup {h}
    /\ IF Absent(h) THEN Dial(h) ELSE UNCHANGED <<peers, handlers>>
    /\ UNCHANGED <<discovery, toDial, started, turn, asleep, up, trouble>>

\* A peer's list: an address never heard of is known from now on and queued.
HearOf(c, h) ==
    /\ handlers[c] > 0 /\ c.state = "open"
    /\ h \notin known /\ Absent(h)
    /\ Len(discovery) < MaxQueue
    /\ known' = known \cup {h}
    /\ discovery' = Append(discovery, h)
    /\ UNCHANGED <<peers, handlers, toDial, started, atStart, turn, asleep, up,
                   trouble>>

Discover ==
    /\ discovery # << >>
    /\ discovery' = Tail(discovery)
    /\ Dial(Head(discovery))
    /\ UNCHANGED <<known, toDial, started, atStart, turn, asleep, up, trouble>>

-----------------------------------------------------------------------------
(* A handler.                                                              *)

\* The key exchange succeeds; the address is known.
Handshake(c) ==
    /\ handlers[c] > 0 /\ c.state = "greeting"
    /\ handlers' = [handlers EXCEPT ![c] = @ - 1,
                                   ![[c EXCEPT !.state = "open"]] = @ + 1]
    /\ known' = known \cup {c.host}
    /\ UNCHANGED <<peers, discovery, toDial, started, atStart, turn, asleep, up,
                   trouble>>

\* peers.remove(&addr): whichever connection the entry is for.
Without(h) == peers \ {h}

\* The handshake or a read has failed: the handler cleans up and ends.
End(c) ==
    /\ handlers[c] > 0 /\ c.state = "broken"
    /\ handlers' = Delisted([handlers EXCEPT ![c] = @ - 1], c.host)
    /\ peers' = Without(c.host)
    /\ known' = known \ {c.host}
    /\ UNCHANGED <<discovery, toDial, started, atStart, turn, asleep, up, trouble>>

-----------------------------------------------------------------------------
(* The network.                                                            *)
Trouble ==
    /\ trouble < MaxTrouble
    /\ trouble' = trouble + 1
    /\ UNCHANGED <<peers, known, discovery, toDial, started, atStart, turn, asleep>>

Break(c) ==
    /\ handlers[c] > 0 /\ c.state # "broken"
    /\ handlers' = [handlers EXCEPT ![c] = @ - 1,
                                   ![[c EXCEPT !.state = "broken"]] = @ + 1]
    /\ UNCHANGED up
    /\ Trouble

\* A host stops, and every connection to it breaks.
Down(h) ==
    /\ h \in up
    /\ up' = up \ {h}
    /\ handlers' =
          [c \in Handlers |->
              IF c.host # h THEN handlers[c]
              ELSE IF c.state # "broken" THEN 0
              ELSE MapThenSumSet(LAMBDA s : handlers[[c EXCEPT !.state = s]],
                                 {"greeting", "open", "broken"})]
    /\ Trouble

Up(h) ==
    /\ h \notin up \cup Guests
    /\ up' = up \cup {h}
    /\ UNCHANGED <<peers, handlers, known, discovery, toDial, started, atStart, turn,
                   asleep, trouble>>

PeersNext ==
    \/ Heartbeat \/ Look \/ Reconnect \/ Discover
    \/ \E h \in Hosts :
          \/ DialNext(h) \/ Accept(h) \/ ResolveAgain(h) \/ ResolveAtStart(h)
          \/ Down(h) \/ Up(h)
    \/ \E c \in Handlers :
          Handshake(c) \/ End(c) \/ Break(c) \/ \E h \in Hosts : HearOf(c, h)

-----------------------------------------------------------------------------
\* The dialling of the start and of the heartbeat, the reconnection task at one
\* bootnode, and everything a handler does of itself: tasks that only wait for a
\* timer or for their socket.
Dialling == \E h \in Hosts : DialNext(h)
Reconnection == Look \/ Reconnect
Handling == \E c \in Handlers : Handshake(c) \/ End(c)

\* A bootnode that stays reachable is connected in the end, and stays so, also
\* when handlers of earlier connections take its entry away (p2p.rs:900).
BootnodesConnected ==
    \A b \in Boot :
        <>[](b \in up) =>
            <>[](/\ b \in peers
                 /\ handlers[[host |-> b, state |-> "open", listed |-> TRUE]] = 1)
=============================================================================
