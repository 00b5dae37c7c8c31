----------------------------- MODULE SyncProofs -----------------------------
(***************************************************************************)
(* Theorems about Sync: for any nodes, connections and transactions.       *)
(***************************************************************************)
EXTENDS Sync, DagFacts, SequenceTheorems

-----------------------------------------------------------------------------
(* What is in a queue.                                                     *)
LEMMA ToSetIs ==
    ASSUME NEW s, NEW S, s \in Seq(S)
    PROVE  /\ ToSet(s) = {s[i] : i \in 1 .. Len(s)} /\ ToSet(s) \subseteq S
           /\ s = << >> <=> ToSet(s) = {}
<1>1. ToSet(s) = {s[i] : i \in 1 .. Len(s)}
  BY DEF ToSet
<1>2. \A i \in 1 .. Len(s) : s[i] \in S
  OBVIOUS
<1>3. s = << >> => ToSet(s) = {}
  BY <1>1
<1>4. s # << >> => s[1] \in ToSet(s)
  BY <1>1
<1> QED BY <1>1, <1>2, <1>3, <1>4

LEMMA ToSetConcat ==
    ASSUME NEW S, NEW s \in Seq(S), NEW t \in Seq(S)
    PROVE  s \o t \in Seq(S) /\ ToSet(s \o t) = ToSet(s) \cup ToSet(t)
<1> DEFINE r == s \o t
           m == Len(s)
           n == Len(t)
<1>1. /\ r \in Seq(S) /\ Len(r) = m + n
      /\ \A i \in 1 .. m + n : r[i] = IF i <= m THEN s[i] ELSE t[i - m]
  BY ConcatProperties
<1>2. /\ ToSet(r) = {r[i] : i \in 1 .. Len(r)}
      /\ ToSet(s) = {s[i] : i \in 1 .. m} /\ ToSet(t) = {t[i] : i \in 1 .. n}
  BY <1>1, ToSetIs
<1>3. m \in Nat /\ n \in Nat
  OBVIOUS
<1> HIDE DEF r, m, n
<1>4. \A i \in 1 .. m + n : r[i] \in ToSet(s) \cup ToSet(t)
  <2> TAKE i \in 1 .. m + n
  <2>1. CASE i <= m
    <3>1. i \in 1 .. m /\ r[i] = s[i]
      BY <1>1, <1>3, <2>1
    <3> QED BY <1>2, <3>1
  <2>2. CASE ~(i <= m)
    <3>1. i - m \in 1 .. n /\ r[i] = t[i - m]
      BY <1>1, <1>3, <2>2
    <3> QED BY <1>2, <3>1
  <2> QED BY <2>1, <2>2
<1>5. \A i \in 1 .. m : s[i] \in ToSet(r)
  <2> TAKE i \in 1 .. m
  <2>1. i \in 1 .. m + n /\ r[i] = s[i]
    BY <1>1, <1>3
  <2> QED BY <1>1, <1>2, <2>1
<1>6. \A i \in 1 .. n : t[i] \in ToSet(r)
  <2> TAKE i \in 1 .. n
  <2>1. m + i \in 1 .. m + n /\ ~(m + i <= m) /\ (m + i) - m = i
    BY <1>3
  <2>2. r[m + i] = t[i]
    BY <1>1, <2>1
  <2> QED BY <1>1, <1>2, <2>1, <2>2
<1>7. ToSet(r) = ToSet(s) \cup ToSet(t)
  BY <1>1, <1>2, <1>4, <1>5, <1>6
<1> QED BY <1>1, <1>7 DEF r

LEMMA ToSetAppend ==
    ASSUME NEW S, NEW s \in Seq(S), NEW x \in S
    PROVE  Append(s, x) \in Seq(S) /\ ToSet(Append(s, x)) = ToSet(s) \cup {x}
<1> DEFINE one == <<x>>
<1>1. one \in Seq(S) /\ ToSet(one) = {x}
  BY DEF ToSet
<1>2. Append(s, x) = s \o one
  BY AppendIsConcat
<1> HIDE DEF one
<1>3. s \o one \in Seq(S) /\ ToSet(s \o one) = ToSet(s) \cup ToSet(one)
  BY <1>1, ToSetConcat
<1> QED BY <1>1, <1>2, <1>3

LEMMA ToSetTail ==
    ASSUME NEW S, NEW s \in Seq(S), s # << >>
    PROVE  /\ Head(s) \in S /\ Tail(s) \in Seq(S)
           /\ ToSet(s) = {Head(s)} \cup ToSet(Tail(s))
<1> DEFINE one == <<Head(s)>>
           rest == Tail(s)
<1>1. Head(s) \in S /\ rest \in Seq(S) /\ s = one \o rest
  BY HeadTailProperties, ConcatProperties
<1>2. one \in Seq(S) /\ ToSet(one) = {Head(s)}
  BY <1>1 DEF ToSet
<1> HIDE DEF one, rest
<1>3. ToSet(one \o rest) = ToSet(one) \cup ToSet(rest)
  BY <1>1, <1>2, ToSetConcat
<1> QED BY <1>1, <1>2, <1>3 DEF rest

\* A sequence of all elements of a finite set.
LEMMA OrdersAre ==
    ASSUME NEW S, IsFiniteSet(S), NEW order \in SetToSeqs(S)
    PROVE  /\ order \in [1 .. Cardinality(S) -> S] /\ Cardinality(S) \in Nat
           /\ \A x \in S : \E i \in DOMAIN order : order[i] = x
<1> DEFINE n == Cardinality(S)
           D == 1 .. n
<1>1. /\ n \in Nat /\ order \in [D -> S]
      /\ \A i, j \in D : i # j => order[i] # order[j]
  BY FS_CardinalityType DEF SetToSeqs
<1>2. order \in Injection(D, S)
  BY <1>1 DEF Injection, IsInjective
<1>3. IsFiniteSet(D) /\ Cardinality(D) = n
  BY <1>1, FS_Interval
<1>4. order \in Surjection(D, S)
  BY <1>2, <1>3, FS_Injection
<1> QED BY <1>1, <1>4 DEF Surjection

-----------------------------------------------------------------------------
(* Types.                                                                  *)
\* What a node writes on a wire: gossip carries one transaction, and what the
\* receiver will be given is no genesis.
Letter ==
    {msg \in Message :
        /\ msg.kind \in {"Transaction", "SyncResponse"} => msg.txs \subseteq Tx
        /\ msg.kind = "Transaction" => \E t \in Tx : msg.txs = {t}}

Wires == [Links -> Seq(Letter)]

Task == [tx : Tx, relay : BOOLEAN]

SyncTyped ==
    /\ dag \in [Nodes -> DagType] /\ \A n \in Nodes : Grown(dag[n])
    /\ orphans \in [Nodes -> SUBSET Tx]
    /\ batch \in [Nodes -> SUBSET Tx]
    /\ \A n \in Nodes : batch[n] \subseteq orphans[n]
    /\ seen \in [Nodes -> SUBSET Tx]
    /\ inbox \in [Nodes -> Seq(Tx)]
    /\ peers \in [Nodes -> SUBSET Nodes]
    /\ wire \in Wires
    /\ todo \in [Links -> Seq(Task)]
    /\ faults \in [cuts : Nat, busy : Nat]
    /\ refused \in [Nodes -> SUBSET Tx]
    /\ missed \in [Nodes -> SUBSET (Tx \cup {Root})]

LEMMA LinkPair ==
    ASSUME NEW l \in Links
    PROVE  /\ l = <<l[1], l[2]>> /\ l[1] \in Nodes /\ l[2] \in Nodes
           /\ <<l[2], l[1]>> \in Links /\ l[1] # l[2]
<1>1. l \in Nodes \X Nodes /\ {l[1], l[2]} \in Peerings
  BY DEF Links
<1>2. l = <<l[1], l[2]>> /\ l[1] \in Nodes /\ l[2] \in Nodes
  BY <1>1
<1>3. <<l[2], l[1]>> \in Links
  <2>1. {l[2], l[1]} \in Peerings
    <3>1. {l[2], l[1]} = {l[1], l[2]}
      OBVIOUS
    <3> QED BY <1>1, <3>1
  <2> QED BY <1>2, <2>1 DEF Links
<1>4. l[1] # l[2]
  <2> SUFFICES ASSUME l[1] = l[2] PROVE FALSE
    OBVIOUS
  <2>1. Cardinality({l[1], l[2]}) = 2
    BY <1>1, SyncAssumption DEF SyncAssumption
  <2>2. {l[1], l[2]} = {l[1]}
    OBVIOUS
  <2> QED BY <2>1, <2>2, FS_Singleton
<1> QED BY <1>2, <1>3, <1>4

LEMMA MsgIs ==
    ASSUME NEW kind \in Kinds, NEW S \in SUBSET (Tx \cup {Root}),
           kind = "Transaction" => \E t \in Tx : S = {t},
           kind = "SyncResponse" => S \subseteq Tx
    PROVE  Msg(kind, S) \in Letter /\ Msg(kind, S).kind = kind
           /\ Msg(kind, S).txs = S
BY DEF Msg, Letter, Message

LEMMA IfAnyIs ==
    ASSUME NEW kind, NEW S, S # {} => Msg(kind, S) \in Letter
    PROVE  /\ IfAny(kind, S) \in Seq(Letter)
           /\ S # {} => Msg(kind, S) \in ToSet(IfAny(kind, S))
<1>1. CASE S = {}
  BY <1>1 DEF IfAny
<1>2. CASE S # {}
  <2> DEFINE msg == Msg(kind, S)
  <2>1. IfAny(kind, S) = <<msg>> /\ msg \in Letter
    BY <1>2 DEF IfAny
  <2> HIDE DEF msg
  <2>2. <<msg>> \in Seq(Letter) /\ msg \in ToSet(<<msg>>)
    BY <2>1 DEF ToSet
  <2> QED BY <2>1, <2>2 DEF msg
<1> QED BY <1>1, <1>2

LEMMA RequestsAre ==
    ASSUME NEW S \in SUBSET (Tx \cup {Root}), NEW requests \in Requests(S)
    PROVE  requests \in Seq(Letter)
<1>1. PICK order \in SetToSeqs(S) :
          requests = [i \in DOMAIN order |-> Msg("GetData", {order[i]})]
  BY DEF Requests
<1>2. IsFiniteSet(S)
  BY FiniteAssumption, FS_AddElement, FS_Subset DEF FiniteAssumption
<1>3. order \in [1 .. Cardinality(S) -> S] /\ Cardinality(S) \in Nat
  BY <1>2, OrdersAre
<1>4. \A i \in 1 .. Cardinality(S) : Msg("GetData", {order[i]}) \in Letter
  <2> TAKE i \in 1 .. Cardinality(S)
  <2>1. {order[i]} \in SUBSET (Tx \cup {Root}) /\ "GetData" \in Kinds
    BY <1>3 DEF Kinds
  <2> QED BY <2>1, MsgIs
<1>5. requests \in [1 .. Cardinality(S) -> Letter]
  BY <1>1, <1>3, <1>4
<1> QED BY <1>3, <1>5

LEMMA SendIs ==
    ASSUME NEW w \in Wires, NEW n, NEW S, NEW seq \in Seq(Letter)
    PROVE  /\ Send(w, n, S, seq) \in Wires
           /\ \A l \in Links :
                 /\ ToSet(w[l]) \subseteq ToSet(Send(w, n, S, seq)[l])
                 /\ l[1] = n /\ l[2] \in S =>
                        ToSet(seq) \subseteq ToSet(Send(w, n, S, seq)[l])
<1>1. ASSUME NEW l \in Links
      PROVE  /\ Send(w, n, S, seq)[l] \in Seq(Letter)
             /\ ToSet(w[l]) \subseteq ToSet(Send(w, n, S, seq)[l])
             /\ l[1] = n /\ l[2] \in S =>
                    ToSet(seq) \subseteq ToSet(Send(w, n, S, seq)[l])
  <2>1. w[l] \in Seq(Letter)
    BY DEF Wires
  <2>2. w[l] \o seq \in Seq(Letter)
        /\ ToSet(w[l] \o seq) = ToSet(w[l]) \cup ToSet(seq)
    BY <2>1, ToSetConcat
  <2>3. Send(w, n, S, seq)[l] =
            IF l[1] = n /\ l[2] \in S THEN w[l] \o seq ELSE w[l]
    BY DEF Send
  <2> QED BY <2>1, <2>2, <2>3
<1>2. Send(w, n, S, seq) = [l \in Links |-> Send(w, n, S, seq)[l]]
  BY DEF Send
<1> QED BY <1>1, <1>2 DEF Wires

LEMMA BroadcastIs ==
    ASSUME SyncTyped, NEW w \in Wires, NEW n \in Nodes, NEW t \in Tx
    PROVE  /\ Broadcast(w, n, t) \in Wires
           /\ \A l \in Links :
                 /\ ToSet(w[l]) \subseteq ToSet(Broadcast(w, n, t)[l])
                 /\ l[1] = n /\ l[2] \in peers[n] =>
                       Msg("Transaction", {t}) \in ToSet(Broadcast(w, n, t)[l])
<1> DEFINE msg == Msg("Transaction", {t})
           seq == <<msg>>
<1>1. msg \in Letter
  <2>1. "Transaction" \in Kinds /\ {t} \in SUBSET (Tx \cup {Root})
    BY DEF Kinds
  <2> QED BY <2>1, MsgIs
<1>2. Broadcast(w, n, t) = Send(w, n, peers[n], seq)
  BY DEF Broadcast
<1> HIDE DEF msg
<1>3. seq \in Seq(Letter) /\ msg \in ToSet(seq)
  BY <1>1 DEF ToSet
<1> HIDE DEF seq
<1> QED BY <1>2, <1>3, SendIs DEF msg

LEMMA MissingIs ==
    ASSUME NEW d, NEW S \in SUBSET Tx
    PROVE  MissingParents(d, S) \in SUBSET (Tx \cup {Root})
BY ParentsType DEF MissingParents

LEMMA ViewIs ==
    ASSUME SyncTyped, NEW n \in Nodes, NEW view \in Views(n)
    PROVE  /\ Grown(view) /\ view \in DagType /\ view.txs \subseteq dag[n].txs
           /\ dag[n].txs \subseteq Tx
<1>1. view = dag[n] \/ view = EmptyDag
  BY DEF Views
<1>2. Grown(dag[n]) /\ dag[n] \in DagType
  BY DEF SyncTyped
<1> QED BY <1>1, <1>2, GrownEmpty DEF Grown, EmptyDag, DagType

LEMMA TipsAre ==
    ASSUME NEW d, Grown(d), NEW S \in SelectedTips(d)
    PROVE  S \in SUBSET (d.txs \cup {Root})
<1>1. d.tips \subseteq d.txs
  BY DEF Grown, Formed, TipsAreChildless
<1>2. CASE S \in {{pair[1], pair[2]} : pair \in SelectParents(d)}
  BY <1>2, SelectedUsable
<1>3. CASE S \in RandomTips(d, 2)
  BY <1>1, <1>3 DEF RandomTips
<1> QED BY <1>2, <1>3 DEF SelectedTips

LEMMA AcceptTyped ==
    ASSUME SyncTyped, NEW n \in Nodes, NEW t \in Tx, Accept(n, t)
    PROVE  /\ dag' \in [Nodes -> DagType] /\ \A m \in Nodes : Grown(dag'[m])
           /\ seen' \in [Nodes -> SUBSET Tx]
           /\ dag'[n].txs = dag[n].txs \cup {t}
           /\ \A m \in Nodes : m # n => dag'[m] = dag[m]
           /\ seen'[n] = seen[n] \cup {t}
           /\ \A m \in Nodes : m # n => seen'[m] = seen[m]
           /\ UNCHANGED <<faults, refused>>
<1>1. /\ dag \in [Nodes -> DagType] /\ \A m \in Nodes : Grown(dag[m])
      /\ seen \in [Nodes -> SUBSET Tx]
  BY DEF SyncTyped
<1>2. /\ CanAdd(dag[n], t) /\ dag' = [dag EXCEPT ![n] = AddTx(dag[n], t)]
      /\ seen' = [seen EXCEPT ![n] = seen[n] \cup {t}]
      /\ UNCHANGED <<faults, refused>>
  BY DEF Accept, Valid
<1>3. /\ AddTx(dag[n], t) \in DagType /\ Grown(AddTx(dag[n], t))
      /\ AddTx(dag[n], t).txs = dag[n].txs \cup {t}
  BY <1>1, <1>2, GrownAdd, AddTxType
<1> QED BY <1>1, <1>2, <1>3

LEMMA RefuseTyped ==
    ASSUME SyncTyped, NEW n \in Nodes, NEW t \in Tx, Refuse(n, t)
    PROVE  /\ refused' \in [Nodes -> SUBSET Tx]
           /\ refused'[n] = refused[n] \cup {t}
           /\ \A m \in Nodes : m # n => refused'[m] = refused[m]
           /\ faults' \in [cuts : Nat, busy : Nat]
           /\ UNCHANGED <<dag, seen, wire>>
<1>1. /\ refused \in [Nodes -> SUBSET Tx] /\ faults \in [cuts : Nat, busy : Nat]
  BY DEF SyncTyped
<1>2. faults' = faults \/ faults' = [faults EXCEPT !.busy = faults.busy + 1]
  BY DEF Refuse
<1>3. faults' \in [cuts : Nat, busy : Nat]
  BY <1>1, <1>2
<1> QED BY <1>1, <1>3 DEF Refuse

LEMMA ShelveTyped ==
    ASSUME SyncTyped, NEW n \in Nodes, NEW t \in Tx, Shelve(n, t)
    PROVE  /\ orphans' \in [Nodes -> SUBSET Tx]
           /\ orphans'[n] = orphans[n] \cup {t}
           /\ \A m \in Nodes : m # n => orphans'[m] = orphans[m]
           /\ wire' \in Wires
           /\ \A l \in Links : ToSet(wire[l]) \subseteq ToSet(wire'[l])
           /\ UNCHANGED <<dag, seen, batch, faults, refused>>
<1>1. orphans \in [Nodes -> SUBSET Tx] /\ wire \in Wires
  BY DEF SyncTyped
<1>2. PICK requests \in Requests(MissingParents(dag[n], {t})) :
          wire' = Send(wire, n, peers[n], requests)
  BY DEF Shelve
<1>3. requests \in Seq(Letter)
  <2>1. MissingParents(dag[n], {t}) \in SUBSET (Tx \cup {Root})
    BY MissingIs
  <2> QED BY <2>1, RequestsAre
<1>4. /\ wire' \in Wires
      /\ \A l \in Links : ToSet(wire[l]) \subseteq ToSet(wire'[l])
  BY <1>1, <1>2, <1>3, SendIs
<1> QED BY <1>1, <1>4 DEF Shelve

LEMMA StartRunTyped ==
    ASSUME SyncTyped, NEW n \in Nodes, NEW w \in Wires, NEW d,
           StartRun(w, d, n)
    PROVE  /\ batch' \in [Nodes -> SUBSET Tx] /\ batch'[n] \subseteq orphans[n]
           /\ \A m \in Nodes : m # n => batch'[m] = batch[m]
           /\ wire' \in Wires
           /\ \A l \in Links : ToSet(w[l]) \subseteq ToSet(wire'[l])
<1>1. batch \in [Nodes -> SUBSET Tx] /\ orphans \in [Nodes -> SUBSET Tx]
  BY DEF SyncTyped
<1>2. PICK M \in RequestAgain(d, orphans[n]) :
          \E requests \in Requests(M) : wire' = Send(w, n, peers[n], requests)
  BY DEF StartRun
<1>3. PICK requests \in Requests(M) : wire' = Send(w, n, peers[n], requests)
  BY <1>2
<1>4. requests \in Seq(Letter)
  <2>1. MissingParents(d, orphans[n]) \in SUBSET (Tx \cup {Root})
    BY <1>1, MissingIs
  <2>2. M \in SUBSET (Tx \cup {Root})
    BY <1>2, <2>1 DEF RequestAgain
  <2> QED BY <2>2, RequestsAre
<1>5. wire' \in Wires /\ \A l \in Links : ToSet(w[l]) \subseteq ToSet(wire'[l])
  BY <1>3, <1>4, SendIs
<1>6. batch' = [batch EXCEPT ![n] = Ready(d, orphans[n])]
  BY DEF StartRun
<1>7. Ready(d, orphans[n]) \subseteq orphans[n]
  BY DEF Ready
<1> QED BY <1>1, <1>5, <1>6, <1>7

-----------------------------------------------------------------------------
(* The steps of a node by itself.                                          *)
LEMMA SubmitTyped ==
    ASSUME SyncTyped, NEW n \in Nodes, NEW t \in Tx, Submit(n, t)
    PROVE  SyncTyped'
<1>1. UNCHANGED <<inbox, peers, todo, missed>>
  BY DEF Submit
<1>2. CASE Accept(n, t) /\ wire' = Broadcast(wire, n, t)
           /\ UNCHANGED <<orphans, batch>>
  <2>1. wire' \in Wires
    BY <1>2, BroadcastIs DEF SyncTyped
  <2> QED BY <1>1, <1>2, <2>1, AcceptTyped DEF SyncTyped
<1>3. CASE Shelve(n, t)
  <2>1. \A m \in Nodes : batch'[m] \subseteq orphans'[m]
    BY <1>3, ShelveTyped DEF SyncTyped
  <2> QED BY <1>1, <1>3, <2>1, ShelveTyped DEF SyncTyped
<1> QED BY <1>2, <1>3 DEF Submit

LEMMA ReceiveTyped ==
    ASSUME SyncTyped, NEW n \in Nodes, Receive(n)
    PROVE  SyncTyped'
<1> DEFINE t == Head(inbox[n])
<1>1. UNCHANGED <<peers, todo, missed>> /\ batch[n] = {}
  BY DEF Receive
<1>2. t \in Tx /\ inbox' \in [Nodes -> Seq(Tx)]
  <2>1. inbox \in [Nodes -> Seq(Tx)] /\ inbox[n] # << >>
    BY DEF SyncTyped, Receive
  <2>2. t \in Tx /\ Tail(inbox[n]) \in Seq(Tx)
    BY <2>1, ToSetTail
  <2>3. inbox' = [inbox EXCEPT ![n] = Tail(inbox[n])]
    BY DEF Receive
  <2> QED BY <2>1, <2>2, <2>3
<1>3. CASE Accept(n, t) /\ StartRun(Broadcast(wire, n, t), dag'[n], n)
           /\ UNCHANGED orphans
  <2>1. Broadcast(wire, n, t) \in Wires
    BY <1>2, BroadcastIs DEF SyncTyped
  <2>2. /\ batch' \in [Nodes -> SUBSET Tx] /\ wire' \in Wires
        /\ batch'[n] \subseteq orphans[n]
        /\ \A m \in Nodes : m # n => batch'[m] = batch[m]
    BY <1>3, <2>1, StartRunTyped
  <2>3. \A m \in Nodes : batch'[m] \subseteq orphans'[m]
    BY <1>3, <2>2 DEF SyncTyped
  <2> HIDE DEF t
  <2> QED BY <1>1, <1>2, <1>3, <2>2, <2>3, AcceptTyped DEF SyncTyped
<1>4. CASE Shelve(n, t)
  <2> HIDE DEF t
  <2>1. \A m \in Nodes : batch'[m] \subseteq orphans'[m]
    BY <1>2, <1>4, ShelveTyped DEF SyncTyped
  <2> QED BY <1>1, <1>2, <1>4, <2>1, ShelveTyped DEF SyncTyped
<1>5. CASE Refuse(n, t) /\ UNCHANGED <<orphans, batch>>
  <2> HIDE DEF t
  <2> QED BY <1>1, <1>2, <1>5, RefuseTyped DEF SyncTyped
<1> QED BY <1>3, <1>4, <1>5 DEF Receive

LEMMA ResubmitTyped ==
    ASSUME SyncTyped, NEW n \in Nodes, NEW t \in Tx, Resubmit(n, t)
    PROVE  SyncTyped'
<1>1. UNCHANGED <<inbox, peers, todo, missed>>
      /\ batch' = [batch EXCEPT ![n] = batch[n] \ {t}]
  BY DEF Resubmit
<1>2. orphans' = orphans \/ orphans' = [orphans EXCEPT ![n] = orphans[n] \ {t}]
  BY DEF Resubmit
<1>3. /\ orphans' \in [Nodes -> SUBSET Tx] /\ batch' \in [Nodes -> SUBSET Tx]
      /\ \A m \in Nodes : batch'[m] \subseteq orphans'[m]
  <2>1. /\ orphans \in [Nodes -> SUBSET Tx] /\ batch \in [Nodes -> SUBSET Tx]
        /\ \A m \in Nodes : batch[m] \subseteq orphans[m]
    BY DEF SyncTyped
  <2>2. CASE orphans' = orphans
    BY <1>1, <2>1, <2>2
  <2>3. CASE orphans' = [orphans EXCEPT ![n] = orphans[n] \ {t}]
    BY <1>1, <2>1, <2>3
  <2> QED BY <1>2, <2>2, <2>3
<1>4. CASE Accept(n, t) /\ wire' = Broadcast(wire, n, t)
  <2>1. wire' \in Wires
    BY <1>4, BroadcastIs DEF SyncTyped
  <2> QED BY <1>1, <1>3, <1>4, <2>1, AcceptTyped DEF SyncTyped
<1>5. CASE Refuse(n, t)
  BY <1>1, <1>3, <1>5, RefuseTyped DEF SyncTyped
<1> QED BY <1>4, <1>5 DEF Resubmit

LEMMA WakeTyped ==
    ASSUME SyncTyped, NEW n \in Nodes, Wake(n)
    PROVE  SyncTyped'
<1>1. /\ StartRun(wire, dag[n], n) /\ wire \in Wires
      /\ UNCHANGED <<dag, orphans, seen, inbox, peers, todo, faults, refused,
                     missed>>
  BY DEF Wake, SyncTyped
<1>2. /\ batch' \in [Nodes -> SUBSET Tx] /\ wire' \in Wires
      /\ batch'[n] \subseteq orphans[n]
      /\ \A m \in Nodes : m # n => batch'[m] = batch[m]
  BY <1>1, StartRunTyped
<1>3. \A m \in Nodes : batch'[m] \subseteq orphans'[m]
  BY <1>1, <1>2 DEF SyncTyped
<1> QED BY <1>1, <1>2, <1>3 DEF SyncTyped

-----------------------------------------------------------------------------
(* The steps of a handler.                                                 *)
Opened(n, m) == Head(wire[<<m, n>>])

LEMMA ReadIs ==
    ASSUME SyncTyped, NEW n, NEW m, <<n, m>> \in Links,
           NEW kind, Reads(n, m, kind)
    PROVE  /\ n \in Nodes /\ m \in Nodes /\ n # m /\ <<m, n>> \in Links
           /\ Opened(n, m) \in Letter /\ Opened(n, m).kind = kind
           /\ Read(n, m) = Opened(n, m).txs
           /\ Read(n, m) \in SUBSET (Tx \cup {Root})
           /\ Popped(n, m) \in Wires
           /\ ToSet(wire[<<m, n>>]) =
                  {Opened(n, m)} \cup ToSet(Popped(n, m)[<<m, n>>])
           /\ \A l \in Links : l # <<m, n>> => Popped(n, m)[l] = wire[l]
<1> DEFINE k == <<m, n>>
<1>1. /\ n \in Nodes /\ m \in Nodes /\ n # m /\ k \in Links
  <2> DEFINE l == <<n, m>>
  <2>1. l \in Links /\ l[1] = n /\ l[2] = m
    OBVIOUS
  <2> HIDE DEF l
  <2> QED BY <2>1, LinkPair
<1>2. wire \in Wires /\ wire[k] # << >> /\ Head(wire[k]).kind = kind
  BY DEF SyncTyped, Reads
<1> HIDE DEF k
<1>3. wire[k] \in Seq(Letter)
  BY <1>1, <1>2 DEF Wires
<1>4. /\ Head(wire[k]) \in Letter /\ Tail(wire[k]) \in Seq(Letter)
      /\ ToSet(wire[k]) = {Head(wire[k])} \cup ToSet(Tail(wire[k]))
  BY <1>2, <1>3, ToSetTail
<1>5. Popped(n, m) = [wire EXCEPT ![k] = Tail(wire[k])]
  BY DEF Popped, k
<1>6. Popped(n, m) \in Wires /\ Popped(n, m)[k] = Tail(wire[k])
      /\ \A l \in Links : l # k => Popped(n, m)[l] = wire[l]
  BY <1>1, <1>2, <1>4, <1>5 DEF Wires
<1>7. Read(n, m) = Head(wire[k]).txs
  BY DEF Read, k
<1>8. Read(n, m) \in SUBSET (Tx \cup {Root})
  BY <1>4, <1>7 DEF Letter, Message
<1> QED BY <1>1, <1>2, <1>4, <1>6, <1>7, <1>8 DEF k, Opened

LEMMA ReplyIs ==
    ASSUME SyncTyped, NEW n, NEW m, <<n, m>> \in Links,
           NEW kind, Reads(n, m, kind), NEW seq \in Seq(Letter),
           Reply(n, m, seq)
    PROVE  /\ wire' \in Wires
           /\ ToSet(seq) \subseteq ToSet(wire'[<<n, m>>])
           /\ \A l \in Links : l # <<m, n>> =>
                  ToSet(wire[l]) \subseteq ToSet(wire'[l])
           /\ ToSet(wire[<<m, n>>]) \subseteq
                  ToSet(wire'[<<m, n>>]) \cup {Opened(n, m)}
<1> DEFINE w == Popped(n, m)
           there == <<m, n>>
           back == <<n, m>>
<1>1. /\ w \in Wires /\ there \in Links
      /\ ToSet(wire[there]) = {Opened(n, m)} \cup ToSet(w[there])
      /\ \A l \in Links : l # there => w[l] = wire[l]
  <2> HIDE DEF back
  <2>1. w \in Wires
    BY ReadIs
  <2>2. there \in Links
    BY ReadIs
  <2>3. ToSet(wire[there]) = {Opened(n, m)} \cup ToSet(w[there])
    BY ReadIs
  <2>4. ASSUME NEW l \in Links, l # there PROVE w[l] = wire[l]
    <3>1. wire = [k \in Links |-> wire[k]]
      BY DEF SyncTyped, Wires
    <3> HIDE DEF there
    <3>2. w = [wire EXCEPT ![there] = Tail(wire[there])]
      BY DEF Popped, there
    <3> HIDE DEF w
    <3> QED BY <2>4, <3>1, <3>2
  <2> QED BY <2>1, <2>2, <2>3, <2>4
<1>2. wire' = Send(w, n, {m}, seq) /\ back[1] = n /\ back[2] = m
  BY DEF Reply
<1> HIDE DEF w, back
<1>3. /\ wire' \in Wires
      /\ \A l \in Links :
            /\ ToSet(w[l]) \subseteq ToSet(wire'[l])
            /\ l[1] = n /\ l[2] \in {m} => ToSet(seq) \subseteq ToSet(wire'[l])
  BY <1>1, <1>2, SendIs
<1>4. ToSet(seq) \subseteq ToSet(wire'[back])
  <2>1. back \in Links
    BY DEF back
  <2> QED BY <1>2, <1>3, <2>1
<1>5. ToSet(wire[there]) \subseteq ToSet(wire'[there]) \cup {Opened(n, m)}
  <2> HIDE DEF there
  <2> QED BY <1>1, <1>3
<1>6. \A l \in Links : l # there => ToSet(wire[l]) \subseteq ToSet(wire'[l])
  BY <1>1, <1>3
<1> QED BY <1>3, <1>4, <1>5, <1>6 DEF back

\* What a handler answers to each message.
LEMMA AnswersAre ==
    ASSUME SyncTyped, NEW n \in Nodes, NEW view \in Views(n)
    PROVE  /\ \A S \in SUBSET (Tx \cup {Root}) : \A T :
                 IfAny("GetData", S \ T) \in Seq(Letter)
           /\ \A S : IfAny("SyncResponse", S \cap view.txs) \in Seq(Letter)
           /\ Msg("Inventory", view.txs) \in Letter
<1>1. view.txs \subseteq Tx
  BY ViewIs
<1>2. ASSUME NEW S \in SUBSET (Tx \cup {Root}), NEW T
      PROVE  IfAny("GetData", S \ T) \in Seq(Letter)
  <2>1. "GetData" \in Kinds /\ S \ T \in SUBSET (Tx \cup {Root})
    BY DEF Kinds
  <2>2. Msg("GetData", S \ T) \in Letter
    BY <2>1, MsgIs
  <2> QED BY <2>2, IfAnyIs
<1>3. ASSUME NEW S
      PROVE  IfAny("SyncResponse", S \cap view.txs) \in Seq(Letter)
  <2>1. "SyncResponse" \in Kinds /\ S \cap view.txs \subseteq Tx
    BY <1>1 DEF Kinds
  <2>2. Msg("SyncResponse", S \cap view.txs) \in Letter
    BY <2>1, MsgIs
  <2> QED BY <2>2, IfAnyIs
<1>4. Msg("Inventory", view.txs) \in Letter
  <2>1. "Inventory" \in Kinds /\ view.txs \in SUBSET (Tx \cup {Root})
    BY <1>1 DEF Kinds
  <2> QED BY <2>1, MsgIs
<1> QED BY <1>2, <1>3, <1>4

\* What look-ups bring.
LEMMA FoundIs ==
    ASSUME SyncTyped, NEW n \in Nodes, NEW S, NEW found \in Finds(n, S)
    PROVE  /\ found \subseteq dag[n].txs /\ found \subseteq Tx
           /\ IfAny("SyncResponse", found) \in Seq(Letter)
<1>1. found \subseteq dag[n].txs /\ dag[n].txs \subseteq Tx
  BY DEF Finds, SyncTyped, DagType
<1>2. "SyncResponse" \in Kinds /\ found \subseteq Tx
  BY <1>1 DEF Kinds
<1>3. Msg("SyncResponse", found) \in Letter
  BY <1>2, MsgIs
<1> QED BY <1>1, <1>3, IfAnyIs

LEMMA FaultTyped ==
    ASSUME SyncTyped, NEW clear, FaultUnless(clear)
    PROVE  faults' \in [cuts : Nat, busy : Nat]
<1>1. faults \in [cuts : Nat, busy : Nat]
  BY DEF SyncTyped
<1>2. faults' = faults \/ faults' = [faults EXCEPT !.busy = faults.busy + 1]
  BY DEF FaultUnless
<1> QED BY <1>1, <1>2

LEMMA SawTyped ==
    ASSUME SyncTyped, NEW n, NEW view, Saw(n, view)
    PROVE  faults' \in [cuts : Nat, busy : Nat]
BY FaultTyped DEF Saw

LEMMA GreetTyped ==
    ASSUME SyncTyped, NEW n, NEW m, Greet(n, m)
    PROVE  /\ SyncTyped' /\ n \in Nodes /\ m \in Nodes
           /\ \A l \in Links : ToSet(wire[l]) \subseteq ToSet(wire'[l])
           /\ \E msg \in ToSet(wire'[<<n, m>>]) : msg.kind = "SyncRequest"
<1> DEFINE back == <<n, m>>
<1>1. /\ back \in Links /\ peers' = [peers EXCEPT ![n] = peers[n] \cup {m}]
      /\ UNCHANGED <<dag, orphans, batch, seen, inbox, todo, refused, missed>>
  BY DEF Greet
<1>2. back[1] = n /\ back[2] = m
  OBVIOUS
<1>3. n \in Nodes /\ m \in Nodes
  <2> HIDE DEF back
  <2> QED BY <1>1, <1>2, LinkPair
<1>4. PICK view \in Views(n) :
         /\ Saw(n, view)
         /\ \E tips \in IF view = dag[n] THEN SelectedTips(view) ELSE {{}} :
                wire' = Send(wire, n, {m}, Greeting(tips))
  BY DEF Greet
<1>5. PICK tips \in IF view = dag[n] THEN SelectedTips(view) ELSE {{}} :
          wire' = Send(wire, n, {m}, Greeting(tips))
  BY <1>4
<1>6. tips \in SUBSET (Tx \cup {Root})
  <2>1. CASE view = dag[n]
    <3>1. Grown(view) /\ view.txs \subseteq Tx
      BY <1>3, <1>4, ViewIs
    <3> QED BY <1>5, <2>1, <3>1, TipsAre
  <2>2. CASE view # dag[n]
    BY <1>5, <2>2
  <2> QED BY <2>1, <2>2
<1> DEFINE ask == Msg("GetInventory", tips)
           all == Msg("SyncRequest", {})
           seq == <<ask, all>>
<1>7. ask \in Letter
  <2>1. "GetInventory" \in Kinds
    BY DEF Kinds
  <2> QED BY <1>6, <2>1, MsgIs
<1>8. all \in Letter /\ all.kind = "SyncRequest"
  <2> DEFINE none == {}
  <2>1. "SyncRequest" \in Kinds /\ none \in SUBSET (Tx \cup {Root})
    BY DEF Kinds
  <2> HIDE DEF none
  <2>2. Msg("SyncRequest", none) \in Letter
        /\ Msg("SyncRequest", none).kind = "SyncRequest"
    BY <2>1, MsgIs
  <2> QED BY <2>2 DEF none
<1>9. wire' = Send(wire, n, {m}, seq)
  BY <1>5 DEF Greeting
<1> HIDE DEF ask, all
<1>10. seq \in Seq(Letter) /\ all \in ToSet(seq)
  <2>1. seq \in Seq(Letter) /\ Len(seq) = 2 /\ seq[2] = all
    BY <1>7, <1>8
  <2> HIDE DEF seq
  <2>2. 2 \in DOMAIN seq
    BY <2>1
  <2> QED BY <2>1, <2>2 DEF ToSet
<1> HIDE DEF seq, back
<1>11. wire \in Wires
  BY DEF SyncTyped
<1>12. /\ wire' \in Wires
       /\ \A l \in Links : ToSet(wire[l]) \subseteq ToSet(wire'[l])
       /\ all \in ToSet(wire'[back])
  <2>1. /\ Send(wire, n, {m}, seq) \in Wires
        /\ \A l \in Links :
              /\ ToSet(wire[l]) \subseteq ToSet(Send(wire, n, {m}, seq)[l])
              /\ l[1] = n /\ l[2] \in {m} =>
                    ToSet(seq) \subseteq ToSet(Send(wire, n, {m}, seq)[l])
    BY <1>10, <1>11, SendIs
  <2> QED BY <1>1, <1>2, <1>9, <1>10, <2>1
<1>13. faults' \in [cuts : Nat, busy : Nat]
  BY <1>4, SawTyped
<1>14. peers' \in [Nodes -> SUBSET Nodes]
  BY <1>1, <1>3 DEF SyncTyped
<1>15. SyncTyped'
  BY <1>1, <1>12, <1>13, <1>14 DEF SyncTyped
<1> QED BY <1>3, <1>8, <1>12, <1>15 DEF back

\* What a handler has in hand.
Named(tasks) == {item.tx : item \in ToSet(tasks)}

LEMMA HearTransactionTyped ==
    ASSUME SyncTyped, NEW n, NEW m, <<n, m>> \in Links, HearTransaction(n, m)
    PROVE  /\ SyncTyped' /\ todo' \in [Links -> Seq(Task)]
           /\ wire' = Popped(n, m)
           /\ \A l \in Links : l # <<m, n>> => todo'[l] = todo[l]
           /\ Read(n, m) \ seen[n] \subseteq Named(todo'[<<m, n>>])
<1> DEFINE k == <<m, n>>
           new == Read(n, m) \ seen[n]
           item == [tx |-> CHOOSE t \in Read(n, m) : TRUE, relay |-> TRUE]
           seq == [i \in 1 .. Cardinality(new) |-> item]
<1>1. /\ Reads(n, m, "Transaction") /\ wire' = Popped(n, m)
      /\ todo' = [todo EXCEPT ![k] = seq]
      /\ UNCHANGED <<dag, orphans, batch, seen, inbox, peers, refused>>
      /\ UNCHANGED <<faults, missed>>
  BY DEF HearTransaction, StoreSame
<1>2. PICK t \in Tx : Read(n, m) = {t}
  <2>1. Opened(n, m) \in Letter
    BY <1>1, ReadIs
  <2>2. Opened(n, m).kind = "Transaction"
    BY <1>1, ReadIs
  <2>3. Read(n, m) = Opened(n, m).txs
    BY <1>1, ReadIs
  <2> QED BY <2>1, <2>2, <2>3 DEF Letter
<1>3. item = [tx |-> t, relay |-> TRUE] /\ item \in Task /\ item.tx = t
  BY <1>2 DEF Task
<1> HIDE DEF item
<1>4. seq \in Seq(Task) /\ (new # {} => item \in ToSet(seq))
  <2>1. CASE new = {}
    <3>1. Cardinality(new) = 0
      BY <2>1, FS_EmptySet
    <3> QED BY <2>1, <3>1
  <2>2. CASE new = {t}
    <3>1. Cardinality(new) = 1
      BY <2>2, FS_Singleton
    <3> HIDE DEF new
    <3>2. seq \in Seq(Task) /\ Len(seq) = 1 /\ seq[1] = item
      BY <1>3, <3>1
    <3> HIDE DEF seq
    <3>3. 1 \in DOMAIN seq
      BY <3>2
    <3> QED BY <3>2, <3>3 DEF ToSet
  <2> QED BY <1>2, <2>1, <2>2
<1>5. k \in Links
  BY <1>1, ReadIs
<1>6. Popped(n, m) \in Wires
  BY <1>1, ReadIs
<1> HIDE DEF k, seq
<1>7. /\ todo' \in [Links -> Seq(Task)] /\ todo'[k] = seq
      /\ \A l \in Links : l # k => todo'[l] = todo[l]
  BY <1>1, <1>4, <1>5 DEF SyncTyped
<1>8. SyncTyped'
  BY <1>1, <1>6, <1>7 DEF SyncTyped
<1>9. \A u \in new : \E x \in ToSet(todo'[k]) : x.tx = u
  BY <1>2, <1>3, <1>4, <1>7
<1>10. new \subseteq Named(todo'[k])
  BY <1>9 DEF Named
<1> QED BY <1>1, <1>7, <1>8, <1>10 DEF k

\* A handler that answers out of its DAG changes the wires only.
LEMMA HearInventoryTyped ==
    ASSUME SyncTyped, NEW n, NEW m, <<n, m>> \in Links, HearInventory(n, m)
    PROVE  SyncTyped'
<1>1. /\ Reads(n, m, "Inventory")
      /\ UNCHANGED <<dag, orphans, batch, seen, inbox, peers, refused>>
      /\ UNCHANGED <<todo, missed>>
  BY DEF HearInventory, StoreSame
<1>2. PICK view \in Views(n) :
         /\ Saw(n, view)
         /\ Reply(n, m, IfAny("GetData", Read(n, m) \ view.txs))
  BY DEF HearInventory
<1> DEFINE seq == IfAny("GetData", Read(n, m) \ view.txs)
<1>3. n \in Nodes /\ Read(n, m) \in SUBSET (Tx \cup {Root})
  BY <1>1, ReadIs
<1>4. seq \in Seq(Letter)
  BY <1>3, AnswersAre
<1>5. wire' \in Wires
  <2> HIDE DEF seq
  <2>1. Reply(n, m, seq)
    BY <1>2 DEF seq
  <2> QED BY <1>1, <1>4, <2>1, ReplyIs
<1>6. faults' \in [cuts : Nat, busy : Nat]
  BY <1>2, SawTyped
<1> QED BY <1>1, <1>5, <1>6 DEF SyncTyped

LEMMA HearGetInventoryTyped ==
    ASSUME SyncTyped, NEW n, NEW m, <<n, m>> \in Links, HearGetInventory(n, m)
    PROVE  SyncTyped' /\ \E seq \in Seq(Letter) : Reply(n, m, seq)
<1>1. /\ Reads(n, m, "GetInventory")
      /\ UNCHANGED <<dag, orphans, batch, seen, inbox, peers, refused>>
      /\ UNCHANGED <<todo, missed>>
  BY DEF HearGetInventory, StoreSame
<1>2. PICK view \in Views(n) :
         \E tips \in IF view = dag[n] THEN SelectedTips(view) ELSE {{}} :
         \E page \in Pages(tips \ Read(n, m)) :
         \E found \in Finds(n, page) :
            /\ FaultUnless(view = dag[n] /\ found = page \cap dag[n].txs)
            /\ Reply(n, m, IfAny("SyncResponse", found)
                           \o IfAny("GetData", Read(n, m) \ tips))
  BY DEF HearGetInventory
<1>3. PICK tips \in IF view = dag[n] THEN SelectedTips(view) ELSE {{}} :
         \E page \in Pages(tips \ Read(n, m)) :
         \E found \in Finds(n, page) :
            /\ FaultUnless(view = dag[n] /\ found = page \cap dag[n].txs)
            /\ Reply(n, m, IfAny("SyncResponse", found)
                           \o IfAny("GetData", Read(n, m) \ tips))
  BY <1>2
<1>4. PICK page \in Pages(tips \ Read(n, m)) :
         \E found \in Finds(n, page) :
            /\ FaultUnless(view = dag[n] /\ found = page \cap dag[n].txs)
            /\ Reply(n, m, IfAny("SyncResponse", found)
                           \o IfAny("GetData", Read(n, m) \ tips))
  BY <1>3
<1>5. PICK found \in Finds(n, page) :
         /\ FaultUnless(view = dag[n] /\ found = page \cap dag[n].txs)
         /\ Reply(n, m, IfAny("SyncResponse", found)
                        \o IfAny("GetData", Read(n, m) \ tips))
  BY <1>4
<1> DEFINE offer == IfAny("SyncResponse", found)
           ask == IfAny("GetData", Read(n, m) \ tips)
           seq == offer \o ask
<1>6. n \in Nodes /\ Read(n, m) \in SUBSET (Tx \cup {Root})
  BY <1>1, ReadIs
<1>7. offer \in Seq(Letter) /\ ask \in Seq(Letter)
  BY <1>6, AnswersAre, FoundIs
<1>8. seq \in Seq(Letter) /\ Reply(n, m, seq)
  <2> HIDE DEF offer, ask
  <2>1. offer \o ask \in Seq(Letter)
    BY <1>7, ToSetConcat
  <2> QED BY <1>5, <2>1 DEF offer, ask
<1> HIDE DEF seq
<1>9. wire' \in Wires
  BY <1>1, <1>8, ReplyIs
<1>10. faults' \in [cuts : Nat, busy : Nat]
  BY <1>5, FaultTyped
<1>11. SyncTyped'
  BY <1>1, <1>9, <1>10 DEF SyncTyped
<1> QED BY <1>8, <1>11

LEMMA HearGetDataTyped ==
    ASSUME SyncTyped, NEW n, NEW m, <<n, m>> \in Links, HearGetData(n, m)
    PROVE  SyncTyped'
<1>1. /\ Reads(n, m, "GetData")
      /\ UNCHANGED <<dag, orphans, batch, seen, inbox, peers, refused>>
      /\ UNCHANGED todo
  BY DEF HearGetData, StoreSame
<1>2. PICK page \in Pages(Read(n, m)) : \E found \in Finds(n, page) :
         /\ FaultUnless(found = page \cap dag[n].txs)
         /\ Reply(n, m, IfAny("SyncResponse", found))
         /\ missed' = [missed EXCEPT ![m] = missed[m] \cup
                ((Read(n, m) \cap dag[n].txs) \ found)]
  BY DEF HearGetData
<1>3. PICK found \in Finds(n, page) :
         /\ FaultUnless(found = page \cap dag[n].txs)
         /\ Reply(n, m, IfAny("SyncResponse", found))
         /\ missed' = [missed EXCEPT ![m] = missed[m] \cup
                ((Read(n, m) \cap dag[n].txs) \ found)]
  BY <1>2
<1> DEFINE seq == IfAny("SyncResponse", found)
<1>4. /\ n \in Nodes /\ m \in Nodes
      /\ Read(n, m) \in SUBSET (Tx \cup {Root})
  BY <1>1, ReadIs
<1>5. seq \in Seq(Letter)
  BY <1>4, FoundIs
<1>6. wire' \in Wires
  <2> HIDE DEF seq
  <2>1. Reply(n, m, seq)
    BY <1>3 DEF seq
  <2> QED BY <1>1, <1>5, <2>1, ReplyIs
<1>7. faults' \in [cuts : Nat, busy : Nat]
  BY <1>3, FaultTyped
<1>8. missed' \in [Nodes -> SUBSET (Tx \cup {Root})]
  <2>1. missed \in [Nodes -> SUBSET (Tx \cup {Root})]
    BY DEF SyncTyped
  <2> QED BY <1>3, <1>4, <2>1
<1> QED BY <1>1, <1>6, <1>7, <1>8 DEF SyncTyped

LEMMA HearSyncRequestTyped ==
    ASSUME SyncTyped, NEW n, NEW m, <<n, m>> \in Links, HearSyncRequest(n, m)
    PROVE  SyncTyped'
<1>1. /\ Reads(n, m, "SyncRequest")
      /\ UNCHANGED <<dag, orphans, batch, seen, inbox, peers, refused>>
      /\ UNCHANGED todo
  BY DEF HearSyncRequest, StoreSame
<1>2. PICK view \in Views(n) :
         /\ Saw(n, view)
         /\ Reply(n, m, <<Msg("Inventory", view.txs)>>)
         /\ missed' = [missed EXCEPT ![m] =
                missed[m] \cup (dag[n].txs \ view.txs)]
  BY DEF HearSyncRequest
<1> DEFINE msg == Msg("Inventory", view.txs)
           seq == <<msg>>
<1>3. n \in Nodes /\ m \in Nodes
  BY <1>1, ReadIs
<1>4. msg \in Letter
  BY <1>3, AnswersAre
<1>5. seq \in Seq(Letter) /\ Reply(n, m, seq)
  <2>1. Reply(n, m, seq)
    BY <1>2
  <2> HIDE DEF msg
  <2>2. seq \in Seq(Letter)
    BY <1>4
  <2> QED BY <2>1, <2>2
<1>6. wire' \in Wires
  <2> HIDE DEF seq
  <2> QED BY <1>1, <1>5, ReplyIs
<1>7. faults' \in [cuts : Nat, busy : Nat]
  BY <1>2, SawTyped
<1>8. missed' \in [Nodes -> SUBSET (Tx \cup {Root})]
  <2>1. missed \in [Nodes -> SUBSET (Tx \cup {Root})] /\ dag[n].txs \subseteq Tx
    BY <1>3, ViewIs DEF SyncTyped
  <2> QED BY <1>2, <1>3, <2>1
<1> QED BY <1>1, <1>6, <1>7, <1>8 DEF SyncTyped

LEMMA HearSyncResponseTyped ==
    ASSUME SyncTyped, NEW n, NEW m, <<n, m>> \in Links, HearSyncResponse(n, m)
    PROVE  /\ SyncTyped' /\ wire' = Popped(n, m)
           /\ \A l \in Links : l # <<m, n>> => todo'[l] = todo[l]
           /\ Read(n, m) \ seen[n] \subseteq Named(todo'[<<m, n>>])
<1> DEFINE k == <<m, n>>
           new == Read(n, m) \ seen[n]
           Items(order) ==
               [i \in DOMAIN order |-> [tx |-> order[i], relay |-> FALSE]]
<1>1. /\ Reads(n, m, "SyncResponse") /\ wire' = Popped(n, m)
      /\ UNCHANGED <<dag, orphans, batch, seen, inbox, peers, refused>>
      /\ UNCHANGED <<faults, missed>>
  BY DEF HearSyncResponse, StoreSame
<1>2. PICK order \in SetToSeqs(new) :
          todo' = [todo EXCEPT ![k] = Items(order)]
  BY DEF HearSyncResponse
<1>3. new \subseteq Tx
  <2>1. Opened(n, m) \in Letter
    BY <1>1, ReadIs
  <2>2. Opened(n, m).kind = "SyncResponse"
    BY <1>1, ReadIs
  <2>3. Read(n, m) = Opened(n, m).txs
    BY <1>1, ReadIs
  <2> QED BY <2>1, <2>2, <2>3 DEF Letter
<1>4. IsFiniteSet(new)
  BY <1>3, FiniteAssumption, FS_Subset DEF FiniteAssumption
<1> DEFINE size == Cardinality(new)
           seq == Items(order)
<1> HIDE DEF new
<1>5. /\ size \in Nat /\ order \in [1 .. size -> new]
      /\ \A x \in new : \E i \in DOMAIN order : order[i] = x
  BY <1>2, <1>4, OrdersAre
<1> HIDE DEF size
<1>6. seq \in [1 .. size -> Task] /\ \A i \in 1 .. size : seq[i].tx = order[i]
  BY <1>3, <1>5 DEF Task
<1> HIDE DEF seq
<1>7. /\ seq \in Seq(Task)
      /\ \A t \in new : \E item \in ToSet(seq) : item.tx = t
  <2>1. seq \in Seq(Task) /\ DOMAIN seq = 1 .. size
    BY <1>5, <1>6
  <2>2. ASSUME NEW t \in new PROVE \E item \in ToSet(seq) : item.tx = t
    <3>1. PICK i \in 1 .. size : order[i] = t
      BY <1>5
    <3>2. seq[i] \in ToSet(seq) /\ seq[i].tx = t
      BY <1>6, <2>1, <3>1 DEF ToSet
    <3> QED BY <3>2
  <2> QED BY <2>1, <2>2
<1>8. k \in Links
  BY <1>1, ReadIs
<1>9. Popped(n, m) \in Wires
  BY <1>1, ReadIs
<1>10. todo' = [todo EXCEPT ![k] = seq]
  BY <1>2 DEF seq
<1> HIDE DEF k
<1>11. /\ todo' \in [Links -> Seq(Task)] /\ todo'[k] = seq
       /\ \A l \in Links : l # k => todo'[l] = todo[l]
  BY <1>7, <1>8, <1>10 DEF SyncTyped
<1>12. SyncTyped'
  BY <1>1, <1>9, <1>11 DEF SyncTyped
<1>13. \A t \in new : \E item \in ToSet(todo'[k]) : item.tx = t
  BY <1>7, <1>11
<1>14. new \subseteq Named(todo'[k])
  BY <1>13 DEF Named
<1> QED BY <1>1, <1>11, <1>12, <1>14 DEF k, new

LEMMA HandTyped ==
    ASSUME SyncTyped, NEW n, NEW m, <<n, m>> \in Links, Hand(n, m)
    PROVE  /\ SyncTyped' /\ n \in Nodes
           /\ \A l \in Links : ToSet(wire[l]) \subseteq ToSet(wire'[l])
           /\ \A l \in Links : l # <<m, n>> => todo'[l] = todo[l]
           /\ \A b \in Nodes : b # n => seen'[b] = seen[b]
           /\ \A b \in Nodes : ToSet(inbox[b]) \subseteq ToSet(inbox'[b])
           /\ \E item :
                 /\ seen'[n] = seen[n] \cup {item.tx}
                 /\ item.tx \in ToSet(inbox'[n])
                 /\ ToSet(todo[<<m, n>>]) =
                        {item} \cup ToSet(todo'[<<m, n>>])
<1> DEFINE k == <<m, n>>
           back == <<n, m>>
           item == Head(todo[k])
<1>1. /\ todo[k] # << >> /\ todo' = [todo EXCEPT ![k] = Tail(todo[k])]
      /\ seen' = [seen EXCEPT ![n] = seen[n] \cup {item.tx}]
      /\ inbox' = [inbox EXCEPT ![n] = Append(inbox[n], item.tx)]
      /\ wire' = IF item.relay
                 THEN Send(wire, n, peers[n] \ {m},
                           <<Msg("Transaction", {item.tx})>>)
                 ELSE wire
      /\ UNCHANGED <<dag, orphans, batch, peers, faults, refused, missed>>
  BY DEF Hand
<1>2. n \in Nodes /\ k \in Links
  <2>1. back[1] = n /\ back[2] = m /\ back \in Links
    OBVIOUS
  <2> HIDE DEF back
  <2> QED BY <2>1, LinkPair
<1> HIDE DEF k
<1>3. todo \in [Links -> Seq(Task)]
  BY DEF SyncTyped
<1>4. /\ item \in Task /\ Tail(todo[k]) \in Seq(Task)
      /\ ToSet(todo[k]) = {item} \cup ToSet(Tail(todo[k]))
  BY <1>1, <1>2, <1>3, ToSetTail
<1> HIDE DEF item
<1>5. /\ todo' \in [Links -> Seq(Task)]
      /\ ToSet(todo[k]) = {item} \cup ToSet(todo'[k])
      /\ \A l \in Links : l # k => todo'[l] = todo[l]
  BY <1>1, <1>2, <1>3, <1>4
<1>6. item.tx \in Tx
  BY <1>4 DEF Task
<1>7. /\ inbox' \in [Nodes -> Seq(Tx)] /\ item.tx \in ToSet(inbox'[n])
      /\ \A b \in Nodes : ToSet(inbox[b]) \subseteq ToSet(inbox'[b])
  <2> DEFINE more == Append(inbox[n], item.tx)
  <2>1. inbox \in [Nodes -> Seq(Tx)]
    BY DEF SyncTyped
  <2>2. more \in Seq(Tx) /\ ToSet(more) = ToSet(inbox[n]) \cup {item.tx}
    BY <1>2, <1>6, <2>1, ToSetAppend
  <2>3. inbox' = [inbox EXCEPT ![n] = more]
    BY <1>1
  <2> HIDE DEF more
  <2>4. inbox'[n] = more /\ \A b \in Nodes : b # n => inbox'[b] = inbox[b]
    BY <1>2, <2>1, <2>3
  <2> QED BY <1>2, <2>1, <2>2, <2>3, <2>4
<1>8. /\ wire' \in Wires
      /\ \A l \in Links : ToSet(wire[l]) \subseteq ToSet(wire'[l])
  <2> DEFINE msg == Msg("Transaction", {item.tx})
             seq == <<msg>>
             to == peers[n] \ {m}
  <2>1. wire \in Wires
    BY DEF SyncTyped
  <2>2. msg \in Letter
    <3>1. "Transaction" \in Kinds /\ {item.tx} \in SUBSET (Tx \cup {Root})
      BY <1>6 DEF Kinds
    <3> QED BY <1>6, <3>1, MsgIs
  <2>3. wire' = wire \/ wire' = Send(wire, n, to, seq)
    BY <1>1
  <2> HIDE DEF msg, to
  <2>4. seq \in Seq(Letter)
    BY <2>2
  <2> HIDE DEF seq
  <2>5. CASE wire' = wire
    BY <2>1, <2>5
  <2>6. CASE wire' = Send(wire, n, to, seq)
    BY <2>1, <2>4, <2>6, SendIs
  <2> QED BY <2>3, <2>5, <2>6
<1>9. /\ seen' \in [Nodes -> SUBSET Tx] /\ seen'[n] = seen[n] \cup {item.tx}
      /\ \A b \in Nodes : b # n => seen'[b] = seen[b]
  BY <1>1, <1>2, <1>6 DEF SyncTyped
<1>10. SyncTyped'
  BY <1>1, <1>5, <1>7, <1>8, <1>9 DEF SyncTyped
<1> QED BY <1>2, <1>5, <1>7, <1>8, <1>9, <1>10 DEF k

LEMMA CutTyped ==
    ASSUME SyncTyped, NEW n, NEW m, <<n, m>> \in Links, Cut(n, m)
    PROVE  /\ SyncTyped'
           /\ UNCHANGED <<dag, orphans, batch, seen, inbox, todo, refused,
                          missed>>
           /\ m \notin peers'[n] /\ n \notin peers'[m]
           /\ \A b \in Nodes : peers'[b] \subseteq peers[b]
           /\ \A a, b \in Nodes : {a, b} # {n, m} =>
                 (a \in peers'[b] <=> a \in peers[b])
           /\ \A l \in Links : {l[1], l[2]} # {n, m} => wire'[l] = wire[l]
<1> DEFINE k == <<m, n>>
           back == <<n, m>>
<1>1. /\ faults' = [faults EXCEPT !.cuts = faults.cuts + 1]
      /\ peers' = [peers EXCEPT ![n] = @ \ {m}, ![m] = @ \ {n}]
      /\ wire' = [wire EXCEPT ![back] = << >>, ![k] = << >>]
      /\ UNCHANGED <<dag, orphans, batch, seen, inbox, todo, refused, missed>>
  BY DEF Cut
<1>2. n \in Nodes /\ m \in Nodes /\ n # m /\ k \in Links /\ back \in Links
  <2>1. back[1] = n /\ back[2] = m /\ back \in Links
    OBVIOUS
  <2> HIDE DEF back
  <2> QED BY <2>1, LinkPair
<1>3. peers' = [b \in Nodes |-> IF b = n THEN peers[n] \ {m}
                                ELSE IF b = m THEN peers[m] \ {n} ELSE peers[b]]
  BY <1>1, <1>2 DEF SyncTyped
<1>4. faults' \in [cuts : Nat, busy : Nat]
  <2>1. faults \in [cuts : Nat, busy : Nat]
    BY DEF SyncTyped
  <2>2. faults' = [faults EXCEPT !.cuts = faults.cuts + 1]
    BY <1>1
  <2> QED BY <2>1, <2>2
<1>5. \A l \in Links : {l[1], l[2]} # {n, m} => l # k /\ l # back
  OBVIOUS
<1> HIDE DEF k, back
<1>6. wire' = [l \in Links |-> IF l = k \/ l = back THEN << >> ELSE wire[l]]
  BY <1>1, <1>2 DEF SyncTyped, Wires
<1>7. wire' \in Wires
  BY <1>6 DEF SyncTyped, Wires
<1>8. peers' \in [Nodes -> SUBSET Nodes]
  BY <1>3 DEF SyncTyped
<1>9. SyncTyped'
  BY <1>1, <1>4, <1>7, <1>8 DEF SyncTyped
<1>10. \A a, b \in Nodes : {a, b} # {n, m} =>
          (a \in peers'[b] <=> a \in peers[b])
  <2> TAKE a, b \in Nodes
  <2> HAVE {a, b} # {n, m}
  <2>1. ~(a = m /\ b = n) /\ ~(a = n /\ b = m)
    OBVIOUS
  <2> QED BY <1>2, <1>3, <2>1
<1>11. \A b \in Nodes : peers'[b] \subseteq peers[b]
  BY <1>3
<1>12. m \notin peers'[n] /\ n \notin peers'[m]
  BY <1>2, <1>3
<1>13. \A l \in Links : {l[1], l[2]} # {n, m} => wire'[l] = wire[l]
  BY <1>5, <1>6
<1> QED BY <1>1, <1>9, <1>10, <1>11, <1>12, <1>13

LEMMA ForgetTyped ==
    ASSUME SyncTyped, NEW n \in Nodes, NEW t, Forget(n, t)
    PROVE  SyncTyped' /\ \A b \in Nodes : seen'[b] \subseteq seen[b]
<1>1. seen' = [seen EXCEPT ![n] = seen[n] \ {t}]
      /\ UNCHANGED <<dag, orphans, batch, inbox, peers, wire, todo, faults,
                     refused, missed>>
  BY DEF Forget
<1>2. /\ seen' \in [Nodes -> SUBSET Tx]
      /\ \A b \in Nodes : seen'[b] \subseteq seen[b]
  BY <1>1 DEF SyncTyped
<1> QED BY <1>1, <1>2 DEF SyncTyped

-----------------------------------------------------------------------------
LEMMA InitTyped == SyncInit => SyncTyped
<1> SUFFICES ASSUME SyncInit PROVE SyncTyped
  OBVIOUS
<1>1. EmptyDag \in DagType /\ Grown(EmptyDag)
  BY GrownEmpty DEF EmptyDag, DagType
<1>2. [cuts |-> 0, busy |-> 0] \in [cuts : Nat, busy : Nat]
  OBVIOUS
<1>3. [l \in Links |-> << >>] \in Wires
  BY DEF Wires
<1> QED BY <1>1, <1>2, <1>3 DEF SyncInit, SyncTyped

LEMMA StepTyped == SyncTyped /\ [SyncNext]_syncVars => SyncTyped'
<1> SUFFICES ASSUME SyncTyped, [SyncNext]_syncVars PROVE SyncTyped'
  OBVIOUS
<1>1. CASE UNCHANGED syncVars
  BY <1>1 DEF syncVars, SyncTyped
<1>2. ASSUME NEW n \in Nodes,
             Work(n) \/ \E t \in Tx : Submit(n, t) \/ Forget(n, t)
      PROVE  SyncTyped'
  BY <1>2, WakeTyped, ReceiveTyped, ResubmitTyped, SubmitTyped, ForgetTyped
  DEF Work
<1>3. ASSUME NEW l \in Links, Converse(l[1], l[2]) \/ Cut(l[1], l[2])
      PROVE  SyncTyped'
  <2> DEFINE n == l[1]
             m == l[2]
  <2>1. <<n, m>> \in Links /\ (Converse(n, m) \/ Cut(n, m))
    BY <1>3, LinkPair
  <2> HIDE DEF n, m
  <2> QED BY <2>1, GreetTyped, HearTransactionTyped, HearInventoryTyped,
             HearGetInventoryTyped, HearGetDataTyped, HearSyncRequestTyped,
             HearSyncResponseTyped, HandTyped, CutTyped DEF Converse
<1> QED BY <1>1, <1>2, <1>3 DEF SyncNext

LEMMA TypedEnough == SyncTyped => SyncTypeOK
<1> SUFFICES ASSUME SyncTyped PROVE SyncTypeOK
  OBVIOUS
<1>1. wire \in [Links -> Seq(Message)]
  <2>1. Letter \subseteq Message
    BY DEF Letter
  <2>2. Seq(Letter) \subseteq Seq(Message)
    BY <2>1
  <2> QED BY <2>2 DEF SyncTyped, Wires
<1>2. \A n \in Nodes :
         /\ dag[n] \in DagType
         /\ ParentClosed(dag[n]) /\ NonceUnique(dag[n])
         /\ ParentPairUnique(dag[n]) /\ TipsAreChildless(dag[n])
  BY DEF SyncTyped, Grown, Formed
<1> QED BY <1>1, <1>2 DEF SyncTyped, SyncTypeOK, Task

\* Every DAG is well formed and every queue holds what its reader expects,
\* whatever is received in whatever order.
THEOREM SyncTypeCorrect == SyncSpec => []SyncTypeOK
<1> QED BY InitTyped, StepTyped, TypedEnough, PTL DEF SyncSpec

-----------------------------------------------------------------------------
(* The status of several nodes.                                            *)
Saying(report, level) == {n \in Nodes : report[n] = level}

LEMMA WeightsAre ==
    ASSUME NEW S \in SUBSET Nodes, NEW T \in SUBSET S
    PROVE  /\ WeightOf[S] \in Nat /\ WeightOf[T] \in Nat
           /\ WeightOf[T] <= WeightOf[S]
<1>1. IsFiniteSet(S) /\ \A n \in S : NodeWeight[n] \in Nat
  BY SyncAssumption, FS_Subset DEF SyncAssumption
<1>2. /\ WeightOf[S] = SumFunctionOnSet(NodeWeight, S)
      /\ WeightOf[T] = SumFunctionOnSet(NodeWeight, T)
  BY DEF WeightOf
<1> QED BY <1>1, <1>2, SumSubset

\* The largest of some levels is one of them.
LEMMA MaxLevel ==
    ASSUME NEW S \in SUBSET (1 .. 5), S # {}
    PROVE  Max(S) \in S
<1> DEFINE five == 5
<1>1. five \in Nat /\ S \in SUBSET (1 .. five)
  OBVIOUS
<1> HIDE DEF five
<1>2. PICK m \in S : \A i \in S : i <= m
  BY <1>1, NatMax
<1>3. \A i \in S : m >= i
  BY <1>2
<1> QED BY <1>3 DEF Max

\* A level above pending is granted only to the nodes that report it, when
\* they have the share asked for.
LEMMA QuorumIs ==
    ASSUME NEW report, NEW level, level = ReconcileQuorum(report),
           level \notin {"unknown", "pending"}
    PROVE  \E percent \in {QuorumPercent, MajorityPercent} :
              100 * WeightOf[Saying(report, level)] >= percent * WeightOf[Nodes]
<1> DEFINE total == WeightOf[Electorate(report)]
           share == [i \in DOMAIN Levels |->
                        100 * WeightOf[{n \in Nodes : report[n] = Levels[i]}]]
           reaching(percent) ==
               {i \in DOMAIN Levels : share[i] >= percent * total}
           most == reaching(QuorumPercent)
           half == reaching(MajorityPercent) \cup {1}
<1>1. DOMAIN Levels = 1 .. 5 /\ Levels[1] = "unknown"
  BY DEF Levels
<1>2. total = WeightOf[Nodes]
  BY DEF Electorate
<1>3. level = IF total = 0 THEN "unknown"
              ELSE IF most # {} THEN Levels[Max(most)] ELSE Levels[Max(half)]
  BY DEF ReconcileQuorum
<1>4. most \in SUBSET (1 .. 5) /\ half \in SUBSET (1 .. 5)
  BY <1>1
<1>5. ASSUME NEW percent, NEW i \in reaching(percent), level = Levels[i]
      PROVE  100 * WeightOf[Saying(report, level)] >= percent * WeightOf[Nodes]
  BY <1>2, <1>5 DEF Saying
<1>6. most # {} => Max(most) \in most
  <2> HIDE DEF most
  <2> QED BY <1>4, MaxLevel
<1>7. Max(half) \in half
  <2>1. half # {}
    OBVIOUS
  <2> HIDE DEF half
  <2> QED BY <1>4, <2>1, MaxLevel
<1>8. CASE most # {}
  BY <1>3, <1>5, <1>6, <1>8
<1>9. CASE most = {}
  <2>1. level = Levels[Max(half)] /\ Max(half) # 1
    BY <1>1, <1>3, <1>9
  <2>2. Max(half) \in reaching(MajorityPercent)
    BY <1>7, <2>1
  <2> QED BY <1>5, <2>1, <2>2
<1> QED BY <1>8, <1>9

\* Who reports more than pending holds the transaction and all it builds on.
LEMMA ReportIs ==
    ASSUME SyncTyped, NEW n \in Nodes, NEW t \in Tx,
           Report(n, t) \notin {"unknown", "pending"}
    PROVE  /\ Ancestry(dag[n], t) \cup {t} \subseteq dag[n].txs \cup {Root}
           /\ Report(n, t) = "confirmed" =>
                  ReferenceCount(dag[n], t) >= MinConfirmations
<1>1. t \in dag[n].txs /\ Report(n, t) = ConsensusStatus(dag[n], t)
  BY DEF Report, ReconcileSingle
<1>2. Grown(dag[n])
  BY DEF SyncTyped
<1>3. Ancestry(dag[n], t) \subseteq (dag[n].txs \ {t}) \cup {Root}
  BY <1>1, <1>2, AncestryClosed
<1>4. Report(n, t) = "confirmed" =>
          ReferenceCount(dag[n], t) >= MinConfirmations
  BY <1>1 DEF ConsensusStatus
<1> QED BY <1>1, <1>3, <1>4

LEMMA StatusBacked ==
    ASSUME SyncTyped, MajorityPercent >= 50
    PROVE  GlobalStatusBacked
<1> SUFFICES ASSUME NEW t \in UNION {dag[n].txs : n \in Nodes}
    PROVE  LET global == ReconcileQuorum([n \in Nodes |-> Report(n, t)])
               backers == {n \in Nodes :
                   /\ Ancestry(dag[n], t) \cup {t}
                          \subseteq dag[n].txs \cup {Root}
                   /\ global = "confirmed" =>
                          ReferenceCount(dag[n], t) >= MinConfirmations}
           IN  global \notin {"unknown", "pending"} =>
                   2 * WeightOf[backers] >= WeightOf[Nodes]
  BY DEF GlobalStatusBacked
<1> DEFINE report == [n \in Nodes |-> Report(n, t)]
           level == ReconcileQuorum(report)
           says == Saying(report, level)
           backers == {n \in Nodes :
               /\ Ancestry(dag[n], t) \cup {t} \subseteq dag[n].txs \cup {Root}
               /\ level = "confirmed" =>
                      ReferenceCount(dag[n], t) >= MinConfirmations}
<1> SUFFICES ASSUME level \notin {"unknown", "pending"}
             PROVE  2 * WeightOf[backers] >= WeightOf[Nodes]
  OBVIOUS
<1>1. t \in Tx
  BY DEF SyncTyped, DagType
<1>2. says \subseteq backers
  <2> SUFFICES ASSUME NEW n \in says PROVE n \in backers
    OBVIOUS
  <2>1. n \in Nodes /\ Report(n, t) = level
    <3> HIDE DEF level
    <3> QED BY DEF Saying
  <2> HIDE DEF level
  <2> QED BY <1>1, <2>1, ReportIs
<1>3. /\ backers \in SUBSET Nodes /\ says \in SUBSET backers
      /\ Nodes \in SUBSET Nodes
  BY <1>2
<1>4. PICK percent \in {QuorumPercent, MajorityPercent} :
          100 * WeightOf[says] >= percent * WeightOf[Nodes]
  <2> HIDE DEF report
  <2> QED BY QuorumIs
<1> HIDE DEF says, backers
<1>5. /\ WeightOf[says] \in Nat /\ WeightOf[backers] \in Nat
      /\ WeightOf[Nodes] \in Nat /\ WeightOf[says] <= WeightOf[backers]
  BY <1>3, WeightsAre
<1>6. percent \in Nat /\ percent >= 50
  BY <1>4, SyncAssumption DEF SyncAssumption
<1>7. percent * WeightOf[Nodes] >= 50 * WeightOf[Nodes]
  BY <1>5, <1>6
<1> QED BY <1>4, <1>5, <1>6, <1>7

\* What reconcile_quorum calls more than pending is held, with all that it
\* builds on, by half of the weight, when no less than half is a majority (it
\* is 0.50 by default).
THEOREM StatusCorrect ==
    ASSUME MajorityPercent >= 50
    PROVE  SyncSpec => []GlobalStatusBacked
<1>1. SyncTyped => GlobalStatusBacked
  BY StatusBacked
<1> QED BY InitTyped, StepTyped, <1>1, PTL DEF SyncSpec

-----------------------------------------------------------------------------
(* No transaction gets lost between two nodes.                             *)
Gossip == {"Transaction", "Inventory", "SyncResponse"}

Back(l) == <<l[2], l[1]>>

\* t was put before n: it is in the DAG, waits there, or was refused.
Held(n, t) ==
    t \in dag[n].txs \cup orphans[n] \cup refused[n] \cup ToSet(inbox[n])

\* t is in a message to l[2], or in a request that l[2] sent back for it.
Written(l, t) ==
    \/ \E msg \in ToSet(wire[l]) : msg.kind \in Gossip /\ t \in msg.txs
    \/ \E msg \in ToSet(wire[Back(l)]) : msg.kind = "GetData" /\ t \in msg.txs

InHand(l, t) == t \in Named(todo[l])

Reaches(l, t) ==
    Written(l, t) \/ InHand(l, t) \/ Held(l[2], t) \/ t \in missed[l[2]]

\* l[2] has sent for the whole inventory of l[1].
Asked(l) == \E msg \in ToSet(wire[Back(l)]) : msg.kind = "SyncRequest"

\* What was marked as seen was put before the node; and when l[2] has a handler
\* for l[1], then it has sent for the inventory, or else l[1] has a handler too
\* and all that it holds is with l[2], or on the way, or was kept back.
AgreementInv ==
    /\ \A n \in Nodes : \A t \in seen[n] : Held(n, t)
    /\ \A l \in Links :
          l[1] \in peers[l[2]] =>
             \/ Asked(l)
             \/ /\ l[2] \in peers[l[1]]
                /\ \A t \in dag[l[1]].txs : Reaches(l, t)

LEMMA InitAgrees == SyncInit => AgreementInv
<1> SUFFICES ASSUME SyncInit PROVE AgreementInv
  OBVIOUS
<1>1. \A n \in Nodes : seen[n] = {} /\ dag[n].txs = {}
  BY DEF SyncInit, EmptyDag
<1>2. ASSUME NEW l \in Links, l[1] \in peers[l[2]]
      PROVE  l[2] \in peers[l[1]]
  <2>1. l[1] \in Nodes /\ l[2] \in Nodes /\ l[1] # l[2]
    BY LinkPair
  <2>2. {l[1], l[2]} = {l[2], l[1]}
    OBVIOUS
  <2>3. peers = [n \in Nodes |-> {m \in Nodes \ {n} : {n, m} \in Early}]
    BY DEF SyncInit
  <2> QED BY <1>2, <2>1, <2>2, <2>3
<1> QED BY <1>1, <1>2, LinkPair DEF AgreementInv

\* What a step that leaves the connections must do for each pair of nodes.
LEMMA AgreementKept ==
    ASSUME AgreementInv, UNCHANGED peers,
           \A n \in Nodes : \A t : Held(n, t) => Held(n, t)',
           \A n \in Nodes : \A t \in seen'[n] : t \in seen[n] \/ Held(n, t)',
           \A l \in Links : l[1] \in peers[l[2]] /\ Asked(l) =>
              \/ Asked(l)'
              \/ /\ l[2] \in peers[l[1]]
                 /\ \A t \in dag'[l[1]].txs : Reaches(l, t)',
           \A l \in Links : \A t \in dag[l[1]].txs :
              Reaches(l, t) => Reaches(l, t)',
           \A l \in Links : l[2] \in peers[l[1]] =>
              \A t \in dag'[l[1]].txs :
                 t \in dag[l[1]].txs \/ Reaches(l, t)'
    PROVE  AgreementInv'
<1>1. \A n \in Nodes : \A t \in seen'[n] : Held(n, t)'
  BY DEF AgreementInv
<1>2. ASSUME NEW l \in Links, l[1] \in peers'[l[2]]
      PROVE  \/ Asked(l)'
             \/ /\ l[2] \in peers'[l[1]]
                /\ \A t \in dag'[l[1]].txs : Reaches(l, t)'
  <2>1. l[1] \in peers[l[2]]
    BY <1>2
  <2>2. CASE Asked(l)
    BY <2>1, <2>2
  <2>3. CASE l[2] \in peers[l[1]] /\ \A t \in dag[l[1]].txs : Reaches(l, t)
    BY <2>3
  <2> QED BY <2>1, <2>2, <2>3 DEF AgreementInv
<1> QED BY <1>1, <1>2 DEF AgreementInv

\* Messages are added, none is read.
LEMMA WritingKeeps ==
    ASSUME \A l \in Links : ToSet(wire[l]) \subseteq ToSet(wire'[l]),
           NEW l \in Links
    PROVE  /\ Asked(l) => Asked(l)'
           /\ \A t : Written(l, t) => Written(l, t)'
<1>1. Back(l) \in Links
  BY LinkPair DEF Back
<1> QED BY <1>1 DEF Asked, Written

\* A node's own step: what it takes from one place it puts in another, and what
\* enters its DAG is written to every peer.
LEMMA OwnStepKeeps ==
    ASSUME AgreementInv, UNCHANGED <<peers, todo, missed>>,
           \A l \in Links : ToSet(wire[l]) \subseteq ToSet(wire'[l]),
           \A n \in Nodes : \A t : Held(n, t) => Held(n, t)',
           \A n \in Nodes : \A t \in seen'[n] : t \in seen[n] \/ Held(n, t)',
           \A l \in Links : l[2] \in peers[l[1]] =>
              \A t \in dag'[l[1]].txs : \/ t \in dag[l[1]].txs
                                        \/ Written(l, t)'
    PROVE  AgreementInv'
<1>1. \A l \in Links : Asked(l) => Asked(l)'
  BY WritingKeeps
<1>2. ASSUME NEW l \in Links, NEW t, Reaches(l, t)
      PROVE  Reaches(l, t)'
  <2>1. Written(l, t) => Written(l, t)'
    BY WritingKeeps
  <2>2. Held(l[2], t) => Held(l[2], t)'
    BY LinkPair
  <2>3. InHand(l, t) => InHand(l, t)'
    BY DEF InHand
  <2> QED BY <1>2, <2>1, <2>2, <2>3 DEF Reaches
<1>3. \A l \in Links : l[2] \in peers[l[1]] =>
         \A t \in dag'[l[1]].txs : t \in dag[l[1]].txs \/ Reaches(l, t)'
  BY DEF Reaches
<1> QED BY <1>1, <1>2, <1>3, AgreementKept

\* A handler's step: what it reads from the wire k, and what m asked n for on
\* it, is accounted for.
LEMMA ReadStepKeeps ==
    ASSUME SyncTyped, AgreementInv, NEW n, NEW m, NEW kind,
           NEW k \in Links, k = <<m, n>>, NEW back \in Links, back = <<n, m>>,
           Reads(n, m, kind),
           UNCHANGED <<dag, orphans, seen, inbox, peers, refused>>,
           \A l \in Links \ {k} : ToSet(wire[l]) \subseteq ToSet(wire'[l]),
           ToSet(wire[k]) \subseteq ToSet(wire'[k]) \cup {Opened(n, m)},
           \A b \in Nodes : missed[b] \subseteq missed'[b],
           \A l \in Links \ {k} : todo'[l] = todo[l],
           kind \in Gossip => \A t \in Read(n, m) : Reaches(k, t)',
           kind = "GetData" =>
              \A t \in Read(n, m) \cap dag[n].txs : Reaches(back, t)',
           kind = "SyncRequest" => \A t \in dag[n].txs : Reaches(back, t)'
    PROVE  AgreementInv'
<1>1. /\ Opened(n, m).kind = kind /\ Read(n, m) = Opened(n, m).txs
      /\ todo[k] = << >> /\ m \in peers[n]
  BY ReadIs DEF Reads
<1>2. /\ k[1] = m /\ k[2] = n /\ back[1] = n /\ back[2] = m
      /\ Back(k) = back /\ Back(back) = k
      /\ \A l \in Links : Back(l) = k => l = back
  <2>1. \A l \in Links : Back(l) = k => l = back
    <3> TAKE l \in Links
    <3>1. l = <<l[1], l[2]>>
      BY LinkPair
    <3> QED BY <3>1 DEF Back
  <2> QED BY <2>1 DEF Back
<1>3. \A l \in Links : Back(l) \in Links /\ l[1] \in Nodes /\ l[2] \in Nodes
  BY LinkPair DEF Back
<1>4. \A b \in Nodes : \A t : Held(b, t) => Held(b, t)'
  BY DEF Held
<1>5. ASSUME NEW l \in Links, Asked(l)
      PROVE  Asked(l)' \/ (l = back /\ kind = "SyncRequest")
  <2>1. PICK msg \in ToSet(wire[Back(l)]) : msg.kind = "SyncRequest"
    BY <1>5 DEF Asked
  <2>2. CASE Back(l) = k
    BY <1>1, <1>2, <2>1, <2>2 DEF Asked
  <2>3. CASE Back(l) # k
    BY <1>3, <2>1, <2>3 DEF Asked
  <2> QED BY <2>2, <2>3
<1>6. ASSUME NEW l \in Links, NEW t, Written(l, t)
      PROVE  \/ Written(l, t)'
             \/ l = k /\ kind \in Gossip /\ t \in Read(n, m)
             \/ l = back /\ kind = "GetData" /\ t \in Read(n, m)
  <2>1. CASE \E msg \in ToSet(wire[l]) : msg.kind \in Gossip /\ t \in msg.txs
    <3>1. PICK msg \in ToSet(wire[l]) : msg.kind \in Gossip /\ t \in msg.txs
      BY <2>1
    <3>2. CASE msg \in ToSet(wire'[l])
      BY <3>1, <3>2 DEF Written
    <3>3. CASE l = k /\ msg = Opened(n, m)
      BY <1>1, <3>1, <3>3
    <3> QED BY <3>1, <3>2, <3>3
  <2>2. CASE \E msg \in ToSet(wire[Back(l)]) :
                msg.kind = "GetData" /\ t \in msg.txs
    <3>1. PICK msg \in ToSet(wire[Back(l)]) :
             msg.kind = "GetData" /\ t \in msg.txs
      BY <2>2
    <3>2. CASE msg \in ToSet(wire'[Back(l)])
      BY <3>1, <3>2 DEF Written
    <3>3. CASE Back(l) = k /\ msg = Opened(n, m)
      BY <1>1, <1>2, <3>1, <3>3
    <3> QED BY <1>3, <3>1, <3>2, <3>3
  <2> QED BY <1>6, <2>1, <2>2 DEF Written
<1>7. \A l \in Links : \A t : InHand(l, t) => InHand(l, t)'
  <2>1. ToSet(todo[k]) = {}
    BY <1>1 DEF ToSet
  <2> QED BY <2>1 DEF InHand, Named
<1>8. ASSUME NEW l \in Links, NEW t \in dag[l[1]].txs, Reaches(l, t)
      PROVE  Reaches(l, t)'
  <2>1. CASE Written(l, t)
    BY <1>2, <1>6, <2>1 DEF Reaches
  <2>2. CASE InHand(l, t) \/ Held(l[2], t) \/ t \in missed[l[2]]
    BY <1>3, <1>4, <1>7, <2>2 DEF Reaches
  <2> QED BY <1>8, <2>1, <2>2 DEF Reaches
<1>9. \A l \in Links : l[1] \in peers[l[2]] /\ Asked(l) =>
         \/ Asked(l)'
         \/ /\ l[2] \in peers[l[1]]
            /\ \A t \in dag'[l[1]].txs : Reaches(l, t)'
  BY <1>1, <1>2, <1>5
<1> QED BY <1>4, <1>8, <1>9, AgreementKept

\* The receiver, the solver and a client: what is taken from the inbox or the
\* orphans is in the DAG, among the orphans or refused.
LEMMA AcceptKeeps ==
    ASSUME SyncTyped, AgreementInv, NEW n \in Nodes, NEW t \in Tx,
           Accept(n, t), UNCHANGED <<peers, todo, missed>>,
           \A l \in Links :
              ToSet(Broadcast(wire, n, t)[l]) \subseteq ToSet(wire'[l]),
           \A b \in Nodes :
              /\ orphans[b] \subseteq orphans'[b] \cup {t}
              /\ ToSet(inbox[b]) \subseteq ToSet(inbox'[b]) \cup {t}
              /\ b # n => orphans'[b] = orphans[b] /\ inbox'[b] = inbox[b]
    PROVE  AgreementInv'
<1> DEFINE msg == Msg("Transaction", {t})
<1>1. /\ dag'[n].txs = dag[n].txs \cup {t}
      /\ \A b \in Nodes : b # n => dag'[b] = dag[b]
      /\ seen'[n] = seen[n] \cup {t}
      /\ \A b \in Nodes : b # n => seen'[b] = seen[b]
      /\ UNCHANGED refused
  BY AcceptTyped
<1>2. \A l \in Links :
         /\ ToSet(wire[l]) \subseteq ToSet(wire'[l])
         /\ l[1] = n /\ l[2] \in peers[n] => msg \in ToSet(wire'[l])
  <2>1. \A l \in Links :
           /\ ToSet(wire[l]) \subseteq ToSet(Broadcast(wire, n, t)[l])
           /\ l[1] = n /\ l[2] \in peers[n] =>
                 msg \in ToSet(Broadcast(wire, n, t)[l])
    BY BroadcastIs DEF SyncTyped
  <2> HIDE DEF msg
  <2> QED BY <2>1
<1>3. msg.kind \in Gossip /\ t \in msg.txs
  BY DEF Msg, Gossip
<1> HIDE DEF msg
<1>4. ASSUME NEW b \in Nodes, NEW u, Held(b, u) PROVE Held(b, u)'
  <2>1. CASE b = n
    BY <1>1, <1>4, <2>1 DEF Held
  <2>2. CASE b # n
    BY <1>1, <1>4, <2>2 DEF Held
  <2> QED BY <2>1, <2>2
<1>5. \A b \in Nodes : \A u \in seen'[b] : u \in seen[b] \/ Held(b, u)'
  BY <1>1 DEF Held
<1>6. \A l \in Links : l[2] \in peers[l[1]] =>
         \A u \in dag'[l[1]].txs : u \in dag[l[1]].txs \/ Written(l, u)'
  <2> SUFFICES ASSUME NEW l \in Links, l[2] \in peers[l[1]],
                      NEW u \in dag'[l[1]].txs, u \notin dag[l[1]].txs
               PROVE  Written(l, u)'
    OBVIOUS
  <2>1. l[1] = n /\ u = t
    <3>1. l[1] \in Nodes
      BY LinkPair
    <3>2. CASE l[1] = n
      BY <1>1, <3>2
    <3>3. CASE l[1] # n
      BY <1>1, <3>1, <3>3
    <3> QED BY <3>2, <3>3
  <2>2. msg \in ToSet(wire'[l])
    BY <1>2, <2>1
  <2> QED BY <1>3, <2>1, <2>2 DEF Written
<1>7. \A l \in Links : ToSet(wire[l]) \subseteq ToSet(wire'[l])
  BY <1>2
<1> QED BY <1>4, <1>5, <1>6, <1>7, OwnStepKeeps

\* The same when t is shelved or refused.
LEMMA NoAcceptKeeps ==
    ASSUME AgreementInv, NEW n \in Nodes, NEW t,
           UNCHANGED <<dag, seen, peers, todo, missed>>,
           \A l \in Links : ToSet(wire[l]) \subseteq ToSet(wire'[l]),
           \A b \in Nodes :
              /\ refused[b] \subseteq refused'[b]
              /\ orphans[b] \subseteq orphans'[b] \cup {t}
              /\ ToSet(inbox[b]) \subseteq ToSet(inbox'[b]) \cup {t}
              /\ b # n => orphans'[b] = orphans[b] /\ inbox'[b] = inbox[b],
           t \in orphans'[n] \cup refused'[n]
    PROVE  AgreementInv'
<1>1. ASSUME NEW b \in Nodes, NEW u, Held(b, u) PROVE Held(b, u)'
  <2>1. CASE b = n
    BY <1>1, <2>1 DEF Held
  <2>2. CASE b # n
    BY <1>1, <2>2 DEF Held
  <2> QED BY <2>1, <2>2
<1> QED BY <1>1, OwnStepKeeps

LEMMA SubmitAgrees ==
    ASSUME SyncTyped, AgreementInv, NEW n \in Nodes, NEW t \in Tx, Submit(n, t)
    PROVE  AgreementInv'
<1>1. UNCHANGED <<inbox, peers, todo, missed>>
  BY DEF Submit
<1>2. CASE Accept(n, t) /\ wire' = Broadcast(wire, n, t)
           /\ UNCHANGED <<orphans, batch>>
  BY <1>1, <1>2, AcceptKeeps
<1>3. CASE Shelve(n, t)
  <2>1. /\ orphans'[n] = orphans[n] \cup {t}
        /\ \A m \in Nodes : m # n => orphans'[m] = orphans[m]
        /\ \A l \in Links : ToSet(wire[l]) \subseteq ToSet(wire'[l])
        /\ UNCHANGED <<dag, seen, batch, faults, refused>>
    BY <1>3, ShelveTyped
  <2> QED BY <1>1, <2>1, NoAcceptKeeps
<1> QED BY <1>2, <1>3 DEF Submit

LEMMA ResubmitAgrees ==
    ASSUME SyncTyped, AgreementInv, NEW n \in Nodes, NEW t \in Tx,
           Resubmit(n, t)
    PROVE  AgreementInv'
<1>1. UNCHANGED <<inbox, peers, todo, missed>>
  BY DEF Resubmit
<1>2. orphans \in [Nodes -> SUBSET Tx]
  BY DEF SyncTyped
<1>3. orphans' = orphans \/ orphans' = [orphans EXCEPT ![n] = orphans[n] \ {t}]
  BY DEF Resubmit
<1>4. \A b \in Nodes : /\ orphans[b] \subseteq orphans'[b] \cup {t}
                       /\ b # n => orphans'[b] = orphans[b]
  BY <1>2, <1>3
<1>5. CASE Accept(n, t) /\ wire' = Broadcast(wire, n, t)
  BY <1>1, <1>4, <1>5, AcceptKeeps
<1>6. CASE Refuse(n, t)
  <2>1. /\ refused'[n] = refused[n] \cup {t}
        /\ \A m \in Nodes : m # n => refused'[m] = refused[m]
        /\ UNCHANGED <<dag, seen, wire>>
    BY <1>6, RefuseTyped
  <2> QED BY <1>1, <1>4, <2>1, NoAcceptKeeps
<1> QED BY <1>5, <1>6 DEF Resubmit

LEMMA ReceiveAgrees ==
    ASSUME SyncTyped, AgreementInv, NEW n \in Nodes, Receive(n)
    PROVE  AgreementInv'
<1> DEFINE t == Head(inbox[n])
<1>1. UNCHANGED <<peers, todo, missed>> /\ inbox[n] # << >>
      /\ inbox' = [inbox EXCEPT ![n] = Tail(inbox[n])]
  BY DEF Receive
<1>2. /\ t \in Tx
      /\ \A b \in Nodes : /\ ToSet(inbox[b]) \subseteq ToSet(inbox'[b]) \cup {t}
                          /\ b # n => inbox'[b] = inbox[b]
  <2>1. inbox \in [Nodes -> Seq(Tx)] /\ inbox[n] \in Seq(Tx)
    BY DEF SyncTyped
  <2>2. t \in Tx /\ ToSet(inbox[n]) = {t} \cup ToSet(Tail(inbox[n]))
    BY <1>1, <2>1, ToSetTail
  <2> HIDE DEF t
  <2>3. inbox'[n] = Tail(inbox[n])
        /\ \A b \in Nodes : b # n => inbox'[b] = inbox[b]
    BY <1>1, <2>1
  <2> QED BY <2>2, <2>3
<1>3. CASE Accept(n, t) /\ StartRun(Broadcast(wire, n, t), dag'[n], n)
           /\ UNCHANGED orphans
  <2> HIDE DEF t
  <2>1. Broadcast(wire, n, t) \in Wires
    BY <1>2, BroadcastIs DEF SyncTyped
  <2>2. \A l \in Links :
           ToSet(Broadcast(wire, n, t)[l]) \subseteq ToSet(wire'[l])
    BY <1>3, <2>1, StartRunTyped
  <2> QED BY <1>1, <1>2, <1>3, <2>2, AcceptKeeps
<1>4. CASE Shelve(n, t)
  <2> HIDE DEF t
  <2>1. /\ orphans'[n] = orphans[n] \cup {t}
        /\ \A m \in Nodes : m # n => orphans'[m] = orphans[m]
        /\ \A l \in Links : ToSet(wire[l]) \subseteq ToSet(wire'[l])
        /\ UNCHANGED <<dag, seen, batch, faults, refused>>
    BY <1>2, <1>4, ShelveTyped
  <2> QED BY <1>1, <1>2, <2>1, NoAcceptKeeps
<1>5. CASE Refuse(n, t) /\ UNCHANGED <<orphans, batch>>
  <2> HIDE DEF t
  <2>1. /\ refused'[n] = refused[n] \cup {t}
        /\ \A m \in Nodes : m # n => refused'[m] = refused[m]
        /\ UNCHANGED <<dag, seen, wire>>
    BY <1>2, <1>5, RefuseTyped
  <2> QED BY <1>1, <1>2, <1>5, <2>1, NoAcceptKeeps
<1> QED BY <1>3, <1>4, <1>5 DEF Receive

LEMMA WakeAgrees ==
    ASSUME SyncTyped, AgreementInv, NEW n \in Nodes, Wake(n)
    PROVE  AgreementInv'
<1>1. /\ StartRun(wire, dag[n], n) /\ wire \in Wires
      /\ UNCHANGED <<dag, orphans, seen, inbox, peers, todo, faults, refused,
                     missed>>
  BY DEF Wake, SyncTyped
<1>2. \A l \in Links : ToSet(wire[l]) \subseteq ToSet(wire'[l])
  BY <1>1, StartRunTyped
<1>3. \A b \in Nodes : \A u : Held(b, u) => Held(b, u)'
  BY <1>1 DEF Held
<1> QED BY <1>1, <1>2, <1>3, OwnStepKeeps

LEMMA ForgetAgrees ==
    ASSUME SyncTyped, AgreementInv, NEW n \in Nodes, NEW t, Forget(n, t)
    PROVE  AgreementInv'
<1>1. UNCHANGED <<dag, orphans, batch, inbox, peers, wire, todo, faults,
                  refused, missed>>
  BY DEF Forget
<1>2. \A b \in Nodes : seen'[b] \subseteq seen[b]
  BY ForgetTyped
<1>3. \A b \in Nodes : \A u : Held(b, u) => Held(b, u)'
  BY <1>1 DEF Held
<1> QED BY <1>1, <1>2, <1>3, OwnStepKeeps

\* The handler: what it reads is in hand, in its node or asked for; what it is
\* asked for is on the way or was kept back.
LEMMA HearTransactionAgrees ==
    ASSUME SyncTyped, AgreementInv, NEW n, NEW m, <<n, m>> \in Links,
           HearTransaction(n, m) \/ HearSyncResponse(n, m)
    PROVE  AgreementInv'
<1>1. PICK kind \in {"Transaction", "SyncResponse"} :
         /\ Reads(n, m, kind)
         /\ UNCHANGED <<dag, orphans, seen, inbox, peers, refused, missed>>
  BY DEF HearTransaction, HearSyncResponse, StoreSame
<1> DEFINE k == <<m, n>>
           back == <<n, m>>
<1>2. /\ wire' = Popped(n, m)
      /\ \A l \in Links : l # k => todo'[l] = todo[l]
      /\ Read(n, m) \ seen[n] \subseteq Named(todo'[k])
  <2>1. CASE HearTransaction(n, m)
    <3>1. wire' = Popped(n, m)
      BY <2>1 DEF HearTransaction
    <3>2. \A l \in Links : l # k => todo'[l] = todo[l]
      BY <2>1, HearTransactionTyped
    <3>3. Read(n, m) \ seen[n] \subseteq Named(todo'[k])
      BY <2>1, HearTransactionTyped
    <3> QED BY <3>1, <3>2, <3>3
  <2>2. CASE HearSyncResponse(n, m)
    <3>1. wire' = Popped(n, m)
      BY <2>2 DEF HearSyncResponse
    <3>2. \A l \in Links : l # k => todo'[l] = todo[l]
      BY <2>2, HearSyncResponseTyped
    <3>3. Read(n, m) \ seen[n] \subseteq Named(todo'[k])
      BY <2>2, HearSyncResponseTyped
    <3> QED BY <3>1, <3>2, <3>3
  <2> QED BY <2>1, <2>2
<1>3. n \in Nodes /\ m \in Nodes /\ k \in Links /\ back \in Links
  BY <1>1, ReadIs
<1>4. ToSet(wire[k]) = {Opened(n, m)} \cup ToSet(wire'[k])
  BY <1>1, <1>2, ReadIs
<1>5. \A l \in Links \ {k} : wire'[l] = wire[l]
  <2>1. wire = [l \in Links |-> wire[l]]
    BY DEF SyncTyped, Wires
  <2> HIDE DEF k
  <2>2. wire' = [wire EXCEPT ![k] = Tail(wire[k])]
    BY <1>2 DEF Popped, k
  <2> QED BY <2>1, <2>2
<1>6. k[2] = n
  OBVIOUS
<1>7. \A t \in Read(n, m) : Reaches(k, t)'
  <2> TAKE t \in Read(n, m)
  <2> HIDE DEF k
  <2>1. CASE t \in seen[n]
    <3>1. Held(n, t)
      BY <1>3, <2>1 DEF AgreementInv
    <3>2. Held(n, t)'
      BY <1>1, <3>1 DEF Held
    <3> QED BY <1>6, <3>2 DEF Reaches
  <2>2. CASE t \notin seen[n]
    BY <1>2, <2>2 DEF Reaches, InHand, Named
  <2> QED BY <2>1, <2>2
<1>8. kind # "GetData" /\ kind # "SyncRequest"
  OBVIOUS
<1>9. k = <<m, n>> /\ back = <<n, m>>
  OBVIOUS
<1> HIDE DEF k, back
<1> QED BY <1>1, <1>2, <1>3, <1>4, <1>5, <1>7, <1>8, <1>9, ReadStepKeeps

LEMMA HearInventoryAgrees ==
    ASSUME SyncTyped, AgreementInv, NEW n, NEW m, <<n, m>> \in Links,
           HearInventory(n, m)
    PROVE  AgreementInv'
<1>1. /\ Reads(n, m, "Inventory")
      /\ UNCHANGED <<dag, orphans, seen, inbox, peers, refused, missed, todo>>
  BY DEF HearInventory, StoreSame
<1> DEFINE k == <<m, n>>
           back == <<n, m>>
<1>2. PICK view \in Views(n) :
         Reply(n, m, IfAny("GetData", Read(n, m) \ view.txs))
  BY DEF HearInventory
<1> DEFINE ask == Read(n, m) \ view.txs
           seq == IfAny("GetData", ask)
<1>3. /\ n \in Nodes /\ m \in Nodes /\ k \in Links /\ back \in Links
      /\ k[2] = n /\ Back(k) = back
      /\ Read(n, m) \in SUBSET (Tx \cup {Root})
  BY <1>1, ReadIs DEF Back
<1>4. /\ ToSet(seq) \subseteq ToSet(wire'[back])
      /\ \A l \in Links \ {k} : ToSet(wire[l]) \subseteq ToSet(wire'[l])
      /\ ToSet(wire[k]) \subseteq ToSet(wire'[k]) \cup {Opened(n, m)}
  <2>1. seq \in Seq(Letter) /\ Reply(n, m, seq)
    BY <1>2, <1>3, AnswersAre
  <2> HIDE DEF seq
  <2> QED BY <1>1, <2>1, ReplyIs
<1>5. view.txs \subseteq dag[n].txs
  BY <1>3, ViewIs
<1>6. ask # {} => Msg("GetData", ask) \in ToSet(seq)
  <2>1. "GetData" \in Kinds /\ ask \in SUBSET (Tx \cup {Root})
    BY <1>3 DEF Kinds
  <2> HIDE DEF ask
  <2>2. Msg("GetData", ask) \in Letter
    BY <2>1, MsgIs
  <2> QED BY <2>2, IfAnyIs
<1> HIDE DEF seq
<1>7. k = <<m, n>> /\ back = <<n, m>>
  OBVIOUS
<1> HIDE DEF k, back
<1>8. ASSUME NEW t \in Read(n, m) PROVE Reaches(k, t)'
  <2>1. CASE t \in view.txs
    <3>1. Held(n, t)'
      BY <1>1, <1>5, <2>1 DEF Held
    <3> QED BY <1>3, <3>1 DEF Reaches
  <2>2. CASE t \in ask
    <3>1. Msg("GetData", ask) \in ToSet(wire'[back])
      BY <1>4, <1>6, <2>2
    <3>2. /\ Msg("GetData", ask).kind = "GetData"
          /\ t \in Msg("GetData", ask).txs
      BY <2>2 DEF Msg
    <3>3. Written(k, t)'
      BY <1>3, <3>1, <3>2 DEF Written
    <3> QED BY <3>3 DEF Reaches
  <2> QED BY <2>1, <2>2
<1> QED BY <1>1, <1>3, <1>4, <1>7, <1>8, ReadStepKeeps

LEMMA HearGetInventoryAgrees ==
    ASSUME SyncTyped, AgreementInv, NEW n, NEW m, <<n, m>> \in Links,
           HearGetInventory(n, m)
    PROVE  AgreementInv'
<1>1. /\ Reads(n, m, "GetInventory")
      /\ UNCHANGED <<dag, orphans, seen, inbox, peers, refused, missed, todo>>
  BY DEF HearGetInventory, StoreSame
<1> DEFINE k == <<m, n>>
           back == <<n, m>>
<1>2. PICK seq \in Seq(Letter) : Reply(n, m, seq)
  BY HearGetInventoryTyped
<1>3. k \in Links /\ back \in Links
  BY <1>1, ReadIs
<1>4. /\ \A l \in Links \ {k} : ToSet(wire[l]) \subseteq ToSet(wire'[l])
      /\ ToSet(wire[k]) \subseteq ToSet(wire'[k]) \cup {Opened(n, m)}
  BY <1>1, <1>2, ReplyIs
<1> DEFINE kind == "GetInventory"
<1>5. /\ k = <<m, n>> /\ back = <<n, m>>
      /\ kind \notin Gossip /\ kind # "GetData" /\ kind # "SyncRequest"
      /\ Reads(n, m, kind)
  BY <1>1 DEF Gossip
<1> HIDE DEF k, back, kind
<1> QED BY <1>1, <1>3, <1>4, <1>5, ReadStepKeeps

LEMMA HearGetDataAgrees ==
    ASSUME SyncTyped, AgreementInv, NEW n, NEW m, <<n, m>> \in Links,
           HearGetData(n, m)
    PROVE  AgreementInv'
<1>1. /\ Reads(n, m, "GetData")
      /\ UNCHANGED <<dag, orphans, seen, inbox, peers, refused, todo>>
  BY DEF HearGetData, StoreSame
<1> DEFINE k == <<m, n>>
           back == <<n, m>>
<1>2. PICK page \in Pages(Read(n, m)) : \E sent \in Finds(n, page) :
         /\ Reply(n, m, IfAny("SyncResponse", sent))
         /\ missed' = [missed EXCEPT ![m] = missed[m] \cup
                ((Read(n, m) \cap dag[n].txs) \ sent)]
  BY DEF HearGetData
<1>3. PICK sent \in Finds(n, page) :
         /\ Reply(n, m, IfAny("SyncResponse", sent))
         /\ missed' = [missed EXCEPT ![m] = missed[m] \cup
                ((Read(n, m) \cap dag[n].txs) \ sent)]
  BY <1>2
<1> DEFINE seq == IfAny("SyncResponse", sent)
<1>4. /\ n \in Nodes /\ m \in Nodes /\ k \in Links /\ back \in Links
      /\ back[2] = m
  BY <1>1, ReadIs
<1>5. /\ missed'[m] = missed[m] \cup
             ((Read(n, m) \cap dag[n].txs) \ sent)
      /\ \A b \in Nodes : b # m => missed'[b] = missed[b]
  <2>1. missed = [b \in Nodes |-> missed[b]]
    BY DEF SyncTyped
  <2> QED BY <1>3, <1>4, <2>1
<1>6. /\ ToSet(seq) \subseteq ToSet(wire'[back])
      /\ \A l \in Links \ {k} : ToSet(wire[l]) \subseteq ToSet(wire'[l])
      /\ ToSet(wire[k]) \subseteq ToSet(wire'[k]) \cup {Opened(n, m)}
  <2>1. seq \in Seq(Letter) /\ Reply(n, m, seq)
    BY <1>3, <1>4, FoundIs
  <2> HIDE DEF seq
  <2> QED BY <1>1, <2>1, ReplyIs
<1>7. sent # {} => Msg("SyncResponse", sent) \in ToSet(seq)
  <2>1. "SyncResponse" \in Kinds /\ sent \subseteq Tx
    BY <1>4, FoundIs DEF Kinds
  <2>2. Msg("SyncResponse", sent) \in Letter
    BY <2>1, MsgIs
  <2> QED BY <2>2, IfAnyIs
<1> HIDE DEF seq
<1>8. k = <<m, n>> /\ back = <<n, m>> /\ "GetData" \notin Gossip
  BY DEF Gossip
<1> HIDE DEF k, back
<1>9. ASSUME NEW t \in Read(n, m) \cap dag[n].txs PROVE Reaches(back, t)'
  <2>1. CASE t \in sent
    <3>1. Msg("SyncResponse", sent) \in ToSet(wire'[back])
      BY <1>6, <1>7, <2>1
    <3>2. /\ Msg("SyncResponse", sent).kind \in Gossip
          /\ t \in Msg("SyncResponse", sent).txs
      BY <2>1 DEF Msg, Gossip
    <3>3. Written(back, t)'
      BY <3>1, <3>2 DEF Written
    <3> QED BY <3>3 DEF Reaches
  <2>2. CASE t \notin sent
    BY <1>5, <1>4, <2>2 DEF Reaches
  <2> QED BY <2>1, <2>2
<1>10. \A b \in Nodes : missed[b] \subseteq missed'[b]
  BY <1>5
<1> QED BY <1>1, <1>4, <1>6, <1>8, <1>9, <1>10, ReadStepKeeps

LEMMA HearSyncRequestAgrees ==
    ASSUME SyncTyped, AgreementInv, NEW n, NEW m, <<n, m>> \in Links,
           HearSyncRequest(n, m)
    PROVE  AgreementInv'
<1>1. /\ Reads(n, m, "SyncRequest")
      /\ UNCHANGED <<dag, orphans, seen, inbox, peers, refused, todo>>
  BY DEF HearSyncRequest, StoreSame
<1> DEFINE k == <<m, n>>
           back == <<n, m>>
<1>2. PICK view \in Views(n) :
         /\ Reply(n, m, <<Msg("Inventory", view.txs)>>)
         /\ missed' = [missed EXCEPT ![m] =
                missed[m] \cup (dag[n].txs \ view.txs)]
  BY DEF HearSyncRequest
<1> DEFINE msg == Msg("Inventory", view.txs)
           seq == <<msg>>
<1>4. /\ n \in Nodes /\ m \in Nodes /\ k \in Links /\ back \in Links
      /\ back[2] = m
  BY <1>1, ReadIs
<1>3. /\ missed'[m] = missed[m] \cup (dag[n].txs \ view.txs)
      /\ \A b \in Nodes : b # m => missed'[b] = missed[b]
  <2>1. missed = [b \in Nodes |-> missed[b]]
    BY DEF SyncTyped
  <2> QED BY <1>2, <1>4, <2>1
<1>5. /\ ToSet(seq) \subseteq ToSet(wire'[back])
      /\ \A l \in Links \ {k} : ToSet(wire[l]) \subseteq ToSet(wire'[l])
      /\ ToSet(wire[k]) \subseteq ToSet(wire'[k]) \cup {Opened(n, m)}
  <2>1. seq \in Seq(Letter) /\ Reply(n, m, seq)
    BY <1>2, <1>4, AnswersAre
  <2> HIDE DEF seq
  <2> QED BY <1>1, <2>1, ReplyIs
<1>6. msg.kind \in Gossip /\ msg.txs = view.txs
  BY DEF Msg, Gossip
<1> HIDE DEF msg
<1>7. msg \in ToSet(seq)
  BY DEF ToSet
<1>8. k = <<m, n>> /\ back = <<n, m>> /\ "SyncRequest" \notin Gossip
  BY DEF Gossip
<1> HIDE DEF k, back, seq
<1>9. ASSUME NEW t \in dag[n].txs PROVE Reaches(back, t)'
  <2>1. CASE t \in view.txs
    <3>1. Written(back, t)'
      BY <1>5, <1>6, <1>7, <2>1 DEF Written
    <3> QED BY <3>1 DEF Reaches
  <2>2. CASE t \notin view.txs
    BY <1>3, <1>4, <2>2 DEF Reaches
  <2> QED BY <2>1, <2>2
<1>10. \A b \in Nodes : missed[b] \subseteq missed'[b]
  BY <1>3
<1> QED BY <1>1, <1>4, <1>5, <1>8, <1>9, <1>10, ReadStepKeeps

LEMMA HandAgrees ==
    ASSUME SyncTyped, AgreementInv, NEW n, NEW m, <<n, m>> \in Links,
           Hand(n, m)
    PROVE  AgreementInv'
<1> DEFINE k == <<m, n>>
<1>1. UNCHANGED <<dag, orphans, batch, peers, faults, refused, missed>>
  BY DEF Hand
<1>2. /\ n \in Nodes /\ k[2] = n
      /\ \A l \in Links : ToSet(wire[l]) \subseteq ToSet(wire'[l])
      /\ \A l \in Links : l # k => todo'[l] = todo[l]
      /\ \A b \in Nodes : b # n => seen'[b] = seen[b]
      /\ \A b \in Nodes : ToSet(inbox[b]) \subseteq ToSet(inbox'[b])
  BY HandTyped
<1>3. PICK item :
         /\ seen'[n] = seen[n] \cup {item.tx}
         /\ item.tx \in ToSet(inbox'[n])
         /\ ToSet(todo[k]) = {item} \cup ToSet(todo'[k])
  BY HandTyped
<1> HIDE DEF k
<1>4. \A b \in Nodes : \A t : Held(b, t) => Held(b, t)'
  BY <1>1, <1>2 DEF Held
<1>5. Held(n, item.tx)'
  BY <1>3 DEF Held
<1>6. \A b \in Nodes : \A t \in seen'[b] : t \in seen[b] \/ Held(b, t)'
  <2> TAKE b \in Nodes
  <2>1. CASE b = n
    BY <1>3, <1>5, <2>1
  <2>2. CASE b # n
    BY <1>2, <2>2
  <2> QED BY <2>1, <2>2
<1>7. ASSUME NEW l \in Links, NEW t, Reaches(l, t)
      PROVE  Reaches(l, t)'
  <2>1. CASE Written(l, t)
    BY <1>2, <2>1, WritingKeeps DEF Reaches
  <2>2. CASE InHand(l, t)
    <3>1. CASE l = k
      <4>1. t = item.tx \/ InHand(l, t)'
        BY <1>3, <2>2, <3>1 DEF InHand, Named
      <4> QED BY <1>2, <1>5, <3>1, <4>1 DEF Reaches
    <3>2. CASE l # k
      BY <1>2, <2>2, <3>2 DEF InHand, Reaches
    <3> QED BY <3>1, <3>2
  <2>3. CASE Held(l[2], t) \/ t \in missed[l[2]]
    BY <1>1, <1>4, <2>3, LinkPair DEF Reaches
  <2> QED BY <1>7, <2>1, <2>2, <2>3 DEF Reaches
<1>8. \A l \in Links : Asked(l) => Asked(l)'
  BY <1>2, WritingKeeps
<1> QED BY <1>1, <1>4, <1>6, <1>7, <1>8, AgreementKept

\* A new handler asks for the whole inventory of its peer.
LEMMA GreetAgrees ==
    ASSUME SyncTyped, AgreementInv, NEW n, NEW m, <<n, m>> \in Links,
           Greet(n, m)
    PROVE  AgreementInv'
<1> DEFINE k == <<m, n>>
           back == <<n, m>>
<1>1. /\ peers' = [peers EXCEPT ![n] = peers[n] \cup {m}]
      /\ UNCHANGED <<dag, orphans, batch, seen, inbox, todo, refused, missed>>
  BY DEF Greet
<1>2. /\ n \in Nodes /\ m \in Nodes
      /\ \A l \in Links : ToSet(wire[l]) \subseteq ToSet(wire'[l])
      /\ \E msg \in ToSet(wire'[back]) : msg.kind = "SyncRequest"
  BY GreetTyped
<1>3. \A l \in Links : l = <<l[1], l[2]>> /\ l[1] \in Nodes /\ l[2] \in Nodes
  BY LinkPair
<1>4. /\ \A b \in Nodes : b # n => peers'[b] = peers[b]
      /\ peers'[n] = peers[n] \cup {m}
  BY <1>1, <1>2 DEF SyncTyped
<1>5. \A b \in Nodes : \A t \in seen'[b] : Held(b, t)'
  BY <1>1 DEF AgreementInv, Held
<1>6. ASSUME NEW l \in Links, l[1] \in peers'[l[2]]
      PROVE  \/ Asked(l)'
             \/ /\ l[2] \in peers'[l[1]]
                /\ \A t \in dag'[l[1]].txs : Reaches(l, t)'
  <2>1. CASE l[1] \in peers[l[2]]
    <3>1. Asked(l) => Asked(l)'
      BY <1>2, WritingKeeps
    <3>2. ASSUME NEW t, Reaches(l, t) PROVE Reaches(l, t)'
      <4>1. Written(l, t) => Written(l, t)'
        BY <1>2, WritingKeeps
      <4>2. Held(l[2], t) => Held(l[2], t)'
        BY <1>1 DEF Held
      <4> QED BY <1>1, <3>2, <4>1, <4>2 DEF Reaches, InHand
    <3>3. l[2] \in peers[l[1]] => l[2] \in peers'[l[1]]
      BY <1>3, <1>4
    <3> QED BY <1>1, <2>1, <3>1, <3>2, <3>3 DEF AgreementInv
  <2>2. CASE l[1] \notin peers[l[2]]
    <3>1. l[2] = n /\ l[1] = m
      BY <1>3, <1>4, <1>6, <2>2
    <3>2. Back(l) = back
      BY <3>1 DEF Back
    <3> QED BY <1>2, <3>2 DEF Asked
  <2> QED BY <2>1, <2>2
<1> QED BY <1>5, <1>6 DEF AgreementInv

\* With the connection both handlers end.
LEMMA CutAgrees ==
    ASSUME SyncTyped, AgreementInv, NEW n, NEW m, <<n, m>> \in Links,
           Cut(n, m)
    PROVE  AgreementInv'
<1>1. /\ UNCHANGED <<dag, orphans, batch, seen, inbox, todo, refused, missed>>
      /\ m \notin peers'[n] /\ n \notin peers'[m]
      /\ \A a, b \in Nodes : {a, b} # {n, m} =>
            (a \in peers'[b] <=> a \in peers[b])
      /\ \A l \in Links : {l[1], l[2]} # {n, m} => wire'[l] = wire[l]
  BY CutTyped
<1>2. \A b \in Nodes : \A t \in seen'[b] : Held(b, t)'
  BY <1>1 DEF AgreementInv, Held
<1>3. ASSUME NEW l \in Links, l[1] \in peers'[l[2]]
      PROVE  \/ Asked(l)'
             \/ /\ l[2] \in peers'[l[1]]
                /\ \A t \in dag'[l[1]].txs : Reaches(l, t)'
  <2>1. l[1] \in Nodes /\ l[2] \in Nodes /\ Back(l) \in Links
    BY LinkPair DEF Back
  <2>2. {l[1], l[2]} # {n, m}
    <3>1. ~(l[1] = m /\ l[2] = n) /\ ~(l[1] = n /\ l[2] = m)
      BY <1>1, <1>3
    <3> QED BY <3>1
  <2>3. {l[2], l[1]} # {n, m}
    <3>1. {l[2], l[1]} = {l[1], l[2]}
      OBVIOUS
    <3> QED BY <2>2, <3>1
  <2>4. /\ l[1] \in peers[l[2]]
        /\ l[2] \in peers'[l[1]] <=> l[2] \in peers[l[1]]
    BY <1>1, <1>3, <2>1, <2>2, <2>3
  <2>5. wire'[l] = wire[l] /\ wire'[Back(l)] = wire[Back(l)]
    <3>1. Back(l)[1] = l[2] /\ Back(l)[2] = l[1]
      BY DEF Back
    <3> QED BY <1>1, <2>1, <2>2, <2>3, <3>1
  <2>6. Asked(l) => Asked(l)'
    BY <2>5 DEF Asked
  <2>7. \A t : Reaches(l, t) => Reaches(l, t)'
    BY <1>1, <2>5 DEF Reaches, Written, InHand, Held
  <2> QED BY <1>1, <2>4, <2>6, <2>7 DEF AgreementInv
<1> QED BY <1>2, <1>3 DEF AgreementInv

LEMMA StepAgrees ==
    SyncTyped /\ AgreementInv /\ [SyncNext]_syncVars => AgreementInv'
<1> SUFFICES ASSUME SyncTyped, AgreementInv, [SyncNext]_syncVars
             PROVE  AgreementInv'
  OBVIOUS
<1>1. CASE UNCHANGED syncVars
  <2>1. UNCHANGED <<dag, orphans, seen, inbox, peers, wire, todo, refused,
                    missed>>
    BY <1>1 DEF syncVars
  <2> QED BY <2>1 DEF AgreementInv, Asked, Reaches, Written, InHand, Held
<1>2. ASSUME NEW n \in Nodes,
             Work(n) \/ \E t \in Tx : Submit(n, t) \/ Forget(n, t)
      PROVE  AgreementInv'
  BY <1>2, WakeAgrees, ReceiveAgrees, ResubmitAgrees, SubmitAgrees,
     ForgetAgrees DEF Work
<1>3. ASSUME NEW l \in Links, Converse(l[1], l[2]) \/ Cut(l[1], l[2])
      PROVE  AgreementInv'
  <2> DEFINE n == l[1]
             m == l[2]
  <2>1. <<n, m>> \in Links /\ (Converse(n, m) \/ Cut(n, m))
    BY <1>3, LinkPair
  <2> HIDE DEF n, m
  <2> QED BY <2>1, GreetAgrees, HearTransactionAgrees, HearInventoryAgrees,
             HearGetInventoryAgrees, HearGetDataAgrees, HearSyncRequestAgrees,
             HandAgrees, CutAgrees DEF Converse
<1> QED BY <1>1, <1>2, <1>3 DEF SyncNext

LEMMA AgreementEnough == AgreementInv => QuietAgreement
<1> SUFFICES ASSUME AgreementInv, Quiet,
                    NEW l \in Links, Connected(l[1], l[2]),
                    NEW t \in dag[l[1]].txs \ dag[l[2]].txs
             PROVE  t \in orphans[l[2]] \cup refused[l[2]] \cup missed[l[2]]
  BY DEF QuietAgreement
<1>1. Back(l) \in Links /\ l[2] \in Nodes
  BY LinkPair DEF Back
<1>2. /\ ToSet(wire[l]) = {} /\ ToSet(wire[Back(l)]) = {}
      /\ ToSet(todo[l]) = {} /\ ToSet(inbox[l[2]]) = {}
  BY <1>1 DEF Quiet, ToSet
<1>3. ~Asked(l)
  BY <1>2 DEF Asked
<1>4. Reaches(l, t)
  BY <1>3 DEF AgreementInv, Connected
<1>5. ~Written(l, t) /\ ~InHand(l, t)
  BY <1>2 DEF Written, InHand, Named
<1> QED BY <1>2, <1>4, <1>5 DEF Reaches, Held

\* Whatever gossip, requests, cuts and the cache do, when nothing is under way
\* two connected nodes differ only in what was put before the one that lacks
\* it, or was kept back by a page or a busy lock.
THEOREM AgreementCorrect == SyncSpec => []QuietAgreement
<1>1. SyncInit => SyncTyped /\ AgreementInv
  BY InitTyped, InitAgrees
<1>2. SyncTyped /\ AgreementInv /\ [SyncNext]_syncVars
      => (SyncTyped /\ AgreementInv)'
  BY StepTyped, StepAgrees
<1>3. SyncTyped /\ AgreementInv => QuietAgreement
  BY AgreementEnough
<1> QED BY <1>1, <1>2, <1>3, PTL DEF SyncSpec
=============================================================================
