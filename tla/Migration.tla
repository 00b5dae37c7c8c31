------------------------------ MODULE Migration -----------------------------
(***************************************************************************)
(* The first boots of a node that has dag.json and ledger.json from before *)
(* Sled: needs_migration and migrate_from_json of src/storage.rs, then the *)
(* genesis check of src/node.rs.  Every put is a step, Sled keeps a prefix *)
(* of them, and the node may stop between any two, be it killed or because *)
(* a put failed or a file did not parse: the error ends the boot.          *)
(***************************************************************************)
EXTENDS Naturals, FiniteSets

CONSTANTS
    LegacyTxs,      \* the transactions of dag.json
    LegacyBal,      \* the balances of ledger.json: [accounts -> coins]
    GenesisCoins,   \* the genesis allocation: [accounts -> coins]
    MaxStops        \* bound of the model: boots and nodes that are stopped

MigrationAssumption ==
    /\ LegacyBal \in [DOMAIN LegacyBal -> Nat]
    /\ GenesisCoins \in [DOMAIN GenesisCoins -> Nat \ {0}]
    /\ MaxStops \in Nat

ASSUME MigrationAssumption

VARIABLES
    stage,      \* "off", "migrating", "genesis", "serving"
    trees,      \* Sled's transactions and balances (only those that were put)
    json,       \* the transactions of dag.json
    stops       \* how often the node was stopped

migrationVars == <<stage, trees, json, stops>>

MigrationInit ==
    /\ stage = "off"
    /\ trees = [txs |-> {}, bal |-> << >>]
    /\ json = LegacyTxs
    /\ stops = 0

-----------------------------------------------------------------------------
Enters(from, to) == stage = from /\ stage' = to

PutBalance(a, coins) ==
    trees' = [trees EXCEPT !.bal =
        [b \in DOMAIN @ \cup {a} |-> IF b = a THEN coins ELSE @[b]]]

\* needs_migration: Sled holds neither a transaction nor a balance.
NeedsMigration == trees.txs = {} /\ DOMAIN trees.bal = {}

StartBoot ==
    /\ Enters("off", IF NeedsMigration THEN "migrating" ELSE "genesis")
    /\ UNCHANGED <<trees, json, stops>>

MigrateTransaction ==
    /\ stage = "migrating"
    /\ \E t \in json \ trees.txs : trees' = [trees EXCEPT !.txs = @ \cup {t}]
    /\ UNCHANGED <<stage, json, stops>>

\* Mutant: the balances go first, or in between.
TransactionsMigratedNot == TRUE

TransactionsMigrated == json \subseteq trees.txs

MigrateBalance ==
    /\ stage = "migrating" /\ TransactionsMigrated
    /\ \E a \in DOMAIN LegacyBal \ DOMAIN trees.bal : PutBalance(a, LegacyBal[a])
    /\ UNCHANGED <<stage, json, stops>>

\* The mark "migration_complete" that is put here is read by nobody.
EndMigration ==
    /\ Enters("migrating", "genesis")
    /\ TransactionsMigrated /\ DOMAIN LegacyBal \subseteq DOMAIN trees.bal
    /\ UNCHANGED <<trees, json, stops>>

\* The genesis accounts that hold nothing, or have no entry.
Unendowed ==
    {a \in DOMAIN GenesisCoins :
        a \in DOMAIN trees.bal => trees.bal[a] = 0}

Endow ==
    /\ stage = "genesis"
    /\ \E a \in Unendowed : PutBalance(a, GenesisCoins[a])
    /\ UNCHANGED <<stage, json, stops>>

Serve ==
    /\ Enters("genesis", "serving")
    /\ Unendowed = {}
    /\ UNCHANGED <<trees, json, stops>>

\* The periodic save_dag_to_json replaces the file.
SaveDag ==
    /\ stage = "serving"
    /\ json' = trees.txs
    /\ UNCHANGED <<stage, trees, stops>>

Stop ==
    /\ stage # "off" /\ stage' = "off"
    /\ stops < MaxStops /\ stops' = stops + 1
    /\ UNCHANGED <<trees, json>>

MigrationNext ==
    \/ StartBoot \/ MigrateTransaction \/ MigrateBalance \/ EndMigration
    \/ Endow \/ Serve \/ SaveDag \/ Stop

MigrationSpec == MigrationInit /\ [][MigrationNext]_migrationVars

-----------------------------------------------------------------------------
\* The accounts whose coins came out of ledger.json and not out of genesis.
OldCoins ==
    {a \in DOMAIN trees.bal :
        a \in DOMAIN GenesisCoins => trees.bal[a] # GenesisCoins[a]}

\* The old history reaches Sled before the old coins do.  A migration that is
\* stopped is not taken up again (storage.rs:375 sees the data it left), and
\* the save of dag.json then replaces what was not migrated; but a node with old
\* coins has the whole history they come from, and one that was never stopped
\* serves all of both.
HistoryBeforeCoins ==
    /\ OldCoins # {} => LegacyTxs \subseteq trees.txs
    /\ (stage = "serving" /\ stops = 0) =>
           /\ trees.txs = LegacyTxs
           /\ \A a \in DOMAIN LegacyBal :
                 IF LegacyBal[a] = 0 /\ a \in DOMAIN GenesisCoins
                 THEN trees.bal[a] = GenesisCoins[a]
                 ELSE trees.bal[a] = LegacyBal[a]
=============================================================================
