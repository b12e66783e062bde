-------------------------------- MODULE Node --------------------------------
(***************************************************************************)
(* What a node is started with, as far as the abc pallet depends on it:    *)
(* the genesis of the two chain specifications (src/node/src/              *)
(* chain_spec.rs), and from the command line (command.rs) and the service  *)
(* (service.rs) whether the node runs offchain workers, which keys they    *)
(* sign with and whether it authors blocks.  An account, and every key of  *)
(* it, is named by its seed.                                               *)
(***************************************************************************)

NoSeed == "no seed"

-----------------------------------------------------------------------------
(* Genesis.                                                                *)

\* The parts of the genesis that errands depend on.
testnet_genesis(initial_authorities, endowed_accounts, dev_mode, accounts) ==
    [authorities |-> initial_authorities,
     endowed |-> endowed_accounts,
     development_mode |-> dev_mode,
     update_result_accounts |-> accounts]

development_config ==
    testnet_genesis({"Alice"},
                    {"Alice", "Bob", "Alice//stash", "Bob//stash"},
                    TRUE, {"Alice"})

local_testnet_config ==
    LET people == {"Alice", "Bob", "Charlie", "Dave", "Jzh", "Eve", "Ferdie"}
        stashes == {"Alice//stash", "Bob//stash", "Charlie//stash",
                    "Dave//stash", "Eve//stash", "Ferdie//stash", "Jzh//stash"}
    IN  testnet_genesis({"Alice", "Bob"}, people \cup stashes,
                        FALSE, {"Alice", "Bob", "Charlie", "Dave"})

\* The chain a node is started with; a specification read from a file is
\* somebody else's genesis.
load_spec(id) ==
    CASE id = "dev" -> development_config
      [] id \in {"", "local"} -> local_testnet_config

-----------------------------------------------------------------------------
(* Start-up.  A configuration has a role, says whether offchain workers    *)
(* run, and may have the seed of a well-known account (--alice).           *)

Configuration(seeds) ==
    [role : {"Light", "Full", "Authority"},
     offchain_worker : BOOLEAN,
     dev_key_seed : seeds \cup {NoSeed}]

\* Seeded fault: no key for the pallet is put into the keystore.
dev_keys_missing(config) == {}

\* The keys the workers sign with.
dev_keys(config) ==
    IF config.dev_key_seed = NoSeed THEN {} ELSE {config.dev_key_seed}

new_full(config) ==
    [workers |-> config.offchain_worker,
     keys |-> dev_keys(config),
     aura |-> config.role = "Authority"]

\* A light node has no keys of the pallet and never authors.
new_light(config) ==
    [workers |-> config.offchain_worker, keys |-> {}, aura |-> FALSE]

run(config) ==
    IF config.role = "Light" THEN new_light(config) ELSE new_full(config)

\* Aura, external: the node authors in the slots of its seed's authority.
authors(config, genesis) ==
    /\ run(config).aura
    /\ config.dev_key_seed \in genesis.authorities

=============================================================================
