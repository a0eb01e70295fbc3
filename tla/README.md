# Ivory, verified

Ivory is a permissioned ledger: one validator, named in `genesis.json`, seals
blocks; followers import them. This directory holds TLA+ models of the node,
the TLC configurations that check them on small instances, and TLAPS proofs of
what matters most.

All source paths below are relative to `src/`.

## The system

A node (`bin/ivory/src/node.rs`) is one process with several tokio tasks on
shared structures:

- the **RPC server** (`crates/ivory-rpc`) admits transactions to the mempool
  and reads the live state and the block store;
- the **import task** takes blocks and transactions from gossip
  (`crates/ivory-network`), imports blocks (`crates/ivory-chain/src/apply.rs`),
  keeps orphans and asks for missing parents;
- the **producer task**, on the validator only, ticks every
  `block_interval_ms`, builds a block from the mempool (`producer.rs`), and
  imports it like any other block.

They share the **mempool** (`crates/ivory-txpool`, three `DashMap`s without a
common lock), the **block store** (`crates/ivory-chain/src/store.rs`, one
`RwLock` per field), the **live state** (`crates/ivory-state`, three locked
maps) and the **database** (`bin/ivory/src/persist.rs` on RocksDB, without
write batches). Nothing else orders the tasks, and that is where most of what
can go wrong comes from; the rest comes from crashes between two writes and
from errors in the middle of an execution.

Inventory, with the module that models each part:

| part | source | module |
|---|---|---|
| mempool, calls one after another | `ivory-txpool/src/pool.rs` | `TxPool` |
| mempool, map operation by map operation | the same | `TxPoolTasks` |
| blocks, fork choice, parent walks | `ivory-chain/src/store.rs`, `ivory-core/src/block.rs` | `BlockTree` |
| store, import, live state, reinjection | `store.rs`, `apply.rs` | `Chain` |
| import and pruning, lock by lock | the same, `state.rs` | `ChainTasks` |
| database, crash, restart | `persist.rs`, `node.rs` | `Persist` |
| execution of a transaction, gas, VM calls | `ivory-executor`, `ivory-vm` | `Executor` |
| block production, restart of the pool | `producer.rs`, `node.rs` | `Producer` |
| accounts, storage, code, state root | `ivory-state/src/state.rs` | `StateDB` |
| trie, proofs | `ivory-state/src/trie.rs` | `Trie` |
| seals, header and body checks | `ivory-consensus`, `ivory-core/src/block.rs` | `Seals` |
| orphans, block requests, gossip, connections | `node.rs`, `ivory-network` | `Sync` |
| RPC reads during an import, WebSocket sessions, deploy | `ivory-rpc`, `node.rs`, `bin/ivory/src/deploy.rs` | `Service` |
| RPC dispatch, logs, tokens, counters | `ivory-rpc` | `Rpc` |
| light client, header objects | `tools/ivory-light`, `ivory-rpc/src/handler.rs` | `Light` |
| U256; hashes, addresses, hex | `ivory-primitives` | `Uint`, `FixedBytes` |
| envelopes and transactions in Rust and Python | `ivory-core/src/quant.rs`, `ivory-crypto/src/tx.rs`, `sdk/python` | `Codec` |
| data directory, entrypoint, server address, project files | `config.rs`, `deploy/docker-entrypoint.sh`, `tools/ivory-dev` | `Settings` |
| contract packages, installation, catalog | `bin/ivory/src/contract.rs` | `Packages` |
| formatting, command lines, charts, panel, benchmarks | the rest | left out |

`PROJECT.json` lists every component with its status, every hazard with the
line where it bites, and the source lines of every definition.

## Modules and code

**TxPool.** The state is one record `pool`: `pending` (the keys of the map),
`nextNonce`, `perSender`. `AddTransaction` and `RemoveTransaction` (`remove`)
are pure operators, so that `Chain` and `Producer` apply the same definitions;
`Add`, `Take`, `DropPending` and `Clear` are the calls. Whether the gas limit and
the signature pass is the constant `Verified`. `admitted` is a history variable.

**TxPoolTasks.** `add_transaction_at` and `remove` hold no lock from one
`DashMap` operation to the next, so each operation is a step of a task with a
program counter, and locals are kept in `tx` and `count`. `DashMap::len` is one
read. The variable `active`, chosen initially, says which tasks use the pool:
one alone (`Alone`) or several. For a task alone the module refines `TxPool`
(`AtomicPool`): a call takes effect with its last step, and the mapping hides
its earlier effects.

**BlockTree.** A hash identifies a header for ever, so blocks are constants: a
universe `Block` with `Parent`, `Number`, `StateRoot` and the body `TxsOf` that
the header commits to. Bad blocks are members of the universe. Execution is the
constant operator `Execute`, and a body that does not match its roots never
passes `BodyPasses`. `Better` is the fork choice, `PathTo` the parent walk of
`chain_from` and `rebuild_canonical`, `PostState` the trial execution of an
import.

**Chain.** One node, one call per step: `Import` is the whole of
`import_and_apply` with `apply_head_change`; `PruneSnapshots` and
`PruneSnapshotsKeep` are the two arms of `prune_store`; `Submit` is a
transaction from RPC or gossip. An import that fails changes nothing and is not
a step.

**ChainTasks.** The same import as the sequence of its lock acquisitions,
`insert_validated` to `prune_snapshots`, run by one or two tasks (`active`
again). `reset_from` is three steps, and the scan of `rebuild_tx_index` one step
for each height up to the tip it read; a height that `by_number` no longer has
is passed over. Parent walks read immutable blocks and are
part of the step that uses them. The mempool is left to `TxPoolTasks`, pruned
nodes to `Chain`.

**Persist.** The database is a map from keys to values. `PersistCanonical`
computes the list of writes of `persist_canonical` in order, `Write` makes one,
`WriteFails` drops the rest as the code does (the error is only logged), `Crash`
can come anywhere. `StartFresh` and `StartFromDisk` are the start of
`run_node`: `ChainLoads` is what `load_into` demands, `Replayed` the replay
without a snapshot, `Starts` says that no error ends the start. The module
extends `Chain`, whose variables are the node in memory: `ImportBlock` is
`Chain`'s `Import` followed by persisting, and `Persisted` and `WriteFails` end
with its pruning (`PruneStore`). `NodeInit`, `NodeNext` and `NodeSpec` are the
specification of the whole node. A power failure that loses the end of RocksDB's
log leaves a shorter prefix of the writes, which is the same as an earlier
crash. Every start may find other values of `archive` and `archive_keep`. Two
history variables remember what the code does not: `thinned`, that a change of
these values made the node write a stripped body in the place of a block, and
`guessed`, that a start replayed stripped bodies because the head's snapshot was
missing. Trie nodes are not modelled since the reload never reads them.

**Executor.** `execute_transaction` as an operator that returns the state it
leaves, whether it returned `Ok`, and the gas used. Errors before the first
write are `Refused`; later errors return the state as it then is, because the
code does not undo anything. A contract is an abstract program: it burns fuel,
may write its only slot, and may then trap; it does not depend on calldata or
on its slot. `Simulate` is `simulate`, which serves `eth_call` and
`eth_estimateGas`. Balances are bounded by `MaxU256`, gas and nonces are not bounded
(`u64` saturation is out of reach of any funded account).

**Producer.** `Tick` is one tick of the producer task: `GetPending` chooses any
`max_txs` pending transactions (map order), `ProduceBlock` executes them by
sender and nonce, `Imports` is what `import_and_apply` and `Block::validate`
demand of the result, and the new head cleans the pool. A block that is not
imported is dropped, and the tick changes nothing. `Restart` empties the pool.
The chain is kept as its list of receipts, so blocks without transactions are
invisible; there is one validator, so there are no forks.

**Sync.** A master and its followers. The chain is a line, so a block is its
height; forks are the business of `Chain`. `Handle` is one event of an import
task: a header, a request, a body that is imported with the orphans that follow
it, kept as an orphan, or refused. `publish` without peers succeeds and sends
nothing, which is `Publish` over an empty set of peers. The wire is a set:
delivery is in any order, and since the default message id of gossipsub is
source and sequence number, every publication counts for itself, but two equal
ones in flight are one. `Disconnect` loses what is on the connection or lets it
be handled later. `Restart` drops a follower's orphans and reloads what was
saved: a save that failed is only logged, so the chain on disk may end below the
head that the node had, and a snapshot that pruning dropped from memory before
it was saved is not there (`states`, `loaded`, `SavedWith`). A follower dials
when it starts and never again, as in the code. A pruned node
answers for old blocks with bare bodies. A bare body never imports, since a
block with transactions has another root. `announced` is a history variable.

**Service.** What clients see while one task imports. `InsertBlock` to
`SendLogs` are the accesses of `import_and_apply` and of the events after it,
one step for each lock. A request of kind `latest` is `fork`, map by map;
`number` is `state_for_tag` with its two lookups; `transaction` is
`get_transaction_by_hash`. The session has the receiver's position `rx` in all
that was ever sent; a receiver that is more than `Capacity` behind skips to the
oldest event left. `deploy` reads the nonce, signs, sends and polls. `acks`,
`lost`, `told`, `floor` and `runs` are what the clients remember. `clients`
picks two of the three clients for a behaviour, to keep the run small; the
proofs do not depend on it.

**Uint, FixedBytes.** `U256` limb by limb, with limbs of `W` bits instead of 64
and two-bit bytes of two one-bit hex digits. All carries, spills and boundary
cases of the code exist at that width. `Val` is the integer a value stands for.
A hex text is a sequence of prefixes and its digits, because the parsers differ
in what they strip: one `0x` or `0X`, one `0x` only, or all of them.

**Trie, StateDB.** The Patricia trie with `prove` and `verify`, its hash taken
to be injective, and the state's maps. The roots of `StateDB` are the maps they
commit to; `RootsCommit` on `Trie` is what justifies that.

**Seals, Light.** `seal_header`, `validate_header` with its seals one by one,
`Block::validate`; and the light client, which reads headers as the RPC server
writes them and links each to the one before. Signatures are pairs of key and
message. Like the code, the light client asks for the presence of a seal only.

**Codec.** One byte format in two languages. The Rust side follows bincode as
the node uses it, the Python side `codec.py` with its slices that never fail.

**Rpc.** The parts of the server that compute something from one state: block
ids and ranges, the log scan, the gas of calls, dispatch and its counters on
both binds and both transports, the bearer token, the histogram. The bounds of a
log filter are JSON values, which `parse_block_id` reads.

**Settings.** The files that `docker-entrypoint.sh` and `ivory init` write, in
order and cut off after any step or inside a write, and what the next start
makes of them. `fs::write`, `cat >` and `cp` truncate first, so a write cut off
leaves an empty file; `upsert_toml` renames a finished one, or appends. The
configuration is a map from the keys that are there. How `ivory-dev` and the SDK
find their server, key and project: an address is a name with slashes and blanks
after it, as that is what the two strip in different order.

**Packages.** A file system of manifests and code, `load_contract_file` with
its recursion, `install_contract_files` and `load_catalog` for every order in
which a directory may be listed.

Modules `MC...` give the constants their values for the configurations of the
same name; `MCBlockTree` draws the block tree used by three of them,
`MCAlgorithms` enumerates the inputs of the sequential modules, among them any
calls of the mempool with the constants of `MCTxPool`. `Sync` and
`Service` need no such module. Operators that stand directly before a
definition and have a name like `AdmissibleWithGap` are faulty variants of it:
each property of a passing run is violated when one of them takes the
definition's place.

## Runs

Passing:

| run | configuration | states | what it shows |
|---|---|---|---|
| `pool_tasks` | `MCTxPoolTasks.cfg` | 469,255 | a lone task implements `TxPool`; two tasks overshoot `max_pending` by at most one |
| `chain` | `MCChain.cfg` | 1,040 | imports in any order, reorganisations, pruning: head, both indexes, snapshots, live state and pool agree |
| `import_tasks` | `MCChainTasks.cfg` | 348,485 | two racing imports: readers never find a dangling hash, `by_number` is always one whole chain; a lone task leaves everything settled |
| `restart` | `MCPersist.cfg` | 72,554 | crash or failed write anywhere, `archive` switched between starts: a confirmed head is never lost, a confirmed write restarts exactly, a node, pruned or not, runs on the state its chain leads to unless a start replayed stripped bodies |
| `produce` | `MCProducer.cfg` | 14,232 | supply is conserved, no transaction runs twice, block gas is bounded, own blocks import, pool nonces follow the accounts, gas estimates are exact, executable transactions get in |
| `sync` | `MCSync.cfg` | 352,725 | reordered and lost messages, restarts from what was saved, pruned nodes: an orphan is always waiting for a parent, the walk back from an announced block never comes to a halt, a follower gets level with what was published to its connection |
| `service` | `MCService.cfg` | 694,461 | clients during imports: what a client was told of it finds, accepted transactions never vanish, notifications are complete but for what the channel drops, repeated deployments do not collide, heads are heard of |
| `algorithms` | `MCAlgorithms.cfg` | 244,022 | any pool calls one after another: exact counts, strict nonces, both limits; pure functions against reference definitions: arithmetic, conversions, tries, state roots, seals, light client, encodings, RPC answers, settings, packages |

Violated, each by something the code does against what is written about it;
`PROJECT.json` quotes the lines:

| run | property | what happens |
|---|---|---|
| `chain_dropped_tx` | `DroppedTxsReturn` | a reorganisation does not return to the pool a transaction that the pool had admitted before, although the new head could execute it |
| `restart_torn` | `RestartReloads` | a crash between the head key and the height index leaves a database the node refuses |
| `produce_trap` | `FailedTxsSkipped` | a trapping call spoils the state root of the block that skips it; the validator refuses its own block, at every tick |
| `restart_nonce` | `AccountNonceAccepted` | after a restart the pool expects nonce 0 again |

More things that the models exhibit are in no run. Of these nothing written
about the code says the opposite: two racing submissions of one sender get in
with one nonce and lose a count (`TxPoolTasks`); with two importing tasks the
slower one can put a worse head back, and pruning can drop the snapshot of a
head that the other has just set (`ChainTasks`); a pruned node without a head
snapshot replays stripped bodies and starts with another state, and a node
switched back to `archive = true` writes stripped bodies as full ones
(`Persist`, where `guessed` and `thinned` record it); on a truncated envelope
the SDK returns short fields where the node reports an error (`Codec`). The
passing properties are stated so that they do not claim the opposite, and the
hazards of `PROJECT.json` say so.

Where a document and the code disagree on a detail of a sequential module, the
passing property states what the code does, exactly:

- `docs/rpc.md:39` says that `eth_getLogs` "Errors if the range exceeds 1000
  blocks". The code bounds the difference of the heights, so a range of 1001
  blocks is answered and one of 1002 is refused (`LogsExact`, where `ScanMax`
  stands for 1000 and both sides of the limit occur).
- `docs/deploy.md:102` offers an "Optional master key Secret (skips generating a
  new key on first boot)". With the key alone, `ivory init` still generates a
  key and writes the genesis for it before the Secret's key is copied over: the
  master then never produces (`RolesAgree`: a master produces exactly when it is
  handed neither file, or both of the same validator).
- A container cut off inside the write of `config.toml` finds the empty file at
  every later start, takes it for a configuration, adds the keys it upserts, and
  never loads, since `chain_id` and `block_interval_ms` have no default
  (`RestartConfigures`, which holds for every other place of the cut).
- `ivory-dev` and the SDK find the same server but for an `IVORY_RPC_URL` with
  blanks around it, which only the SDK trims, and an `IVORY_PUBLIC_RPC` of
  slashes alone, which only `ivory-dev` refuses (`ResolversAgree`).
- `ivory deploy` reads `0x0x1` as 1 and an empty text as 0; the light client,
  `ivory-dev` and the RPC server refuse both. On texts with digits and at most
  one prefix the parsers agree (`QuantitiesReadBack`).

The hypotheses of the remaining sequential properties are worth knowing too. The
entrypoint takes a padded role for `master`, and a start cut off between `init`
and the writing of the configuration keeps the defaults of `init` for what is
written only once (`RolesAgree`, `RestartConfigures`); with more than one seal
required no block that `seal_header` makes is valid (`SealedValidates`); an
installed manifest is only named when its source has its own stem
(`InstalledIsNamed`). A receipt is visible before the accounts are replaced, so
a deploy right after another may read the old nonce: it is refused, never
doubled (`DeploysDistinct`).

Bounds. Two senders suffice for every pool property, since each concerns one
sender or the total; rivals for a nonce, an unverified transaction, and limits
below the number of transactions make every refusal happen. The block tree has
two branches that overtake each other twice, once by height and once by hash,
and six blocks that must be refused for six reasons; pruning windows 0, 1 and 2
cover the saturation, the head alone, and a window inside the chain. Two tasks
show every race between the only two tasks that import. The database runs keep
one body, or all. In `produce`, accounts 1 and 2 send, and can create one
contract that traps and one that writes; the block gas, the genesis gas limit
and the number of transactions taken are all small enough to be hit, and both
senders begin with the largest balance there is, so that a payment to the other
can overflow. `MaxPending` bounds the pool, the finite set `Tx` the length of the chain.
In `sync` one follower and three blocks are enough for two missing parents in a
row, for orphans that arrive before, between and after their parents, and for a
window of one block; `MaxFaults` allows one restart or lost connection, and the
proofs cover any number of followers and faults. In `service` the channel holds
two events while two blocks and their transactions send up to six, so that
receivers lag; two runs of deploy, one poll each, can time out, overlap with an
import and follow each other at once. In `algorithms`, limbs of four bits take
their smallest and largest values, tries have up to three pairs with one key a
prefix of another, headers up to two seals, and texts every length up to beyond
a hash.

Deadlock is checked except in the `Persist` runs, where a database that does
not load stops the node for good (this is what `restart_torn` is about), and in
`sync` and `service`, where a chain of bounded length comes to rest.

Fairness. In `Producer`, the interval timer of the producer task fires again
and again, so a tick that can change something is not put off for ever. The
formula `Fairness` is `WF_vars(Tick)` with the enabling condition written out
as `CanTick`, because TLC evaluates `ENABLED` of this action very slowly; that
`CanTick` and `ENABLED <<Tick>>_vars` agree was checked as an invariant on a
smaller instance. In `Sync`, an import task takes every event that reaches it,
so each body and each request in flight is handled or lost with its connection
(headers need no such assumption: the body follows), and a dial succeeds or
fails. In `Service`, the import task goes on to the end of a block, and a
session whose client stays takes what the channel holds. Nothing is assumed of
clients, restarts, or the production of further blocks.

What `CatchesUp` leaves open: it speaks of what was published to a connection
that holds, and of networks without pruned nodes. A follower that has lost its
connection stays behind until it is restarted, and one that has just joined
until the next block is produced, since nothing announces the head to a new
peer. A bare body from a pruned node takes the place of a full orphan with the
same hash, and then nothing asks for the full one again.

What `ReadyTxIncluded` leaves open: it claims inclusion only while the pool
fits into one block and no transaction in it spoils the block. Since `Tx` is
finite, it does not show that a sender with a high address is never overtaken
for ever by new transactions of lower addresses; in the code that costs the
others gas, which is burned.

## Proofs

Type invariants are not listed in the runs; `TxPool`, `Chain` and `Sync` have
theirs as part of an inductive invariant that is proved.

All theorems hold for every value of the constants that satisfies the named
assumptions (`TxPoolAssumption`, `TasksAssumption`, `BlockTreeAssumption`,
`ChainAssumption`, `ConfigsAssumption`, `ChainTasksAssumption`, those of `Sync`, `Service`,
`Executor` and `Producer`), which TLC evaluates on the instances of the runs.
They say what types the constants have, that there are finitely many addresses
(20 bytes), transactions of a pool and tasks, and little else. The library's
induction theorems cannot be used by the provers at hand, so loops over a
sequence or a chain are reasoned about through a set: the lengths up to which
a loop has the property contain 0 and are closed under successor
(`SetInduction`), which is a statement about sets and not about operators. For
that the loops of the code are written as recursive functions.

- `TxPoolProofs`: `TypeOKAlways`, `PerSenderExactAlways`, `StrictNoncesAlways`,
  `WithinLimitsAlways`. The inductive invariant adds to the properties that the
  pending set is finite, that counts are exact and within the limits, and that
  the admitted nonces of a sender are those below `nextNonce`. Each pool
  operator is shown to preserve `Sound` in a lemma of its own, and so are the
  two loops of `apply_head_change`, so that modules that apply the operators
  can cite it.
- `TxPoolTasksProofs`: `PendingOvershootAlways`, for any number of tasks. The
  overshoot bound alone is not inductive, because a task between the check of
  `pending.len()` and its insertion has already been let in. The invariant
  bounds the pending transactions plus the tasks in that window (`PastLen`) by
  `MaxPending + |active| - 1`: a task enters the window only when there is
  room, and at most all others are in it then.
  `PoolIsAtomic` is the refinement `AtomicPool`: with one task, every map
  access is a step of `TxPool` or leaves it as it is. The abstract pool is the
  task's `View`, the maps without what the call under way has done to them.
  `Lone` says at each access what the call has read, and that it still holds
  since nobody else writes; the three writes of `add_transaction_at` are hidden
  until the last, those of `remove` likewise. The invariant carries
  `Sound(View(k))` of `TxPoolProofs` along: without it `DecSender` could meet a
  count of 0, saturate, and not be the abstract `RemoveTransaction`.
- `BlockTreeProofs`: the lemmas on parent walks that the next two share.
- `ChainProofs`: `ForkChoiceAlways`, `CanonicalChainAlways`,
  `SnapshotsSoundAlways`, `LiveFollowsHeadAlways` and the action property
  `HeadImprovesAlways`, for any block tree, any execution function and any
  pruning window. The invariant is their conjunction with the types,
  `ParentKnown`, and `Rooted(known)`: every known block has a parent walk, and
  every such walk stays in the store and meets each height once. `Rooted` makes
  the recursive `PathTo` usable without induction over data, since an import
  only extends the walk of the parent by one block. `LiveFollowsHead` needs
  `CanonicalChain` at the pruning steps, where the head must be on its own
  chain and above the cutoff.
  `LiveIsReplayAlways`, `TxIndexSoundAlways` and `PoolCleanAlways` are about
  the whole chain. The invariant `FullInv` adds that every snapshot, not only
  the head's, is the replay of its block's chain: a reorganisation makes the
  state of a side branch live, and a block's replay is its parent's and one
  block more. `TxIndexSound` is inductive with it: a head change rebuilds the
  index from the new chain, pruning only takes bodies away. `PoolCleanAlways`
  follows
  the two loops of `apply_head_change`: what the second removes the first may
  have added, and removing never adds.
- `ChainProofs`, about the node and its database: `ConfirmedHeadKeptAlways`,
  `RestartIsExactAlways` and `RecoveredStateAlways`, for any block tree, any
  execution function, any settings at each start, and any number of crashes and
  failed writes. First the list `Writes` is described by what each of its
  entries is and where the entry of a height stands, and `Progress(i)` says of a
  node inside `persist_canonical` that the first `i` writes are in the database
  and the others still to come. The invariant `NodeInv` has five parts. `Store`
  is the part of the chain's invariant that a reload re-establishes. It is
  weaker than that of `Chain`: after a torn write the head is the best block of
  the reloaded chain only, and of its state it says only that it is live. `DiskSound` says
  that a height's entry names a block of that height, from which
  `LoadedChain` shows that whatever `load_into` accepts is one chain from
  genesis. `Stage` is `Progress` and the types. `Order` says that the database
  is never ahead of the node in memory, and what it keeps of a confirmed head
  whatever is written next: its snapshot for good, and, while the head key has
  the confirmed height, its body and an entry that is no worse. This is why a
  start cannot fall behind a confirmed head, since a torn write of a higher
  head fails to load or loads a higher chain. `Exact` is what
  `RestartIsExact` says, but in every mode of a running node: it has to hold in the middle of the writes of a block
  that does not move the head, where entries that are already right are
  written again.
  `RecoveredStateAlways` needs `Truthful` on top: until a start guesses, each
  state in memory and on disk is the replay of its block's chain, and each block
  that memory or the height index can reach executes to the root it commits to.
  It must speak of all snapshots on disk, canonical or not: they outlive the
  chain that wrote them and serve again after a reorganisation.
- `ChainTasksProofs`: `ReadersFindBlocksAlways` and `IndexIsAChainAlways`, for
  any number of tasks that import at the same time, access by access. The
  invariant is `Rooted(known)` with what each task knows of its block at each
  step (`TaskOK`): its parent is in `by_hash` once the checks have passed, the
  block itself is from the write to `by_hash` on, and so is every block its scan
  of `by_number` has met. Nothing ever leaves `by_hash`, so other tasks cannot
  take that away; that is why the order of the writes in `insert_block` is
  enough without a common lock.
  `SettledWhenAloneAlways` is about one task: between two imports the head is
  the best known block, both indexes are its chain, and live state and
  snapshots are its own. `SoloInv` says for each access what is already of the
  new head and what still of the old (`Settled`, `Moved`, `Applied`), and that
  the scan of `by_number` has read a prefix of the new head's chain.
- `SyncProofs`: `TypeCorrect`, `OrphansStayBlocked`, `MasterLeads` (no head,
  orphan or message is ahead of the master's chain) and `WalkNeverStalls`, for
  any number of followers, any chain length, window and number of faults. The
  invariant adds `Windows` (bodies start at the cutoff for the present head, no
  snapshot in memory or on disk is above it, and a node that does not prune has
  all of them) and that no message brings or asks for more than the master's
  chain. `OrphansBlocked` needs `Windows` at an import: what was imported ends
  at `Top`, the next orphan above is not consecutive, and the snapshots that
  pruning drops cannot unblock one. `WalkNeverStalls` says that the walk over
  missing parents, which `import_block` starts without remembering it, is
  carried on by what is in flight: below what was announced there is always a
  block on its way, a request that the master will answer, or an orphan whose
  parent is pursued in turn. On top of the invariant it needs that nothing bare
  is about when no node prunes (`NoBare`: a bare block would be refused and end
  the walk) and that a follower begins to dial with nothing announced, in flight
  or kept (`DialsEmpty`). `PursuitGoesOn` is its core: what a follower pursues
  is pursued after any message has been handled, or imported. That `Greatest` is
  a maximum rests on the well-foundedness of the naturals, not on induction.
- `ServiceProofs`: `NotifiedHeadsReadable`, `AcceptedTxsFound`,
  `NotesExactAlways`, `DeploysNeverShared`, for any capacity, chain, number of runs and polls. The
  invariant says, for each map, from which point of the import on it is of the
  head and before that of its parent (`ChainInv`); that an accepted transaction
  is in the pool or in the index (`PoolInv`); that no event, client or request
  knows of a head that was not sent (`EventInv`, `SessionInv`); and what a
  request has read so far (`RequestInv`). `AcceptedTxsFound` depends on the
  order of accesses on both sides: the import indexes before it clears the
  pool, the lookup reads the pool before the index. `NotesExactAlways` needs
  `NotesInv`: events are only appended, each event before the session's
  position was either examined for every subscription that existed by then or
  is in `lost`, and a subscription starts at the position it was acknowledged
  at.
- `ProducerProofs`, about one execution: `TransactionExact` and
  `EstimateExactOnStates`, for every state, transaction, program and gas
  schedule: what a transaction that executes moves, charges and counts, that no
  balance wraps and that the gas of the block stays bounded; and that
  `eth_estimateGas` and `execute_transaction` agree on every state of the right
  type, reachable or not. The argument follows the maps of the `StateDB`
  through charge, credit, call and refund; the one extra hypothesis is that no
  intrinsic gas is exactly the default gas of a simulation, which would leave a
  simulated call nothing to burn and make it uncharged.
- `ProducerProofs`, about the node: `SupplyConservedAlways`, `NoReplayAlways`,
  `BlockGasBoundedAlways`, `OwnBlocksImportAlways`, `PoolTracksAccountsAlways`
  and `EstimateExactAlways`. The invariant is the ledger (types, supply,
  nonces in order), a sound pool that holds a nonce of a sender once, and that
  until a restart the trackers of the pool agree with the accounts. A block is
  followed transaction by transaction (`Stages`): what holds of the candidate
  after each is that the receipts so far extend the chain's in nonce order, sum
  up with the balances, stay in the gas limit, and are what a fresh execution
  of the included transactions gives as long as none failed after a write.
  Sums over addresses and receipts are split off one element at a time.

Only model-checked: the properties of the sequential modules in `MCAlgorithms`
other than those of the pool; most are about recursive operators, about which
the prover cannot reason; and
the liveness properties `ReadyTxIncluded`, `CatchesUp` and `HeadsHeard`, which
are out of its reach. Every other property of a passing run is also a theorem.

## Not modelled

Cryptography is symbolic: keccak256 is injective, a signature verifies for its
key and message only; two different states are assumed to have different roots
in `Producer`. wasmi, calldata and logs of executions are left out of
`Executor`. Receipts' contents and `gas_used` are not compared at import by the
code, so `Chain` does not mention them. `HeaderRequest` is answered by the node
but sent by nothing outside the tests. Topics, message sizes (a body above the
limit of gossipsub is not published, though its header is) and second
connections to a peer are not in `Sync`. JSON objects other than headers, the
web panel, command-line parsing, templates of new projects, the Helm chart,
key generation and the benchmarks only format or measure. What racing tasks do
to nonces and per-sender counts of the pool, and to the order of head and index
writes, is in the models but not the subject of a run: only the properties that
the code keeps are checked there.

## Plan

Done: all parts of the node and its clients that keep state, at the level of
calls, and at the level of single accesses where tasks share it; faults of
disk, process and network; liveness of production, synchronisation and
notification; proofs for the pool (whole calls, racing tasks, and the
refinement between the two), the chain (whole calls, racing tasks, and across
crashes and restarts), synchronisation, the service, the execution of a transaction and the production
of blocks.

Next: forks in `Sync`, should there ever be a second validator; logs in
`Executor`, to join the scan of `Rpc` to executions.
