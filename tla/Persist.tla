------------------------------ MODULE Persist ------------------------------
(***************************************************************************)
(* The chain on disk: ChainPersist (bin/ivory/src/persist.rs), and the way *)
(* run_node (node.rs) loads it.  The database is a map from keys to values *)
(* written one key at a time: persist_canonical uses no write batch, so    *)
(* a crash leaves any prefix of its writes.  A power failure, which loses  *)
(* the end of the write-ahead log, leaves a shorter prefix.  The in-memory *)
(* chain is that of module Chain; its mempool is not saved.  Trie nodes    *)
(* (keys t + hash) are left out: the reload never reads them.              *)
(***************************************************************************)
EXTENDS Chain

CONSTANT
    Configs     \* pairs archive, keep that config.toml may hold

ASSUME ConfigsAssumption ==
    Configs \subseteq [archive : BOOLEAN, keep : Nat]

VARIABLES
    mode,       \* "down", "up", "import" (before) or "write" (inside persist_canonical)
    cfg,        \* ChainPersist of this start; config.toml may change in between
    block,      \* the block being persisted
    todo,       \* writes that persist_canonical has still to make
    disk,       \* contents of RocksDB
    durable,    \* history: head when persist_canonical last returned Ok
    thinned,    \* history: a stripped body was put in the place of a block
    guessed     \* history: a start replayed a chain with stripped bodies

nodeVars == <<vars, mode, cfg, block, todo, disk, durable, thinned, guessed>>

HeadKey == <<"head", 0>>
HeightKey(n) == <<"h", n>>
BlockKey(b) == <<"b", b>>
HeaderKey(b) == <<"H", b>>
SnapshotKey(b) == <<"s", b>>
Has(key) == key \in DOMAIN disk
----------------------------------------------------------------------------
\* Mutant: archive_keep as it is configured.
OpenAsConfigured(c) == c

\* a window of no block is one of the head alone
OpenWith(c) == [c EXCEPT !.keep = IF @ = 0 THEN 1 ELSE @]

(* persist_canonical, as the list of its writes.                           *)
Put(key, value) == [op |-> "put", key |-> key, value |-> value]
Delete(key) == [op |-> "delete", key |-> key]
PutBlock(b) == Put(BlockKey(b), BodyOf(bodies, b))

\* which heights keep their body on disk
KeepsBody(n) ==
    cfg.archive \/ n = 0 \/ SaturatingSub(Number[head], n) < cfg.keep

HeightWritesNoHeader(n) ==
    LET b == byNumber[n]
    IN  <<IF KeepsBody(n) THEN PutBlock(b) ELSE Delete(BlockKey(b)),
          Put(HeightKey(n), b)>>

HeightWrites(n) ==
    LET b == byNumber[n]
    IN  IF KeepsBody(n) THEN <<PutBlock(b), Put(HeightKey(n), b)>>
        ELSE <<Put(HeaderKey(b), b), Delete(BlockKey(b)), Put(HeightKey(n), b)>>

SnapshotWrites(n) ==
    LET b == byNumber[n]
    IN  IF b \in DOMAIN snapshots THEN <<Put(SnapshotKey(b), snapshots[b])>> ELSE <<>>

\* A height that keeps its body, of a block that was loaded without one: what
\* is written is a block that insert_block will not accept.  It takes a start
\* with a wider window, or archive = true, after one with a narrower window.
PutsStripped == \E n \in 1 .. Number[head] : KeepsBody(n) /\ byNumber[n] \notin bodies

\* the two loops over the canonical chain
IndexWrites == Concat([n \in 0 .. Number[head] |-> HeightWrites(n)], Number[head])
StateWrites == Concat([n \in 0 .. Number[head] |-> SnapshotWrites(n)], Number[head])

WritesWithoutIndex ==
    <<PutBlock(block), Put(HeadKey, head)>> \o StateWrites

WritesFromGenesis ==
    (IF block = head THEN <<Put(HeadKey, Genesis)>> ELSE <<>>)
    \o IndexWrites \o StateWrites
    \o <<PutBlock(block), Put(HeadKey, head)>>

Writes ==
    <<PutBlock(block), Put(HeadKey, head)>>
    \o IndexWrites \o StateWrites
----------------------------------------------------------------------------
(* load_into and the rest of run_node.  Each height must give a block that *)
(* insert_block accepts, or a header.                                      *)
DiskHead == disk[HeadKey]
DiskHeight == Number[DiskHead]
OnDisk(n) == disk[HeightKey(n)]
WithBody(n) == Has(BlockKey(OnDisk(n)))

InsertableFromDisk(n) ==
    LET b == OnDisk(n)
    IN  /\ Parent[b] \in {OnDisk(m) : m \in 0 .. n - 1}
        /\ Number[b] = Number[Parent[b]] + 1
        /\ b \in ValidHeader
        /\ WithBody(n) => BodyPasses(b, disk[BlockKey(b)])
        /\ ~WithBody(n) => Has(HeaderKey(b))

ChainLoads ==
    /\ Has(BlockKey(DiskHead))
    /\ Has(HeightKey(0)) /\ WithBody(0) /\ OnDisk(0) = Genesis
    /\ \A n \in 1 .. DiskHeight : Has(HeightKey(n)) /\ InsertableFromDisk(n)

Loaded == {OnDisk(n) : n \in 0 .. DiskHeight}
LoadedBodies == {OnDisk(n) : n \in {m \in 0 .. DiskHeight : WithBody(m)}}
LoadedHead == OnDisk(DiskHeight)
Restored == Has(SnapshotKey(LoadedHead))

\* the replay of the bodies over the genesis allocation, without a snapshot
Replayed ==
    LET post[n \in 0 .. DiskHeight] ==
            IF n = 0 THEN GenesisState
            ELSE IF post[n - 1] = ExecError THEN ExecError
            ELSE Execute(post[n - 1], BodyOf(LoadedBodies, OnDisk(n)))
    IN  post

\* Without the head's snapshot, blocks that were stripped are replayed as if
\* they were empty.
ReplaysStripped == ~Restored /\ LoadedBodies # Loaded

\* run_node gets past the reload
Starts == ChainLoads /\ (Restored \/ Replayed[DiskHeight] # ExecError)

LoadedLiveUnreplayed ==
    IF Restored THEN disk[SnapshotKey(LoadedHead)] ELSE GenesisState

LoadedLive == IF Restored THEN disk[SnapshotKey(LoadedHead)] ELSE Replayed[DiskHeight]
LoadedSnapshots ==
    IF Restored
    THEN [b \in {c \in Loaded : Has(SnapshotKey(c))} |-> disk[SnapshotKey(b)]]
    ELSE [b \in Loaded |-> Replayed[Number[b]]]
----------------------------------------------------------------------------
NodeInit ==
    /\ Init
    /\ mode = "down"
    /\ cfg \in {OpenWith(c) : c \in Configs}
    /\ block = Genesis
    /\ todo = <<>>
    /\ disk = [key \in {} |-> ZeroHash]
    /\ durable = ZeroHash
    /\ thinned = FALSE
    /\ guessed = FALSE

\* start on an empty database: genesis goes in, and is persisted
StartFresh ==
    /\ mode = "down"
    /\ ~Has(HeadKey)
    /\ mode' = "import"
    /\ block' = Genesis
    /\ UNCHANGED <<vars, cfg, todo, disk, durable, thinned, guessed>>

StartFromDisk ==
    /\ mode = "down"
    /\ Has(HeadKey)
    /\ Starts
    /\ mode' = "up"
    /\ known' = Loaded
    /\ bodies' = LoadedBodies
    /\ head' = LoadedHead
    /\ byNumber' = PathTo(LoadedHead)
    /\ snapshots' = LoadedSnapshots
    /\ txIndex' = Locations(LoadedBodies, PathTo(LoadedHead))
    /\ live' = LoadedLive
    /\ pool' = Pool!EmptyPool
    /\ cfg' \in {OpenWith(c) : c \in Configs}
    /\ guessed' = (guessed \/ ReplaysStripped)
    /\ UNCHANGED <<block, todo, disk, durable, thinned>>

\* import_block, or the producer importing its own block
ImportBlock(b) ==
    /\ mode = "up"
    /\ \E txs \in {TxsOf[b], <<>>} : Import(b, txs)
    /\ mode' = "import"
    /\ block' = b
    /\ UNCHANGED <<cfg, todo, disk, durable, thinned, guessed>>

PersistCanonical ==
    /\ mode = "import"
    /\ mode' = "write"
    /\ todo' = Writes
    /\ thinned' = (thinned \/ PutsStripped)
    /\ UNCHANGED <<vars, cfg, block, disk, durable, guessed>>

\* the database after one put or delete
After(w) ==
    IF w.op = "delete"
    THEN [key \in DOMAIN disk \ {w.key} |-> disk[key]]
    ELSE [key \in DOMAIN disk \cup {w.key} |-> IF key = w.key THEN w.value ELSE disk[key]]

Write ==
    /\ mode = "write"
    /\ todo # <<>>
    /\ disk' = After(Head(todo))
    /\ todo' = Tail(todo)
    /\ UNCHANGED <<vars, mode, cfg, block, durable, thinned, guessed>>

PruneStore ==
    IF cfg.archive THEN PruneSnapshots ELSE PruneSnapshotsKeep(cfg.keep)

\* persist_canonical returns, and the store is pruned
Persisted ==
    /\ mode = "write"
    /\ todo = <<>>
    /\ mode' = "up"
    /\ durable' = head
    /\ PruneStore
    /\ UNCHANGED <<cfg, block, todo, disk, thinned, guessed>>

\* A write fails: the rest is skipped, a warning is logged, and the node goes
\* on.  (While it persists genesis an error ends run_node, as Crash does.)
WriteFails ==
    /\ mode = "write"
    /\ todo # <<>>
    /\ block # Genesis
    /\ mode' = "up"
    /\ todo' = <<>>
    /\ PruneStore
    /\ UNCHANGED <<cfg, block, disk, durable, thinned, guessed>>

\* The process stops, at any point; memory is lost.
Crash ==
    /\ mode # "down"
    /\ mode' = "down"
    /\ known' = {Genesis}
    /\ bodies' = {Genesis}
    /\ byNumber' = [n \in {0} |-> Genesis]
    /\ head' = Genesis
    /\ snapshots' = [b \in {Genesis} |-> GenesisState]
    /\ txIndex' = Locations({Genesis}, [n \in {0} |-> Genesis])
    /\ live' = GenesisState
    /\ pool' = Pool!EmptyPool
    /\ todo' = <<>>
    /\ block' = Genesis
    /\ UNCHANGED <<cfg, disk, durable, thinned, guessed>>

NodeNext ==
    \/ StartFresh
    \/ StartFromDisk
    \/ \E b \in Block : ImportBlock(b)
    \/ PersistCanonical
    \/ Write
    \/ Persisted
    \/ WriteFails
    \/ Crash

NodeSpec == NodeInit /\ [][NodeNext]_nodeVars
----------------------------------------------------------------------------
\* After any crash or failed write, at whatever write of persist_canonical it
\* came, a node that starts has the live state and the snapshots that its chain
\* leads to and its headers commit to, as long as no start had to replay
\* stripped bodies for want of the head's snapshot.  (Nothing compares such a
\* replay with the header; what it yields is written to disk with the next
\* block, and stays there after a reorganisation.)
RecoveredState ==
    ~guessed => LiveFollowsHead /\ SnapshotsSound /\ LiveIsReplay

\* Once persist_canonical has returned, a restart gives the same head and the
\* same live state, whatever crashed or failed before and however archive and
\* archive_keep were changed, as long as the change asked for no body that was
\* already stripped.  docs/protocol.md on
\* pruned nodes: "Disk keeps headers and state snapshots so restart reloads
\* the header chain and skips tx replay when a head snapshot is present."
RestartIsExact ==
    mode = "up" /\ durable = head /\ ~thinned =>
        /\ Has(HeadKey) /\ Starts
        /\ LoadedHead = head
        /\ LoadedLive = live

\* What persist_canonical has once confirmed is never lost: a node that
\* starts again is on the confirmed head or a better one.
ConfirmedHeadKept ==
    mode # "down" /\ durable # ZeroHash =>
        durable = head \/ Better(head, durable)

\* docs/architecture.md: "New blocks are written to RocksDB. Restart reloads
\* them."  A database that was complete once can still be started from.
RestartReloads == durable # ZeroHash => Starts
=============================================================================
