------------------------------- MODULE Chain -------------------------------
(***************************************************************************)
(* The chain of one node: BlockStore (crates/ivory-chain/src/store.rs),    *)
(* import_and_apply (apply.rs), the live StateDB that the executor and the *)
(* RPC server read, and the mempool.  One call is one step here; module    *)
(* ChainTasks splits the import into its lock acquisitions.                *)
(***************************************************************************)
EXTENDS BlockTree, FiniteSetsExt, TLC

CONSTANTS Tx, Sender, From, Nonce, Verified, MaxPending, MaxPerSender,
    Window      \* values of snapshot_keep that prune_snapshots_keep is called with

ASSUME ChainAssumption ==
    /\ Window \subseteq Nat
    /\ TxsOf \in [Block -> Seq(Tx)]
    /\ From \in [Tx -> Sender] /\ Nonce \in [Tx -> Nat] /\ Verified \subseteq Tx
    /\ MaxPending \in Nat /\ MaxPerSender \in Nat

VARIABLES
    known,      \* keys of by_hash
    bodies,     \* blocks of by_hash whose transactions are still there
    byNumber,   \* canonical hash at each height
    head,       \* canonical tip
    snapshots,  \* post-state of a block, for some blocks
    txIndex,    \* location of each indexed transaction
    live,       \* the live StateDB
    pool        \* the TransactionPool

storeVars == <<known, bodies, byNumber, head, snapshots, txIndex>>
vars == <<known, bodies, byNumber, head, snapshots, txIndex, live, pool>>

Pool == INSTANCE TxPool WITH admitted <- {}

CanonicalHashes == Range(byNumber)

\* chain_from(head), as a set
ChainFromHead == Range(PathTo(head))
----------------------------------------------------------------------------
(* The bodies B that are still in the store decide what a walk sees.       *)
BodyOf(B, b) == IF b \in B THEN TxsOf[b] ELSE <<>>

\* what a loop over the heights 0 to n appends to an empty list, s[i] at height i
Concat(s, n) ==
    LET out[i \in 0 .. n] == (IF i = 0 THEN <<>> ELSE out[i - 1]) \o s[i]
    IN  out[n]

\* txs_on_path: all transactions from genesis to tip, in order
TxsOnPath(B, tip) ==
    Concat([n \in 0 .. Number[tip] |-> BodyOf(B, PathTo(tip)[n])], Number[tip])

\* Locations of the transactions of a path: the last block and index win.
Locations(B, path) ==
    LET at(t) == {n \in DOMAIN path : t \in Range(BodyOf(B, path[n]))}
    IN  [t \in UNION {Range(BodyOf(B, path[n])) : n \in DOMAIN path} |->
            LET b == path[Max(at(t))]
            IN  [block |-> b,
                 index |-> Max({i \in DOMAIN TxsOf[b] : TxsOf[b][i] = t})]]

TxIndexUncleared(B, path) == Locations(B, path) @@ txIndex

\* rebuild_tx_index starts from an empty map.
TxIndex(B, path) == Locations(B, path)

ReinjectOnly(B, old, new) ==
    Pool!AddAllBut(pool, TxsOnPath(B, old), Range(TxsOnPath(B, new)))

\* apply_head_change: offer the transactions that left the canonical chain to
\* the pool, ignoring refusals, then remove all those on the new chain.
PoolAfterHeadChange(B, old, new) ==
    LET fresh == TxsOnPath(B, new)
    IN  Pool!RemoveAll(Pool!AddAllBut(pool, TxsOnPath(B, old), Range(fresh)), fresh)
----------------------------------------------------------------------------
\* run_node on an empty data directory: genesis inserted and its state
\* recorded.
Init ==
    /\ known = {Genesis}
    /\ bodies = {Genesis}
    /\ byNumber = [n \in {0} |-> Genesis]
    /\ head = Genesis
    /\ snapshots = [b \in {Genesis} |-> GenesisState]
    /\ txIndex = Locations({Genesis}, [n \in {0} |-> Genesis])
    /\ live = GenesisState
    /\ pool = Pool!EmptyPool

\* insert_block and insert_validated, up to the first change
Insertable(b, txs) ==
    /\ Parent[b] \in known
    /\ Number[b] = Number[Parent[b]] + 1
    /\ b \in ValidHeader
    /\ BodyPasses(b, txs)
    /\ b \notin known

HeadExtendsIndex(b) == head' = b /\ byNumber' = (Number[b] :> b) @@ byNumber

\* maybe_update_canonical moving the head, and rebuild_canonical
SetCanonical(b) == head' = b /\ byNumber' = PathTo(b)

ExecuteOnLive(b, post) == live' = Execute(live, TxsOf[b])

\* apply_head_change: reset_from the head's recorded state
ResetLive(b, post) == live' = post

\* Import of block b that arrived with the body txs; any error leaves
\* everything as it was.
Import(b, txs) ==
    LET post == PostState(snapshots, b, txs)
        B    == bodies \cup {b}
    IN  /\ post # ExecError
        /\ Insertable(b, txs)
        /\ known' = known \cup {b}
        /\ bodies' = B
        /\ snapshots' = [c \in DOMAIN snapshots \cup {b} |->
                            IF c = b THEN post ELSE snapshots[c]]
        /\ IF Better(b, head)
           THEN /\ SetCanonical(b)
                /\ txIndex' = TxIndex(B, PathTo(b))
                /\ ResetLive(b, post)
                /\ pool' = PoolAfterHeadChange(B, head, b)
           ELSE UNCHANGED <<head, byNumber, txIndex, live, pool>>

\* prune_snapshots, what an archive node does after an import
PruneSnapshots ==
    /\ snapshots' = RestrictDomain(snapshots, LAMBDA b : b \in ChainFromHead)
    /\ UNCHANGED <<known, bodies, byNumber, head, txIndex, live, pool>>

SaturatingSub(m, n) == IF m >= n THEN m - n ELSE 0

CutoffUnsaturated(keep) == Number[head] - (keep - 1)

Cutoff(keep) == SaturatingSub(Number[head], SaturatingSub(keep, 1))

\* prune_snapshots_keep, what a node with archive = false does
PruneSnapshotsKeep(keep) ==
    /\ bodies' = {b \in bodies : Number[b] >= Cutoff(keep)}
    /\ snapshots' = RestrictDomain(snapshots,
                        LAMBDA b : b \in ChainFromHead /\ Number[b] >= Cutoff(keep))
    /\ UNCHANGED <<known, byNumber, head, txIndex, live, pool>>

\* a transaction from RPC or gossip
Submit(t) ==
    /\ pool' = Pool!AddTransaction(pool, t)
    /\ UNCHANGED <<storeVars, live>>

Next ==
    \/ \E b \in Block : \E txs \in {TxsOf[b], <<>>} : Import(b, txs)
    \/ PruneSnapshots
    \/ \E keep \in Window : PruneSnapshotsKeep(keep)
    \/ \E t \in Tx : Submit(t)

Spec == Init /\ [][Next]_vars
----------------------------------------------------------------------------
StoreTypeOK ==
    /\ known \subseteq Block
    /\ bodies \subseteq known
    /\ head \in known
    /\ byNumber \in [0 .. Number[head] -> known]
    /\ DOMAIN snapshots \subseteq known
    /\ \A b \in DOMAIN snapshots : snapshots[b] \in State
    /\ live \in State

TypeOK ==
    /\ StoreTypeOK
    /\ DOMAIN txIndex \subseteq Tx
    /\ pool \in Pool!Pools

\* Every block but genesis hangs on a block of the store, one height below,
\* so the parent walks of chain_from and rebuild_canonical reach genesis.
ParentKnown ==
    /\ Genesis \in known
    /\ \A b \in known \ {Genesis} :
          Parent[b] \in known /\ Number[b] = Number[Parent[b]] + 1

\* insert_block: the head is the highest block ever inserted, the smallest
\* hash among the highest, in whatever order the blocks came.
ForkChoice ==
    \A b \in known :
        \/ Number[b] < Number[head]
        \/ Number[b] = Number[head] /\ head <= b

\* The canonical index is one chain of parent links that ends at the head.
CanonicalChain ==
    /\ byNumber[Number[head]] = head
    /\ \A n \in DOMAIN byNumber : Number[byNumber[n]] = n
    /\ \A n \in 1 .. Number[head] : Parent[byNumber[n]] = byNumber[n - 1]

\* A recorded snapshot has the root its header commits to, and is what the
\* block's transactions make of the parent's snapshot.
SnapshotsSound ==
    \A b \in DOMAIN snapshots :
        /\ RootOf(snapshots[b]) = StateRoot[b]
        /\ Parent[b] \in DOMAIN snapshots =>
              snapshots[b] = Execute(snapshots[Parent[b]], TxsOf[b])

\* Executor and RPC see the state of the canonical head, through reorgs and
\* pruning; its snapshot is never pruned, so that the next block can build
\* on it.
LiveFollowsHead ==
    /\ head \in DOMAIN snapshots
    /\ live = snapshots[head]

\* the state after each block of the chain to tip
Replay(tip) ==
    LET after[n \in 0 .. Number[tip]] ==
            IF n = 0 THEN GenesisState ELSE Execute(after[n - 1], TxsOf[PathTo(tip)[n]])
    IN  after

\* The live state is the genesis state after the transactions of the canonical
\* chain, block by block, each applied once and in order, whatever branches
\* were imported, adopted and left before.
LiveIsReplay == live = Replay(head)[Number[head]]

\* get_transaction returns the transaction it was asked for, from a
\* canonical block, and finds all those whose body is kept.
TxIndexSound ==
    /\ \A t \in DOMAIN txIndex :
          LET loc == txIndex[t]
          IN  loc.block \in CanonicalHashes /\ TxsOf[loc.block][loc.index] = t
    /\ \A b \in CanonicalHashes \cap bodies : Range(TxsOf[b]) \subseteq DOMAIN txIndex

\* When the head moves, no pending transaction is on the new chain (of the
\* blocks whose body is kept).
PoolCleanAfterHeadChange ==
    [][head' # head =>
         pool'.pending \cap Range(TxsOnPath(bodies', head')) = {}]_vars

\* docs/protocol.md: "Dropped-fork transactions return to the pool."  Asked of
\* the transactions that the state of the new head can execute (apply.rs
\* apply_head_change).
DroppedTxsReturn ==
    [][head' # head =>
         \A t \in Range(TxsOnPath(bodies, head)) \ Range(TxsOnPath(bodies', head')) :
            Execute(live', <<t>>) # ExecError => t \in pool'.pending]_vars

\* The head only moves to a better block, never back to an earlier one.
HeadImproves ==
    [][head' # head =>
         \/ Number[head'] > Number[head]
         \/ Number[head'] = Number[head] /\ head' < head]_vars
=============================================================================
