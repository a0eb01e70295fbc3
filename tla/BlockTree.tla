----------------------------- MODULE BlockTree -----------------------------
(***************************************************************************)
(* Blocks as every module below sees them.  A block is identified by its   *)
(* header hash, a positive integer: the order of H256 is the order of the  *)
(* integers.  Since the hash commits to the header, what a hash stands for *)
(* never changes, and the fields of blocks are constants.  The universe    *)
(* Block may hold blocks that no node should accept.                       *)
(***************************************************************************)
EXTENDS Integers, Sequences, Functions

CONSTANTS
    Block,          \* header hashes
    Genesis,        \* the genesis block
    Parent,         \* header.parent_hash
    Number,         \* header.number
    StateRoot,      \* header.state_root
    TxsOf,          \* the transactions that header.transactions_root commits to
    ValidHeader,    \* blocks PoAConsensus::validate_header accepts after their parent
    ValidBody,      \* blocks whose full body passes Block::validate
    State,          \* contents of a StateDB
    GenesisState,   \* the state after the genesis allocation
    ExecError,      \* result of a failed execution
    Execute(_, _),  \* state after a sequence of transactions, or ExecError
    RootOf(_)       \* StateDB::root_hash

ZeroHash == 0

ASSUME BlockTreeAssumption ==
    /\ Block \subseteq Nat \ {ZeroHash}
    /\ Genesis \in Block
    /\ Parent \in [Block -> Block \cup {ZeroHash}]
    /\ Parent[Genesis] = ZeroHash
    /\ Number \in [Block -> Nat]
    /\ Number[Genesis] = 0
    /\ DOMAIN TxsOf = Block
    /\ GenesisState \in State
    /\ ExecError \notin State
    /\ \A s \in State : \A b \in Block : Execute(s, TxsOf[b]) \in State \cup {ExecError}
    /\ RootOf(GenesisState) = StateRoot[Genesis]

\* Block::validate compares the body with the roots in the header, so only
\* the committed body passes.
BodyPasses(b, txs) == b \in ValidBody /\ txs = TxsOf[b]

FirstSeenWins(b, h) == Number[b] > Number[h]

\* maybe_update_canonical: b replaces the head h when it is higher, or as
\* high with a smaller hash.
Better(b, h) ==
    \/ Number[b] > Number[h]
    \/ Number[b] = Number[h] /\ b < h

\* The parent walk of chain_from and rebuild_canonical, as the map from
\* heights to hashes.  The walk never meets a missing block: see ParentKnown
\* in module Chain.
PathTo(tip) ==
    LET path[n \in 0 .. Number[tip]] ==
            IF n = Number[tip] THEN tip ELSE Parent[path[n + 1]]
    IN  path

PostStateUnchecked(S, b, txs) ==
    IF Parent[b] \notin DOMAIN S THEN ExecError ELSE Execute(S[Parent[b]], txs)

\* import_and_apply's execution on a fork of the parent's state in the
\* snapshots S, with the state_root check; ExecError stands for every error
\* of this part.
PostState(S, b, txs) ==
    IF Parent[b] \notin DOMAIN S THEN ExecError
    ELSE LET post == Execute(S[Parent[b]], txs)
         IN  IF post # ExecError /\ RootOf(post) = StateRoot[b] THEN post ELSE ExecError
=============================================================================
