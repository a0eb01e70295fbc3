------------------------------ MODULE Producer ------------------------------
(***************************************************************************)
(* The producer task of a validator (run_node) with BlockProducer          *)
(* (crates/ivory-chain/src/producer.rs): it executes what is in the mempool*)
(* on the state of the head, seals a block, and imports that block as any  *)
(* other node does.  The chain is kept as the list of receipts it holds: a *)
(* block without transactions leaves it as it is.  This node is the only   *)
(* validator, so there are no forks; they are in module Chain.             *)
(***************************************************************************)
EXTENDS Executor, FiniteSetsExt

CONSTANTS
    Sender, Verified, MaxPending, MaxPerSender,   \* see module TxPool
    MaxTxs,         \* transactions that produce_block takes from the pool
    BlockGasLimit,  \* header.gas_limit, from genesis.json
    Alloc           \* genesis balances

ASSUME ProducerAssumption ==
    /\ Sender = Address /\ Verified \subseteq Tx
    /\ MaxPending \in Nat /\ MaxPerSender \in Nat
    /\ MaxTxs \in Nat /\ BlockGasLimit \in Nat
    /\ Alloc \in [Address -> 0 .. MaxU256]

VARIABLES
    state,      \* the state of the head
    receipts,   \* receipts of the chain, from genesis on
    pool,       \* the TransactionPool
    restarted   \* history: the node was restarted

vars == <<state, receipts, pool, restarted>>

Pool == INSTANCE TxPool WITH admitted <- {}

GenesisState == [balance |-> Alloc,
                 nonce   |-> [a \in Address |-> 0],
                 code    |-> [a \in Address |-> NoCode],
                 slot    |-> [a \in Address |-> 0]]
Txs(rs) == [i \in DOMAIN rs |-> rs[i].tx]
----------------------------------------------------------------------------
(* A block under construction is the state of the executor, its receipts   *)
(* and ctx.gas_used.                                                       *)
Candidate(s) == [state |-> s, receipts |-> <<>>, gasUsed |-> 0]

Include(c, t, result) ==
    [state    |-> result.state,
     receipts |-> Append(c.receipts, [tx |-> t, gasUsed |-> result.gasUsed]),
     gasUsed  |-> c.gasUsed + result.gasUsed]

\* A transaction that fails is skipped; the executor keeps what it wrote.
Try(c, t) ==
    LET result == ExecuteTransaction(c.state, c.gasUsed, t)
    IN  IF result.ok THEN Include(c, t, result)
        ELSE [c EXCEPT !.state = result.state]

InOrder(t, u) == From[t] < From[u] \/ (From[t] = From[u] /\ Nonce[t] < Nonce[u])

\* the pool has one transaction for each sender and nonce
Sorted(chosen) ==
    [i \in 1 .. Cardinality(chosen) |->
        CHOOSE t \in chosen : Cardinality({u \in chosen : InOrder(u, t)}) = i - 1]

\* the block after each of the transactions
Stages(s, txs) ==
    LET stage[i \in 0 .. Len(txs)] ==
            IF i = 0 THEN Candidate(s) ELSE Try(stage[i - 1], txs[i])
    IN  stage

\* execution on a fork of the state of the head
Execute(txs) == Stages(state, txs)[Len(txs)]

\* produce_block, with chosen as the result of get_pending
ProduceBlock(chosen) == Execute(Sorted(chosen))

\* get_pending takes from the map in no particular order
GetPending == kSubset(Min({MaxTxs, Cardinality(pool.pending)}), pool.pending)

ImportsBelowLimit(block) ==
    LET replay == Execute(Txs(block.receipts))
    IN  /\ Len(replay.receipts) = Len(block.receipts)
        /\ replay.state = block.state
        /\ block.gasUsed < BlockGasLimit

\* import_and_apply of the producer's own block: all its transactions run on
\* a fresh fork, the state root is the one in the header, Block::validate
Imports(block) ==
    LET replay == Execute(Txs(block.receipts))
    IN  /\ Len(replay.receipts) = Len(block.receipts)
        /\ replay.state = block.state
        /\ block.gasUsed <= BlockGasLimit
----------------------------------------------------------------------------
Init ==
    /\ state = GenesisState
    /\ receipts = <<>>
    /\ pool = Pool!EmptyPool
    /\ restarted = FALSE

Submit(t) ==
    /\ pool' = Pool!AddTransaction(pool, t)
    /\ UNCHANGED <<state, receipts, restarted>>

WaitForTwo == Cardinality(pool.pending) > 1

\* the tick does nothing while the pool is empty
HasPending == pool.pending # {}

\* One tick of the producer; a block that is not imported is dropped.  The
\* new head removes all transactions of its chain from the pool.
Tick ==
    /\ HasPending
    /\ \E block \in {ProduceBlock(chosen) : chosen \in GetPending} :
          /\ Imports(block)
          /\ state' = block.state
          /\ receipts' = receipts \o block.receipts
          /\ pool' = Pool!RemoveAll(pool, Txs(receipts'))
    /\ UNCHANGED restarted

\* The chain is reloaded (module Persist), the mempool starts empty.
Restart ==
    /\ pool' = Pool!EmptyPool
    /\ restarted' = TRUE
    /\ UNCHANGED <<state, receipts>>

Next == (\E t \in Tx : Submit(t)) \/ Tick \/ Restart

\* ENABLED <<Tick>>_vars: some block is imported that has a transaction, or
\* whose chain has one that is pending.
CanTick ==
    /\ HasPending
    /\ \E block \in {ProduceBlock(chosen) : chosen \in GetPending} :
          /\ Imports(block)
          /\ block.receipts # <<>> \/ pool.pending \cap Range(Txs(receipts)) # {}

\* The timer of the producer task keeps ticking.  This is WF_vars(Tick), which
\* TLC evaluates too slowly.
Fairness == []<>~CanTick \/ []<><<Tick>>_vars

Spec == Init /\ [][Next]_vars /\ Fairness
----------------------------------------------------------------------------
Sum(f) == FoldFunction(+, 0, f)

Price(r) == r.gasUsed * GasPrice[r.tx]

Conserved(s, rs) == Sum(s.balance) + Sum([i \in DOMAIN rs |-> Price(rs[i])]) = Sum(Alloc)

\* execute_transaction neither mints nor loses anything: the balances and the
\* gas that the receipts charge for are the genesis allocation, through
\* transfers to oneself, creations and refunds; and no balance wraps.
SupplyConserved ==
    /\ \A a \in Address : state.balance[a] \in 0 .. MaxU256
    /\ Conserved(state, receipts)

\* the receipts of a sender among the first n
Sent(rs, a, n) == {i \in 1 .. n : From[rs[i].tx] = a}

InNonceOrder(s, rs) ==
    /\ \A i \in DOMAIN rs : Nonce[rs[i].tx] = Cardinality(Sent(rs, From[rs[i].tx], i - 1))
    /\ \A a \in Address : s.nonce[a] = Cardinality(Sent(rs, a, Len(rs)))

\* The chain holds the transactions of each sender with nonces 0, 1, 2, ...
\* in this order, and the account nonce is their number: no transaction is
\* executed twice, also after a restart that lets it into the pool again.
NoReplay == InNonceOrder(state, receipts)

\* ctx.gas_used never exceeds max_gas_per_block, however the transactions of
\* a block are chosen.
BlockGasBounded ==
    \A chosen \in GetPending : ProduceBlock(chosen).gasUsed <= MaxGasPerBlock

\* Some chosen transaction fails after it has changed the state.
Spoiled(chosen) ==
    \E t \in chosen :
        LET before == ProduceBlock({u \in chosen : InOrder(u, t)})
        IN  FailsLate(before.state, before.gasUsed, t)

\* A validator can import the block it has just sealed, unless a transaction
\* failed in the middle or the block is above the gas limit of genesis.
OwnBlocksImport ==
    \A chosen \in GetPending :
        LET block == ProduceBlock(chosen)
        IN  Spoiled(chosen) \/ block.gasUsed > BlockGasLimit \/ Imports(block)

\* Without a restart the pool expects, after the pending transactions of a
\* sender, the nonce that the account will have.
PoolTracksAccounts ==
    ~restarted =>
        \A a \in Address :
            pool.nextNonce[a] = state.nonce[a] + Cardinality(Pool!PendingOf(pool, a))

\* A pending transaction that the head's state can execute leaves the pool, by
\* inclusion or by a restart, unless a block meanwhile cannot be imported or
\* get_pending does not return the whole pool.
ReadyTxIncluded ==
    LET blocked == \/ Cardinality(pool.pending) > MaxTxs
                   \/ Spoiled(pool.pending)
                   \/ ProduceBlock(pool.pending).gasUsed > BlockGasLimit
        ready(t) == t \in pool.pending /\ ExecuteTransaction(state, 0, t).ok
    IN  \A t \in Tx : ready(t) ~> (t \notin pool.pending \/ blocked)

\* A transaction with at least the gas of eth_estimateGas for the same call on
\* the same state, if it is not refused at once, executes and is charged exactly
\* the estimate; with less it fails, or has nothing left for its call, which
\* then runs on the machine's default fuel and is not charged.
EstimateExact ==
    \A t \in Tx : ~Refused(state, 0, t) =>
        LET result == ExecuteTransaction(state, 0, t)
        IN  \A estimate \in EstimateGas(state, t, 0) :
                IF Gas[t] >= estimate
                THEN result.ok /\ result.gasUsed = estimate
                ELSE result.ok => result.gasUsed = Gas[t] /\ Gas[t] = Intrinsic(t)

\* producer.rs: "Transactions that fail execution are skipped".  The block of
\* the others is imported, if the gas limit of genesis admits it.
FailedTxsSkipped ==
    \A chosen \in GetPending :
        LET block == ProduceBlock(chosen)
        IN  block.gasUsed <= BlockGasLimit => Imports(block)

\* sdk/python: "submit_decision reads eth_getTransactionCount when nonce is
\* omitted".  The nonce of an account with nothing pending is the one that
\* the pool accepts.
AccountNonceAccepted ==
    \A a \in Address :
        Pool!PendingOf(pool, a) = {} => pool.nextNonce[a] = state.nonce[a]
=============================================================================
