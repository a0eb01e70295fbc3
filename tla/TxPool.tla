------------------------------- MODULE TxPool -------------------------------
(***************************************************************************)
(* The mempool of crates/ivory-txpool, one public call per step.  A pool   *)
(* is a record, and each operation is an operator from pools to pools, so  *)
(* that the import of a block (module Chain) can run several of them.      *)
(*                                                                         *)
(* A transaction is known by its hash.  The DashMaps next_nonce and        *)
(* per_sender read a missing key as 0, so they are total functions here.   *)
(***************************************************************************)
EXTENDS Integers, Sequences, FiniteSets

CONSTANTS
    Tx,            \* transaction hashes
    Sender,        \* account addresses
    From,          \* From[t]:  sender of t
    Nonce,         \* Nonce[t]: account nonce of t
    Verified,      \* transactions with gas >= min_gas and a valid signature
    MaxPending,    \* PoolConfig.max_pending
    MaxPerSender   \* PoolConfig.max_per_sender

ASSUME TxPoolAssumption ==
    /\ From \in [Tx -> Sender]
    /\ Nonce \in [Tx -> Nat]
    /\ Verified \subseteq Tx
    /\ MaxPending \in Nat
    /\ MaxPerSender \in Nat

VARIABLES
    pool,      \* the TransactionPool
    admitted   \* history: transactions admitted since the nonces were reset

vars == <<pool, admitted>>

Pools == [pending : SUBSET Tx,
          nextNonce : [Sender -> Nat],
          perSender : [Sender -> Nat]]

EmptyPool == [pending   |-> {},
              nextNonce |-> [s \in Sender |-> 0],
              perSender |-> [s \in Sender |-> 0]]

PendingOf(p, s) == {t \in p.pending : From[t] = s}
----------------------------------------------------------------------------
AdmissibleWithGap(p, t) ==
    /\ t \in Verified
    /\ t \notin p.pending
    /\ Cardinality(p.pending) < MaxPending
    /\ p.perSender[From[t]] < MaxPerSender
    /\ Nonce[t] >= p.nextNonce[From[t]]

AdmissibleWhenFull(p, t) ==
    /\ t \in Verified
    /\ t \notin p.pending
    /\ Cardinality(p.pending) <= MaxPending
    /\ p.perSender[From[t]] < MaxPerSender
    /\ Nonce[t] = p.nextNonce[From[t]]

\* The checks of add_transaction_at; a failed one returns an error and
\* leaves the pool as it was.
Admissible(p, t) ==
    /\ t \in Verified
    /\ t \notin p.pending
    /\ Cardinality(p.pending) < MaxPending
    /\ p.perSender[From[t]] < MaxPerSender
    /\ Nonce[t] = p.nextNonce[From[t]]

AddTransaction(p, t) ==
    IF Admissible(p, t)
    THEN [pending   |-> p.pending \cup {t},
          nextNonce |-> [p.nextNonce EXCEPT ![From[t]] = @ + 1],
          perSender |-> [p.perSender EXCEPT ![From[t]] = @ + 1]]
    ELSE p

SaturatingDec(n) == IF n = 0 THEN 0 ELSE n - 1

RemoveUnguarded(p, t) ==
    [pending   |-> p.pending \ {t},
     nextNonce |-> p.nextNonce,
     perSender |-> [p.perSender EXCEPT ![From[t]] = SaturatingDec(@)]]

RemoveRewinding(p, t) ==
    IF t \in p.pending
    THEN [pending   |-> p.pending \ {t},
          nextNonce |-> [p.nextNonce EXCEPT ![From[t]] = Nonce[t]],
          perSender |-> [p.perSender EXCEPT ![From[t]] = SaturatingDec(@)]]
    ELSE p

\* remove: the nonce tracker is not rewound.
RemoveTransaction(p, t) ==
    IF t \in p.pending
    THEN [pending   |-> p.pending \ {t},
          nextNonce |-> p.nextNonce,
          perSender |-> [p.perSender EXCEPT ![From[t]] = SaturatingDec(@)]]
    ELSE p

ClearPending(p) ==
    [pending   |-> {},
     nextNonce |-> p.nextNonce,
     perSender |-> [s \in Sender |-> 0]]

\* the loops of apply_head_change over the transactions of a chain
AddAllBut(p, txs, fresh) ==
    LET after[i \in 0 .. Len(txs)] ==
            IF i = 0 THEN p
            ELSE IF txs[i] \in fresh THEN after[i - 1]
                 ELSE AddTransaction(after[i - 1], txs[i])
    IN  after[Len(txs)]

RemoveAll(p, txs) ==
    LET after[i \in 0 .. Len(txs)] ==
            IF i = 0 THEN p ELSE RemoveTransaction(after[i - 1], txs[i])
    IN  after[Len(txs)]
----------------------------------------------------------------------------
Init ==
    /\ pool = EmptyPool
    /\ admitted = {}

Add(t) ==
    /\ pool' = AddTransaction(pool, t)
    /\ admitted' = IF Admissible(pool, t) THEN admitted \cup {t} ELSE admitted

Take(t) ==
    /\ pool' = RemoveTransaction(pool, t)
    /\ UNCHANGED admitted

DropPending ==
    /\ pool' = ClearPending(pool)
    /\ UNCHANGED admitted

\* clear: also forgets the nonce trackers.
Clear ==
    /\ pool' = EmptyPool
    /\ admitted' = {}

Next ==
    \/ \E t \in Tx : Add(t) \/ Take(t)
    \/ DropPending
    \/ Clear

Spec == Init /\ [][Next]_vars
----------------------------------------------------------------------------
TypeOK ==
    /\ pool \in Pools
    /\ admitted \in SUBSET Tx

CountsExact(p) ==
    \A s \in Sender : p.perSender[s] = Cardinality(PendingOf(p, s))

\* per_sender, which the admission limit reads, is exactly the number of
\* pending transactions of the sender after any sequence of pool calls.
PerSenderExact == CountsExact(pool)

\* pool.rs: "In-memory mempool with strict contiguous nonces per sender".
\* No nonce of a sender is ever admitted twice, whatever was removed or
\* dropped in between, and none below the tracker was skipped.
StrictNonces ==
    /\ pool.pending \subseteq admitted
    /\ \A t, u \in admitted :
          From[t] = From[u] /\ Nonce[t] = Nonce[u] => t = u
    /\ \A s \in Sender :
          {Nonce[t] : t \in {u \in admitted : From[u] = s}}
             = 0 .. pool.nextNonce[s] - 1

Limited(p) ==
    /\ Cardinality(p.pending) <= MaxPending
    /\ \A s \in Sender : p.perSender[s] <= MaxPerSender

\* The capacity limits of PoolConfig hold after every call: of the whole
\* pool, and of what each sender really has pending.
WithinLimits ==
    /\ Cardinality(pool.pending) <= MaxPending
    /\ \A s \in Sender : Cardinality(PendingOf(pool, s)) <= MaxPerSender
=============================================================================
