----------------------------- MODULE TxPoolTasks -----------------------------
(***************************************************************************)
(* The mempool as the tasks of a node share it: RPC handlers submit        *)
(* transactions, the import task adds gossiped ones, and whoever imports a *)
(* block removes the included ones.  add_transaction_at and remove hold no *)
(* lock across the DashMap operations they make; each of those is one step *)
(* here.  DashMap::len, a sum over shards, is taken as one read.           *)
(***************************************************************************)
EXTENDS Integers, FiniteSets

CONSTANTS Tx, Sender, From, Nonce, Verified, MaxPending, MaxPerSender,
    Task,      \* tasks that may be inside a pool call
    NoTx       \* the argument of a task that is not in a call

ASSUME TasksAssumption ==
    /\ From \in [Tx -> Sender] /\ Nonce \in [Tx -> Nat]
    /\ Verified \subseteq Tx
    /\ MaxPending \in Nat /\ MaxPerSender \in Nat
    /\ NoTx \notin Tx
    /\ IsFiniteSet(Tx) /\ IsFiniteSet(Task) /\ Task # {}

VARIABLES
    pending,     \* DashMap pending, as the set of its keys
    nextNonce,   \* DashMap next_nonce
    perSender,   \* DashMap per_sender; NoEntry when the key is absent
    pc,          \* pc[k]: next operation of task k
    tx,          \* tx[k]: argument of its call
    count,       \* count[k]: sender_count it has read
    history,     \* transactions ever inserted
    active       \* the tasks that use the pool in this behaviour

maps == <<pending, nextNonce, perSender>>
vars == <<pending, nextNonce, perSender, pc, tx, count, history, active>>

NoEntry == -1

AddSteps == {"known", "len", "count", "nonce", "insert", "bump", "tally"}
RemoveSteps == {"take", "dec", "drop"}

CountOf(s) == IF perSender[s] = NoEntry THEN 0 ELSE perSender[s]
PendingOf(s) == {t \in pending : From[t] = s}
Idle(k) == pc[k] = "idle"
Quiet == \A k \in Task : Idle(k)
Alone == Cardinality(active) = 1
----------------------------------------------------------------------------
Init ==
    /\ pending = {}
    /\ nextNonce = [s \in Sender |-> 0]
    /\ perSender = [s \in Sender |-> NoEntry]
    /\ pc = [k \in Task |-> "idle"]
    /\ tx = [k \in Task |-> NoTx]
    /\ count = [k \in Task |-> 0]
    /\ history = {}
    /\ active \in (SUBSET Task) \ {{}}

Goto(k, from, to) == pc[k] = from /\ pc' = [pc EXCEPT ![k] = to]

\* Leaving a call also forgets its locals.
Return(k, from) ==
    /\ Goto(k, from, "idle")
    /\ tx' = [tx EXCEPT ![k] = NoTx]
    /\ count' = [count EXCEPT ![k] = 0]

\* A check of add_transaction_at: go on, or return its error.
Check(k, at, ok, next) ==
    /\ pc[k] = at
    /\ UNCHANGED <<maps, history>>
    /\ \/ ok /\ Goto(k, at, next) /\ UNCHANGED <<tx, count>>
       \/ ~ok /\ Return(k, at)

Call(k, t, first) ==
    /\ Goto(k, "idle", first)
    /\ tx' = [tx EXCEPT ![k] = t]
    /\ UNCHANGED <<maps, count, history>>

\* gas and signature are checked before the first access to the maps
CallAdd(k, t) == t \in Verified /\ Call(k, t, "known")

CheckKnown(k) == Check(k, "known", tx[k] \notin pending, "len")

CheckLenOffByOne(k) == Check(k, "len", Cardinality(pending) <= MaxPending, "count")

CheckLen(k) == Check(k, "len", Cardinality(pending) < MaxPending, "count")

ReadCount(k) ==
    /\ pc[k] = "count"
    /\ UNCHANGED <<maps, history>>
    /\ LET c == CountOf(From[tx[k]]) IN
       IF c < MaxPerSender
       THEN /\ Goto(k, "count", "nonce")
            /\ count' = [count EXCEPT ![k] = c]
            /\ UNCHANGED tx
       ELSE Return(k, "count")

\* passing the check means expected = tx.nonce
CheckNonce(k) == Check(k, "nonce", Nonce[tx[k]] = nextNonce[From[tx[k]]], "insert")

InsertPending(k) ==
    /\ Goto(k, "insert", "bump")
    /\ pending' = pending \cup {tx[k]}
    /\ history' = history \cup {tx[k]}
    /\ UNCHANGED <<nextNonce, perSender, tx, count>>

BumpNonceTooLow(k) ==
    /\ Goto(k, "bump", "tally")
    /\ nextNonce' = [nextNonce EXCEPT ![From[tx[k]]] = Nonce[tx[k]]]
    /\ UNCHANGED <<pending, perSender, tx, count, history>>

BumpNonce(k) ==
    /\ Goto(k, "bump", "tally")
    /\ nextNonce' = [nextNonce EXCEPT ![From[tx[k]]] = Nonce[tx[k]] + 1]
    /\ UNCHANGED <<pending, perSender, tx, count, history>>

TallySender(k) ==
    /\ Return(k, "tally")
    /\ perSender' = [perSender EXCEPT ![From[tx[k]]] = count[k] + 1]
    /\ UNCHANGED <<pending, nextNonce, history>>
----------------------------------------------------------------------------
CallRemove(k, t) == Call(k, t, "take")

TakePending(k) ==
    /\ pc[k] = "take"
    /\ UNCHANGED <<nextNonce, perSender, history>>
    /\ IF tx[k] \in pending
       THEN /\ Goto(k, "take", "dec")
            /\ pending' = pending \ {tx[k]}
            /\ UNCHANGED <<tx, count>>
       ELSE Return(k, "take") /\ UNCHANGED pending

\* get_mut holds the entry's shard, so read and decrement are one step; the
\* guard is dropped before an entry that reached 0 is removed.
DecSender(k) ==
    /\ pc[k] = "dec"
    /\ UNCHANGED <<pending, nextNonce, history>>
    /\ LET s == From[tx[k]]
           c == IF CountOf(s) = 0 THEN 0 ELSE CountOf(s) - 1
       IN  /\ perSender' = IF perSender[s] = NoEntry THEN perSender
                           ELSE [perSender EXCEPT ![s] = c]
           /\ IF perSender[s] # NoEntry /\ c = 0
              THEN Goto(k, "dec", "drop") /\ UNCHANGED <<tx, count>>
              ELSE Return(k, "dec")

DropSender(k) ==
    /\ Return(k, "drop")
    /\ perSender' = [perSender EXCEPT ![From[tx[k]]] = NoEntry]
    /\ UNCHANGED <<pending, nextNonce, history>>
----------------------------------------------------------------------------
Step(k) ==
    \/ CheckKnown(k) \/ CheckLen(k) \/ ReadCount(k) \/ CheckNonce(k)
    \/ InsertPending(k) \/ BumpNonce(k) \/ TallySender(k)
    \/ TakePending(k) \/ DecSender(k) \/ DropSender(k)

Next ==
    /\ \E k \in active :
          \/ \E t \in Tx : CallAdd(k, t) \/ CallRemove(k, t)
          \/ Step(k)
    /\ UNCHANGED active

Spec == Init /\ [][Next]_vars
----------------------------------------------------------------------------
\* add_transaction_at tests pending.len() and inserts several steps later,
\* so max_pending can be exceeded, but only by one transaction for each
\* other task that uses the pool.
PendingOvershoot ==
    Cardinality(pending) <= MaxPending + Cardinality(active) - 1
----------------------------------------------------------------------------
(* A lone task makes the pool atomic: a call takes effect as a whole with  *)
(* its last step, and until then its first effects are hidden.  With more  *)
(* tasks nothing is claimed, and the abstract pool stays empty.            *)
Adding == {tx[k] : k \in {j \in Task : pc[j] \in {"bump", "tally"}}}
Taking == {tx[k] : k \in {j \in Task : pc[j] \in {"dec", "drop"}}}

SerialPool ==
    [pending |-> (pending \ Adding) \cup Taking,
     nextNonce |-> [s \in Sender |->
        IF \E k \in Task : pc[k] = "tally" /\ From[tx[k]] = s
        THEN nextNonce[s] - 1 ELSE nextNonce[s]],
     perSender |-> [s \in Sender |->
        IF \E k \in Task : pc[k] = "drop" /\ From[tx[k]] = s
        THEN CountOf(s) + 1 ELSE CountOf(s)]]

UnusedPool == [pending   |-> {},
               nextNonce |-> [s \in Sender |-> 0],
               perSender |-> [s \in Sender |-> 0]]

Atomic == INSTANCE TxPool WITH
    pool <- IF Alone THEN SerialPool ELSE UnusedPool,
    admitted <- IF Alone THEN history \ Adding ELSE {}

\* With calls one after another, every call of add_transaction_at and remove
\* is one step of module TxPool; what is shown of that module holds.
AtomicPool == Atomic!Spec

=============================================================================
