----------------------------- MODULE ChainTasks -----------------------------
(***************************************************************************)
(* import_and_apply and prune_store as the import task and the producer    *)
(* task of a node run them side by side.  Each field of BlockStore has a   *)
(* lock of its own, held for one access at a time; every access is one     *)
(* step here.  Module Chain is the same import in one step.                *)
(*                                                                         *)
(* reset_from replaces the three maps of the live StateDB one by one:      *)
(* live[p] is the state whose part p is in place.  The walks over parent   *)
(* links read blocks that never change, and are part of the step that uses *)
(* them.  The mempool is in module TxPoolTasks.  Archive nodes only.       *)
(***************************************************************************)
EXTENDS BlockTree, FiniteSets

CONSTANTS Task

ASSUME ChainTasksAssumption == IsFiniteSet(Task)

VARIABLES
    known, byNumber, head, snapshots,
    txIndex,    \* the block that holds the indexed transactions of each height
    live,
    pc,         \* pc[k]: next access of task k
    loc,        \* loc[k]: its local variables
    active      \* the tasks that import blocks in this behaviour

store == <<known, byNumber, head, snapshots, txIndex>>
vars == <<known, byNumber, head, snapshots, txIndex, live, pc, loc, active>>

Parts == {"accounts", "storage", "code"}
NoBlocks == [n \in {} |-> Genesis]
Locals0 == [block |-> Genesis, trial |-> GenesisState, old |-> Genesis, new |-> Genesis,
            tip |-> 0, at |-> 0, path |-> NoBlocks, post |-> GenesisState, keep |-> {}]
Quiet == \A k \in Task : pc[k] = "idle"
Alone == Cardinality(active) = 1
----------------------------------------------------------------------------
Init ==
    /\ known = {Genesis}
    /\ byNumber = [n \in {0} |-> Genesis]
    /\ head = Genesis
    /\ snapshots = [b \in {Genesis} |-> GenesisState]
    /\ txIndex = [n \in {0} |-> Genesis]
    /\ live = [p \in Parts |-> GenesisState]
    /\ pc = [k \in Task |-> "idle"]
    /\ loc = [k \in Task |-> Locals0]
    /\ active \in (SUBSET Task) \ {{}}

MapInsert(map, key, value) ==
    [x \in DOMAIN map \cup {key} |-> IF x = key THEN value ELSE map[x]]

Goto(k, from, to) == pc[k] = from /\ pc' = [pc EXCEPT ![k] = to]
Set(k, new) == loc' = [loc EXCEPT ![k] = new]
Return(k, from) == Goto(k, from, "idle") /\ Set(k, Locals0)

\* state_at(parent) and the execution; errors return at once
Begin(k, b) ==
    LET post == PostState(snapshots, b, TxsOf[b])
    IN  /\ post # ExecError
        /\ Goto(k, "idle", "check")
        /\ Set(k, [Locals0 EXCEPT !.block = b, !.trial = post])
        /\ UNCHANGED <<store, live>>

\* insert_block's checks; the parent stays known, so its lookup and the test
\* for a duplicate are one step
CheckBlock(k) ==
    LET b == loc[k].block
    IN  /\ pc[k] = "check"
        /\ IF /\ Parent[b] \in known
              /\ Number[b] = Number[Parent[b]] + 1
              /\ b \in ValidHeader
              /\ BodyPasses(b, TxsOf[b])
              /\ b \notin known
           THEN Goto(k, "check", "old") /\ UNCHANGED loc
           ELSE Return(k, "check")
        /\ UNCHANGED <<store, live>>

ReadOldHead(k) ==
    /\ Goto(k, "old", "insert")
    /\ Set(k, [loc[k] EXCEPT !.old = head])
    /\ UNCHANGED <<store, live>>

InsertSkipped(k) ==
    Goto(k, "insert", "decide") /\ UNCHANGED <<store, live, loc>>

InsertByHash(k) ==
    /\ Goto(k, "insert", "decide")
    /\ known' = known \cup {loc[k].block}
    /\ UNCHANGED <<byNumber, head, snapshots, txIndex, live, loc>>

\* maybe_update_canonical decides on the head that it reads
Decide(k) ==
    /\ pc[k] = "decide"
    /\ IF Better(loc[k].block, head) THEN Goto(k, "decide", "head")
                                     ELSE Goto(k, "decide", "new")
    /\ UNCHANGED <<store, live, loc>>

WriteHead(k) ==
    /\ Goto(k, "head", "canonical")
    /\ head' = loc[k].block
    /\ UNCHANGED <<known, byNumber, snapshots, txIndex, live, loc>>

RebuildInPlace(k) ==
    /\ Goto(k, "canonical", "new")
    /\ byNumber' = MapInsert(byNumber, Number[loc[k].block], loc[k].block)
    /\ UNCHANGED <<known, head, snapshots, txIndex, live, loc>>

RebuildCanonical(k) ==
    /\ Goto(k, "canonical", "new")
    /\ byNumber' = PathTo(loc[k].block)
    /\ UNCHANGED <<known, head, snapshots, txIndex, live, loc>>

ReadNewHead(k) ==
    /\ pc[k] = "new"
    /\ Set(k, [loc[k] EXCEPT !.new = head])
    /\ IF head # loc[k].old THEN Goto(k, "new", "tip") ELSE Goto(k, "new", "record")
    /\ UNCHANGED <<store, live>>
----------------------------------------------------------------------------
(* rebuild_tx_index reads the head, then by_number height by height.       *)
ReadTip(k) ==
    /\ Goto(k, "tip", "scan")
    /\ Set(k, [loc[k] EXCEPT !.tip = Number[head]])
    /\ UNCHANGED <<store, live>>

\* get_block_by_number(n); without a block the path stays as it is
WithHeight(path, n) ==
    IF n \in DOMAIN byNumber THEN MapInsert(path, n, byNumber[n]) ELSE path

ScanShort(k) ==
    /\ pc[k] = "scan"
    /\ LET n == loc[k].at
       IN  IF n < loc[k].tip
           THEN /\ Set(k, [loc[k] EXCEPT !.at = n + 1, !.path = WithHeight(@, n)])
                /\ UNCHANGED pc
           ELSE Goto(k, "scan", "index") /\ UNCHANGED loc
    /\ UNCHANGED <<store, live>>

\* a height that is missing, because another task has just put a shorter chain
\* in place, is passed over
ScanHeight(k) ==
    /\ pc[k] = "scan"
    /\ LET n == loc[k].at
       IN  IF n <= loc[k].tip
           THEN /\ Set(k, [loc[k] EXCEPT !.at = n + 1, !.path = WithHeight(@, n)])
                /\ UNCHANGED pc
           ELSE Goto(k, "scan", "index") /\ UNCHANGED loc
    /\ UNCHANGED <<store, live>>

WriteIndex(k) ==
    /\ Goto(k, "index", "record")
    /\ txIndex' = loc[k].path
    /\ UNCHANGED <<known, byNumber, head, snapshots, live, loc>>
----------------------------------------------------------------------------
RecordState(k) ==
    LET b == loc[k].block
    IN  /\ pc[k] = "record"
        /\ snapshots' = MapInsert(snapshots, b, loc[k].trial)
        /\ IF loc[k].new # loc[k].old THEN Goto(k, "record", "post")
                                      ELSE Goto(k, "record", "prune")
        /\ UNCHANGED <<known, byNumber, head, txIndex, live, loc>>

ReadOldPost(k) ==
    /\ pc[k] = "post"
    /\ IF loc[k].old \in DOMAIN snapshots
       THEN /\ Set(k, [loc[k] EXCEPT !.post = snapshots[loc[k].old]])
            /\ Goto(k, "post", "accounts")
       ELSE Goto(k, "post", "prune") /\ UNCHANGED loc
    /\ UNCHANGED <<store, live>>

\* apply_head_change: without the new head's snapshot live stays as it is
ReadPost(k) ==
    /\ pc[k] = "post"
    /\ IF loc[k].new \in DOMAIN snapshots
       THEN /\ Set(k, [loc[k] EXCEPT !.post = snapshots[loc[k].new]])
            /\ Goto(k, "post", "accounts")
       ELSE Goto(k, "post", "prune") /\ UNCHANGED loc
    /\ UNCHANGED <<store, live>>

\* StateDB::reset_from
ResetPart(k, part, next) ==
    /\ Goto(k, part, next)
    /\ live' = [live EXCEPT ![part] = loc[k].post]
    /\ UNCHANGED <<store, loc>>

ChooseOldChain(k) ==
    /\ Goto(k, "prune", "retain")
    /\ Set(k, [loc[k] EXCEPT !.keep = Range(PathTo(loc[k].old))])
    /\ UNCHANGED <<store, live>>

\* prune_snapshots: the chain to keep is chosen, then the rest is dropped
ChooseKept(k) ==
    /\ Goto(k, "prune", "retain")
    /\ Set(k, [loc[k] EXCEPT !.keep = Range(PathTo(head))])
    /\ UNCHANGED <<store, live>>

RetainKept(k) ==
    /\ Return(k, "retain")
    /\ snapshots' = RestrictDomain(snapshots, LAMBDA b : b \in loc[k].keep)
    /\ UNCHANGED <<known, byNumber, head, txIndex, live>>

Next ==
    /\ \E k \in active :
          \/ \E b \in Block : Begin(k, b)
          \/ CheckBlock(k) \/ ReadOldHead(k) \/ InsertByHash(k) \/ Decide(k)
          \/ WriteHead(k) \/ RebuildCanonical(k) \/ ReadNewHead(k)
          \/ ReadTip(k) \/ ScanHeight(k) \/ WriteIndex(k)
          \/ RecordState(k) \/ ReadPost(k)
          \/ ResetPart(k, "accounts", "storage") \/ ResetPart(k, "storage", "code")
          \/ ResetPart(k, "code", "prune")
          \/ ChooseKept(k) \/ RetainKept(k)
    /\ UNCHANGED active

Spec == Init /\ [][Next]_vars
----------------------------------------------------------------------------
HeadIsBest ==
    \A b \in known : \/ Number[b] < Number[head]
                     \/ Number[b] = Number[head] /\ head <= b

\* A reader that follows the head, the canonical index, the transaction index
\* or a snapshot at any moment finds the block in by_hash, with all of its
\* ancestors: get_block after any of those lookups never misses.
ReadersFindBlocks ==
    \A b \in {head} \cup Range(byNumber) \cup Range(txIndex) \cup DOMAIN snapshots :
        Range(PathTo(b)) \subseteq known

\* by_number is at all times one whole chain from genesis, of whatever tip.
IndexIsAChain ==
    \E tip \in known : byNumber = PathTo(tip)

\* With one importing task, between two imports the node is what module Chain
\* says of it: the head is the best known block, both indexes are its chain,
\* the live state is its state, and its snapshot, which the producer and every
\* import on top of it need, survives the pruning.
SettledWhenAlone ==
    Alone /\ Quiet =>
        /\ HeadIsBest
        /\ byNumber = PathTo(head) /\ txIndex = byNumber
        /\ head \in DOMAIN snapshots
        /\ \A p \in Parts : live[p] = snapshots[head]
=============================================================================
