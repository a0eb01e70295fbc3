-------------------------- MODULE ChainTasksProofs --------------------------
(***************************************************************************)
(* What readers of a node rely on while any number of tasks import blocks  *)
(* side by side, for every block universe and execution function.          *)
(***************************************************************************)
EXTENDS ChainTasks, BlockTreeProofs, FiniteSetTheorems

\* Between the checks of insert_block and its write to by_hash, and after it.
Checked == {"old", "insert"}
Inserted == {"decide", "head", "canonical", "new", "tip", "scan", "index", "record",
             "post", "accounts", "storage", "code", "prune", "retain"}

\* What a task at the given step knows of its block: other tasks may add to
\* by_hash in the meantime, but what it checked or inserted stays there.
TaskOK(step, l, K) ==
    /\ {"block", "path"} \subseteq DOMAIN l
    /\ l.block \in Block
    /\ step \in Checked =>
          /\ Parent[l.block] \in K
          /\ Number[l.block] = Number[Parent[l.block]] + 1
    /\ step \in Inserted => l.block \in K
    /\ \A n \in DOMAIN l.path : l.path[n] \in K

\* The inductive invariant.
IInv ==
    /\ active \subseteq Task
    /\ pc = [k \in Task |-> pc[k]]
    /\ loc = [k \in Task |-> loc[k]]
    /\ known \subseteq Block
    /\ Rooted(known)
    /\ head \in known
    /\ IndexIsAChain
    /\ \A n \in DOMAIN txIndex : txIndex[n] \in known
    /\ DOMAIN snapshots \subseteq known
    /\ \A k \in Task : TaskOK(pc[k], loc[k], known)

\* What by_number holds is in by_hash.
LEMMA IndexKnown ==
    ASSUME IInv
    PROVE  Range(byNumber) \subseteq known
  BY AncestorsKnown DEF IInv, IndexIsAChain

\* The tasks after a step of task k, which may have added to by_hash.
LEMMA TasksAfter ==
    ASSUME IInv, NEW k \in Task, NEW step, NEW l,
           pc' = [pc EXCEPT ![k] = step], loc' = [loc EXCEPT ![k] = l],
           known \subseteq known', TaskOK(step, l, known')
    PROVE  /\ pc' = [j \in Task |-> pc'[j]]
           /\ loc' = [j \in Task |-> loc'[j]]
           /\ \A j \in Task : TaskOK(pc'[j], loc'[j], known')
<1>1. /\ pc' = [j \in Task |-> IF j = k THEN step ELSE pc[j]]
      /\ loc' = [j \in Task |-> IF j = k THEN l ELSE loc[j]]
  BY Zenon DEF IInv
<1>2. ASSUME NEW j \in Task PROVE TaskOK(pc'[j], loc'[j], known')
  <2>1. CASE j = k
    BY <1>1, <2>1
  <2>2. CASE j # k
    <3>1. TaskOK(pc[j], loc[j], known)
      BY DEF IInv
    <3>2. TaskOK(pc[j], loc[j], known')
      BY <3>1 DEF TaskOK
    <3>3. QED
      BY <1>1, <2>2, <3>2
  <2>3. QED
    BY <2>1, <2>2
<1>3. QED
  BY <1>1, <1>2, Zenon

\* A step of task k that leaves the store alone.
LEMMA LocalStep ==
    ASSUME IInv, UNCHANGED <<store, active>>, NEW k \in Task, NEW step, NEW l,
           pc' = [pc EXCEPT ![k] = step], loc' = [loc EXCEPT ![k] = l],
           TaskOK(step, l, known)
    PROVE  IInv'
<1>1. /\ known' = known /\ byNumber' = byNumber /\ head' = head
      /\ snapshots' = snapshots /\ txIndex' = txIndex /\ active' = active
  BY DEF store
<1>2. /\ pc' = [j \in Task |-> pc'[j]]
      /\ loc' = [j \in Task |-> loc'[j]]
      /\ \A j \in Task : TaskOK(pc'[j], loc'[j], known')
  BY <1>1, TasksAfter, Zenon
<1>3. QED
  BY <1>1, <1>2 DEF IInv, IndexIsAChain

\* A step with unchanged locals.
LEMMA SameLocals ==
    ASSUME IInv, NEW k \in Task, UNCHANGED loc
    PROVE  loc' = [loc EXCEPT ![k] = loc[k]]
  BY DEF IInv

\* The start of an import, a rejected block, or the end of one.
LEMMA FreshLocals ==
    ASSUME NEW K, NEW b \in Block, NEW trial
    PROVE  /\ TaskOK("check", [Locals0 EXCEPT !.block = b, !.trial = trial], K)
           /\ TaskOK("idle", Locals0, K)
  BY Links DEF TaskOK, Locals0, NoBlocks, Checked, Inserted

\* run_node on an empty data directory establishes the invariant.
LEMMA InitStep == Init => IInv
<1> SUFFICES ASSUME Init PROVE IInv
  OBVIOUS
<1> USE Links
<1>1. Rooted(known)
  BY GenesisRooted DEF Init
<1>2. IndexIsAChain
  <2>1. IsPath(PathTo(Genesis), Genesis)
    BY <1>1, PathToIsPath DEF Init, Rooted
  <2>2. PathTo(Genesis) = [n \in 0 .. 0 |-> Genesis]
    BY <2>1 DEF IsPath
  <2>3. 0 .. 0 = {0}
    OBVIOUS
  <2>4. QED
    BY <2>2, <2>3 DEF Init, IndexIsAChain
<1>3. \A k \in Task : TaskOK(pc[k], loc[k], known)
  BY FreshLocals, Zenon DEF Init
<1>4. QED
  BY <1>1, <1>2, <1>3 DEF Init, IInv

\* Steps that only touch the task's own variables keep what it knows.
LEMMA KeepsBlock ==
    ASSUME NEW K, NEW step, NEW next, NEW l, NEW m, TaskOK(step, l, K),
           {"block", "path"} \subseteq DOMAIN m, m.block = l.block, m.path = l.path,
           next \in Checked => step \in Checked,
           next \in Inserted => step \in Inserted
    PROVE  TaskOK(next, m, K)
  BY DEF TaskOK

\* The checks of an import, and its reads of the head, of by_number and of the
\* snapshots.
LEMMA ReadSteps ==
    ASSUME IInv, UNCHANGED active, NEW k \in Task,
           \/ \E b \in Block : Begin(k, b)
           \/ CheckBlock(k) \/ ReadOldHead(k) \/ Decide(k) \/ ReadNewHead(k)
           \/ ReadTip(k) \/ ScanHeight(k) \/ ReadPost(k)
           \/ \E part, next \in Inserted : ResetPart(k, part, next)
           \/ ChooseKept(k)
    PROVE  IInv'
<1> USE DEF Goto, Set, Return
<1>0. TaskOK(pc[k], loc[k], known)
  BY DEF IInv
<1>1. ASSUME NEW b \in Block, Begin(k, b) PROVE IInv'
  BY <1>1, FreshLocals, LocalStep, Zenon DEF Begin
<1>2. CASE CheckBlock(k)
  <2>1. UNCHANGED store
    BY <1>2 DEF CheckBlock
  <2>2. CASE pc' = [pc EXCEPT ![k] = "old"] /\ UNCHANGED loc /\ Parent[loc[k].block] \in known
             /\ Number[loc[k].block] = Number[Parent[loc[k].block]] + 1
    <3>1. TaskOK("old", loc[k], known)
      BY <1>0, <2>2 DEF TaskOK, Checked, Inserted
    <3>2. QED
      BY <2>1, <2>2, <3>1, SameLocals, LocalStep, Zenon
  <2>3. CASE Return(k, "check")
    BY <2>1, <2>3, FreshLocals, LocalStep, Links, Zenon
  <2>4. QED
    BY <1>2, <2>2, <2>3 DEF CheckBlock
<1>3. CASE ReadOldHead(k)
  <2> DEFINE m == [loc[k] EXCEPT !.old = head]
  <2>1. m.block = loc[k].block /\ m.path = loc[k].path /\ {"block", "path"} \subseteq DOMAIN m
    BY <1>0 DEF TaskOK
  <2> HIDE DEF m
  <2>2. TaskOK("insert", m, known)
    BY <1>0, <1>3, <2>1, KeepsBlock DEF ReadOldHead, Checked, Inserted
  <2>3. QED
    BY <1>3, <2>2, LocalStep, Zenon DEF ReadOldHead, m
<1>4. CASE Decide(k)
  <2>1. TaskOK("head", loc[k], known) /\ TaskOK("new", loc[k], known)
    BY <1>0, <1>4 DEF Decide, TaskOK, Checked, Inserted
  <2>2. QED
    BY <1>4, <2>1, SameLocals, LocalStep DEF Decide
<1>5. CASE ReadNewHead(k)
  <2> DEFINE m == [loc[k] EXCEPT !.new = head]
  <2>1. m.block = loc[k].block /\ m.path = loc[k].path /\ {"block", "path"} \subseteq DOMAIN m
    BY <1>0 DEF TaskOK
  <2> HIDE DEF m
  <2>2. TaskOK("tip", m, known) /\ TaskOK("record", m, known)
    BY <1>0, <1>5, <2>1, KeepsBlock DEF ReadNewHead, Checked, Inserted
  <2>3. QED
    BY <1>5, <2>2, LocalStep, Zenon DEF ReadNewHead, m
<1>6. CASE ReadTip(k)
  <2> DEFINE m == [loc[k] EXCEPT !.tip = Number[head]]
  <2>1. m.block = loc[k].block /\ m.path = loc[k].path /\ {"block", "path"} \subseteq DOMAIN m
    BY <1>0 DEF TaskOK
  <2> HIDE DEF m
  <2>2. TaskOK("scan", m, known)
    BY <1>0, <1>6, <2>1, KeepsBlock DEF ReadTip, Checked, Inserted
  <2>3. QED
    BY <1>6, <2>2, LocalStep, Zenon DEF ReadTip, m
<1>7. CASE ScanHeight(k)
  <2> DEFINE n == loc[k].at
             m == [loc[k] EXCEPT !.at = n + 1, !.path = WithHeight(@, n)]
  <2>1. pc[k] = "scan" /\ UNCHANGED store
    BY <1>7 DEF ScanHeight
  <2>2. CASE loc' = [loc EXCEPT ![k] = m] /\ UNCHANGED pc
    <3>1. n \in DOMAIN byNumber => byNumber[n] \in known
      BY IndexKnown DEF Range
    <3>2. /\ m.block = loc[k].block /\ {"block", "path"} \subseteq DOMAIN m
          /\ m.path = WithHeight(loc[k].path, n)
      BY <1>0 DEF TaskOK
    <3> HIDE DEF m, n
    <3>3. \A i \in DOMAIN m.path : m.path[i] \in known
      BY <1>0, <3>1, <3>2 DEF TaskOK, WithHeight, MapInsert
    <3>4. TaskOK("scan", m, known)
      BY <1>0, <2>1, <3>2, <3>3 DEF TaskOK
    <3>5. pc' = [pc EXCEPT ![k] = "scan"]
      BY <2>1, <2>2, Zenon DEF IInv
    <3>6. QED
      BY <2>1, <2>2, <3>4, <3>5, LocalStep, Zenon
  <2>3. CASE pc' = [pc EXCEPT ![k] = "index"] /\ UNCHANGED loc
    <3>1. TaskOK("index", loc[k], known)
      BY <1>0, <2>1 DEF TaskOK, Checked, Inserted
    <3>2. QED
      BY <2>1, <2>3, <3>1, SameLocals, LocalStep, Zenon
  <2>4. QED
    BY <1>7, <2>2, <2>3 DEF ScanHeight
<1>8. CASE ReadPost(k)
  <2> DEFINE m == [loc[k] EXCEPT !.post = snapshots[loc[k].new]]
  <2>1. m.block = loc[k].block /\ m.path = loc[k].path /\ {"block", "path"} \subseteq DOMAIN m
    BY <1>0 DEF TaskOK
  <2> HIDE DEF m
  <2>2. TaskOK("accounts", m, known) /\ TaskOK("prune", loc[k], known)
    BY <1>0, <1>8, <2>1, KeepsBlock DEF ReadPost, Checked, Inserted, TaskOK
  <2>3. CASE loc' = [loc EXCEPT ![k] = m] /\ pc' = [pc EXCEPT ![k] = "accounts"]
    BY <1>8, <2>2, <2>3, LocalStep, Zenon DEF ReadPost
  <2>4. CASE UNCHANGED loc /\ pc' = [pc EXCEPT ![k] = "prune"]
    BY <1>8, <2>2, <2>4, SameLocals, LocalStep, Zenon DEF ReadPost
  <2>5. QED
    BY <1>8, <2>3, <2>4 DEF ReadPost, m
<1>9. ASSUME NEW part \in Inserted, NEW next \in Inserted, ResetPart(k, part, next)
      PROVE  IInv'
  <2>1. TaskOK(next, loc[k], known)
    BY <1>0, <1>9 DEF ResetPart, TaskOK, Checked, Inserted
  <2>2. QED
    BY <1>9, <2>1, SameLocals, LocalStep, Zenon DEF ResetPart
<1>10. CASE ChooseKept(k)
  <2> DEFINE m == [loc[k] EXCEPT !.keep = Range(PathTo(head))]
  <2>1. m.block = loc[k].block /\ m.path = loc[k].path /\ {"block", "path"} \subseteq DOMAIN m
    BY <1>0 DEF TaskOK
  <2> HIDE DEF m
  <2>2. TaskOK("retain", m, known)
    BY <1>0, <1>10, <2>1, KeepsBlock DEF ChooseKept, Checked, Inserted
  <2>3. QED
    BY <1>10, <2>2, LocalStep, Zenon DEF ChooseKept, m
<1>11. QED
  BY <1>1, <1>2, <1>3, <1>4, <1>5, <1>6, <1>7, <1>8, <1>9, <1>10

\* The writes of an import to the store, one lock at a time.
LEMMA WriteSteps ==
    ASSUME IInv, UNCHANGED active, NEW k \in Task,
           \/ InsertByHash(k) \/ WriteHead(k) \/ RebuildCanonical(k)
           \/ WriteIndex(k) \/ RecordState(k) \/ RetainKept(k)
    PROVE  IInv'
<1> USE DEF Goto, Set, Return
<1> DEFINE Tasks == /\ pc = [j \in Task |-> pc[j]]
                    /\ loc = [j \in Task |-> loc[j]]
                    /\ \A j \in Task : TaskOK(pc[j], loc[j], known)
<1>0. TaskOK(pc[k], loc[k], known)
  BY DEF IInv
<1>1. CASE InsertByHash(k)
  <2> DEFINE b == loc[k].block
  <2>1. /\ b \in Block /\ Parent[b] \in known /\ Number[b] = Number[Parent[b]] + 1
        /\ known' = known \cup {b}
        /\ pc' = [pc EXCEPT ![k] = "decide"] /\ loc' = loc
        /\ UNCHANGED <<byNumber, head, snapshots, txIndex>>
    BY <1>0, <1>1 DEF InsertByHash, TaskOK, Checked
  <2>2. TaskOK("decide", loc[k], known')
    BY <1>0, <2>1 DEF TaskOK, Checked, Inserted
  <2> HIDE DEF b
  <2>3. Tasks'
    BY <2>1, <2>2, SameLocals, TasksAfter, Zenon
  <2>4. Rooted(known')
    BY <2>1, InsertKeepsRooted DEF IInv
  <2>5. QED
    BY <2>1, <2>3, <2>4 DEF IInv, IndexIsAChain
<1>2. CASE WriteHead(k)
  <2>1. /\ head' = loc[k].block /\ loc[k].block \in known
        /\ pc' = [pc EXCEPT ![k] = "canonical"] /\ loc' = loc
        /\ UNCHANGED <<known, byNumber, snapshots, txIndex>>
    BY <1>0, <1>2 DEF WriteHead, TaskOK, Inserted
  <2>2. TaskOK("canonical", loc[k], known')
    BY <1>0, <2>1 DEF TaskOK, Checked, Inserted
  <2>3. Tasks'
    BY <2>1, <2>2, SameLocals, TasksAfter, Zenon
  <2>4. QED
    BY <2>1, <2>3 DEF IInv, IndexIsAChain
<1>3. CASE RebuildCanonical(k)
  <2>1. /\ byNumber' = PathTo(loc[k].block) /\ loc[k].block \in known
        /\ pc' = [pc EXCEPT ![k] = "new"] /\ loc' = loc
        /\ UNCHANGED <<known, head, snapshots, txIndex>>
    BY <1>0, <1>3 DEF RebuildCanonical, TaskOK, Inserted
  <2>2. TaskOK("new", loc[k], known')
    BY <1>0, <2>1 DEF TaskOK, Checked, Inserted
  <2>3. Tasks'
    BY <2>1, <2>2, SameLocals, TasksAfter, Zenon
  <2>4. IndexIsAChain'
    BY <2>1 DEF IndexIsAChain
  <2>5. QED
    BY <2>1, <2>3, <2>4 DEF IInv
<1>4. CASE WriteIndex(k)
  <2>1. /\ txIndex' = loc[k].path /\ \A n \in DOMAIN loc[k].path : loc[k].path[n] \in known
        /\ pc[k] = "index" /\ pc' = [pc EXCEPT ![k] = "record"] /\ loc' = loc
        /\ UNCHANGED <<known, byNumber, head, snapshots>>
    BY <1>0, <1>4 DEF WriteIndex, TaskOK
  <2>2. TaskOK("record", loc[k], known')
    BY <1>0, <2>1 DEF TaskOK, Checked, Inserted
  <2>3. Tasks'
    BY <2>1, <2>2, SameLocals, TasksAfter, Zenon
  <2>4. QED
    BY <2>1, <2>3 DEF IInv, IndexIsAChain
<1>5. CASE RecordState(k)
  <2> DEFINE b == loc[k].block
  <2>1. /\ snapshots' = MapInsert(snapshots, b, loc[k].trial) /\ b \in known /\ loc' = loc
        /\ pc[k] = "record"
        /\ UNCHANGED <<known, byNumber, head, txIndex>>
    BY <1>0, <1>5 DEF RecordState, TaskOK, Inserted
  <2>2. PICK next \in {"post", "prune"} : pc' = [pc EXCEPT ![k] = next]
    BY <1>5 DEF RecordState
  <2>3. TaskOK(next, loc[k], known')
    BY <1>0, <2>1 DEF TaskOK, Checked, Inserted
  <2> HIDE DEF b
  <2>4. DOMAIN snapshots' \subseteq known'
    BY <2>1 DEF IInv, MapInsert
  <2>5. Tasks'
    BY <2>1, <2>2, <2>3, SameLocals, TasksAfter, Zenon
  <2>6. QED
    BY <2>1, <2>4, <2>5 DEF IInv, IndexIsAChain
<1>6. CASE RetainKept(k)
  <2>1. /\ snapshots' = RestrictDomain(snapshots, LAMBDA b : b \in loc[k].keep)
        /\ pc' = [pc EXCEPT ![k] = "idle"] /\ loc' = [loc EXCEPT ![k] = Locals0]
        /\ UNCHANGED <<known, byNumber, head, txIndex>>
    BY <1>6 DEF RetainKept
  <2>2. DOMAIN snapshots' \subseteq known'
    BY <2>1 DEF IInv, RestrictDomain, Restrict
  <2>3. Tasks'
    BY <2>1, FreshLocals, TasksAfter, Links, Zenon
  <2>4. QED
    BY <2>1, <2>2, <2>3, Zenon DEF IInv, IndexIsAChain
<1>7. QED
  BY <1>1, <1>2, <1>3, <1>4, <1>5, <1>6

\* Every step preserves the invariant.
LEMMA NextStep == IInv /\ [Next]_vars => IInv'
<1> SUFFICES ASSUME IInv, [Next]_vars PROVE IInv'
  OBVIOUS
<1>1. CASE Next
  <2>1. PICK k \in active :
          \/ \E b \in Block : Begin(k, b)
          \/ CheckBlock(k) \/ ReadOldHead(k) \/ InsertByHash(k) \/ Decide(k)
          \/ WriteHead(k) \/ RebuildCanonical(k) \/ ReadNewHead(k)
          \/ ReadTip(k) \/ ScanHeight(k) \/ WriteIndex(k)
          \/ RecordState(k) \/ ReadPost(k)
          \/ ResetPart(k, "accounts", "storage") \/ ResetPart(k, "storage", "code")
          \/ ResetPart(k, "code", "prune")
          \/ ChooseKept(k) \/ RetainKept(k)
    BY <1>1 DEF Next
  <2>2. k \in Task /\ UNCHANGED active
    BY <1>1 DEF IInv, Next
  <2>3. {"accounts", "storage", "code", "prune"} \subseteq Inserted
    BY DEF Inserted
  <2>4. CASE \/ InsertByHash(k) \/ WriteHead(k) \/ RebuildCanonical(k)
             \/ WriteIndex(k) \/ RecordState(k) \/ RetainKept(k)
    BY <2>2, <2>4, WriteSteps
  <2>5. CASE \/ \E b \in Block : Begin(k, b)
             \/ CheckBlock(k) \/ ReadOldHead(k) \/ Decide(k) \/ ReadNewHead(k)
             \/ ReadTip(k) \/ ScanHeight(k) \/ ReadPost(k)
             \/ \E part, next \in Inserted : ResetPart(k, part, next)
             \/ ChooseKept(k)
    BY <2>2, <2>5, ReadSteps
  <2>6. QED
    BY <2>1, <2>3, <2>4, <2>5
<1>2. CASE UNCHANGED vars
  BY <1>2 DEF vars, IInv, IndexIsAChain
<1>3. QED
  BY <1>1, <1>2

LEMMA Invariance == Spec => []IInv
  BY InitStep, NextStep, PTL DEF Spec

\* However many tasks import blocks side by side, a reader that follows the
\* head, by_number, the transaction index or a snapshot (store.rs head_block,
\* get_block_by_number, get_transaction, state_at) finds the block and all of
\* its ancestors in by_hash.
THEOREM ReadersFindBlocksAlways == Spec => []ReadersFindBlocks
<1>1. IInv => ReadersFindBlocks
  <2> SUFFICES ASSUME IInv,
                      NEW b \in {head} \cup Range(byNumber) \cup Range(txIndex)
                                   \cup DOMAIN snapshots
               PROVE  Range(PathTo(b)) \subseteq known
    BY DEF ReadersFindBlocks
  <2>1. b \in known
    BY IndexKnown DEF IInv, Range
  <2>2. QED
    BY <2>1, AncestorsKnown DEF IInv
<1>2. QED
  BY <1>1, Invariance, PTL

\* However many tasks import blocks side by side, by_number is one whole chain
\* of parent links at every moment (store.rs rebuild_canonical replaces it in
\* one assignment).
THEOREM IndexIsAChainAlways == Spec => []IndexIsAChain
<1>1. IInv => IndexIsAChain
  BY DEF IInv
<1>2. QED
  BY <1>1, Invariance, PTL
----------------------------------------------------------------------------
\* h wins the fork choice over every block of K.
Best(h, K) ==
    \A b \in K : \/ Number[b] < Number[h]
                 \/ Number[b] = Number[h] /\ h <= b

\* The transaction index and the live state are those of the head.
Applied ==
    /\ txIndex = byNumber
    /\ head \in DOMAIN snapshots
    /\ \A p \in Parts : live[p] = snapshots[head]

\* The node between two imports.
Settled == Best(head, known) /\ byNumber = PathTo(head) /\ Applied

\* The node while a new head, which is the task's block, is being applied.
Moved(l) ==
    /\ Best(head, known) /\ byNumber = PathTo(head)
    /\ l.block = head /\ l.new = head /\ l.old # head

Fields == DOMAIN Locals0

\* What holds at each step of an import that nothing interferes with.
Phase(step, l) ==
    /\ DOMAIN l = Fields
    /\ step \in {"idle", "check", "old", "insert", "prune", "retain"} => Settled
    /\ step \in {"check", "old", "insert", "decide", "head", "canonical", "new", "tip"} =>
          l.path = NoBlocks /\ l.at = 0
    /\ step \in {"old", "insert"} => l.block \notin known
    /\ step = "insert" => l.old = head
    /\ step \in {"decide", "head"} =>
          /\ l.old = head /\ l.block # head /\ Best(head, known \ {l.block})
          /\ byNumber = PathTo(head) /\ Applied
    /\ step = "head" => Better(l.block, head)
    /\ step = "canonical" => Best(head, known) /\ l.block = head /\ l.old # head
    /\ step = "new" =>
          /\ Best(head, known) /\ byNumber = PathTo(head)
          /\ l.block # l.old /\ head \in {l.block, l.old}
          /\ head = l.old => Applied
    /\ step \in {"tip", "scan", "index", "post", "accounts", "storage", "code"} => Moved(l)
    /\ step = "scan" =>
          /\ l.tip = Number[head]
          /\ \E m \in 0 .. Number[head] + 1 :
                 l.at = m /\ l.path = [n \in 0 .. m - 1 |-> byNumber[n]]
    /\ step = "index" => l.path = byNumber
    /\ step = "record" =>
          \/ Moved(l) /\ txIndex = byNumber
          \/ Settled /\ l.old = head /\ l.new = head /\ l.block # head
    /\ step \in {"post", "accounts", "storage", "code"} =>
          txIndex = byNumber /\ head \in DOMAIN snapshots
    /\ step \in {"accounts", "storage", "code"} => l.post = snapshots[head]
    /\ step \in {"storage", "code"} => live["accounts"] = l.post
    /\ step = "code" => live["storage"] = l.post
    /\ step = "retain" => l.keep = Range(PathTo(head))

\* The inductive invariant of a node whose imports do not overlap.
SoloInv ==
    /\ IInv
    /\ DOMAIN live = Parts
    /\ \A k \in Task : active = {k} => Phase(pc[k], loc[k])

\* The locals of a task stay records with the same fields.
LEMMA LocalsStay ==
    ASSUME IInv, NEW k \in Task, NEW step, NEW from
    PROVE  /\ Goto(k, from, step) => pc[k] = from /\ pc'[k] = step
           /\ \A l : Set(k, l) => loc'[k] = l
           /\ UNCHANGED loc => loc'[k] = loc[k]
           /\ UNCHANGED pc => pc'[k] = pc[k]
  BY DEF IInv, Goto, Set

\* The start of an import, with its checks: the node stays settled.
LEMMA SoloCheck ==
    ASSUME SoloInv, NEW k \in Task, active = {k},
           (\E b \in Block : Begin(k, b)) \/ CheckBlock(k) \/ ReadOldHead(k)
    PROVE  Phase(pc[k], loc[k])'
<1> DEFINE l == loc[k]
<1>1. Phase(pc[k], l) /\ IInv
  BY DEF SoloInv
<1>2. known' = known /\ byNumber' = byNumber /\ head' = head /\ snapshots' = snapshots
      /\ txIndex' = txIndex /\ live' = live
  BY Zenon DEF Begin, CheckBlock, ReadOldHead, store
<1>3. Settled' = Settled
  BY <1>2 DEF Settled, Best, Applied
<1>4. CASE \E b \in Block : Begin(k, b)
  <2>1. PICK b, post : /\ Goto(k, "idle", "check")
                       /\ Set(k, [Locals0 EXCEPT !.block = b, !.trial = post])
    BY <1>4, Zenon DEF Begin
  <2>2. /\ pc[k] = "idle" /\ pc'[k] = "check"
        /\ loc'[k] = [Locals0 EXCEPT !.block = b, !.trial = post]
    BY <1>1, <2>1, LocalsStay
  <2>3. DOMAIN loc'[k] = Fields /\ loc'[k].path = NoBlocks /\ loc'[k].at = 0
    BY <2>2 DEF Fields, Locals0
  <2>4. Settled
    BY <1>1, <2>2 DEF Phase
  <2> QED
    BY <1>3, <2>2, <2>3, <2>4 DEF Phase
<1>5. CASE CheckBlock(k)
  <2>1. CASE Goto(k, "check", "old") /\ UNCHANGED loc /\ l.block \notin known
    <3>1. pc[k] = "check" /\ pc'[k] = "old" /\ loc'[k] = l
      BY <1>1, <2>1, LocalsStay
    <3>2. Settled /\ l.path = NoBlocks /\ l.at = 0 /\ DOMAIN l = Fields
      BY <1>1, <3>1 DEF Phase
    <3> QED
      BY <1>2, <1>3, <2>1, <3>1, <3>2 DEF Phase
  <2>2. CASE Return(k, "check")
    <3>1. pc[k] = "check" /\ pc'[k] = "idle" /\ loc'[k] = Locals0
      BY <1>1, <2>2, LocalsStay DEF Return
    <3>2. Settled
      BY <1>1, <3>1 DEF Phase
    <3> QED
      BY <1>2, <1>3, <3>1, <3>2 DEF Phase, Fields
  <2> QED
    BY <1>5, <2>1, <2>2 DEF CheckBlock
<1>6. CASE ReadOldHead(k)
  <2>1. pc[k] = "old" /\ pc'[k] = "insert" /\ loc'[k] = [l EXCEPT !.old = head]
    BY <1>1, <1>6, LocalsStay DEF ReadOldHead
  <2>2. Settled /\ l.path = NoBlocks /\ l.at = 0 /\ DOMAIN l = Fields /\ l.block \notin known
    BY <1>1, <2>1 DEF Phase
  <2>3. "old" \in Fields /\ "path" \in Fields /\ "at" \in Fields /\ "block" \in Fields
    BY DEF Fields, Locals0
  <2>4. /\ DOMAIN loc'[k] = Fields /\ loc'[k].old = head
        /\ loc'[k].path = NoBlocks /\ loc'[k].at = 0 /\ loc'[k].block = l.block
    BY <2>1, <2>2, <2>3
  <2> QED
    BY <1>2, <1>3, <2>1, <2>2, <2>4 DEF Phase
<1> QED
  BY <1>4, <1>5, <1>6

\* A block that loses the fork choice leaves the head the best of all, one
\* that wins it becomes the best.
LEMMA BestAfter ==
    ASSUME NEW K \in SUBSET Block, NEW h \in K, NEW b \in K, Best(h, K \ {b})
    PROVE  /\ Better(b, h) => Best(b, K)
           /\ ~Better(b, h) => Best(h, K)
<1>1. ASSUME NEW c \in Block PROVE c \in Nat /\ Number[c] \in Nat
  BY Links
<1>2. ASSUME NEW c \in K
      PROVE  c = b \/ Number[c] < Number[h] \/ (Number[c] = Number[h] /\ h <= c)
  <2>1. c # b => c \in K \ {b}
    OBVIOUS
  <2> QED
    BY <2>1, Zenon DEF Best
<1>3. ASSUME NEW c \in K, Better(b, h)
      PROVE  Number[c] < Number[b] \/ (Number[c] = Number[b] /\ b <= c)
  <2>1. /\ c \in Nat /\ b \in Nat /\ h \in Nat
        /\ Number[c] \in Nat /\ Number[b] \in Nat /\ Number[h] \in Nat
    BY <1>1
  <2>2. c = b \/ Number[c] < Number[h] \/ (Number[c] = Number[h] /\ h <= c)
    BY <1>2
  <2>3. Number[b] > Number[h] \/ (Number[b] = Number[h] /\ b < h)
    BY <1>3, Zenon DEF Better
  <2> QED
    BY <2>1, <2>2, <2>3
<1>4. ASSUME NEW c \in K, ~Better(b, h)
      PROVE  Number[c] < Number[h] \/ (Number[c] = Number[h] /\ h <= c)
  <2>1. /\ c \in Nat /\ b \in Nat /\ h \in Nat
        /\ Number[c] \in Nat /\ Number[b] \in Nat /\ Number[h] \in Nat
    BY <1>1
  <2>2. c = b \/ Number[c] < Number[h] \/ (Number[c] = Number[h] /\ h <= c)
    BY <1>2
  <2> QED
    BY <1>4, <2>1, <2>2 DEF Better
<1> QED
  BY <1>3, <1>4 DEF Best

\* insert_block and maybe_update_canonical.
LEMMA SoloInsert ==
    ASSUME SoloInv, NEW k \in Task, active = {k},
           InsertByHash(k) \/ Decide(k) \/ WriteHead(k) \/ RebuildCanonical(k) \/ ReadNewHead(k)
    PROVE  Phase(pc[k], loc[k])'
<1> DEFINE l == loc[k]
<1>1. Phase(pc[k], l) /\ IInv
  BY DEF SoloInv
<1>2. TaskOK(pc[k], l, known) /\ known \in SUBSET Block /\ head \in known
  BY <1>1 DEF IInv
<1>3. DOMAIN l = Fields
  BY <1>1 DEF Phase
<1>4. CASE InsertByHash(k)
  <2>1. /\ pc[k] = "insert" /\ pc'[k] = "decide" /\ loc'[k] = l
        /\ known' = known \cup {l.block}
        /\ byNumber' = byNumber /\ head' = head /\ snapshots' = snapshots
        /\ txIndex' = txIndex /\ live' = live
    BY <1>1, <1>4, LocalsStay DEF InsertByHash
  <2>2. Settled /\ l.path = NoBlocks /\ l.at = 0 /\ l.block \notin known /\ l.old = head
    BY <1>1, <2>1 DEF Phase
  <2>3. l.block # head /\ known' \ {l.block} = known
    BY <1>2, <2>1, <2>2
  <2>4. Best(head, known) /\ byNumber = PathTo(head) /\ Applied
    BY <2>2 DEF Settled
  <2>5. Applied'
    BY <2>1, <2>4 DEF Applied
  <2>6. Best(head', known' \ {l.block})
    BY <2>1, <2>3, <2>4
  <2>7. Phase("decide", l)'
    BY <1>3, <2>1, <2>2, <2>3, <2>4, <2>5, <2>6 DEF Phase
  <2> QED
    BY <2>1, <2>7
<1>5. CASE Decide(k)
  <2>1. /\ pc[k] = "decide" /\ loc'[k] = l
        /\ known' = known
        /\ byNumber' = byNumber /\ head' = head /\ snapshots' = snapshots
        /\ txIndex' = txIndex /\ live' = live
        /\ IF Better(l.block, head) THEN pc'[k] = "head" ELSE pc'[k] = "new"
    BY <1>1, <1>5, LocalsStay DEF Decide, store
  <2>2. /\ l.path = NoBlocks /\ l.at = 0 /\ l.old = head /\ l.block # head /\ Best(head, known \ {l.block})
        /\ byNumber = PathTo(head) /\ Applied
    BY <1>1, <2>1 DEF Phase
  <2>3. Applied'
    BY <2>1, <2>2 DEF Applied
  <2>4. l.block \in known
    BY <1>2, <2>1 DEF TaskOK, Inserted
  <2>5. CASE Better(l.block, head)
    BY <1>3, <2>1, <2>2, <2>3, <2>5 DEF Phase
  <2>6. CASE ~Better(l.block, head)
    <3>1. Best(head, known)
      BY <1>2, <2>2, <2>4, <2>6, BestAfter, Zenon
    <3>2. Best(head, known)'
      BY <2>1, <3>1
    <3> QED
      BY <1>3, <2>1, <2>2, <2>3, <2>6, <3>2 DEF Phase
  <2> QED
    BY <2>5, <2>6
<1>6. CASE WriteHead(k)
  <2>1. /\ pc[k] = "head" /\ pc'[k] = "canonical" /\ loc'[k] = l
        /\ known' = known /\ head' = l.block
    BY <1>1, <1>6, LocalsStay DEF WriteHead
  <2>2. /\ l.path = NoBlocks /\ l.at = 0 /\ l.old = head /\ l.block # head /\ Best(head, known \ {l.block})
        /\ Better(l.block, head)
    BY <1>1, <2>1 DEF Phase
  <2>3. l.block \in known
    BY <1>2, <2>1 DEF TaskOK, Inserted
  <2>4. Best(l.block, known)
    BY <1>2, <2>2, <2>3, BestAfter, Zenon
  <2>5. Best(head, known)'
    BY <2>1, <2>4
  <2> QED
    BY <1>3, <2>1, <2>2, <2>5 DEF Phase
<1>7. CASE RebuildCanonical(k)
  <2>1. /\ pc[k] = "canonical" /\ pc'[k] = "new" /\ loc'[k] = l
        /\ known' = known /\ head' = head /\ byNumber' = PathTo(l.block)
    BY <1>1, <1>7, LocalsStay DEF RebuildCanonical
  <2>2. l.path = NoBlocks /\ l.at = 0 /\ Best(head, known) /\ l.block = head /\ l.old # head
    BY <1>1, <2>1 DEF Phase
  <2>3. Best(head, known)'
    BY <2>1, <2>2
  <2> QED
    BY <1>3, <2>1, <2>2, <2>3 DEF Phase
<1>8. CASE ReadNewHead(k)
  <2>1. /\ pc[k] = "new" /\ loc'[k] = [l EXCEPT !.new = head]
        /\ IF head # l.old THEN pc'[k] = "tip" ELSE pc'[k] = "record"
        /\ known' = known
        /\ byNumber' = byNumber /\ head' = head /\ snapshots' = snapshots
        /\ txIndex' = txIndex /\ live' = live
    BY <1>1, <1>8, LocalsStay DEF ReadNewHead, store
  <2>2. /\ l.path = NoBlocks /\ l.at = 0
        /\ Best(head, known) /\ byNumber = PathTo(head)
        /\ l.block # l.old /\ head \in {l.block, l.old}
        /\ head = l.old => Applied
    BY <1>1, <2>1 DEF Phase
  <2>3. "old" \in Fields /\ "path" \in Fields /\ "at" \in Fields /\ "block" \in Fields /\ "new" \in Fields
    BY DEF Fields, Locals0
  <2>4. PICK m : /\ m = loc'[k] /\ DOMAIN m = Fields /\ m.new = head /\ m.old = l.old
                 /\ m.path = NoBlocks /\ m.at = 0 /\ m.block = l.block
    BY <1>3, <2>1, <2>2, <2>3
  <2>5. Best(head, known)' /\ (head = l.old => Applied')
    <3>1. Best(head, known)'
      BY <2>1, <2>2
    <3>2. ASSUME head = l.old PROVE Applied'
      BY <2>1, <2>2, <3>2 DEF Applied
    <3> QED
      BY <3>1, <3>2
  <2>6. CASE head # l.old
    <3>1. Moved(m)'
      BY <2>1, <2>2, <2>4, <2>5, <2>6 DEF Moved
    <3>2. Phase("tip", m)'
      BY <2>4, <3>1 DEF Phase
    <3> QED
      BY <2>1, <2>4, <2>6, <3>2
  <2>7. CASE head = l.old
    <3>1. Settled'
      BY <2>1, <2>2, <2>5, <2>7 DEF Settled
    <3>2. Phase("record", m)'
      BY <2>1, <2>2, <2>4, <2>7, <3>1 DEF Phase
    <3> QED
      BY <2>1, <2>4, <2>7, <3>2
  <2> QED
    BY <2>6, <2>7
<1> QED
  BY <1>4, <1>5, <1>6, <1>7, <1>8

\* A chain as a map.
LEMMA ChainShape ==
    ASSUME IInv
    PROVE  /\ DOMAIN PathTo(head) = 0 .. Number[head]
           /\ PathTo(head) = [n \in 0 .. Number[head] |-> PathTo(head)[n]]
           /\ PathTo(head)[Number[head]] = head
           /\ Number[head] \in Nat
           /\ head \in Range(PathTo(head))
<1>1. IsPath(PathTo(head), head)
  BY PathToIsPath DEF IInv, Rooted
<1>2. head \in Block /\ Number[head] \in Nat
  BY Links DEF IInv
<1>3. PICK f : f = PathTo(head)
  OBVIOUS
<1>4. f = [n \in 0 .. Number[head] |-> f[n]] /\ f[Number[head]] = head
  BY <1>1, <1>2, <1>3, PathShape
<1>5. DOMAIN f = 0 .. Number[head] /\ Number[head] \in DOMAIN f
  BY <1>2, <1>4
<1> QED
  BY <1>2, <1>3, <1>4, <1>5 DEF Range

\* rebuild_tx_index copies the chain of the head.
LEMMA SoloIndex ==
    ASSUME SoloInv, NEW k \in Task, active = {k},
           ReadTip(k) \/ ScanHeight(k) \/ WriteIndex(k)
    PROVE  Phase(pc[k], loc[k])'
<1> DEFINE l == loc[k]
<1>1. Phase(pc[k], l) /\ IInv
  BY DEF SoloInv
<1>2. /\ known' = known /\ byNumber' = byNumber /\ head' = head /\ snapshots' = snapshots
      /\ live' = live /\ (~WriteIndex(k) => txIndex' = txIndex)
  BY DEF ReadTip, ScanHeight, WriteIndex, store
<1>3. DOMAIN l = Fields
  BY <1>1 DEF Phase
<1>4. {"block", "old", "new", "tip", "at", "path"} \subseteq Fields
  BY DEF Fields, Locals0
<1>5. PICK f, t : /\ f = byNumber /\ t = Number[head] /\ t \in Nat
                  /\ f = [n \in 0 .. t |-> f[n]] /\ DOMAIN f = 0 .. t
  <2>1. pc[k] \in {"tip", "scan", "index"}
    BY <1>1, LocalsStay DEF ReadTip, ScanHeight, WriteIndex, Goto
  <2>2. byNumber = PathTo(head)
    BY <1>1, <2>1 DEF Phase, Moved
  <2> QED
    BY <1>1, <2>2, ChainShape, Zenon
<1>6. ASSUME NEW m, Moved(l), m.block = l.block, m.new = l.new, m.old = l.old PROVE Moved(m)'
  BY <1>2, <1>6 DEF Moved, Best
<1>7. CASE ReadTip(k)
  <2>1. pc[k] = "tip" /\ pc'[k] = "scan" /\ loc'[k] = [l EXCEPT !.tip = Number[head]]
    BY <1>1, <1>7, LocalsStay DEF ReadTip
  <2>2. Moved(l) /\ l.path = NoBlocks /\ l.at = 0
    BY <1>1, <2>1 DEF Phase
  <2>3. PICK m : /\ m = loc'[k] /\ DOMAIN m = Fields /\ m.new = l.new /\ m.old = l.old
                 /\ m.path = NoBlocks /\ m.at = 0 /\ m.block = l.block /\ m.tip = Number[head]
    BY <1>3, <1>4, <2>1, <2>2
  <2>4. Moved(m)'
    BY <1>6, <2>2, <2>3
  <2>5. NoBlocks = [n \in 0 .. 0 - 1 |-> f[n]] /\ 0 \in 0 .. t + 1
    BY <1>5 DEF NoBlocks
  <2>6. \E i \in 0 .. t + 1 : m.at = i /\ m.path = [n \in 0 .. i - 1 |-> f[n]]
    BY <2>3, <2>5
  <2>7. Phase("scan", m)'
    BY <1>2, <1>5, <2>3, <2>4, <2>6 DEF Phase
  <2> QED
    BY <2>1, <2>3, <2>7
<1>8. CASE ScanHeight(k)
  <2>1. pc[k] = "scan"
    BY <1>8 DEF ScanHeight
  <2>2. Moved(l) /\ l.tip = Number[head]
    BY <1>1, <2>1 DEF Phase
  <2>3. PICK i \in 0 .. t + 1 : l.at = i /\ l.path = [n \in 0 .. i - 1 |-> f[n]]
    <3>1. \E i \in 0 .. Number[head] + 1 :
             l.at = i /\ l.path = [n \in 0 .. i - 1 |-> byNumber[n]]
      BY <1>1, <2>1 DEF Phase
    <3> QED
      BY <1>5, <3>1
  <2>4. loc[k].at = i
    BY <2>3
  <2>5. CASE i = t + 1
    <3>1. pc'[k] = "index" /\ loc'[k] = l
      <4>1. ~(i <= l.tip)
        BY <1>5, <2>2, <2>5
      <4>2. Goto(k, "scan", "index") /\ UNCHANGED loc
        BY <1>8, <2>4, <4>1 DEF ScanHeight
      <4> QED
        BY <1>1, <4>2, LocalsStay
    <3>2. l.path = f
      <4>1. i - 1 = t
        BY <1>5, <2>5
      <4> QED
        BY <1>5, <2>3, <4>1
    <3>3. PICK m : m = l /\ m = loc'[k]
      BY <3>1
    <3>4. Moved(m)'
      BY <1>6, <2>2, <3>3
    <3>5. Phase("index", m)'
      BY <1>2, <1>3, <1>5, <3>2, <3>3, <3>4 DEF Phase
    <3> QED
      BY <3>1, <3>3, <3>5
  <2>6. CASE i # t + 1
    <3>1. i \in 0 .. t /\ i + 1 \in 0 .. t + 1 /\ i <= l.tip /\ i \in DOMAIN byNumber
      BY <1>5, <2>2, <2>6
    <3>2. Set(k, [l EXCEPT !.at = i + 1, !.path = WithHeight(@, i)]) /\ UNCHANGED pc
      BY <1>8, <2>4, <3>1 DEF ScanHeight
    <3>3. pc'[k] = "scan" /\ loc'[k] = [l EXCEPT !.at = i + 1, !.path = WithHeight(@, i)]
      BY <1>1, <2>1, <3>2, LocalsStay
    <3>4. PICK m : /\ m = loc'[k] /\ DOMAIN m = Fields /\ m.new = l.new /\ m.old = l.old
                   /\ m.path = MapInsert(l.path, i, f[i]) /\ m.at = i + 1
                   /\ m.block = l.block /\ m.tip = l.tip
      <4>1. WithHeight(l.path, i) = MapInsert(l.path, i, f[i])
        BY <1>5, <3>1 DEF WithHeight
      <4> QED
        BY <1>3, <1>4, <3>3, <4>1
    <3>5. MapInsert(l.path, i, f[i]) = [n \in 0 .. (i + 1) - 1 |-> f[n]]
      <4>1. (0 .. i - 1) \cup {i} = 0 .. (i + 1) - 1 /\ i \notin 0 .. i - 1
        BY <1>5, <3>1
      <4>2. DOMAIN l.path = 0 .. i - 1 /\ \A n \in 0 .. i - 1 : l.path[n] = f[n]
        BY <2>3
      <4>3. \A n \in 0 .. (i + 1) - 1 : n = i \/ n \in 0 .. i - 1
        BY <3>1
      <4> QED
        BY <4>1, <4>2, <4>3 DEF MapInsert
    <3>6. Moved(m)'
      BY <1>6, <2>2, <3>4
    <3>7. \E j \in 0 .. t + 1 : m.at = j /\ m.path = [n \in 0 .. j - 1 |-> f[n]]
      BY <3>1, <3>4, <3>5
    <3>8. Phase("scan", m)'
      <4>1. m.tip = Number[head] /\ DOMAIN m = Fields
        BY <2>2, <3>4
      <4>2. \E j \in 0 .. Number[head'] + 1 :
               m.at = j /\ m.path = [n \in 0 .. j - 1 |-> byNumber'[n]]
        BY <1>2, <1>5, <3>7
      <4> QED
        BY <1>2, <3>6, <4>1, <4>2 DEF Phase
    <3> QED
      BY <3>3, <3>4, <3>8
  <2> QED
    BY <2>5, <2>6
<1>9. CASE WriteIndex(k)
  <2>1. pc[k] = "index" /\ pc'[k] = "record" /\ loc'[k] = l /\ txIndex' = l.path
    BY <1>1, <1>9, LocalsStay DEF WriteIndex
  <2>2. Moved(l) /\ l.path = byNumber
    BY <1>1, <2>1 DEF Phase
  <2>3. PICK m : m = l /\ m = loc'[k]
    BY <2>1
  <2>4. Moved(m)'
    BY <1>6, <2>2, <2>3
  <2>5. Phase("record", m)'
    BY <1>2, <1>3, <2>1, <2>2, <2>3, <2>4 DEF Phase
  <2> QED
    BY <2>1, <2>3, <2>5
<1> QED
  BY <1>7, <1>8, <1>9

\* record_post_state, apply_head_change and prune_snapshots.
LEMMA SoloApply ==
    ASSUME SoloInv, NEW k \in Task, active = {k},
           \/ RecordState(k) \/ ReadPost(k)
           \/ ResetPart(k, "accounts", "storage") \/ ResetPart(k, "storage", "code")
           \/ ResetPart(k, "code", "prune")
           \/ ChooseKept(k) \/ RetainKept(k)
    PROVE  Phase(pc[k], loc[k])'
<1> DEFINE l == loc[k]
<1>1. Phase(pc[k], l) /\ IInv /\ DOMAIN live = Parts
  BY DEF SoloInv
<1>2. known' = known /\ byNumber' = byNumber /\ head' = head /\ txIndex' = txIndex
  BY DEF RecordState, ReadPost, ResetPart, ChooseKept, RetainKept, store
<1>3. DOMAIN l = Fields
  BY <1>1 DEF Phase
<1>4. {"block", "old", "new", "post", "keep"} \subseteq Fields
  BY DEF Fields, Locals0
<1>5. ASSUME NEW m, Moved(l), m.block = l.block, m.new = l.new, m.old = l.old PROVE Moved(m)'
  BY <1>2, <1>5 DEF Moved, Best
<1>6. ASSUME Settled, live' = live, head \in DOMAIN snapshots', snapshots'[head] = snapshots[head]
      PROVE  Settled'
  BY <1>2, <1>6 DEF Settled, Best, Applied
<1>7. CASE RecordState(k)
  <2>1. /\ pc[k] = "record" /\ loc'[k] = l /\ live' = live
        /\ snapshots' = MapInsert(snapshots, l.block, l.trial)
        /\ IF l.new # l.old THEN pc'[k] = "post" ELSE pc'[k] = "prune"
    BY <1>1, <1>7, LocalsStay, Zenon DEF RecordState
  <2>2. CASE Moved(l) /\ txIndex = byNumber
    <3>1. pc'[k] = "post" /\ l.block = head
      BY <2>1, <2>2 DEF Moved
    <3>2. head \in DOMAIN snapshots'
      BY <2>1, <3>1 DEF MapInsert
    <3>3. PICK m : m = l /\ m = loc'[k]
      BY <2>1
    <3>4. Moved(m)'
      BY <1>5, <2>2, <3>3
    <3>5. Phase("post", m)'
      BY <1>2, <1>3, <2>2, <3>2, <3>3, <3>4 DEF Phase
    <3> QED
      BY <2>1, <3>1, <3>3, <3>5
  <2>3. CASE Settled /\ l.old = head /\ l.new = head /\ l.block # head
    <3>1. pc'[k] = "prune"
      BY <2>1, <2>3
    <3>2. head \in DOMAIN snapshots
      BY <2>3 DEF Settled, Applied
    <3>3. head \in DOMAIN snapshots' /\ snapshots'[head] = snapshots[head]
      BY <2>1, <2>3, <3>2 DEF MapInsert
    <3>4. Settled'
      BY <1>6, <2>1, <2>3, <3>3
    <3>5. Phase("prune", l)'
      BY <1>3, <2>1, <3>4 DEF Phase
    <3> QED
      BY <2>1, <3>1, <3>5
  <2> QED
    BY <1>1, <2>1, <2>2, <2>3, Zenon DEF Phase
<1>8. CASE ReadPost(k)
  <2>1. pc[k] = "post" /\ live' = live /\ snapshots' = snapshots
    BY <1>8 DEF ReadPost, store
  <2>2. Moved(l) /\ txIndex = byNumber /\ head \in DOMAIN snapshots
    BY <1>1, <2>1 DEF Phase
  <2>3. l.new = head
    BY <2>2 DEF Moved
  <2>4. pc'[k] = "accounts" /\ loc'[k] = [l EXCEPT !.post = snapshots[head]]
    <3>1. Set(k, [l EXCEPT !.post = snapshots[head]]) /\ Goto(k, "post", "accounts")
      BY <1>8, <2>2, <2>3 DEF ReadPost
    <3> QED
      BY <1>1, <3>1, LocalsStay
  <2>5. PICK m : /\ m = loc'[k] /\ DOMAIN m = Fields /\ m.new = l.new /\ m.old = l.old
                 /\ m.block = l.block /\ m.post = snapshots[head]
    BY <1>3, <1>4, <2>4
  <2>6. Moved(m)'
    BY <1>5, <2>2, <2>5
  <2>7. Phase("accounts", m)'
    BY <1>2, <2>1, <2>2, <2>5, <2>6 DEF Phase
  <2> QED
    BY <2>4, <2>5, <2>7
<1>9. ASSUME NEW part \in Parts, NEW next, ResetPart(k, part, next)
      PROVE  /\ pc[k] = part /\ pc'[k] = next /\ loc'[k] = l /\ snapshots' = snapshots
             /\ live'[part] = l.post
             /\ \A p \in Parts \ {part} : live'[p] = live[p]
             /\ Moved(l) /\ Moved(l)' /\ txIndex = byNumber /\ head \in DOMAIN snapshots
             /\ l.post = snapshots[head]
  <2>1. /\ pc[k] = part /\ pc'[k] = next /\ loc'[k] = l /\ snapshots' = snapshots
        /\ live' = [live EXCEPT ![part] = l.post]
    BY <1>1, <1>9, LocalsStay DEF ResetPart, store
  <2>2. /\ Moved(l) /\ txIndex = byNumber /\ head \in DOMAIN snapshots
        /\ l.post = snapshots[head]
    BY <1>1, <2>1 DEF Phase, Parts
  <2>3. PICK m : m = l /\ m = loc'[k]
    BY <2>1
  <2>4. Moved(m)'
    BY <1>5, <2>2, <2>3
  <2>5. Moved(l)'
    BY <2>3, <2>4 DEF Moved
  <2> QED
    BY <1>1, <2>1, <2>2, <2>5
<1>10. CASE ResetPart(k, "accounts", "storage")
  <2>1. /\ pc'[k] = "storage" /\ loc'[k] = l /\ snapshots' = snapshots
        /\ live'["accounts"] = l.post
        /\ Moved(l)' /\ txIndex = byNumber /\ head \in DOMAIN snapshots
        /\ l.post = snapshots[head]
    BY <1>9, <1>10, Zenon DEF Parts
  <2>2. Phase("storage", l)'
    BY <1>2, <1>3, <2>1 DEF Phase
  <2> QED
    BY <2>1, <2>2
<1>11. CASE ResetPart(k, "storage", "code")
  <2>1. /\ pc[k] = "storage" /\ pc'[k] = "code" /\ loc'[k] = l /\ snapshots' = snapshots
        /\ live'["storage"] = l.post /\ live'["accounts"] = live["accounts"]
        /\ Moved(l)' /\ txIndex = byNumber /\ head \in DOMAIN snapshots
        /\ l.post = snapshots[head]
    BY <1>9, <1>11 DEF Parts
  <2>2. live["accounts"] = l.post
    BY <1>1, <2>1 DEF Phase
  <2>3. Phase("code", l)'
    BY <1>2, <1>3, <2>1, <2>2 DEF Phase
  <2> QED
    BY <2>1, <2>3
<1>12. CASE ResetPart(k, "code", "prune")
  <2>1. /\ pc[k] = "code" /\ pc'[k] = "prune" /\ loc'[k] = l /\ snapshots' = snapshots
        /\ live'["code"] = l.post /\ live'["accounts"] = live["accounts"]
        /\ live'["storage"] = live["storage"]
        /\ Moved(l)' /\ txIndex = byNumber /\ head \in DOMAIN snapshots
        /\ l.post = snapshots[head]
    BY <1>9, <1>12 DEF Parts
  <2>2. live["accounts"] = l.post /\ live["storage"] = l.post
    BY <1>1, <2>1 DEF Phase
  <2>3. \A p \in Parts : live'[p] = snapshots'[head]
    BY <2>1, <2>2 DEF Parts
  <2>4. Settled'
    BY <1>2, <2>1, <2>3, Zenon DEF Settled, Applied, Moved
  <2>5. Phase("prune", l)'
    BY <1>3, <2>1, <2>4 DEF Phase
  <2> QED
    BY <2>1, <2>5
<1>13. CASE ChooseKept(k)
  <2>1. /\ pc[k] = "prune" /\ pc'[k] = "retain" /\ live' = live /\ snapshots' = snapshots
        /\ loc'[k] = [l EXCEPT !.keep = Range(PathTo(head))]
    BY <1>1, <1>13, LocalsStay DEF ChooseKept, store
  <2>2. Settled
    BY <1>1, <2>1 DEF Phase
  <2>3. Settled'
    BY <1>6, <2>1, <2>2 DEF Settled, Applied
  <2>4. PICK m : m = loc'[k] /\ DOMAIN m = Fields /\ m.keep = Range(PathTo(head))
    BY <1>3, <1>4, <2>1
  <2>5. Phase("retain", m)'
    BY <1>2, <2>3, <2>4 DEF Phase
  <2> QED
    BY <2>1, <2>4, <2>5
<1>14. CASE RetainKept(k)
  <2>1. /\ pc[k] = "retain" /\ pc'[k] = "idle" /\ loc'[k] = Locals0 /\ live' = live
        /\ snapshots' = RestrictDomain(snapshots, LAMBDA b : b \in l.keep)
    BY <1>1, <1>14, LocalsStay DEF RetainKept, Return
  <2>2. Settled /\ l.keep = Range(PathTo(head))
    BY <1>1, <2>1 DEF Phase
  <2>3. head \in l.keep /\ head \in DOMAIN snapshots
    BY <1>1, <2>2, ChainShape DEF Settled, Applied
  <2>4. head \in DOMAIN snapshots' /\ snapshots'[head] = snapshots[head]
    BY <2>1, <2>3 DEF RestrictDomain, Restrict
  <2>5. Settled'
    BY <1>6, <2>1, <2>2, <2>4
  <2>6. Phase("idle", Locals0)'
    BY <2>5 DEF Phase, Fields
  <2> QED
    BY <2>1, <2>6
<1> QED
  BY <1>7, <1>8, <1>10, <1>11, <1>12, <1>13, <1>14

\* A node with no import running starts settled.
LEMMA SoloInit == Init => SoloInv
<1> SUFFICES ASSUME Init PROVE SoloInv
  OBVIOUS
<1>1. IInv
  BY InitStep
<1>2. byNumber = PathTo(head)
  <2>1. head = Genesis /\ byNumber = [n \in {0} |-> Genesis] /\ Number[Genesis] = 0
    BY Links DEF Init
  <2>2. PathTo(head) = [n \in 0 .. 0 |-> PathTo(head)[n]] /\ PathTo(head)[0] = Genesis
    BY <1>1, <2>1, ChainShape, Zenon
  <2>3. 0 .. 0 = {0}
    OBVIOUS
  <2>4. \A n \in {0} : PathTo(head)[n] = Genesis
    BY <2>2
  <2> QED
    BY <2>1, <2>2, <2>3, <2>4, Zenon
<1>3. Best(head, known)
  BY Links DEF Init, Best
<1>4. Settled
  BY <1>2, <1>3 DEF Init, Settled, Applied
<1>5. Phase("idle", Locals0)
  BY <1>4 DEF Phase, Fields
<1>6. \A k \in Task : pc[k] = "idle" /\ loc[k] = Locals0
  BY DEF Init
<1> QED
  BY <1>1, <1>5, <1>6 DEF SoloInv, Init

\* Every step of a task that imports alone leads to the next phase.
LEMMA SoloNext == SoloInv /\ [Next]_vars => SoloInv'
<1> SUFFICES ASSUME SoloInv, [Next]_vars PROVE SoloInv'
  OBVIOUS
<1>1. IInv'
  BY NextStep DEF SoloInv
<1>2. CASE Next
  <2>1. DOMAIN live' = Parts
    BY <1>2, Zenon DEF SoloInv, Next, Begin, CheckBlock, ReadOldHead, InsertByHash, Decide, WriteHead,
                RebuildCanonical, ReadNewHead, ReadTip, ScanHeight, WriteIndex, RecordState,
                ReadPost, ResetPart, ChooseKept, RetainKept
  <2>2. ASSUME NEW k \in Task, active' = {k} PROVE Phase(pc[k], loc[k])'
    <3>1. active = {k}
      BY <1>2, <2>2 DEF Next
    <3>2. \/ \E b \in Block : Begin(k, b)
          \/ CheckBlock(k) \/ ReadOldHead(k) \/ InsertByHash(k) \/ Decide(k)
          \/ WriteHead(k) \/ RebuildCanonical(k) \/ ReadNewHead(k)
          \/ ReadTip(k) \/ ScanHeight(k) \/ WriteIndex(k)
          \/ RecordState(k) \/ ReadPost(k)
          \/ ResetPart(k, "accounts", "storage") \/ ResetPart(k, "storage", "code")
          \/ ResetPart(k, "code", "prune")
          \/ ChooseKept(k) \/ RetainKept(k)
      BY <1>2, <3>1, Zenon DEF Next
    <3> QED
      BY <3>1, <3>2, SoloCheck, SoloInsert, SoloIndex, SoloApply, Zenon
  <2> QED
    BY <1>1, <2>1, <2>2 DEF SoloInv
<1>3. CASE UNCHANGED vars
  <2>1. ASSUME NEW k \in Task, active' = {k} PROVE Phase(pc[k], loc[k])'
    <3>1. Phase(pc[k], loc[k])
      BY <1>3, <2>1 DEF SoloInv, vars
    <3> QED
      BY <1>3, <3>1, Zenon DEF vars, Phase, Settled, Applied, Moved, Best
  <2> QED
    BY <1>1, <1>3, <2>1 DEF SoloInv, vars
<1> QED
  BY <1>2, <1>3

\* With one importing task, a node is settled between two imports: import.rs
\* and apply.rs, taken one lock at a time, leave the head the best known block,
\* both indexes its chain and the live state its state, and prune_snapshots
\* keeps its snapshot.
THEOREM SettledWhenAloneAlways == Spec => []SettledWhenAlone
<1>1. SoloInv => SettledWhenAlone
  <2> SUFFICES ASSUME SoloInv, Alone, Quiet PROVE HeadIsBest /\ Settled
    BY DEF SettledWhenAlone, Settled, Applied
  <2>1. IsFiniteSet(active)
    BY ChainTasksAssumption, FS_Subset DEF SoloInv, IInv
  <2>2. PICK k : active = {k}
    BY <2>1, FS_Singleton, Zenon DEF Alone
  <2>3. k \in Task
    BY <2>2 DEF SoloInv, IInv
  <2>4. Settled
    BY <2>2, <2>3, Zenon DEF SoloInv, Quiet, Phase
  <2> QED
    BY <2>4 DEF Settled, Best, HeadIsBest
<1>2. Spec => []SoloInv
  BY SoloInit, SoloNext, PTL DEF Spec
<1> QED
  BY <1>1, <1>2, PTL
=============================================================================
