------------------------- MODULE TxPoolTasksProofs -------------------------
(***************************************************************************)
(* The bound on the overshoot of max_pending, for any number of tasks,     *)
(* transactions and limits, and the refinement of module TxPool by a task  *)
(* that has the pool to itself.                                            *)
(***************************************************************************)
EXTENDS TxPoolTasks, FiniteSetTheorems, TLAPS

\* Tasks that have seen room in the pool and have not used it yet.
PastLen == {k \in active : pc[k] \in {"count", "nonce", "insert"}}

\* The strengthening: whoever passed the length check may still insert.
IInv ==
    /\ active \subseteq Task /\ active # {}
    /\ pending \subseteq Tx
    /\ pc \in [Task -> {"idle"} \cup AddSteps \cup RemoveSteps]
    /\ \A k \in Task : pc[k] # "idle" => tx[k] \in Tx
    /\ tx \in [Task -> Tx \cup {NoTx}]
    /\ Cardinality(pending) + Cardinality(PastLen)
          <= MaxPending + Cardinality(active) - 1

\* The tasks that use the pool are finitely many.
LEMMA ActiveFinite ==
    ASSUME active \subseteq Task
    PROVE  IsFiniteSet(active) /\ Cardinality(active) \in Nat
  BY TasksAssumption, FS_Subset, FS_CardinalityType

LEMMA InitStep == Init => IInv
<1> SUFFICES ASSUME Init PROVE IInv
  OBVIOUS
<1>1. Cardinality(active) \in Nat /\ Cardinality(active) # 0
  BY ActiveFinite, FS_EmptySet DEF Init
<1>2. pending = {} /\ PastLen = {}
  BY DEF Init, PastLen
<1>3. Cardinality(pending) = 0 /\ Cardinality(PastLen) = 0
  BY <1>2, FS_EmptySet
<1>4. MaxPending \in Nat
  BY TasksAssumption
<1>5. Cardinality(pending) + Cardinality(PastLen) <= MaxPending + Cardinality(active) - 1
  BY <1>1, <1>3, <1>4
<1>6. QED
  BY <1>5 DEF Init, IInv, AddSteps, RemoveSteps

\* A step that neither inserts nor lets a task past the length check.
LEMMA NoRoomTaken ==
    ASSUME IInv, pending' \subseteq pending, PastLen' \subseteq PastLen
    PROVE  Cardinality(pending') + Cardinality(PastLen')
              <= MaxPending + Cardinality(active) - 1
<1>1. IsFiniteSet(pending) /\ IsFiniteSet(PastLen)
  BY ActiveFinite, TasksAssumption, FS_Subset DEF IInv, PastLen
<1>2. /\ Cardinality(pending') <= Cardinality(pending)
      /\ Cardinality(PastLen') <= Cardinality(PastLen)
  BY <1>1, FS_Subset
<1>3. /\ Cardinality(pending) \in Nat /\ Cardinality(PastLen) \in Nat
      /\ Cardinality(pending') \in Nat /\ Cardinality(PastLen') \in Nat
      /\ Cardinality(active) \in Nat
  BY <1>1, ActiveFinite, FS_Subset, FS_CardinalityType DEF IInv
<1>4. Cardinality(pending) + Cardinality(PastLen) <= MaxPending + Cardinality(active) - 1
  BY DEF IInv
<1>5. MaxPending \in Nat
  BY TasksAssumption
<1>6. QED
  BY <1>2, <1>3, <1>4, <1>5

\* Every step preserves the invariant.
LEMMA NextStep == IInv /\ [Next]_vars => IInv'
<1> SUFFICES ASSUME IInv, [Next]_vars PROVE IInv'
  OBVIOUS
<1> USE DEF AddSteps, RemoveSteps
<1> DEFINE Types == /\ active \subseteq Task /\ active # {}
                    /\ pending \subseteq Tx
                    /\ pc \in [Task -> {"idle"} \cup AddSteps \cup RemoveSteps]
                    /\ \A k \in Task : pc[k] # "idle" => tx[k] \in Tx
                    /\ tx \in [Task -> Tx \cup {NoTx}]
<1>1. ASSUME NEW k \in active, UNCHANGED active, NEW t \in Tx, CallAdd(k, t) \/ CallRemove(k, t)
      PROVE  IInv'
  <2>1. Types' /\ pending' = pending
    BY <1>1 DEF CallAdd, CallRemove, Call, Goto, maps, IInv
  <2>2. PastLen' \subseteq PastLen
    BY <1>1 DEF CallAdd, CallRemove, Call, Goto, IInv, PastLen
  <2>3. QED
    BY <1>1, <2>1, <2>2, NoRoomTaken DEF IInv
<1>2. ASSUME NEW k \in active, UNCHANGED active, CheckKnown(k) \/ ReadCount(k) \/ CheckNonce(k)
      PROVE  IInv'
  <2>1. Types' /\ pending' = pending
    BY <1>2 DEF CheckKnown, ReadCount, CheckNonce, Check, Goto, Return, maps, IInv
  <2>2. PastLen' \subseteq PastLen
    BY <1>2 DEF CheckKnown, ReadCount, CheckNonce, Check, Goto, Return, IInv, PastLen
  <2>3. QED
    BY <1>2, <2>1, <2>2, NoRoomTaken DEF IInv
<1>3. ASSUME NEW k \in active, UNCHANGED active, CheckLen(k)
      PROVE  IInv'
  <2>1. Types' /\ pending' = pending
    BY <1>3 DEF CheckLen, Check, Goto, Return, maps, IInv
  <2>2. CASE Cardinality(pending) < MaxPending
    <3>1. PastLen' \subseteq active /\ IsFiniteSet(active)
      BY <1>3, ActiveFinite DEF IInv, PastLen
    <3>2. Cardinality(PastLen') <= Cardinality(active)
      BY <3>1, FS_Subset
    <3>3. /\ Cardinality(pending) \in Nat /\ Cardinality(PastLen') \in Nat
          /\ Cardinality(active) \in Nat /\ MaxPending \in Nat
      BY <3>1, ActiveFinite, TasksAssumption, FS_Subset, FS_CardinalityType DEF IInv
    <3>4. Cardinality(pending') + Cardinality(PastLen')
             <= MaxPending + Cardinality(active) - 1
      BY <2>1, <2>2, <3>2, <3>3
    <3>5. QED
      BY <1>3, <2>1, <3>4 DEF IInv
  <2>3. CASE ~(Cardinality(pending) < MaxPending)
    <3>1. PastLen' \subseteq PastLen
      BY <1>3, <2>3 DEF CheckLen, Check, Return, Goto, IInv, PastLen
    <3>2. QED
      BY <1>3, <2>1, <3>1, NoRoomTaken DEF IInv
  <2>4. QED
    BY <2>2, <2>3
<1>4. ASSUME NEW k \in active, UNCHANGED active, InsertPending(k)
      PROVE  IInv'
  <2>1. Types'
    BY <1>4 DEF InsertPending, Goto, IInv
  <2>2. pending' = pending \cup {tx[k]} /\ k \in PastLen /\ PastLen' = PastLen \ {k}
    BY <1>4 DEF InsertPending, Goto, IInv, PastLen
  <2>3. IsFiniteSet(pending) /\ IsFiniteSet(PastLen)
    BY ActiveFinite, TasksAssumption, FS_Subset DEF IInv, PastLen
  <2>4. Cardinality(pending') <= Cardinality(pending) + 1 /\ Cardinality(pending') \in Nat
    <3>1. /\ IsFiniteSet(pending \cup {tx[k]})
          /\ \/ Cardinality(pending \cup {tx[k]}) = Cardinality(pending)
             \/ Cardinality(pending \cup {tx[k]}) = Cardinality(pending) + 1
      BY <2>3, FS_AddElement
    <3>2. Cardinality(pending) \in Nat
      BY <2>3, FS_CardinalityType
    <3>3. QED
      BY <2>2, <3>1, <3>2
  <2>5. Cardinality(PastLen') = Cardinality(PastLen) - 1
    BY <2>2, <2>3, FS_RemoveElement, Zenon
  <2>6. /\ Cardinality(pending) \in Nat /\ Cardinality(PastLen) \in Nat
        /\ Cardinality(active) \in Nat /\ MaxPending \in Nat
    BY <2>3, ActiveFinite, TasksAssumption, FS_CardinalityType DEF IInv
  <2>7. Cardinality(pending) + Cardinality(PastLen) <= MaxPending + Cardinality(active) - 1
    BY DEF IInv
  <2>8. Cardinality(pending') + Cardinality(PastLen') <= MaxPending + Cardinality(active) - 1
    BY <2>4, <2>5, <2>6, <2>7
  <2>9. QED
    BY <1>4, <2>1, <2>8 DEF IInv
<1>5. ASSUME NEW k \in active, UNCHANGED active, BumpNonce(k) \/ TallySender(k)
      PROVE  IInv'
  <2>1. Types' /\ pending' = pending
    BY <1>5 DEF BumpNonce, TallySender, Goto, Return, IInv
  <2>2. PastLen' \subseteq PastLen
    BY <1>5 DEF BumpNonce, TallySender, Goto, Return, IInv, PastLen
  <2>3. QED
    BY <1>5, <2>1, <2>2, NoRoomTaken DEF IInv
<1>6. ASSUME NEW k \in active, UNCHANGED active, TakePending(k) \/ DecSender(k) \/ DropSender(k)
      PROVE  IInv'
  <2>1. Types' /\ pending' \subseteq pending
    BY <1>6 DEF TakePending, DecSender, DropSender, Goto, Return, IInv
  <2>2. PastLen' \subseteq PastLen
    BY <1>6 DEF TakePending, DecSender, DropSender, Goto, Return, IInv, PastLen
  <2>3. QED
    BY <1>6, <2>1, <2>2, NoRoomTaken DEF IInv
<1>7. CASE UNCHANGED vars
  BY <1>7 DEF vars, IInv, PastLen
<1>8. QED
  BY <1>1, <1>2, <1>3, <1>4, <1>5, <1>6, <1>7 DEF Next, Step

\* However many tasks race through add_transaction_at, the pool exceeds
\* max_pending by at most one transaction for each other task.
THEOREM PendingOvershootAlways == Spec => []PendingOvershoot
<1>1. IInv => PendingOvershoot
  <2> SUFFICES ASSUME IInv PROVE PendingOvershoot
    OBVIOUS
  <2>1. IsFiniteSet(pending) /\ IsFiniteSet(PastLen)
    BY ActiveFinite, TasksAssumption, FS_Subset DEF IInv, PastLen
  <2>2. /\ Cardinality(pending) \in Nat /\ Cardinality(PastLen) \in Nat
        /\ Cardinality(active) \in Nat /\ MaxPending \in Nat
    BY <2>1, ActiveFinite, TasksAssumption, FS_CardinalityType DEF IInv
  <2>3. Cardinality(pending) + Cardinality(PastLen) <= MaxPending + Cardinality(active) - 1
    BY DEF IInv
  <2>4. QED
    BY <2>2, <2>3 DEF PendingOvershoot
<1>2. QED
  BY <1>1, InitStep, NextStep, PTL DEF Spec
----------------------------------------------------------------------------
(* The refinement.  When one task uses the pool, the abstract pool is its   *)
(* View: the maps, without what a call under way has done to them.          *)
\* What holds at each step of a call that no other task interferes with.
Lone(k) ==
    LET t == tx[k]
        s == From[t]
        at(steps) == pc[k] \in steps
    IN  /\ \A j \in Task \ {k} : pc[j] = "idle"
        /\ nextNonce \in [Sender -> Nat]
        /\ perSender \in [Sender -> Nat \cup {NoEntry}]
        /\ count \in [Task -> Nat]
        /\ history \subseteq Tx
        /\ at(AddSteps) => t \in Verified
        /\ at({"len", "count", "nonce", "insert", "dec", "drop"}) => t \notin pending
        /\ at({"count", "nonce", "insert"}) => Cardinality(pending) < MaxPending
        /\ at({"nonce", "insert", "bump", "tally"}) =>
              count[k] = CountOf(s) /\ count[k] < MaxPerSender
        /\ at({"insert", "bump"}) => Nonce[t] = nextNonce[s]
        /\ at({"bump", "tally"}) =>
              t \in pending /\ t \in history /\ Cardinality(pending \ {t}) < MaxPending
        /\ at({"tally"}) => nextNonce[s] = Nonce[t] + 1
        /\ at({"drop"}) => perSender[s] = 0
        /\ \A u \in history : (at({"bump"}) /\ u = t) \/ Nonce[u] < nextNonce[From[u]]

\* The pool that a call of task k, running alone, has yet to change.
ViewPending(k) ==
    CASE pc[k] \in {"bump", "tally"} -> pending \ {tx[k]}
      [] pc[k] \in {"dec", "drop"} -> pending \cup {tx[k]}
      [] OTHER -> pending
ViewNonce(k) ==
    [s \in Sender |->
        IF pc[k] = "tally" /\ From[tx[k]] = s THEN nextNonce[s] - 1 ELSE nextNonce[s]]
ViewCount(k) ==
    [s \in Sender |->
        IF pc[k] = "drop" /\ From[tx[k]] = s THEN CountOf(s) + 1 ELSE CountOf(s)]
View(k) == [pending |-> ViewPending(k), nextNonce |-> ViewNonce(k), perSender |-> ViewCount(k)]
ViewAdmitted(k) == IF pc[k] \in {"bump", "tally"} THEN history \ {tx[k]} ELSE history

\* SerialPool, when only task k is in a call.
SerialIsView ==
    \A k \in Task : (\A j \in Task \ {k} : pc[j] = "idle") =>
        SerialPool = View(k) /\ history \ Adding = ViewAdmitted(k)

\* It holds in every state.
LEMMA SerialView == SerialIsView
<1> SUFFICES ASSUME NEW k \in Task, \A j \in Task \ {k} : pc[j] = "idle"
             PROVE  SerialPool = View(k) /\ history \ Adding = ViewAdmitted(k)
  BY DEF SerialIsView
<1>1. ASSUME NEW steps, "idle" \notin steps
      PROVE  {j \in Task : pc[j] \in steps} = IF pc[k] \in steps THEN {k} ELSE {}
  <2>1. \A j \in Task : pc[j] \in steps => j = k
    BY <1>1
  <2> QED
    BY <2>1
<1>2. Adding = IF pc[k] \in {"bump", "tally"} THEN {tx[k]} ELSE {}
  <2>1. {j \in Task : pc[j] \in {"bump", "tally"}}
           = IF pc[k] \in {"bump", "tally"} THEN {k} ELSE {}
    BY <1>1
  <2> QED
    BY <2>1 DEF Adding
<1>3. Taking = IF pc[k] \in {"dec", "drop"} THEN {tx[k]} ELSE {}
  <2>1. {j \in Task : pc[j] \in {"dec", "drop"}}
           = IF pc[k] \in {"dec", "drop"} THEN {k} ELSE {}
    BY <1>1
  <2> QED
    BY <2>1 DEF Taking
<1>4. (pending \ Adding) \cup Taking = ViewPending(k)
  BY <1>2, <1>3 DEF ViewPending
<1>5. \A s \in Sender : (\E j \in Task : pc[j] = "tally" /\ From[tx[j]] = s)
                           <=> (pc[k] = "tally" /\ From[tx[k]] = s)
  OBVIOUS
<1>6. \A s \in Sender : (\E j \in Task : pc[j] = "drop" /\ From[tx[j]] = s)
                           <=> (pc[k] = "drop" /\ From[tx[k]] = s)
  OBVIOUS
<1>7. SerialPool = View(k)
  BY <1>4, <1>5, <1>6, Zenon DEF SerialPool, View, ViewNonce, ViewCount
<1>8. history \ Adding = ViewAdmitted(k)
  BY <1>2 DEF ViewAdmitted
<1> QED
  BY <1>7, <1>8

\* The steps before a call has written anything.
Plain == {"idle", "known", "len", "count", "nonce", "insert", "take"}

Stutters(k) == View(k)' = View(k) /\ ViewAdmitted(k)' = ViewAdmitted(k)
Adds(k, t) ==
    /\ View(k)' = Atomic!AddTransaction(View(k), t)
    /\ ViewAdmitted(k)' = IF Atomic!Admissible(View(k), t)
                          THEN ViewAdmitted(k) \cup {t} ELSE ViewAdmitted(k)
Takes(k, t) ==
    /\ View(k)' = Atomic!RemoveTransaction(View(k), t)
    /\ ViewAdmitted(k)' = ViewAdmitted(k)

\* The view before a write is the pool itself.
PlainIsView ==
    \A k \in Task : pc[k] \in Plain =>
        /\ View(k) = [pending |-> pending, nextNonce |-> [s \in Sender |-> nextNonce[s]],
                      perSender |-> [s \in Sender |-> CountOf(s)]]
        /\ ViewAdmitted(k) = history

\* It holds in every state.
LEMMA PlainView == PlainIsView
<1> SUFFICES ASSUME NEW k \in Task, pc[k] \in Plain
             PROVE  /\ View(k) = [pending |-> pending,
                                  nextNonce |-> [s \in Sender |-> nextNonce[s]],
                                  perSender |-> [s \in Sender |-> CountOf(s)]]
                    /\ ViewAdmitted(k) = history
  BY DEF PlainIsView
<1>1. pc[k] \notin {"bump", "tally", "dec", "drop"}
  BY DEF Plain
<1>2. ViewPending(k) = pending /\ ViewAdmitted(k) = history
  BY <1>1 DEF ViewPending, ViewAdmitted
<1>3. /\ ViewNonce(k) = [s \in Sender |-> nextNonce[s]]
      /\ ViewCount(k) = [s \in Sender |-> CountOf(s)]
  BY <1>1 DEF ViewNonce, ViewCount
<1> QED
  BY <1>2, <1>3 DEF View

\* A step between two of those, which reads only.
LEMMA PlainStutters ==
    ASSUME NEW k \in Task, pc[k] \in Plain, pc'[k] \in Plain, UNCHANGED <<maps, history>>
    PROVE  Stutters(k)
<1>1. PlainIsView'
  BY PlainView, PTL
<1>2. /\ View(k) = [pending |-> pending, nextNonce |-> [s \in Sender |-> nextNonce[s]],
                    perSender |-> [s \in Sender |-> CountOf(s)]]
      /\ ViewAdmitted(k) = history
  BY PlainView DEF PlainIsView
<1>3. /\ View(k)' = [pending |-> pending', nextNonce |-> [s \in Sender |-> nextNonce'[s]],
                     perSender |-> [s \in Sender |-> CountOf(s)']]
      /\ ViewAdmitted(k)' = history'
  BY <1>1 DEF PlainIsView
<1>4. pending' = pending /\ nextNonce' = nextNonce /\ history' = history
      /\ \A s \in Sender : CountOf(s)' = CountOf(s)
  BY DEF maps, CountOf
<1> QED
  BY <1>2, <1>3, <1>4 DEF Stutters

\* Moving on, or returning, leaves the other tasks idle.
LEMMA LoneMoves ==
    ASSUME IInv, NEW k \in Task, \A j \in Task \ {k} : pc[j] = "idle", NEW from, NEW to,
           count \in [Task -> Nat]
    PROVE  /\ Goto(k, from, to) =>
                 pc[k] = from /\ pc'[k] = to /\ \A j \in Task \ {k} : pc'[j] = "idle"
           /\ Return(k, from) =>
                 /\ pc[k] = from /\ pc'[k] = "idle" /\ \A j \in Task \ {k} : pc'[j] = "idle"
                 /\ tx'[k] = NoTx /\ count' \in [Task -> Nat]
  BY DEF IInv, Goto, Return

\* The calls and the reads of add_transaction_at and remove.
LEMMA LoneReads ==
    ASSUME IInv, NEW k \in Task, Lone(k),
           \/ \E t \in Tx : CallAdd(k, t) \/ CallRemove(k, t)
           \/ CheckKnown(k) \/ CheckLen(k) \/ ReadCount(k) \/ CheckNonce(k)
    PROVE  Lone(k)' /\ Stutters(k)
<1> USE DEF AddSteps
<1>1. /\ pending' = pending /\ nextNonce' = nextNonce /\ perSender' = perSender
      /\ history' = history
  BY DEF CallAdd, CallRemove, Call, CheckKnown, CheckLen, ReadCount, CheckNonce, Check, maps
<1>2. \A s : CountOf(s)' = CountOf(s)
  BY <1>1 DEF CountOf
<1>3. /\ \A j \in Task \ {k} : pc[j] = "idle"
      /\ nextNonce \in [Sender -> Nat] /\ perSender \in [Sender -> Nat \cup {NoEntry}]
      /\ count \in [Task -> Nat] /\ history \subseteq Tx
  BY DEF Lone
<1>4. ASSUME pc[k] \in Plain PROVE \A u \in history : Nonce[u] < nextNonce[From[u]]
  BY <1>4 DEF Lone, Plain
<1>5. ASSUME pc[k] \in Plain, Return(k, pc[k]) PROVE Lone(k)' /\ Stutters(k)
  <2>1. /\ pc'[k] = "idle" /\ \A j \in Task \ {k} : pc'[j] = "idle"
        /\ count' \in [Task -> Nat]
    BY <1>3, <1>5, LoneMoves, Zenon
  <2>2. Lone(k)'
    BY <1>1, <1>3, <1>4, <1>5, <2>1 DEF Lone
  <2>3. Stutters(k)
    BY <1>1, <1>5, <2>1, PlainStutters DEF Plain, maps
  <2> QED
    BY <2>2, <2>3
<1>6. ASSUME NEW to \in Plain, pc[k] \in Plain, pc'[k] = to PROVE Stutters(k)
  BY <1>1, <1>6, PlainStutters DEF maps
<1>7. ASSUME NEW t \in Tx, CallAdd(k, t) \/ CallRemove(k, t) PROVE Lone(k)' /\ Stutters(k)
  <2>1. PICK first \in {"known", "take"} :
           /\ Call(k, t, first) /\ (first = "known" => t \in Verified)
    BY <1>7 DEF CallAdd, CallRemove
  <2>2. /\ pc[k] = "idle" /\ pc'[k] = first /\ \A j \in Task \ {k} : pc'[j] = "idle"
        /\ tx'[k] = t /\ count' = count
    BY <1>3, <2>1, LoneMoves DEF Call, IInv
  <2>3. pc[k] \in Plain /\ first \in Plain
    BY <2>2 DEF Plain
  <2>4. Lone(k)'
    BY <1>1, <1>3, <1>4, <2>1, <2>2, <2>3 DEF Lone
  <2> QED
    BY <1>6, <2>2, <2>3, <2>4
<1>8. CASE CheckKnown(k)
  <2>1. pc[k] = "known" /\ pc[k] \in Plain /\ "len" \in Plain
    BY <1>8 DEF CheckKnown, Check, Plain
  <2>2. CASE tx[k] \notin pending /\ Goto(k, "known", "len") /\ UNCHANGED <<tx, count>>
    <3>1. pc'[k] = "len" /\ \A j \in Task \ {k} : pc'[j] = "idle"
      BY <1>3, <2>2, LoneMoves
    <3>2. tx[k] \in Verified
      BY <2>1 DEF Lone
    <3>3. Lone(k)'
      BY <1>1, <1>3, <1>4, <2>1, <2>2, <3>1, <3>2 DEF Lone
    <3> QED
      BY <1>6, <2>1, <3>1, <3>3
  <2>3. CASE Return(k, "known")
    BY <1>5, <2>1, <2>3
  <2> QED
    BY <1>8, <2>2, <2>3 DEF CheckKnown, Check
<1>9. CASE CheckLen(k)
  <2>1. pc[k] = "len" /\ pc[k] \in Plain /\ "count" \in Plain
    BY <1>9 DEF CheckLen, Check, Plain
  <2>2. CASE /\ Cardinality(pending) < MaxPending /\ Goto(k, "len", "count")
             /\ UNCHANGED <<tx, count>>
    <3>1. pc'[k] = "count" /\ \A j \in Task \ {k} : pc'[j] = "idle"
      BY <1>3, <2>2, LoneMoves
    <3>2. tx[k] \in Verified /\ tx[k] \notin pending
      BY <2>1 DEF Lone
    <3>3. Lone(k)'
      BY <1>1, <1>3, <1>4, <2>1, <2>2, <3>1, <3>2 DEF Lone
    <3> QED
      BY <1>6, <2>1, <3>1, <3>3
  <2>3. CASE Return(k, "len")
    BY <1>5, <2>1, <2>3
  <2> QED
    BY <1>9, <2>2, <2>3 DEF CheckLen, Check
<1>10. CASE ReadCount(k)
  <2>1. pc[k] = "count" /\ pc[k] \in Plain /\ "nonce" \in Plain
    BY <1>10 DEF ReadCount, Plain
  <2>2. PICK c : c = CountOf(From[tx[k]])
    OBVIOUS
  <2>3. CASE /\ c < MaxPerSender /\ Goto(k, "count", "nonce")
             /\ count' = [count EXCEPT ![k] = c] /\ UNCHANGED tx
    <3>1. pc'[k] = "nonce" /\ \A j \in Task \ {k} : pc'[j] = "idle"
      BY <1>3, <2>3, LoneMoves
    <3>2. tx[k] \in Verified /\ tx[k] \notin pending /\ Cardinality(pending) < MaxPending
      BY <2>1 DEF Lone
    <3>3. c \in Nat
      <4>1. tx[k] \in Tx
        BY <2>1 DEF IInv
      <4>2. From[tx[k]] \in Sender
        BY <4>1, TasksAssumption
      <4> QED
        BY <1>3, <2>2, <4>2 DEF CountOf, NoEntry
    <3>4. count'[k] = c /\ count' \in [Task -> Nat]
      BY <1>3, <2>3, <3>3
    <3>5. Lone(k)'
      BY <1>1, <1>2, <1>3, <1>4, <2>1, <2>2, <2>3, <3>1, <3>2, <3>4 DEF Lone
    <3> QED
      BY <1>6, <2>1, <3>1, <3>5
  <2>4. CASE Return(k, "count")
    BY <1>5, <2>1, <2>4
  <2> QED
    BY <1>10, <2>2, <2>3, <2>4 DEF ReadCount
<1>11. CASE CheckNonce(k)
  <2>1. pc[k] = "nonce" /\ pc[k] \in Plain /\ "insert" \in Plain
    BY <1>11 DEF CheckNonce, Check, Plain
  <2>2. CASE /\ Nonce[tx[k]] = nextNonce[From[tx[k]]] /\ Goto(k, "nonce", "insert")
             /\ UNCHANGED <<tx, count>>
    <3>1. pc'[k] = "insert" /\ \A j \in Task \ {k} : pc'[j] = "idle"
      BY <1>3, <2>2, LoneMoves
    <3>2. /\ tx[k] \in Verified /\ tx[k] \notin pending /\ Cardinality(pending) < MaxPending
          /\ count[k] = CountOf(From[tx[k]]) /\ count[k] < MaxPerSender
      BY <2>1 DEF Lone
    <3>3. Lone(k)'
      BY <1>1, <1>2, <1>3, <1>4, <2>1, <2>2, <3>1, <3>2 DEF Lone
    <3> QED
      BY <1>6, <2>1, <3>1, <3>3
  <2>3. CASE Return(k, "nonce")
    BY <1>5, <2>1, <2>3
  <2> QED
    BY <1>11, <2>2, <2>3 DEF CheckNonce, Check
<1> QED
  BY <1>7, <1>8, <1>9, <1>10, <1>11

\* A count is a number, and so is the nonce of a transaction.
LEMMA LoneTypes ==
    ASSUME IInv, NEW k \in Task, Lone(k), pc[k] # "idle"
    PROVE  /\ tx[k] \in Tx /\ From[tx[k]] \in Sender /\ Nonce[tx[k]] \in Nat
           /\ \A s \in Sender : CountOf(s) \in Nat /\ nextNonce[s] \in Nat
           /\ \A u \in history : u \in Tx /\ From[u] \in Sender /\ Nonce[u] \in Nat
           /\ MaxPending \in Nat /\ MaxPerSender \in Nat
           /\ \A j \in Task \ {k} : pc[j] = "idle"
           /\ nextNonce \in [Sender -> Nat] /\ perSender \in [Sender -> Nat \cup {NoEntry}]
           /\ count \in [Task -> Nat] /\ history \subseteq Tx
<1>1. tx[k] \in Tx
  BY DEF IInv
<1>2. /\ \A j \in Task \ {k} : pc[j] = "idle"
      /\ nextNonce \in [Sender -> Nat] /\ perSender \in [Sender -> Nat \cup {NoEntry}]
      /\ count \in [Task -> Nat] /\ history \subseteq Tx
  BY DEF Lone
<1>3. \A s \in Sender : CountOf(s) \in Nat /\ nextNonce[s] \in Nat
  BY <1>2 DEF CountOf, NoEntry
<1> QED
  BY <1>1, <1>2, <1>3, TasksAssumption

\* Every transaction of the history is below the tracker of its sender.
LEMMA LoneHistory ==
    ASSUME NEW k \in Task, Lone(k), NEW u \in history
    PROVE  (pc[k] = "bump" /\ u = tx[k]) \/ Nonce[u] < nextNonce[From[u]]
  BY DEF Lone

\* The writes of add_transaction_at: the last one adds the transaction to the view.
LEMMA LoneAdd ==
    ASSUME IInv, NEW k \in Task, Lone(k),
           InsertPending(k) \/ BumpNonce(k) \/ TallySender(k)
    PROVE  Lone(k)' /\ (Stutters(k) \/ Adds(k, tx[k]))
<1>1. PICK t, s : t = tx[k] /\ s = From[t]
  OBVIOUS
<1>2. pc[k] \in {"insert", "bump", "tally"}
  BY DEF InsertPending, BumpNonce, TallySender, Return, Goto
<1>3. /\ t \in Tx /\ s \in Sender /\ Nonce[t] \in Nat
      /\ \A r \in Sender : CountOf(r) \in Nat /\ nextNonce[r] \in Nat
      /\ \A u \in history : u \in Tx /\ From[u] \in Sender /\ Nonce[u] \in Nat
      /\ MaxPending \in Nat /\ MaxPerSender \in Nat
      /\ \A j \in Task \ {k} : pc[j] = "idle"
      /\ nextNonce \in [Sender -> Nat] /\ perSender \in [Sender -> Nat \cup {NoEntry}]
      /\ count \in [Task -> Nat] /\ history \subseteq Tx
  BY <1>1, <1>2, LoneTypes
<1>4. t \in Verified /\ count[k] = CountOf(s) /\ count[k] < MaxPerSender
  BY <1>1, <1>2 DEF Lone, AddSteps
<1>5. CASE InsertPending(k)
  <2>1. /\ pc[k] = "insert" /\ pc'[k] = "bump" /\ \A j \in Task \ {k} : pc'[j] = "idle"
        /\ pending' = pending \cup {t} /\ history' = history \cup {t}
        /\ nextNonce' = nextNonce /\ perSender' = perSender /\ tx' = tx /\ count' = count
    BY <1>1, <1>3, <1>5, LoneMoves DEF InsertPending
  <2>2. t \notin pending /\ Cardinality(pending) < MaxPending /\ Nonce[t] = nextNonce[s]
    BY <1>1, <2>1 DEF Lone
  <2>3. \A u \in history : Nonce[u] < nextNonce[From[u]]
    BY <2>1, LoneHistory
  <2>4. t \notin history
    BY <1>1, <1>3, <2>2, <2>3
  <2>5. pending' \ {t} = pending /\ history' \ {t} = history
    BY <2>1, <2>2, <2>4
  <2>6. \A r : CountOf(r)' = CountOf(r)
    BY <2>1 DEF CountOf
  <2>7. Lone(k)'
    BY <1>1, <1>3, <1>4, <2>1, <2>2, <2>3, <2>5, <2>6, Zenon DEF Lone
  <2>8. ViewPending(k)' = ViewPending(k) /\ ViewAdmitted(k)' = ViewAdmitted(k)
    BY <1>1, <2>1, <2>5 DEF ViewPending, ViewAdmitted
  <2>9. ViewNonce(k)' = ViewNonce(k) /\ ViewCount(k)' = ViewCount(k)
    BY <2>1, <2>6 DEF ViewNonce, ViewCount
  <2> QED
    BY <2>7, <2>8, <2>9 DEF Stutters, View
<1>6. CASE BumpNonce(k)
  <2>1. /\ pc[k] = "bump" /\ pc'[k] = "tally" /\ \A j \in Task \ {k} : pc'[j] = "idle"
        /\ nextNonce' = [nextNonce EXCEPT ![s] = Nonce[t] + 1]
        /\ pending' = pending /\ perSender' = perSender /\ tx' = tx /\ count' = count
        /\ history' = history
    BY <1>1, <1>3, <1>6, LoneMoves DEF BumpNonce
  <2>2. /\ Nonce[t] = nextNonce[s]
        /\ t \in pending /\ t \in history /\ Cardinality(pending \ {t}) < MaxPending
    BY <1>1, <2>1 DEF Lone
  <2>3. /\ nextNonce'[s] = Nonce[t] + 1 /\ nextNonce' \in [Sender -> Nat]
        /\ \A r \in Sender : r # s => nextNonce'[r] = nextNonce[r]
    BY <1>3, <2>1
  <2>4. ASSUME NEW u \in history PROVE Nonce[u] < nextNonce'[From[u]]
    <3>1. From[u] \in Sender /\ Nonce[u] \in Nat /\ nextNonce[From[u]] \in Nat
      BY <1>3
    <3>2. u = t \/ Nonce[u] < nextNonce[From[u]]
      BY <1>1, LoneHistory
    <3>3. CASE u = t
      BY <1>1, <1>3, <2>3, <3>3
    <3>4. CASE Nonce[u] < nextNonce[From[u]]
      BY <1>3, <2>2, <2>3, <3>1, <3>4
    <3> QED
      BY <3>2, <3>3, <3>4
  <2>5. \A r : CountOf(r)' = CountOf(r)
    BY <2>1 DEF CountOf
  <2>6. Lone(k)'
    BY <1>1, <1>3, <1>4, <2>1, <2>2, <2>3, <2>4, <2>5 DEF Lone
  <2>7. ViewPending(k)' = ViewPending(k) /\ ViewAdmitted(k)' = ViewAdmitted(k)
    BY <2>1 DEF ViewPending, ViewAdmitted
  <2>8. ViewNonce(k)' = ViewNonce(k)
    <3>1. ASSUME NEW r \in Sender
          PROVE  (IF From[tx'[k]] = r THEN nextNonce'[r] - 1 ELSE nextNonce'[r]) = nextNonce[r]
      BY <1>1, <1>3, <2>1, <2>2, <2>3
    <3> QED
      BY <2>1, <3>1 DEF ViewNonce
  <2>9. ViewCount(k)' = ViewCount(k)
    BY <2>1, <2>5 DEF ViewCount
  <2> QED
    BY <2>6, <2>7, <2>8, <2>9 DEF Stutters, View
<1>7. CASE TallySender(k)
  <2>1. /\ pc[k] = "tally" /\ pc'[k] = "idle" /\ \A j \in Task \ {k} : pc'[j] = "idle"
        /\ perSender' = [perSender EXCEPT ![s] = count[k] + 1]
        /\ pending' = pending /\ nextNonce' = nextNonce /\ history' = history
        /\ count' \in [Task -> Nat]
    BY <1>1, <1>3, <1>7, LoneMoves, Zenon DEF TallySender
  <2>2. /\ nextNonce[s] = Nonce[t] + 1
        /\ t \in pending /\ t \in history /\ Cardinality(pending \ {t}) < MaxPending
    BY <1>1, <2>1 DEF Lone
  <2>3. \A u \in history : Nonce[u] < nextNonce[From[u]]
    BY <2>1, LoneHistory
  <2>4. count[k] + 1 \in Nat
    BY <1>3
  <2>5. /\ perSender' \in [Sender -> Nat \cup {NoEntry}]
        /\ CountOf(s)' = CountOf(s) + 1
        /\ \A r \in Sender : r # s => CountOf(r)' = CountOf(r)
    BY <1>3, <1>4, <2>1, <2>4 DEF CountOf, NoEntry
  <2>6. Lone(k)'
    BY <1>3, <2>1, <2>3, <2>5 DEF Lone, AddSteps
  <2>7. /\ View(k).pending = pending \ {t} /\ ViewAdmitted(k) = history \ {t}
        /\ View(k).nextNonce
              = [r \in Sender |-> IF r = s THEN nextNonce[r] - 1 ELSE nextNonce[r]]
        /\ View(k).perSender = [r \in Sender |-> CountOf(r)]
    BY <1>1, <2>1 DEF View, ViewPending, ViewNonce, ViewCount, ViewAdmitted
  <2>8. Atomic!Admissible(View(k), t)
    <3>1. View(k).nextNonce[s] = Nonce[t] /\ View(k).perSender[s] = CountOf(s)
      BY <1>3, <2>2, <2>7
    <3>2. Cardinality(View(k).pending) < MaxPending /\ t \notin View(k).pending
      BY <2>2, <2>7
    <3>3. View(k).perSender[From[t]] < MaxPerSender /\ Nonce[t] = View(k).nextNonce[From[t]]
      BY <1>1, <1>4, <3>1
    <3> QED
      BY <1>4, <3>2, <3>3, Zenon
      DEF Atomic!Admissible, Cardinality, Atomic!Cardinality, IsFiniteSet, Atomic!IsFiniteSet
  <2>9. PICK p : p = View(k)
    OBVIOUS
  <2>10. Atomic!AddTransaction(p, t)
           = [pending |-> p.pending \cup {t},
              nextNonce |-> [p.nextNonce EXCEPT ![s] = @ + 1],
              perSender |-> [p.perSender EXCEPT ![s] = @ + 1]]
    BY <1>1, <2>8, <2>9 DEF Atomic!AddTransaction
  <2>11. p.pending \cup {t} = pending /\ ViewAdmitted(k) \cup {t} = history
    BY <2>2, <2>7, <2>9
  <2>12. [p.nextNonce EXCEPT ![s] = @ + 1] = [r \in Sender |-> nextNonce[r]]
    BY <1>3, <2>7, <2>9
  <2>13. [p.perSender EXCEPT ![s] = @ + 1] = [r \in Sender |-> CountOf(r)']
    BY <1>3, <2>5, <2>7, <2>9
  <2>14. /\ View(k)' = [pending |-> pending', nextNonce |-> [r \in Sender |-> nextNonce'[r]],
                        perSender |-> [r \in Sender |-> CountOf(r)']]
         /\ ViewAdmitted(k)' = history'
    <3>1. PlainIsView'
      BY PlainView, PTL
    <3>2. pc'[k] \in Plain
      BY <2>1 DEF Plain
    <3> QED
      BY <3>1, <3>2 DEF PlainIsView
  <2>15. View(k)' = Atomic!AddTransaction(View(k), t)
    BY <2>1, <2>9, <2>10, <2>11, <2>12, <2>13, <2>14, Zenon
  <2>16. Adds(k, t)
    BY <2>1, <2>8, <2>11, <2>14, <2>15 DEF Adds
  <2> QED
    BY <1>1, <2>6, <2>16
<1> QED
  BY <1>5, <1>6, <1>7

\* The writes of remove: the last one takes the transaction from the view.
LEMMA LoneRemove ==
    ASSUME IInv, NEW k \in Task, Lone(k),
           pc[k] = "dec" => View(k).perSender[From[tx[k]]] # 0,
           TakePending(k) \/ DecSender(k) \/ DropSender(k)
    PROVE  Lone(k)' /\ (Stutters(k) \/ Takes(k, tx[k]))
<1>1. PICK t, s : t = tx[k] /\ s = From[t]
  OBVIOUS
<1>2. pc[k] \in {"take", "dec", "drop"}
  BY DEF TakePending, DecSender, DropSender, Return, Goto
<1>3. /\ t \in Tx /\ s \in Sender /\ Nonce[t] \in Nat
      /\ \A r \in Sender : CountOf(r) \in Nat /\ nextNonce[r] \in Nat
      /\ \A j \in Task \ {k} : pc[j] = "idle"
      /\ nextNonce \in [Sender -> Nat] /\ perSender \in [Sender -> Nat \cup {NoEntry}]
      /\ count \in [Task -> Nat] /\ history \subseteq Tx
  BY <1>1, <1>2, LoneTypes
<1>4. \A u \in history : Nonce[u] < nextNonce[From[u]]
  BY <1>2, LoneHistory
<1>5. UNCHANGED <<nextNonce, history>>
  BY DEF TakePending, DecSender, DropSender
<1>6. PlainIsView'
  BY PlainView, PTL
\* the end of the call: the view is the pool again
<1>7. ASSUME pc[k] \in {"dec", "drop"}, Return(k, pc[k]), pending' = pending,
             View(k).perSender[s] # 0,
             perSender' \in [Sender -> Nat \cup {NoEntry}],
             \A r \in Sender :
                CountOf(r)' = IF r = s THEN View(k).perSender[s] - 1 ELSE CountOf(r)
      PROVE  Lone(k)' /\ Takes(k, t)
  <2>1. /\ pc'[k] = "idle" /\ \A j \in Task \ {k} : pc'[j] = "idle"
        /\ count' \in [Task -> Nat]
    BY <1>3, <1>7, LoneMoves, Zenon
  <2>2. Lone(k)'
    BY <1>3, <1>4, <1>5, <1>7, <2>1 DEF Lone, AddSteps
  <2>3. t \notin pending
    BY <1>1, <1>7 DEF Lone
  <2>4. PICK p : /\ p = View(k) /\ p.pending = pending \cup {t} /\ ViewAdmitted(k) = history
                 /\ p.nextNonce = [r \in Sender |-> nextNonce[r]]
                 /\ p.perSender = [r \in Sender |-> p.perSender[r]]
                 /\ \A r \in Sender : r # s => p.perSender[r] = CountOf(r)
    <3>1. /\ View(k).pending = ViewPending(k) /\ View(k).nextNonce = ViewNonce(k)
          /\ View(k).perSender = ViewCount(k)
      BY DEF View
    <3>2. ViewPending(k) = pending \cup {t} /\ ViewAdmitted(k) = history
      BY <1>1, <1>7 DEF ViewPending, ViewAdmitted
    <3>3. ViewNonce(k) = [r \in Sender |-> nextNonce[r]]
      BY <1>7 DEF ViewNonce
    <3>4. /\ ViewCount(k) = [r \in Sender |-> ViewCount(k)[r]]
          /\ \A r \in Sender : r # s => ViewCount(k)[r] = CountOf(r)
      BY <1>1 DEF ViewCount
    <3> QED
      BY <3>1, <3>2, <3>3, <3>4, Zenon
  <2>5. Atomic!RemoveTransaction(p, t)
           = [pending |-> p.pending \ {t}, nextNonce |-> p.nextNonce,
              perSender |-> [p.perSender EXCEPT ![s] = p.perSender[s] - 1]]
    <3>1. t \in p.pending /\ Atomic!SaturatingDec(p.perSender[s]) = p.perSender[s] - 1
      BY <1>7, <2>4 DEF Atomic!SaturatingDec
    <3> QED
      BY <1>1, <3>1 DEF Atomic!RemoveTransaction
  <2>6. p.pending \ {t} = pending
    BY <2>3, <2>4
  <2>7. [p.perSender EXCEPT ![s] = p.perSender[s] - 1] = [r \in Sender |-> CountOf(r)']
    BY <1>3, <1>7, <2>4
  <2>8. /\ View(k)' = [pending |-> pending', nextNonce |-> [r \in Sender |-> nextNonce'[r]],
                       perSender |-> [r \in Sender |-> CountOf(r)']]
        /\ ViewAdmitted(k)' = history'
    BY <1>6, <2>1 DEF PlainIsView, Plain
  <2>9. Takes(k, t)
    BY <1>5, <1>7, <2>4, <2>5, <2>6, <2>7, <2>8, Zenon DEF Takes
  <2> QED
    BY <2>2, <2>9
<1>8. CASE TakePending(k)
  <2>1. pc[k] = "take" /\ perSender' = perSender
    BY <1>8 DEF TakePending
  <2>2. \A r : CountOf(r)' = CountOf(r)
    BY <2>1 DEF CountOf
  <2>3. CASE t \in pending
    <3>1. /\ pc'[k] = "dec" /\ \A j \in Task \ {k} : pc'[j] = "idle"
          /\ pending' = pending \ {t} /\ tx' = tx /\ count' = count
      BY <1>1, <1>3, <1>8, <2>3, LoneMoves DEF TakePending
    <3>2. Lone(k)'
      BY <1>1, <1>3, <1>4, <1>5, <2>1, <2>2, <3>1 DEF Lone, AddSteps
    <3>3. (pending \ {t}) \cup {t} = pending
      BY <2>3
    <3>4. ViewPending(k)' = ViewPending(k) /\ ViewAdmitted(k)' = ViewAdmitted(k)
      BY <1>1, <1>5, <2>1, <3>1, <3>3 DEF ViewPending, ViewAdmitted
    <3>5. ViewNonce(k)' = ViewNonce(k) /\ ViewCount(k)' = ViewCount(k)
      BY <1>5, <2>1, <2>2, <3>1 DEF ViewNonce, ViewCount
    <3> QED
      BY <3>2, <3>4, <3>5 DEF Stutters, View
  <2>4. CASE t \notin pending
    <3>1. Return(k, "take") /\ pending' = pending
      BY <1>1, <1>8, <2>4 DEF TakePending
    <3>2. /\ pc'[k] = "idle" /\ \A j \in Task \ {k} : pc'[j] = "idle"
          /\ count' \in [Task -> Nat]
      BY <1>3, <3>1, LoneMoves, Zenon
    <3>3. Lone(k)'
      BY <1>3, <1>4, <1>5, <2>1, <3>1, <3>2 DEF Lone, AddSteps
    <3>4. Stutters(k)
      BY <1>5, <2>1, <3>1, <3>2, PlainStutters DEF Plain, maps
    <3> QED
      BY <3>3, <3>4
  <2> QED
    BY <2>3, <2>4
<1>9. CASE DecSender(k)
  <2>1. pc[k] = "dec" /\ pending' = pending
    BY <1>9 DEF DecSender
  <2>2. /\ View(k).perSender = [r \in Sender |-> CountOf(r)]
        /\ View(k).pending = pending \cup {t}
    BY <1>1, <2>1 DEF View, ViewPending, ViewCount
  <2>3. CountOf(s) # 0
    BY <1>1, <1>3, <2>1, <2>2
  <2>4. perSender[s] # NoEntry /\ CountOf(s) = perSender[s] /\ CountOf(s) \in Nat
    BY <1>3, <2>3 DEF CountOf
  <2>5. PICK c \in Nat : c = CountOf(s) - 1
    BY <2>3, <2>4
  <2>6. /\ perSender' = [perSender EXCEPT ![s] = c]
        /\ IF c = 0 THEN Goto(k, "dec", "drop") /\ UNCHANGED <<tx, count>> ELSE Return(k, "dec")
    BY <1>1, <1>9, <2>3, <2>4, <2>5 DEF DecSender
  <2>7. /\ perSender' \in [Sender -> Nat \cup {NoEntry}] /\ perSender'[s] = c
        /\ CountOf(s)' = c /\ \A r \in Sender : r # s => CountOf(r)' = CountOf(r)
    BY <1>3, <2>5, <2>6 DEF CountOf, NoEntry
  <2>8. CASE c = 0
    <3>1. /\ pc'[k] = "drop" /\ \A j \in Task \ {k} : pc'[j] = "idle"
          /\ tx' = tx /\ count' = count
      BY <1>3, <2>6, <2>8, LoneMoves
    <3>2. t \notin pending
      BY <1>1, <2>1 DEF Lone
    <3>3. Lone(k)'
      BY <1>1, <1>3, <1>4, <1>5, <2>1, <2>7, <2>8, <3>1, <3>2 DEF Lone, AddSteps
    <3>4. ViewPending(k)' = ViewPending(k) /\ ViewAdmitted(k)' = ViewAdmitted(k)
      BY <1>5, <2>1, <3>1 DEF ViewPending, ViewAdmitted
    <3>5. ViewNonce(k)' = ViewNonce(k)
      BY <1>5, <2>1, <3>1 DEF ViewNonce
    <3>6. ViewCount(k)' = ViewCount(k)
      <4>1. ASSUME NEW r \in Sender
            PROVE  (IF From[tx'[k]] = r THEN CountOf(r)' + 1 ELSE CountOf(r)') = CountOf(r)
        BY <1>1, <1>3, <2>4, <2>5, <2>7, <3>1
      <4> QED
        BY <2>1, <3>1, <4>1 DEF ViewCount
    <3> QED
      BY <3>3, <3>4, <3>5, <3>6 DEF Stutters, View
  <2>9. CASE c # 0
    <3>1. View(k).perSender[s] = CountOf(s) /\ Return(k, "dec")
      BY <1>3, <2>2, <2>6, <2>9
    <3>2. \A r \in Sender : CountOf(r)' = IF r = s THEN View(k).perSender[s] - 1 ELSE CountOf(r)
      BY <2>5, <2>7, <3>1
    <3>3. Lone(k)' /\ Takes(k, t)
      BY <1>7, <2>1, <2>3, <2>7, <3>1, <3>2
    <3> QED
      BY <1>1, <3>3
  <2> QED
    BY <2>8, <2>9
<1>10. CASE DropSender(k)
  <2>1. /\ pc[k] = "drop" /\ pending' = pending /\ Return(k, "drop")
        /\ perSender' = [perSender EXCEPT ![s] = NoEntry]
    BY <1>1, <1>10 DEF DropSender, Return, Goto
  <2>2. perSender[s] = 0
    BY <1>1, <2>1 DEF Lone
  <2>3. View(k).perSender[s] = 1
    <3>1. CountOf(s) = 0
      BY <2>2 DEF CountOf, NoEntry
    <3>2. View(k).perSender = ViewCount(k)
      BY DEF View
    <3>3. ViewCount(k)[s] = CountOf(s) + 1
      BY <1>1, <1>3, <2>1 DEF ViewCount
    <3> QED
      BY <3>1, <3>2, <3>3
  <2>4. /\ perSender' \in [Sender -> Nat \cup {NoEntry}]
        /\ CountOf(s)' = 0 /\ \A r \in Sender : r # s => CountOf(r)' = CountOf(r)
    BY <1>3, <2>1 DEF CountOf
  <2>5. \A r \in Sender : CountOf(r)' = IF r = s THEN View(k).perSender[s] - 1 ELSE CountOf(r)
    BY <2>3, <2>4
  <2>6. View(k).perSender[s] # 0
    BY <2>3
  <2>7. Lone(k)' /\ Takes(k, t)
    BY <1>7, <2>1, <2>4, <2>5, <2>6
  <2> QED
    BY <1>1, <2>7
<1> QED
  BY <1>8, <1>9, <1>10

PoolProofs == INSTANCE TxPoolProofs WITH pool <- UnusedPool, admitted <- {}

\* The limits and transactions are as module TxPool wants them.
LEMMA PoolProofsApply == PoolProofs!TxPoolAssumption
  BY TasksAssumption DEF PoolProofs!TxPoolAssumption

\* A lone task finds the pool sound, whatever step its call has reached.
LoneSound(k) == Lone(k) /\ PoolProofs!Sound(View(k))

SerialInv == \A k \in Task : active = {k} => LoneSound(k)

\* The operations of the abstract pool are those the lemmas of TxPoolProofs are about.
LEMMA AtomicOps ==
    /\ \A p, t : Atomic!AddTransaction(p, t) = PoolProofs!AddTransaction(p, t)
    /\ \A p, t : Atomic!RemoveTransaction(p, t) = PoolProofs!RemoveTransaction(p, t)
<1>1. ASSUME NEW p, NEW t PROVE Atomic!AddTransaction(p, t) = PoolProofs!AddTransaction(p, t)
  BY Zenon DEF Atomic!AddTransaction, PoolProofs!AddTransaction, Atomic!Admissible,
               PoolProofs!Admissible, Atomic!Cardinality, PoolProofs!Cardinality,
               Atomic!IsFiniteSet, PoolProofs!IsFiniteSet
<1>2. ASSUME NEW p, NEW t PROVE Atomic!RemoveTransaction(p, t) = PoolProofs!RemoveTransaction(p, t)
  BY Zenon DEF Atomic!RemoveTransaction, PoolProofs!RemoveTransaction, Atomic!SaturatingDec, PoolProofs!SaturatingDec
<1> QED
  BY <1>1, <1>2

\* A step of the lone task is a step of the abstract pool on its view, or none.
LEMMA LoneStep ==
    ASSUME IInv, Next, NEW k \in Task, active = {k}, LoneSound(k)
    PROVE  /\ LoneSound(k)'
           /\ Stutters(k) \/ \E t \in Tx : Adds(k, t) \/ Takes(k, t)
<1>1. \/ \E t \in Tx : CallAdd(k, t) \/ CallRemove(k, t)
      \/ Step(k)
  BY DEF Next
<1>2. Lone(k) /\ PoolProofs!Sound(View(k))
  BY DEF LoneSound
<1>3. ASSUME pc[k] = "dec" PROVE View(k).perSender[From[tx[k]]] # 0
  <2>1. PICK p, t, s : p = View(k) /\ t = tx[k] /\ s = From[t]
    OBVIOUS
  <2>2. t \in p.pending /\ s \in Sender
    <3>1. View(k).pending = pending \cup {t}
      BY <1>3, <2>1 DEF View, ViewPending
    <3>2. t \in Tx
      BY <1>3, <2>1 DEF IInv
    <3> QED
      BY <2>1, <3>1, <3>2, TasksAssumption
  <2>3. PoolProofs!CountsExact(p) /\ IsFiniteSet(p.pending)
    BY <1>2, <2>1, Zenon DEF PoolProofs!Sound, PoolProofs!IsFiniteSet, IsFiniteSet
  <2>4. p.perSender[s] = Cardinality({u \in p.pending : From[u] = s})
    BY <2>2, <2>3, Zenon DEF PoolProofs!CountsExact, PoolProofs!PendingOf,
          PoolProofs!Cardinality, Cardinality, PoolProofs!IsFiniteSet, IsFiniteSet
  <2>5. /\ t \in {u \in p.pending : From[u] = s}
        /\ IsFiniteSet({u \in p.pending : From[u] = s})
    BY <2>1, <2>2, <2>3, FS_Subset
  <2>6. Cardinality({u \in p.pending : From[u] = s}) # 0
    BY <2>5, FS_EmptySet
  <2> QED
    BY <2>1, <2>4, <2>6
<1>4. Lone(k)' /\ (Stutters(k) \/ (pc[k] # "idle" /\ (Adds(k, tx[k]) \/ Takes(k, tx[k]))))
  <2>1. CASE \/ \E t \in Tx : CallAdd(k, t) \/ CallRemove(k, t)
             \/ CheckKnown(k) \/ CheckLen(k) \/ ReadCount(k) \/ CheckNonce(k)
    BY <1>2, <2>1, LoneReads
  <2>2. CASE InsertPending(k) \/ BumpNonce(k) \/ TallySender(k)
    <3>1. pc[k] # "idle"
      BY <2>2 DEF InsertPending, BumpNonce, TallySender, Return, Goto
    <3> QED
      BY <1>2, <2>2, <3>1, LoneAdd
  <2>3. CASE TakePending(k) \/ DecSender(k) \/ DropSender(k)
    <3>1. pc[k] # "idle"
      BY <2>3 DEF TakePending, DecSender, DropSender, Return, Goto
    <3> QED
      BY <1>2, <1>3, <2>3, <3>1, LoneRemove
  <2> QED
    BY <1>1, <2>1, <2>2, <2>3, Zenon DEF Step
<1>5. Stutters(k) \/ \E t \in Tx : Adds(k, t) \/ Takes(k, t)
  <2>1. pc[k] # "idle" => tx[k] \in Tx
    BY DEF IInv
  <2> QED
    BY <1>4, <2>1
<1>6. PoolProofs!Sound(View(k)')
  <2>1. PICK p, q : p = View(k) /\ q = View(k)'
    OBVIOUS
  <2>2. PoolProofs!Sound(p)
    BY <1>2, <2>1
  <2>3. CASE Stutters(k)
    BY <2>1, <2>2, <2>3 DEF Stutters
  <2>4. ASSUME NEW t \in Tx, Adds(k, t) PROVE PoolProofs!Sound(q)
    <3>1. q = PoolProofs!AddTransaction(p, t)
      BY <2>1, <2>4, AtomicOps DEF Adds
    <3>2. PoolProofs!Sound(PoolProofs!AddTransaction(p, t))
      BY <2>2, PoolProofsApply, PoolProofs!AddSound
    <3> QED
      BY <3>1, <3>2
  <2>5. ASSUME NEW t \in Tx, Takes(k, t) PROVE PoolProofs!Sound(q)
    <3>1. q = PoolProofs!RemoveTransaction(p, t)
      BY <2>1, <2>5, AtomicOps DEF Takes
    <3>2. PoolProofs!Sound(PoolProofs!RemoveTransaction(p, t))
      BY <2>2, PoolProofsApply, PoolProofs!RemoveSound
    <3> QED
      BY <3>1, <3>2
  <2> QED
    BY <1>5, <2>1, <2>3, <2>4, <2>5
<1> QED
  BY <1>4, <1>5, <1>6 DEF LoneSound

\* At the start every view is the empty pool.
LEMMA SerialInit == Init => SerialInv
<1> SUFFICES ASSUME Init, NEW k \in Task PROVE LoneSound(k)
  BY DEF SerialInv
<1>1. pc[k] = "idle" /\ pending = {} /\ history = {}
  BY DEF Init
<1>2. Lone(k)
  BY <1>1 DEF Init, Lone, AddSteps, NoEntry
<1>3. View(k) = [pending |-> {}, nextNonce |-> nextNonce, perSender |-> [s \in Sender |-> 0]]
  <2>1. [s \in Sender |-> nextNonce[s]] = nextNonce /\ \A s \in Sender : CountOf(s) = 0
    BY DEF Init, CountOf
  <2> QED
    BY <1>1, <2>1, PlainView DEF PlainIsView, Plain
<1>4. nextNonce \in [Sender -> Nat]
  BY DEF Init
<1>5. PoolProofs!Sound([pending |-> {}, nextNonce |-> nextNonce,
                        perSender |-> [s \in Sender |-> 0]])
  BY <1>4, PoolProofsApply, PoolProofs!EmptySound
<1> QED
  BY <1>2, <1>3, <1>5 DEF LoneSound

\* Its own steps keep a lone task's view sound; no other task takes one.
LEMMA SerialNext == IInv /\ SerialInv /\ [Next]_vars => SerialInv'
<1> SUFFICES ASSUME IInv, SerialInv, [Next]_vars, NEW k \in Task, active' = {k}
             PROVE  LoneSound(k)'
  BY DEF SerialInv
<1>1. active = {k} /\ LoneSound(k)
  BY DEF Next, vars, SerialInv
<1>2. CASE Next
  BY <1>1, <1>2, LoneStep
<1>3. CASE UNCHANGED vars
  <2>1. Lone(k)' = Lone(k)
    BY <1>3, Zenon DEF vars, Lone, CountOf
  <2>2. View(k)' = View(k)
    BY <1>3, Zenon DEF vars, View, ViewPending, ViewNonce, ViewCount, CountOf
  <2> QED
    BY <1>1, <2>1, <2>2 DEF LoneSound
<1> QED
  BY <1>2, <1>3

\* The abstract state of a behaviour in which only task k uses the pool.
LEMMA SerialState ==
    ASSUME NEW k \in Task, active = {k}, Lone(k)
    PROVE  Alone /\ SerialPool = View(k) /\ history \ Adding = ViewAdmitted(k)
<1>1. Alone
  BY FS_Singleton DEF Alone
<1>2. \A j \in Task \ {k} : pc[j] = "idle"
  BY DEF Lone
<1> QED
  BY <1>1, <1>2, SerialView DEF SerialIsView

\* The same as a state predicate, to be used of the next state.
SerialStates ==
    \A k \in Task : active = {k} /\ Lone(k) =>
        Alone /\ SerialPool = View(k) /\ history \ Adding = ViewAdmitted(k)

\* It holds in every state.
LEMMA SerialStatesHold == SerialStates
  BY SerialState DEF SerialStates

\* The start of the tasks is the start of the abstract pool.
LEMMA AtomicInit == Init => Atomic!Init
<1> SUFFICES ASSUME Init PROVE Atomic!Init
  OBVIOUS
<1>1. Adding = {} /\ Taking = {}
  BY DEF Init, Adding, Taking
<1>2. /\ \A s \in Sender : CountOf(s) = 0 /\ nextNonce[s] = 0
      /\ \A j \in Task : pc[j] = "idle"
  BY DEF Init, CountOf
<1>3. pending = {} /\ history = {}
  BY DEF Init
<1>4. SerialPool = UnusedPool /\ history \ Adding = {}
  BY <1>1, <1>2, <1>3 DEF SerialPool, UnusedPool
<1> QED
  BY <1>4, Zenon DEF Atomic!Init, Atomic!EmptyPool, UnusedPool

\* Every step of the tasks is a step of the abstract pool, or leaves it alone.
LEMMA AtomicNext ==
    IInv /\ SerialInv /\ [Next]_vars => [Atomic!Next]_(Atomic!vars)
<1> SUFFICES ASSUME IInv, SerialInv, [Next]_vars PROVE [Atomic!Next]_(Atomic!vars)
  OBVIOUS
<1>1. active' = active
  BY DEF Next, vars
<1>2. CASE ~Alone
  <2>1. ~Alone' /\ UnusedPool' = UnusedPool
    BY <1>1, <1>2 DEF Alone, UnusedPool
  <2> QED
    BY <1>2, <2>1 DEF Atomic!vars
<1>3. CASE UNCHANGED vars
  <2>1. /\ Alone' = Alone /\ SerialPool' = SerialPool /\ UnusedPool' = UnusedPool
        /\ (history \ Adding)' = history \ Adding
    BY <1>3, Zenon DEF vars, Alone, SerialPool, UnusedPool, Adding, Taking, CountOf
  <2> QED
    BY <2>1 DEF Atomic!vars
<1>4. CASE Alone /\ Next
  <2>1. PICK k \in Task : active = {k}
    <3>1. IsFiniteSet(active) /\ active \subseteq Task
      BY ActiveFinite DEF IInv
    <3>2. \E k : active = {k}
      BY <1>4, <3>1, FS_Singleton, Zenon DEF Alone
    <3> QED
      BY <3>1, <3>2
  <2>2. LoneSound(k)
    BY <2>1 DEF SerialInv
  <2>3. LoneSound(k)' /\ (Stutters(k) \/ \E t \in Tx : Adds(k, t) \/ Takes(k, t))
    BY <1>4, <2>1, <2>2, LoneStep
  <2>4. Alone /\ SerialPool = View(k) /\ history \ Adding = ViewAdmitted(k)
    BY <2>1, <2>2, SerialState DEF LoneSound
  <2>5. Alone' /\ SerialPool' = View(k)' /\ (history \ Adding)' = ViewAdmitted(k)'
    <3>1. SerialStates'
      BY SerialStatesHold, PTL
    <3>2. active' = {k} /\ Lone(k)'
      BY <1>1, <2>1, <2>3 DEF LoneSound
    <3> QED
      BY <3>1, <3>2 DEF SerialStates
  <2>6. CASE Stutters(k)
    BY <2>4, <2>5, <2>6 DEF Stutters, Atomic!vars
  <2>7. ASSUME NEW t \in Tx, Adds(k, t) PROVE Atomic!Add(t)
    BY <2>4, <2>5, <2>7 DEF Adds, Atomic!Add
  <2>8. ASSUME NEW t \in Tx, Takes(k, t) PROVE Atomic!Take(t)
    BY <2>4, <2>5, <2>8 DEF Takes, Atomic!Take
  <2> QED
    BY <2>3, <2>6, <2>7, <2>8 DEF Atomic!Next
<1> QED
  BY <1>2, <1>3, <1>4

\* Refinement: with calls one after another, every call of add_transaction_at
\* and remove, made of many accesses to the DashMaps, is one step of the pool of
\* module TxPool, so what is proved of that module holds of the shared maps.
THEOREM PoolIsAtomic == Spec => AtomicPool
<1>1. IInv /\ [Next]_vars => IInv'
  BY NextStep
<1>2. QED
  BY <1>1, InitStep, SerialInit, SerialNext, AtomicInit, AtomicNext, PTL
  DEF Spec, AtomicPool, Atomic!Spec
=============================================================================
