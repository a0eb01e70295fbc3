---------------------------- MODULE ServiceProofs ----------------------------
(***************************************************************************)
(* Proofs about module Service: what a request finds while blocks are      *)
(* imported, for every capacity of the channel, every length of the chain  *)
(* and any number of polls, runs and subscriptions.                        *)
(***************************************************************************)
EXTENDS Service, FiniteSetTheorems, TLAPS

Stage == {"idle", "index", "record", "accounts", "storage", "code", "pool", "notify", "logs"}

\* The last head that the import task has sent.
SentHead == IF pc \in {"idle", "logs"} THEN head ELSE head - 1

\* How far each map is when the import task is at pc: it is of the head once its
\* access is done and of the parent before.
Behind(stages) == IF pc \in stages THEN head - 1 ELSE head

ChainInv ==
    /\ pc \in Stage
    /\ head \in Height /\ (pc # "idle" => head > 0)
    /\ mined \in [1 .. MaxHeight -> SUBSET TxNonce]
    /\ indexed = Behind({"index"})
    /\ 0 .. Behind({"index", "record"}) \subseteq snapshots
    /\ live \in [Parts -> Nat]
    /\ live["accounts"] = Behind({"index", "record", "accounts"})
    /\ live["storage"] = Behind({"index", "record", "accounts", "storage"})
    /\ live["code"] = Behind({"index", "record", "accounts", "storage", "code"})

\* What the node accepted is in the pool until the index has it.
PoolInv ==
    /\ pool \in [pending: SUBSET Nat, next: Nat]
    /\ \A n \in 0 .. pool.next - 1 : n \in pool.pending \/ n \in TxsUpTo(indexed)

Event == [kind: {"heads", "logs", "pending"}, arg: Nat]

EventInv ==
    /\ events \in Seq(Event)
    /\ \A i \in 1 .. Len(events) : events[i].kind = "heads" => events[i].arg <= SentHead

SessionField == {"open", "rx", "subs", "nextId", "acks", "lost", "told"}

SessionInv ==
    /\ session = [x \in SessionField |-> session[x]]
    /\ session.told \in Nat /\ session.told <= SentHead

\* What a request has read so far holds when it is answered.
RequestInv ==
    /\ request \in [kind: {"none", "latest", "number", "transaction"},
                    at: {"accounts", "storage", "code", "block", "snapshot", "pool",
                         "index", "done"},
                    arg: Nat, floor: Nat, got: Seq(Int)]
    /\ request.floor <= SentHead
    /\ request.kind = "none" => request.at = "done"
    /\ request.kind = "latest" =>
          /\ request.at \in {"accounts", "storage", "code", "done"}
          /\ \A i \in 1 .. Len(request.got) : request.got[i] \in request.floor .. head
    /\ request.kind = "number" =>
          /\ request.at \in {"block", "snapshot", "done"}
          /\ request.at = "done" /\ request.arg <= request.floor =>
                Answer(request.got) = request.arg
    /\ request.kind = "transaction" =>
          /\ request.at \in {"pool", "index", "done"}
          /\ request.arg < pool.next
          /\ request.at = "index" => request.arg \in TxsUpTo(indexed)
          /\ request.at = "done" => Answer(request.got) = request.arg

Run == [nonce: Nat, outcome: {"refused", "timed out", "deployed"}]
DeployType ==
    [at: {"idle", "send", "emit", "poll"}, nonce: Nat, polls: Nat, runs: Seq(Run)]

\* A transaction of the deploy command that was accepted has the highest nonce
\* of all that were.
DeployInv ==
    /\ deploy \in DeployType
    /\ \A i \in 1 .. Len(deploy.runs) :
          deploy.runs[i].outcome # "refused" => deploy.runs[i].nonce < pool.next
    /\ deploy.at \in {"emit", "poll"} =>
          /\ deploy.nonce < pool.next
          /\ \A i \in 1 .. Len(deploy.runs) :
                deploy.runs[i].outcome # "refused" => deploy.runs[i].nonce < deploy.nonce
    /\ DeploysDistinct

\* The inductive invariant.
IInv ==
    /\ ChainInv /\ PoolInv /\ EventInv /\ SessionInv /\ RequestInv /\ DeployInv
-----------------------------------------------------------------------------
LEMMA InitIInv == Init => IInv
<1> SUFFICES ASSUME Init PROVE IInv
  OBVIOUS
<1>1. ChainInv
  BY ServiceAssumption DEF Init, ChainInv, Stage, Behind, Height, Parts
<1>2. PoolInv
  BY DEF Init, PoolInv
<1>3. EventInv /\ SessionInv
  BY DEF Init, EventInv, SessionInv, SessionField, NoSession, NewSession, SentHead
<1>4. RequestInv
  BY DEF Init, RequestInv, NoRequest, SentHead
<1>5. DeployInv
  BY DEF Init, DeployInv, DeployType, DeploysDistinct
<1> QED
  BY <1>1, <1>2, <1>3, <1>4, <1>5 DEF IInv

\* The transactions of a stretch of the chain are nonces, finitely many.
LEMMA NonceType ==
    ASSUME ChainInv, NEW h \in 0 .. MaxHeight
    PROVE  TxsUpTo(h) \subseteq TxNonce /\ NonceAt(h) \in Nat
<1>1. TxsUpTo(h) \subseteq TxNonce
  BY ServiceAssumption DEF ChainInv, TxsUpTo, Height
<1>2. MaxRuns \in Nat
  BY ServiceAssumption
<1>3. IsFiniteSet(TxNonce)
  BY <1>2, FS_Interval DEF TxNonce
<1>4. IsFiniteSet(TxsUpTo(h))
  BY <1>1, <1>3, FS_Subset
<1> QED
  BY <1>1, <1>4, FS_CardinalityType DEF NonceAt

\* What the import task does to the maps only adds to them.
Grows ==
    /\ head' >= head
    /\ SentHead' >= SentHead /\ SentHead' \in Nat
    /\ TxsUpTo(indexed) \subseteq TxsUpTo(indexed)'
    /\ TxsUpTo(head) \subseteq TxsUpTo(head)'

\* What Append does to the elements.
LEMMA Appended ==
    ASSUME NEW E, NEW s \in Seq(E), NEW e \in E
    PROVE  /\ Append(s, e) \in Seq(E) /\ Len(Append(s, e)) = Len(s) + 1 /\ Len(s) \in Nat
           /\ \A i \in 1 .. Len(s) : Append(s, e)[i] = s[i] /\ s[i] \in E
           /\ \A i \in 1 .. Len(s) + 1 : i \in 1 .. Len(s) \/ i = Len(s) + 1
           /\ Append(s, e)[Len(s) + 1] = e
           /\ Answer(Append(s, e)) = e
  BY DEF Answer

\* The channel gets another event, of no head beyond the last one sent.
LEMMA EventsGrow ==
    ASSUME EventInv, SentHead \in Int, SentHead' \in Int, SentHead' >= SentHead,
           \/ UNCHANGED events
           \/ \E e \in Event : /\ events' = Append(events, e)
                               /\ e.kind = "heads" => e.arg <= SentHead'
    PROVE  EventInv'
<1>1. ASSUME NEW i \in 1 .. Len(events), events[i].kind = "heads"
      PROVE  events[i].arg <= SentHead'
  <2>0. events[i] \in Event /\ events[i].arg <= SentHead
    BY <1>1 DEF EventInv
  <2>1. events[i].arg \in Nat /\ events[i].arg <= SentHead
    BY <2>0 DEF Event
  <2> QED
    BY <2>1
<1>2. CASE UNCHANGED events
  BY <1>1, <1>2 DEF EventInv
<1>3. ASSUME NEW e \in Event, events' = Append(events, e),
             e.kind = "heads" => e.arg <= SentHead'
      PROVE  EventInv'
  <2>1. events \in Seq(Event)
    BY DEF EventInv
  <2> QED
    BY <1>1, <1>3, <2>1, Appended DEF EventInv
<1> QED
  BY <1>2, <1>3

LEMMA InsertGrows ==
    ASSUME ChainInv, NEW txs \in SUBSET TxNonce, InsertBlock(txs)
    PROVE  ChainInv' /\ Grows
<1>1. /\ pc = "idle" /\ pc' = "index" /\ head < MaxHeight /\ head' = head + 1
      /\ mined' = [mined EXCEPT ![head + 1] = txs]
      /\ UNCHANGED <<indexed, snapshots, live>>
  BY DEF InsertBlock, Goto
<1>2. head \in Nat /\ MaxHeight \in Nat /\ head \in Height /\ indexed = head
  BY <1>1, ServiceAssumption DEF ChainInv, Height, Behind
<1>3. ChainInv'
  BY <1>1, <1>2 DEF ChainInv, Stage, Behind, Height, Parts
<1>4. \A i \in 1 .. head : mined'[i] = mined[i]
  BY <1>1, <1>2 DEF ChainInv
<1>5. TxsUpTo(head) \subseteq TxsUpTo(indexed)' /\ TxsUpTo(head) \subseteq TxsUpTo(head)'
  BY <1>1, <1>2, <1>4 DEF TxsUpTo
<1>6. SentHead = head /\ SentHead' = head
  BY <1>1, <1>2 DEF SentHead
<1> QED
  BY <1>1, <1>2, <1>3, <1>5, <1>6 DEF Grows

LEMMA StepGrows ==
    ASSUME ChainInv, ImportStep
    PROVE  ChainInv' /\ Grows
<1>1. /\ head \in Nat /\ head > 0 /\ head' = head /\ mined' = mined
      /\ pc \in Stage /\ head \in Height
  BY ServiceAssumption
  DEF ImportStep, RebuildTxIndex, RecordState, ResetPart, FixPool, SendHead, SendLogs, Goto,
      ChainInv, Height
<1>2. ChainInv'
  <2>1. CASE RebuildTxIndex
    BY <1>1, <2>1 DEF RebuildTxIndex, Goto, ChainInv, Stage, Behind
  <2>2. CASE RecordState
    BY <1>1, <2>2 DEF RecordState, Goto, ChainInv, Stage, Behind
  <2>3. CASE ResetPart("accounts", "storage")
    BY <1>1, <2>3 DEF ResetPart, Goto, ChainInv, Stage, Behind, Parts
  <2>4. CASE ResetPart("storage", "code")
    BY <1>1, <2>4 DEF ResetPart, Goto, ChainInv, Stage, Behind, Parts
  <2>5. CASE ResetPart("code", "pool")
    BY <1>1, <2>5 DEF ResetPart, Goto, ChainInv, Stage, Behind, Parts
  <2>6. CASE FixPool
    BY <1>1, <2>6 DEF FixPool, Goto, ChainInv, Stage, Behind
  <2>7. CASE SendHead
    BY <1>1, <2>7 DEF SendHead, Goto, ChainInv, Stage, Behind
  <2>8. CASE SendLogs
    BY <1>1, <2>8 DEF SendLogs, Goto, ChainInv, Stage, Behind
  <2> QED
    BY <2>1, <2>2, <2>3, <2>4, <2>5, <2>6, <2>7, <2>8 DEF ImportStep
<1>3. SentHead' >= SentHead /\ SentHead' \in Nat
  BY <1>1
  DEF ImportStep, RebuildTxIndex, RecordState, ResetPart, FixPool, SendHead, SendLogs, Goto,
      SentHead
<1>4. indexed' = head \/ indexed' = indexed
  BY DEF ImportStep, RebuildTxIndex, RecordState, ResetPart, FixPool, SendHead, SendLogs
<1>5. indexed \in Int /\ indexed <= head
  BY <1>1 DEF ChainInv, Behind
<1>6. TxsUpTo(indexed) \subseteq TxsUpTo(indexed)' /\ TxsUpTo(head) \subseteq TxsUpTo(head)'
  BY <1>1, <1>4, <1>5 DEF TxsUpTo
<1> QED
  BY <1>1, <1>2, <1>3, <1>6 DEF Grows

\* What a client has read or done stays true when the maps grow.
LEMMA ClientsKept ==
    ASSUME IInv, Grows, ChainInv', pool'.next = pool.next,
           UNCHANGED <<session, request, deploy>>
    PROVE  SessionInv' /\ RequestInv' /\ DeployInv'
<1>1. head \in Nat /\ head' \in Nat /\ SentHead \in Int /\ SentHead' \in Int
  BY ServiceAssumption DEF IInv, ChainInv, Height, SentHead
<1>2. SessionInv'
  BY <1>1 DEF IInv, SessionInv, Grows
<1>3. RequestInv'
  <2>1. request.floor \in Nat /\ request.floor <= SentHead'
    BY <1>1 DEF IInv, RequestInv, Grows
  <2>2. \A i \in 1 .. Len(request.got) :
          request.got[i] \in request.floor .. head => request.got[i] \in request.floor .. head'
    BY <1>1, <2>1 DEF Grows
  <2> QED
    BY <2>1, <2>2 DEF IInv, RequestInv, Grows
<1>4. DeployInv'
  BY DEF IInv, DeployInv, DeploysDistinct, Grows
<1> QED
  BY <1>2, <1>3, <1>4

LEMMA ImportIInv == ASSUME IInv, Import PROVE IInv'
<1>1. ChainInv' /\ Grows
  BY InsertGrows, StepGrows, Zenon DEF Import, IInv
<1>2. \/ UNCHANGED pool
      \/ FixPool
  BY DEF Import, InsertBlock, ImportStep, RebuildTxIndex, RecordState, ResetPart, SendHead,
         SendLogs
<1>3. PoolInv' /\ pool'.next = pool.next
  <2>1. CASE UNCHANGED pool
    BY <1>1, <2>1 DEF IInv, PoolInv, Grows
  <2>2. CASE FixPool
    <3>1. /\ indexed = head /\ UNCHANGED <<mined, head, indexed>>
          /\ pool' = [pool EXCEPT !.pending = @ \ TxsUpTo(head)]
      BY <2>2 DEF FixPool, Goto, IInv, ChainInv, Behind
    <3>2. TxsUpTo(indexed)' = TxsUpTo(head)
      BY <3>1 DEF TxsUpTo
    <3> QED
      BY <3>1, <3>2 DEF IInv, PoolInv
  <2> QED
    BY <1>2, <2>1, <2>2
<1>4. EventInv'
  <2>1. head \in Nat /\ SentHead \in Int
    BY ServiceAssumption DEF IInv, ChainInv, Height, SentHead
  <2>2. \/ UNCHANGED events
        \/ events' = Append(events, [kind |-> "logs", arg |-> head])
        \/ events' = Append(events, [kind |-> "heads", arg |-> head]) /\ SentHead' = head
    BY DEF Import, InsertBlock, ImportStep, RebuildTxIndex, RecordState, ResetPart, FixPool,
           SendHead, SendLogs, Goto, Emit, SentHead
  <2>3. \A k \in {"heads", "logs", "pending"} : [kind |-> k, arg |-> head] \in Event
    BY <2>1 DEF Event
  <2>4. \/ UNCHANGED events
        \/ \E e \in Event : /\ events' = Append(events, e)
                            /\ e.kind = "heads" => e.arg <= SentHead'
    BY <2>1, <2>2, <2>3
  <2> QED
    BY <1>1, <2>1, <2>4, EventsGrow DEF IInv, Grows
<1>5. SessionInv' /\ RequestInv' /\ DeployInv'
  BY <1>1, <1>3, ClientsKept DEF Import
<1> QED
  BY <1>1, <1>3, <1>4, <1>5 DEF IInv

-----------------------------------------------------------------------------
\* A step of a client leaves the chain as it is.
LEMMA ChainKept ==
    ASSUME IInv, UNCHANGED chainVars
    PROVE  /\ ChainInv' /\ head' = head /\ SentHead' = SentHead /\ indexed' = indexed
           /\ TxsUpTo(indexed)' = TxsUpTo(indexed)
           /\ TxsUpTo(head)' = TxsUpTo(head)
           /\ head \in Nat /\ SentHead \in Int
<1>1. ChainInv'
  BY DEF IInv, ChainInv, Behind, chainVars
<1>2. TxsUpTo(indexed)' = TxsUpTo(indexed) /\ TxsUpTo(head)' = TxsUpTo(head)
  BY DEF TxsUpTo, chainVars
<1> QED
  BY <1>1, <1>2, ServiceAssumption DEF IInv, ChainInv, Height, SentHead, chainVars

\* The session is told of heads that were sent, and of no other.
LEMMA SessionIInv == ASSUME IInv, SessionStep PROVE IInv'
<1>1. UNCHANGED <<chainVars, pool, events, request, deploy>>
  BY DEF SessionStep
<1>2. SessionInv'
  <2>1. SentHead \in Nat /\ head \in Nat /\ SentHead' = SentHead
    BY <1>1, ServiceAssumption DEF IInv, ChainInv, Height, SentHead, chainVars
  <2>2. SessionInv
    BY DEF IInv
  <2>3. CASE Connect \/ Close
    BY <2>1, <2>3 DEF Connect, Close, NoSession, NewSession, SessionInv, SessionField
  <2>4. ASSUME NEW kind \in Kind, Subscribe(kind) PROVE SessionInv'
    BY <2>1, <2>2, <2>4, Zenon DEF Subscribe, SessionInv, SessionField
  <2>5. ASSUME NEW id, Unsubscribe(id) PROVE SessionInv'
    BY <2>1, <2>2, <2>5, Zenon DEF Unsubscribe, SessionInv, SessionField
  <2>6. CASE ReceiveLagged
    BY <2>1, <2>2, <2>6, Zenon DEF ReceiveLagged, SessionInv, SessionField
  <2>7. CASE Receive
    <3> DEFINE ev == events[session.rx]
    <3>1. session.rx \in 1 .. Len(events)
      <4>1. Len(events) \in Nat /\ Oldest \in Nat \ {0}
        BY ServiceAssumption DEF Oldest, IInv, EventInv
      <4> QED
        BY <2>7, <4>1 DEF Receive
    <3>2. ev \in Event /\ (ev.kind = "heads" => ev.arg <= SentHead)
      BY <3>1 DEF IInv, EventInv
    <3>3. ev.arg \in Nat
      BY <3>2 DEF Event
    <3>4. PICK acks, told : /\ session' = [session EXCEPT !.acks = acks, !.told = told,
                                                        !.rx = @ + 1]
                            /\ told = session.told \/ (ev.kind = "heads" /\ told = ev.arg)
      BY <2>7, Zenon DEF Receive
    <3> HIDE DEF ev
    <3> QED
      BY <2>1, <2>2, <3>2, <3>3, <3>4, Zenon DEF SessionInv, SessionField
  <2> QED
    BY <2>3, <2>4, <2>5, <2>6, <2>7 DEF SessionStep
<1>3. PoolInv' /\ EventInv' /\ RequestInv' /\ DeployInv' /\ ChainInv'
  BY <1>1, ChainKept DEF IInv, PoolInv, EventInv, RequestInv, DeployInv, DeploysDistinct
<1> QED
  BY <1>2, <1>3 DEF IInv

RequestType ==
    [kind: {"none", "latest", "number", "transaction"},
     at: {"accounts", "storage", "code", "block", "snapshot", "pool", "index", "done"},
     arg: Nat, floor: Nat, got: Seq(Int)]

\* A request starts with the last head that the client was told.
LEMMA AskInv ==
    ASSUME IInv, NEW kind \in {"latest", "number", "transaction"}, NEW arg \in Nat,
           NEW first \in {"accounts", "block", "pool"}, Ask(kind, arg, first),
           kind = "latest" => first = "accounts",
           kind = "number" => first = "block",
           kind = "transaction" => first = "pool" /\ arg < pool.next,
           UNCHANGED <<chainVars, pool>>
    PROVE  RequestInv'
<1>1. /\ request' = [kind |-> kind, at |-> first, arg |-> arg, floor |-> session.told,
                     got |-> <<>>]
      /\ session.told \in Nat /\ session.told <= SentHead
  BY DEF Ask, IInv, SessionInv
<1>2. request' \in RequestType
  BY <1>1 DEF RequestType
<1> QED
  BY <1>1, <1>2, ChainKept DEF RequestInv, RequestType

\* An access of a request adds what it read.
LEMMA ReadShape ==
    ASSUME IInv, NEW from, NEW to \in {"storage", "code", "snapshot", "index", "done"},
           NEW value \in Int, Read(from, to, value)
    PROVE  /\ request.at = from /\ request'.at = to
           /\ request'.kind = request.kind /\ request'.arg = request.arg
           /\ request'.floor = request.floor
           /\ request' \in RequestType
           /\ request'.got = Append(request.got, value)
           /\ Answer(request'.got) = value
           /\ \A i \in 1 .. Len(request'.got) :
                 (i \in 1 .. Len(request.got) /\ request'.got[i] = request.got[i])
                 \/ request'.got[i] = value
<1>1. request \in RequestType
  BY DEF IInv, RequestInv, RequestType
<1>2. /\ request.at = from
      /\ request' = [request EXCEPT !.at = to, !.got = Append(@, value)]
  BY DEF Read
<1>3. request.got \in Seq(Int)
  BY <1>1 DEF RequestType
<1>4. request'.got = Append(request.got, value) /\ Append(request.got, value) \in Seq(Int)
  BY <1>1, <1>2, <1>3 DEF RequestType
<1>5. /\ request'.at = to /\ request'.kind = request.kind /\ request'.arg = request.arg
      /\ request'.floor = request.floor /\ request' \in RequestType
  BY <1>1, <1>2, <1>4, Zenon DEF RequestType
<1> QED
  BY <1>2, <1>3, <1>4, <1>5, Appended

\* Each access of a request finds a map that is at least as far as the head the
\* client was told; the pool is looked at before the index.
LEMMA RequestIInv == ASSUME IInv, RequestStep PROVE IInv'
<1>1. UNCHANGED <<chainVars, pool, events, session, deploy>>
  BY DEF RequestStep
<1>2. /\ RequestInv /\ ChainInv /\ PoolInv
      /\ head \in Nat /\ SentHead \in Int /\ SentHead <= head
      /\ request.floor \in Nat /\ request.floor <= SentHead /\ request.arg \in Nat
  BY ServiceAssumption DEF IInv, ChainInv, Height, SentHead, RequestInv
<1>3. RequestInv'
  <2>1. CASE AskLatest
    BY <1>1, <2>1, AskInv DEF AskLatest
  <2>2. ASSUME NEW h \in Height, AskNumber(h) PROVE RequestInv'
    <3>1. h \in Nat
      BY ServiceAssumption DEF Height
    <3> QED
      BY <1>1, <2>2, <3>1, AskInv DEF AskNumber
  <2>3. ASSUME NEW n \in TxNonce, AskTransaction(n) PROVE RequestInv'
    <3>1. n \in Nat
      BY ServiceAssumption DEF TxNonce
    <3> QED
      BY <1>1, <2>3, <3>1, AskInv DEF AskTransaction
  <2>4. ASSUME NEW part \in Parts, NEW next \in {"storage", "code", "done"},
               ReadPart(part, next)
        PROVE  RequestInv'
    <3>1. live[part] \in Int /\ live[part] \in SentHead .. head
      BY <1>2 DEF ChainInv, Parts, Behind, SentHead
    <3>2. live[part] \in request.floor .. head
      BY <1>2, <3>1
    <3>3. request.kind = "latest" /\ Read(part, next, live[part])
      BY <2>4 DEF ReadPart
    <3>4. /\ request'.at = next /\ request'.kind = "latest"
          /\ request'.floor = request.floor /\ request' \in RequestType
          /\ \A i \in 1 .. Len(request'.got) :
                (i \in 1 .. Len(request.got) /\ request'.got[i] = request.got[i])
                \/ request'.got[i] = live[part]
      BY <3>1, <3>3, ReadShape, Zenon
    <3>5. \A i \in 1 .. Len(request'.got) : request'.got[i] \in request.floor .. head
      BY <1>2, <3>2, <3>3, <3>4, Zenon DEF RequestInv
    <3> QED
      BY <1>1, <1>2, <3>4, <3>5, ChainKept DEF RequestInv, RequestType
  <2>5. CASE ReadByNumber
    <3>1. PICK to \in {"snapshot", "done"}, value \in {request.arg, -1} :
            /\ Read("block", to, value)
            /\ request.arg <= head => to = "snapshot"
      BY <2>5 DEF ReadByNumber
    <3>2. /\ request.at = "block" /\ request'.at = to
          /\ request'.kind = request.kind /\ request'.arg = request.arg
          /\ request'.floor = request.floor /\ request' \in RequestType
      <4>1. value \in Int
        BY <1>2
      <4> QED
        BY <3>1, <4>1, ReadShape, Zenon
    <3>3. request.kind = "number"
      BY <1>2, <3>2 DEF RequestInv
    <3>4. request.arg <= request.floor => to = "snapshot"
      BY <1>2, <3>1
    <3> QED
      BY <1>1, <1>2, <3>2, <3>3, <3>4, ChainKept DEF RequestInv, RequestType
  <2>6. CASE ReadSnapshot
    <3>1. PICK value \in {request.arg, -1} :
            /\ Read("snapshot", "done", value)
            /\ request.arg \in snapshots => value = request.arg
      BY <2>6 DEF ReadSnapshot
    <3>2. /\ request.at = "snapshot" /\ request'.at = "done"
          /\ request'.kind = request.kind /\ request'.arg = request.arg
          /\ request'.floor = request.floor /\ request' \in RequestType
          /\ Answer(request'.got) = value
      <4>1. value \in Int
        BY <1>2
      <4> QED
        BY <3>1, <4>1, ReadShape, Zenon
    <3>3. request.kind = "number"
      BY <1>2, <3>2 DEF RequestInv
    <3>4. request.arg <= request.floor => request.arg \in snapshots
      <4>1. 0 .. SentHead \subseteq snapshots
        BY <1>2 DEF ChainInv, Behind, SentHead
      <4> QED
        BY <1>2, <4>1
    <3> QED
      BY <1>1, <1>2, <3>1, <3>2, <3>3, <3>4, ChainKept DEF RequestInv, RequestType
  <2>7. CASE ReadPool
    <3>1. PICK to \in {"index", "done"}, value \in {request.arg, -1} :
            /\ Read("pool", to, value)
            /\ to = "done" => value = request.arg
            /\ to = "index" => request.arg \notin pool.pending
      BY <2>7 DEF ReadPool
    <3>2. /\ request.at = "pool" /\ request'.at = to
          /\ request'.kind = request.kind /\ request'.arg = request.arg
          /\ request'.floor = request.floor /\ request' \in RequestType
          /\ Answer(request'.got) = value
      <4>1. value \in Int
        BY <1>2
      <4> QED
        BY <3>1, <4>1, ReadShape
    <3>3. request.kind = "transaction" /\ request.arg < pool.next
      BY <1>2, <3>2 DEF RequestInv
    <3>4. to = "index" => request.arg \in TxsUpTo(indexed)
      BY <1>2, <3>1, <3>3 DEF PoolInv
    <3> QED
      BY <1>1, <1>2, <3>1, <3>2, <3>3, <3>4, ChainKept DEF RequestInv, RequestType
  <2>8. CASE ReadIndex
    <3>1. PICK value \in {request.arg, -1} :
            /\ Read("index", "done", value)
            /\ request.arg \in TxsUpTo(indexed) => value = request.arg
      BY <2>8 DEF ReadIndex
    <3>2. /\ request.at = "index" /\ request'.at = "done"
          /\ request'.kind = request.kind /\ request'.arg = request.arg
          /\ request'.floor = request.floor /\ request' \in RequestType
          /\ Answer(request'.got) = value
      <4>1. value \in Int
        BY <1>2
      <4> QED
        BY <3>1, <4>1, ReadShape
    <3>3. /\ request.kind = "transaction" /\ request.arg < pool.next
          /\ request.arg \in TxsUpTo(indexed)
      BY <1>2, <3>2 DEF RequestInv
    <3> QED
      BY <1>1, <1>2, <3>1, <3>2, <3>3, ChainKept DEF RequestInv, RequestType
  <2> QED
    BY <2>1, <2>2, <2>3, <2>4, <2>5, <2>6, <2>7, <2>8 DEF RequestStep, Parts
<1>4. PoolInv' /\ EventInv' /\ SessionInv' /\ DeployInv' /\ ChainInv'
  BY <1>1, ChainKept DEF IInv, PoolInv, EventInv, SessionInv, DeployInv, DeploysDistinct
<1> QED
  BY <1>3, <1>4 DEF IInv

\* DeploysDistinct of a sequence of runs and the transactions on the chain.
Distinct(runs, T) ==
    /\ \A i, j \in 1 .. Len(runs) :
          i < j /\ runs[i].outcome # "refused" /\ runs[j].outcome # "refused"
              => runs[i].nonce < runs[j].nonce
    /\ \A i \in 1 .. Len(runs) : runs[i].outcome = "deployed" => runs[i].nonce \in T

Below(runs, next) ==
    \A i \in 1 .. Len(runs) : runs[i].outcome # "refused" => runs[i].nonce < next

LEMMA SeqDomain == ASSUME NEW E, NEW s \in Seq(E) PROVE DOMAIN s = 1 .. Len(s)
  OBVIOUS

LEMMA RunAdded ==
    ASSUME NEW s \in Seq(Run), NEW r \in Run, NEW next \in Nat, NEW T,
           Distinct(s, T), Below(s, next),
           r.outcome # "refused" => r.nonce < next /\ Below(s, r.nonce),
           r.outcome = "deployed" => r.nonce \in T
    PROVE  Append(s, r) \in Seq(Run) /\ Distinct(Append(s, r), T) /\ Below(Append(s, r), next)
<1> DEFINE t == Append(s, r)
<1>1. /\ t \in Seq(Run) /\ Len(t) = Len(s) + 1 /\ Len(s) \in Nat
      /\ \A i \in 1 .. Len(s) : t[i] = s[i]
      /\ t[Len(s) + 1] = r
  BY Appended
<1> HIDE DEF t
<1>2. Below(t, next)
  BY <1>1 DEF Below
<1>3. ASSUME NEW i \in 1 .. Len(t), NEW j \in 1 .. Len(t), i < j,
             t[i].outcome # "refused", t[j].outcome # "refused"
      PROVE  t[i].nonce < t[j].nonce
  <2>1. i \in 1 .. Len(s)
    BY <1>1, <1>3
  <2>2. CASE j \in 1 .. Len(s)
    BY <1>1, <1>3, <2>1, <2>2 DEF Distinct
  <2>3. CASE j = Len(s) + 1
    BY <1>1, <1>3, <2>1, <2>3 DEF Below
  <2> QED
    BY <1>1, <2>2, <2>3
<1>4. ASSUME NEW i \in 1 .. Len(t), t[i].outcome = "deployed" PROVE t[i].nonce \in T
  BY <1>1, <1>4 DEF Distinct
<1> QED
  BY <1>1, <1>2, <1>3, <1>4 DEF Distinct, t

\* The deploy command: a transaction is accepted with the next nonce only.
LEMMA DeployIInv == ASSUME IInv, DeployStep PROVE IInv'
<1>1. UNCHANGED <<chainVars, session, request>>
  BY DEF DeployStep
<1>2. /\ DeployInv /\ PoolInv /\ ChainInv
      /\ pool \in [pending: SUBSET Nat, next: Nat] /\ pool.next \in Nat
      /\ head \in Nat /\ indexed \in Int /\ indexed <= head
      /\ deploy.nonce \in Nat /\ deploy.polls \in Nat
  <2>1. deploy \in DeployType /\ pool \in [pending: SUBSET Nat, next: Nat]
    BY DEF IInv, DeployInv, PoolInv
  <2>2. deploy.nonce \in Nat /\ deploy.polls \in Nat /\ pool.next \in Nat
    BY <2>1 DEF DeployType
  <2>3. head \in Nat /\ indexed \in Int /\ indexed <= head
    BY ServiceAssumption DEF IInv, ChainInv, Height, Behind
  <2> QED
    BY <2>1, <2>2, <2>3 DEF IInv
<1>3. deploy.runs \in Seq(Run)
  BY <1>2 DEF DeployInv, DeployType
<1>4. /\ Distinct(deploy.runs, TxsUpTo(head)) /\ Below(deploy.runs, pool.next)
      /\ deploy.at = "poll" => deploy.nonce < pool.next /\ Below(deploy.runs, deploy.nonce)
  <2>1. DOMAIN deploy.runs = 1 .. Len(deploy.runs)
    BY <1>3
  <2> QED
    BY <1>2, <2>1 DEF DeployInv, DeploysDistinct, Distinct, Below
<1>5. ASSUME NEW outcome \in {"refused", "timed out", "deployed"}, Ended(outcome),
             outcome # "refused" => deploy.at = "poll",
             outcome = "deployed" => deploy.nonce \in TxsUpTo(head),
             UNCHANGED pool
      PROVE  DeployInv'
  <2> DEFINE r == [nonce |-> deploy.nonce, outcome |-> outcome]
  <2>1. r \in Run /\ r.nonce = deploy.nonce /\ r.outcome = outcome
    BY <1>2, Zenon DEF Run
  <2>2. deploy' = [at |-> "idle", nonce |-> 0, polls |-> 0, runs |-> Append(deploy.runs, r)]
    BY <1>5, Zenon DEF Ended
  <2> HIDE DEF r
  <2>3. /\ Append(deploy.runs, r) \in Seq(Run)
        /\ Distinct(Append(deploy.runs, r), TxsUpTo(head))
        /\ Below(Append(deploy.runs, r), pool.next)
    <3>1. /\ r.outcome # "refused" => r.nonce < pool.next /\ Below(deploy.runs, r.nonce)
          /\ r.outcome = "deployed" => r.nonce \in TxsUpTo(head)
      BY <1>4, <1>5, <2>1, Zenon
    <3> QED
      BY <1>2, <1>3, <1>4, <2>1, <3>1, RunAdded, Zenon
  <2>4. deploy'.runs = Append(deploy.runs, r) /\ deploy'.at = "idle"
    BY <2>2, Zenon
  <2>5. /\ deploy'.runs \in Seq(Run) /\ Distinct(deploy'.runs, TxsUpTo(head))
        /\ Below(deploy'.runs, pool.next)
    BY <2>3, <2>4, Zenon
  <2>6. deploy' \in DeployType
    BY <2>2, <2>3, Zenon DEF DeployType
  <2>7. DOMAIN deploy'.runs = 1 .. Len(deploy'.runs)
    BY <2>5, SeqDomain, Zenon
  <2>8. TxsUpTo(head)' = TxsUpTo(head)
    BY <1>1, ChainKept, Zenon
  <2> QED
    BY <1>5, <2>4, <2>5, <2>6, <2>7, <2>8, Zenon DEF DeployInv, DeploysDistinct, Distinct, Below
\* the other steps leave the runs as they are
<1>6. ASSUME NEW at \in {"send", "emit", "poll"}, NEW nonce \in Nat, NEW polls \in Nat,
             deploy' = [deploy EXCEPT !.at = at, !.nonce = nonce, !.polls = polls],
             pool'.next \in Nat, pool'.next >= pool.next,
             at # "send" => nonce < pool'.next /\ Below(deploy.runs, nonce)
      PROVE  DeployInv'
  <2>1. deploy \in DeployType
    BY <1>2 DEF DeployInv
  <2>2. /\ deploy' \in DeployType /\ deploy'.runs = deploy.runs
        /\ deploy'.at = at /\ deploy'.nonce = nonce
    BY <1>6, <2>1, Zenon DEF DeployType
  <2>3. DeploysDistinct'
    BY <1>1, <1>2, <2>2, ChainKept DEF DeployInv, DeploysDistinct
  <2>4. ASSUME NEW i \in 1 .. Len(deploy.runs), deploy.runs[i].outcome # "refused"
        PROVE  deploy.runs[i].nonce < pool'.next
    <3>1. deploy.runs[i].nonce < pool.next /\ deploy.runs[i] \in Run
      BY <1>3, <1>4, <2>4 DEF Below
    <3>2. deploy.runs[i].nonce \in Nat
      BY <3>1, Zenon DEF Run
    <3> QED
      BY <1>2, <1>6, <3>1, <3>2
  <2> QED
    BY <1>6, <2>2, <2>3, <2>4 DEF DeployInv, Below
<1>7. CASE ReadNonce
  <2>1. NonceAt(live["accounts"]) \in Nat
    <3>1. live["accounts"] \in 0 .. MaxHeight
      BY <1>2, ServiceAssumption DEF ChainInv, Behind, Height, Parts
    <3> QED
      BY <1>2, <3>1, NonceType
  <2>2. /\ UNCHANGED <<pool, events>>
        /\ deploy' = [deploy EXCEPT !.at = "send", !.nonce = NonceAt(live["accounts"])]
    BY <1>7 DEF ReadNonce
  <2>3. deploy' = [deploy EXCEPT !.at = "send", !.nonce = NonceAt(live["accounts"]),
                                 !.polls = deploy.polls]
    BY <1>2, <2>2, Zenon DEF DeployInv, DeployType
  <2>4. pool'.next \in Nat /\ pool'.next >= pool.next
    BY <1>2, <2>2
  <2>5. DeployInv'
    BY <1>2, <1>6, <2>1, <2>3, <2>4, Zenon
  <2> QED
    BY <1>1, <2>2, <2>5, ChainKept
    DEF IInv, PoolInv, EventInv, SessionInv, RequestInv
<1>8. CASE SendRaw
  <2>1. UNCHANGED events
    BY <1>8 DEF SendRaw
  <2>2. CASE deploy.nonce = pool.next
    <3>1. /\ pool' = [pending |-> pool.pending \cup {deploy.nonce}, next |-> pool.next + 1]
          /\ deploy' = [deploy EXCEPT !.at = "emit"]
      BY <1>8, <2>2 DEF SendRaw
    <3>2. deploy' = [deploy EXCEPT !.at = "emit", !.nonce = deploy.nonce,
                                   !.polls = deploy.polls]
      BY <1>2, <3>1, Zenon DEF DeployInv, DeployType
    <3>3. /\ pool' \in [pending: SUBSET Nat, next: Nat]
          /\ pool'.next = pool.next + 1 /\ pool'.next \in Nat /\ pool'.next >= pool.next
          /\ pool'.pending = pool.pending \cup {pool.next}
      BY <1>2, <2>2, <3>1
    <3>4. deploy.nonce < pool'.next /\ Below(deploy.runs, deploy.nonce)
      BY <1>2, <1>4, <2>2, <3>3
    <3>5. DeployInv'
      BY <1>2, <1>6, <3>2, <3>3, <3>4, Zenon
    <3>6. PoolInv'
      BY <1>1, <1>2, <3>3, ChainKept DEF PoolInv
    <3>7. RequestInv'
      <4>1. request.arg < pool.next => request.arg < pool'.next
        BY <1>2, <3>3 DEF IInv, RequestInv
      <4> QED
        BY <1>1, <4>1, ChainKept DEF IInv, RequestInv
    <3> QED
      BY <1>1, <2>1, <3>5, <3>6, <3>7, ChainKept DEF IInv, EventInv, SessionInv
  <2>3. CASE deploy.nonce # pool.next
    <3>1. Ended("refused") /\ UNCHANGED pool
      BY <1>8, <2>3 DEF SendRaw
    <3>2. DeployInv'
      BY <1>5, <3>1
    <3> QED
      BY <1>1, <2>1, <3>1, <3>2, ChainKept
      DEF IInv, PoolInv, EventInv, SessionInv, RequestInv
  <2> QED
    BY <2>2, <2>3
<1>9. CASE SendPending
  <2>1. /\ deploy.at = "emit" /\ deploy' = [deploy EXCEPT !.at = "poll"] /\ UNCHANGED pool
        /\ events' = Append(events, [kind |-> "pending", arg |-> deploy.nonce])
    BY <1>9 DEF SendPending, Emit
  <2>2. deploy' = [deploy EXCEPT !.at = "poll", !.nonce = deploy.nonce, !.polls = deploy.polls]
    BY <1>2, <2>1, Zenon DEF DeployInv, DeployType
  <2>3. /\ deploy.nonce < pool'.next /\ Below(deploy.runs, deploy.nonce)
        /\ pool'.next \in Nat /\ pool'.next >= pool.next
    BY <1>2, <2>1 DEF DeployInv, Below
  <2>4. DeployInv'
    BY <1>2, <1>6, <2>2, <2>3, Zenon
  <2>5. EventInv'
    <3>1. [kind |-> "pending", arg |-> deploy.nonce] \in Event
      BY <1>2 DEF Event
    <3>2. \/ UNCHANGED events
          \/ \E e \in Event : /\ events' = Append(events, e)
                              /\ e.kind = "heads" => e.arg <= SentHead'
      BY <2>1, <3>1
    <3>3. SentHead \in Int /\ SentHead' \in Int /\ SentHead' >= SentHead
      BY <1>1, ChainKept
    <3> QED
      BY <3>2, <3>3, EventsGrow DEF IInv
  <2> QED
    BY <1>1, <2>1, <2>4, <2>5, ChainKept DEF IInv, PoolInv, SessionInv, RequestInv
<1>10. CASE Poll
  <2>1. deploy.at = "poll" /\ UNCHANGED <<pool, events>>
    BY <1>10, Zenon DEF Poll
  <2>2. TxsUpTo(indexed) \subseteq TxsUpTo(head)
    BY <1>2 DEF TxsUpTo
  <2>3. ASSUME Ended("timed out") PROVE DeployInv'
    BY <1>5, <2>1, <2>3, Zenon
  <2>4. ASSUME Ended("deployed"), deploy.nonce \in TxsUpTo(indexed) PROVE DeployInv'
    BY <1>5, <2>1, <2>2, <2>4, Zenon
  <2>5. ASSUME deploy' = [deploy EXCEPT !.polls = @ + 1] PROVE DeployInv'
    <3>1. deploy' = [deploy EXCEPT !.at = "poll", !.nonce = deploy.nonce,
                                   !.polls = deploy.polls + 1]
      BY <1>2, <2>1, <2>5, Zenon DEF DeployInv, DeployType
    <3>2. /\ deploy.nonce < pool'.next /\ Below(deploy.runs, deploy.nonce)
          /\ deploy.polls + 1 \in Nat /\ pool'.next \in Nat /\ pool'.next >= pool.next
      BY <1>2, <2>1 DEF DeployInv, Below
    <3> QED
      BY <1>2, <1>6, <3>1, <3>2, Zenon
  <2>6. DeployInv'
    BY <1>10, <2>3, <2>4, <2>5, Zenon DEF Poll
  <2> QED
    BY <1>1, <2>1, <2>6, ChainKept DEF IInv, PoolInv, EventInv, SessionInv, RequestInv
<1> QED
  BY <1>7, <1>8, <1>9, <1>10 DEF DeployStep
-----------------------------------------------------------------------------
LEMMA NextIInv == IInv /\ [Next]_vars => IInv'
<1> SUFFICES ASSUME IInv, [Next]_vars PROVE IInv'
  OBVIOUS
<1>1. CASE Import
  BY <1>1, ImportIInv
<1>2. CASE SessionStep
  BY <1>2, SessionIInv
<1>3. CASE RequestStep
  BY <1>3, RequestIInv
<1>4. CASE DeployStep
  BY <1>4, DeployIInv
<1>5. CASE UNCHANGED vars
  BY <1>5, ChainKept
  DEF vars, IInv, PoolInv, EventInv, SessionInv, RequestInv, DeployInv, DeploysDistinct
<1> QED
  BY <1>1, <1>2, <1>3, <1>4, <1>5 DEF Next

LEMMA SpecIInv == Spec => []IInv
  BY InitIInv, NextIInv, PTL DEF Spec

\* A client that was told of a head (newHeads) reads that head or a later one, in
\* every map and by number, whatever the import task does meanwhile.
THEOREM NotifiedHeadsReadable == Spec => []NotifiedStateVisible
<1>1. IInv => NotifiedStateVisible
  <2> SUFFICES ASSUME IInv PROVE NotifiedStateVisible
    OBVIOUS
  <2>1. request.got \in Seq(Int)
    BY DEF IInv, RequestInv
  <2>2. DOMAIN request.got = 1 .. Len(request.got)
    BY <2>1, SeqDomain, Zenon
  <2> QED
    BY <2>2 DEF IInv, RequestInv, NotifiedStateVisible
<1> QED
  BY <1>1, SpecIInv, PTL

\* eth_getTransactionByHash never misses a transaction that the node accepted.
THEOREM AcceptedTxsFound == Spec => []TxAlwaysFound
<1>1. IInv => TxAlwaysFound
  BY DEF IInv, RequestInv, TxAlwaysFound
<1> QED
  BY <1>1, SpecIInv, PTL

\* No two runs of deploy share a contract, and an address that was reported is of
\* a contract on the chain, for any number of runs and polls.
THEOREM DeploysNeverShared == Spec => []DeploysDistinct
<1>1. IInv => DeploysDistinct
  BY DEF IInv, DeployInv
<1> QED
  BY <1>1, SpecIInv, PTL

-----------------------------------------------------------------------------
\* The events that an ack was to be told of, up to position rx of the channel.
Heard(a, evs, rx, lost) ==
    {i \in a.from .. rx - 1 : evs[i].kind = a.kind /\ i \notin lost}

Ascending(s) == \A m, n \in DOMAIN s : m < n => s[m] < s[n]

\* The notes of an ack up to position rx of the channel.
AckInv(a, evs, rx, lost) ==
    /\ DOMAIN a = {"id", "kind", "from", "notes"}
    /\ a.from \in 1 .. rx
    /\ a.id \in Nat
    /\ a.notes \in Seq(Nat)
    /\ Ascending(a.notes)
    /\ Range(a.notes) = Heard(a, evs, rx, lost)

\* The inductive invariant of a session: what it acknowledged and did not
\* cancel is among its subscriptions, under an id that it gave out.
NotesInv ==
    /\ session.rx \in 1 .. Len(events) + 1
    /\ session.nextId \in Nat
    /\ session.lost \subseteq 1 .. session.rx - 1
    /\ \A a \in session.acks :
          /\ AckInv(a, events, session.rx, session.lost)
          /\ a.id < session.nextId
          /\ [id |-> a.id, kind |-> a.kind] \in session.subs
    /\ \A a, b \in session.acks : a.id = b.id => a = b
    /\ \A i \in session.lost : i <= Len(events) - Capacity

\* What was sent stays where it is when the channel grows.
LEMMA ChannelGrows ==
    ASSUME IInv, NotesInv, UNCHANGED session,
           UNCHANGED events \/ (\E e \in Event : events' = Append(events, e))
    PROVE  NotesInv'
<1>1. events \in Seq(Event) /\ Len(events) \in Nat /\ Capacity \in Nat
  BY ServiceAssumption DEF IInv, EventInv
<1>2. /\ Len(events') \in Nat /\ Len(events') >= Len(events)
      /\ \A i \in 1 .. Len(events) : events'[i] = events[i]
  <2>1. CASE UNCHANGED events
    BY <1>1, <2>1
  <2>2. ASSUME NEW e \in Event, events' = Append(events, e)
        PROVE  /\ Len(events') \in Nat /\ Len(events') >= Len(events)
               /\ \A i \in 1 .. Len(events) : events'[i] = events[i]
    BY <1>1, <2>2, Appended
  <2> QED
    BY <2>1, <2>2
<1>3. PICK rx, lost : rx = session.rx /\ lost = session.lost /\ rx \in 1 .. Len(events) + 1
  BY DEF NotesInv
<1>4. ASSUME NEW a, AckInv(a, events, rx, lost) PROVE AckInv(a, events', rx, lost)
  <2>1. a.from \in 1 .. rx
    BY <1>4 DEF AckInv
  <2>2. \A i \in a.from .. rx - 1 : events'[i] = events[i]
    BY <1>1, <1>2, <1>3, <2>1
  <2>3. Heard(a, events', rx, lost) = Heard(a, events, rx, lost)
    BY <2>2 DEF Heard
  <2> QED
    BY <1>4, <2>3, Zenon DEF AckInv
<1>5. /\ rx \in 1 .. Len(events') + 1
      /\ \A i \in lost : i <= Len(events) - Capacity => i <= Len(events') - Capacity
  <2>1. lost \subseteq Int
    BY <1>3 DEF NotesInv
  <2> QED
    BY <1>1, <1>2, <1>3, <2>1
<1> QED
  BY <1>3, <1>4, <1>5 DEF NotesInv

\* A note more for one kind of event.
LEMMA NoteAdded ==
    ASSUME NEW a, NEW evs, NEW rx \in Nat, NEW lost, lost \subseteq 1 .. rx - 1,
           AckInv(a, evs, rx, lost)
    PROVE  /\ evs[rx].kind = a.kind =>
                AckInv([a EXCEPT !.notes = Append(@, rx)], evs, rx + 1, lost)
           /\ evs[rx].kind # a.kind => AckInv(a, evs, rx + 1, lost)
<1>1. /\ DOMAIN a = {"id", "kind", "from", "notes"} /\ a.id \in Nat
      /\ a.from \in 1 .. rx /\ a.notes \in Seq(Nat) /\ Ascending(a.notes)
      /\ Range(a.notes) = Heard(a, evs, rx, lost)
  BY DEF AckInv
<1>2. /\ a.from .. (rx + 1) - 1 = (a.from .. rx - 1) \cup {rx}
      /\ rx \notin lost /\ a.from \in 1 .. rx + 1
  BY <1>1
<1>3. CASE evs[rx].kind = a.kind
  <2>1. PICK b : b = [a EXCEPT !.notes = Append(@, rx)]
    BY Zenon
  <2>2. /\ DOMAIN b = {"id", "kind", "from", "notes"} /\ b.id = a.id /\ b.from = a.from
        /\ b.kind = a.kind /\ b.notes = Append(a.notes, rx)
    BY <1>1, <2>1
  <2>3. PICK s, t : s = a.notes /\ t = Append(s, rx) /\ s \in Seq(Nat)
    BY <1>1, Zenon
  <2>4. /\ t \in Seq(Nat) /\ Len(s) \in Nat /\ Len(t) = Len(s) + 1 /\ DOMAIN s = 1 .. Len(s)
        /\ DOMAIN t = 1 .. Len(s) + 1
        /\ \A i \in 1 .. Len(s) : t[i] = s[i] /\ s[i] \in Nat
        /\ t[Len(s) + 1] = rx
    BY <2>3
  <2>5. \A n \in 1 .. Len(s) : s[n] < rx
    <3>1. \A n \in 1 .. Len(s) : s[n] \in a.from .. rx - 1
      BY <1>1, <2>3, <2>4 DEF Range, Heard
    <3> QED
      BY <1>1, <3>1
  <2>6. Ascending(t)
    <3>1. ASSUME NEW m \in 1 .. Len(s) + 1, NEW n \in 1 .. Len(s) + 1, m < n PROVE t[m] < t[n]
      <4>1. m \in 1 .. Len(s)
        BY <2>4, <3>1
      <4>2. CASE n = Len(s) + 1
        BY <2>4, <2>5, <4>1, <4>2
      <4>3. CASE n \in 1 .. Len(s)
        BY <1>1, <2>3, <2>4, <3>1, <4>1, <4>3, Zenon DEF Ascending
      <4> QED
        BY <2>4, <4>2, <4>3
    <3> QED
      BY <2>4, <3>1 DEF Ascending
  <2>7. Range(t) = Range(s) \cup {rx}
    <3>1. ASSUME NEW x \in Range(t) PROVE x \in Range(s) \cup {rx}
      <4>1. PICK i \in 1 .. Len(s) + 1 : x = t[i]
        BY <2>4, <3>1 DEF Range
      <4>2. i \in 1 .. Len(s) \/ i = Len(s) + 1
        BY <2>4
      <4> QED
        BY <2>4, <4>1, <4>2 DEF Range
    <3>2. ASSUME NEW x \in Range(s) PROVE x \in Range(t)
      <4>1. PICK i \in 1 .. Len(s) : x = s[i]
        BY <2>4, <3>2 DEF Range
      <4>2. i \in DOMAIN t /\ t[i] = x
        BY <2>4, <4>1
      <4> QED
        BY <4>2 DEF Range
    <3>3. rx \in Range(t)
      <4>1. Len(s) + 1 \in DOMAIN t
        BY <2>4
      <4> QED
        BY <2>4, <4>1 DEF Range
    <3> QED
      BY <3>1, <3>2, <3>3, Zenon
  <2>8. Heard(b, evs, rx + 1, lost) = Heard(a, evs, rx, lost) \cup {rx}
    <3>1. Heard(b, evs, rx + 1, lost)
            = {i \in (a.from .. rx - 1) \cup {rx} : evs[i].kind = a.kind /\ i \notin lost}
      BY <1>2, <2>2 DEF Heard
    <3> QED
      BY <1>2, <1>3, <3>1 DEF Heard
  <2>9. AckInv(b, evs, rx + 1, lost)
    BY <1>1, <1>2, <2>2, <2>3, <2>4, <2>6, <2>7, <2>8, Zenon DEF AckInv
  <2> QED
    BY <1>3, <2>1, <2>9
<1>4. CASE evs[rx].kind # a.kind
  <2>1. Heard(a, evs, rx + 1, lost)
          = {i \in (a.from .. rx - 1) \cup {rx} : evs[i].kind = a.kind /\ i \notin lost}
    BY <1>2 DEF Heard
  <2>2. Heard(a, evs, rx + 1, lost) = Heard(a, evs, rx, lost)
    BY <1>4, <2>1 DEF Heard
  <2>3. AckInv(a, evs, rx + 1, lost)
    BY <1>1, <1>2, <2>2, Zenon DEF AckInv
  <2> QED
    BY <1>4, <2>3
<1> QED
  BY <1>3, <1>4

\* The steps of a session, with the channel as it is.
LEMMA SessionNotes ==
    ASSUME IInv, NotesInv, SessionStep
    PROVE  NotesInv'
<1>1. /\ events' = events /\ events \in Seq(Event) /\ Len(events) \in Nat
      /\ Capacity \in Nat \ {0} /\ session = [x \in SessionField |-> session[x]]
  BY ServiceAssumption DEF SessionStep, IInv, EventInv, SessionInv
<1>2. CASE Connect \/ Close
  <2>1. session' = NewSession(events) \/ session' = NoSession
    BY <1>2 DEF Connect, Close
  <2>2. /\ session'.rx \in 1 .. Len(events) + 1 /\ session'.nextId = 1 /\ session'.lost = {}
        /\ session'.acks = {}
    BY <1>1, <2>1 DEF NewSession, NoSession
  <2> QED
    BY <1>1, <2>2 DEF NotesInv
<1>3. ASSUME NEW kind \in Kind, Subscribe(kind) PROVE NotesInv'
  <2>1. PICK id, rx, lost, n : /\ id = session.nextId /\ id \in Nat
                               /\ rx = session.rx /\ lost = session.lost /\ rx \in 1 .. n + 1
                               /\ n = Len(events) /\ n \in Nat
    BY <1>1, Zenon DEF NotesInv
  <2> DEFINE new == [id |-> id, kind |-> kind, from |-> rx, notes |-> <<>>]
  <2>2. /\ session'.subs = {s \in session.subs : s.id # id} \cup {[id |-> id, kind |-> kind]}
        /\ session'.nextId = id + 1 /\ session'.acks = session.acks \cup {new}
        /\ session'.rx = rx /\ session'.lost = lost
    BY <1>1, <1>3, <2>1 DEF Subscribe, SessionField
  <2>3. AckInv(new, events, rx, lost) /\ new.id = id /\ new.kind = kind
    <3>1. rx .. rx - 1 = {} /\ rx \in 1 .. rx /\ Range(<<>>) = {}
      BY <2>1 DEF Range
    <3>2. Heard(new, events, rx, lost) = {}
      BY <3>1 DEF Heard
    <3>3. <<>> \in Seq(Nat) /\ Ascending(<<>>)
      BY DEF Ascending
    <3> QED
      BY <2>1, <3>1, <3>2, <3>3, Zenon DEF AckInv
  <2> HIDE DEF new
  <2>4. ASSUME NEW a \in session'.acks
        PROVE  /\ AckInv(a, events, rx, lost) /\ a.id < id + 1
               /\ [id |-> a.id, kind |-> a.kind] \in session'.subs
    <3>1. CASE a = new
      BY <2>1, <2>2, <2>3, <3>1
    <3>2. CASE a \in session.acks
      <4>1. /\ AckInv(a, events, rx, lost) /\ a.id < id
            /\ [id |-> a.id, kind |-> a.kind] \in session.subs
        BY <2>1, <3>2 DEF NotesInv
      <4>2. a.id \in Nat
        BY <4>1 DEF AckInv
      <4>3. a.id # id /\ a.id < id + 1
        BY <2>1, <4>1, <4>2
      <4> QED
        BY <2>2, <4>1, <4>3
    <3> QED
      BY <2>2, <2>4, <3>1, <3>2
  <2>5. ASSUME NEW a \in session'.acks, NEW b \in session'.acks, a.id = b.id PROVE a = b
    <3>1. \A c \in session.acks : c.id # id
      <4>1. \A c \in session.acks : c.id \in Nat /\ c.id < id
        BY <2>1, Zenon DEF NotesInv, AckInv
      <4> QED
        BY <2>1, <4>1
    <3>2. \A c, d \in session.acks : c.id = d.id => c = d
      BY DEF NotesInv
    <3> QED
      BY <2>2, <2>3, <2>5, <3>1, <3>2
  <2>6. /\ session'.rx \in 1 .. Len(events') + 1 /\ session'.nextId \in Nat
        /\ session'.lost \subseteq 1 .. session'.rx - 1
        /\ \A i \in session'.lost : i <= Len(events') - Capacity
    <3>1. lost \subseteq 1 .. rx - 1 /\ \A i \in lost : i <= n - Capacity
      BY <2>1 DEF NotesInv
    <3>2. id + 1 \in Nat
      BY <2>1
    <3> QED
      BY <1>1, <2>1, <2>2, <3>1, <3>2, Zenon
  <2>7. \A a \in session'.acks :
          /\ AckInv(a, events', session'.rx, session'.lost)
          /\ a.id < session'.nextId
          /\ [id |-> a.id, kind |-> a.kind] \in session'.subs
    BY <1>1, <2>2, <2>4, Zenon
  <2> QED
    BY <2>5, <2>6, <2>7, Zenon DEF NotesInv
<1>4. ASSUME NEW id, Unsubscribe(id) PROVE NotesInv'
  <2>1. /\ session'.subs = {s \in session.subs : s.id # id}
        /\ session'.acks = {a \in session.acks : a.id # id}
        /\ session'.nextId = session.nextId
        /\ session'.rx = session.rx /\ session'.lost = session.lost
    BY <1>1, <1>4 DEF Unsubscribe, SessionField
  <2>2. ASSUME NEW a \in session'.acks
        PROVE  /\ AckInv(a, events, session.rx, session.lost) /\ a.id < session.nextId
               /\ [id |-> a.id, kind |-> a.kind] \in session'.subs
    <3>1. a \in session.acks /\ a.id # id
      BY <2>1
    <3>2. /\ AckInv(a, events, session.rx, session.lost) /\ a.id < session.nextId
          /\ [id |-> a.id, kind |-> a.kind] \in session.subs
      BY <3>1 DEF NotesInv
    <3> QED
      BY <2>1, <3>1, <3>2
  <2>3. \A a, b \in session'.acks : a.id = b.id => a = b
    BY <2>1 DEF NotesInv
  <2> QED
    BY <1>1, <2>1, <2>2, <2>3, Zenon DEF NotesInv
<1>5. CASE ReceiveLagged
  <2>1. PICK rx, lost, n, old : /\ rx = session.rx /\ lost = session.lost /\ rx \in 1 .. n + 1
                                /\ n = Len(events) /\ n \in Nat /\ old = Oldest /\ rx < old
                                /\ lost \subseteq 1 .. rx - 1
    BY <1>1, <1>5, Zenon DEF NotesInv, ReceiveLagged
  <2>2. /\ session'.subs = session.subs /\ session'.nextId = session.nextId
        /\ session'.acks = session.acks
        /\ session'.rx = old /\ session'.lost = lost \cup (rx .. old - 1)
    BY <1>1, <1>5, <2>1 DEF ReceiveLagged, SessionField
  <2>3. old = n - Capacity + 1 /\ old \in 1 .. n + 1
    BY <1>1, <2>1 DEF Oldest
  <2>4. ASSUME NEW a, AckInv(a, events, rx, lost)
        PROVE  AckInv(a, events, old, lost \cup (rx .. old - 1))
    <3>1. a.from \in 1 .. rx
      BY <2>4 DEF AckInv
    <3>2. a.from \in 1 .. old
      BY <2>1, <2>3, <3>1
    <3>3. \A i \in a.from .. old - 1 : i \in a.from .. rx - 1 <=> i \notin rx .. old - 1
      BY <2>1, <2>3, <3>1
    <3>4. a.from .. rx - 1 \subseteq a.from .. old - 1
      BY <2>1, <2>3, <3>1
    <3>5. Heard(a, events, old, lost \cup (rx .. old - 1)) = Heard(a, events, rx, lost)
      BY <3>3, <3>4 DEF Heard
    <3> QED
      BY <2>4, <3>2, <3>5, Zenon DEF AckInv
  <2>5. ASSUME NEW a \in session'.acks
        PROVE  /\ AckInv(a, events, old, session'.lost) /\ a.id < session.nextId
               /\ [id |-> a.id, kind |-> a.kind] \in session.subs
    BY <2>1, <2>2, <2>4, Zenon DEF NotesInv
  <2>6. ASSUME NEW i \in session'.lost PROVE i <= n - Capacity /\ i \in 1 .. old - 1
    <3>1. CASE i \in lost
      <4>1. i <= n - Capacity /\ i \in 1 .. rx - 1
        BY <2>1, <3>1 DEF NotesInv
      <4> QED
        BY <2>1, <2>3, <4>1
    <3>2. CASE i \in rx .. old - 1
      BY <1>1, <2>1, <2>3, <3>2
    <3> QED
      BY <2>2, <3>1, <3>2
  <2>7. \A a, b \in session'.acks : a.id = b.id => a = b
    BY <2>2 DEF NotesInv
  <2> QED
    BY <1>1, <2>1, <2>2, <2>3, <2>5, <2>6, <2>7, Zenon DEF NotesInv
<1>6. CASE Receive
  <2>1. PICK rx, lost, n : /\ rx = session.rx /\ lost = session.lost /\ rx \in 1 .. n
                           /\ n = Len(events) /\ n \in Nat /\ lost \subseteq 1 .. rx - 1
    <3>1. Oldest \in Nat \ {0}
      BY <1>1 DEF Oldest
    <3>2. session.rx \in Oldest .. Len(events)
      BY <1>6 DEF Receive
    <3>3. session.rx \in 1 .. Len(events)
      BY <1>1, <3>1, <3>2
    <3> QED
      BY <1>1, <3>3, Zenon DEF NotesInv
  <2>2. PICK kind : kind = events[rx].kind
    OBVIOUS
  <2> DEFINE Hears(a) == a.kind = kind /\ [id |-> a.id, kind |-> kind] \in session.subs
             After(a) == IF Hears(a) THEN [a EXCEPT !.notes = Append(@, rx)] ELSE a
  <2>3. /\ session'.subs = session.subs /\ session'.nextId = session.nextId
        /\ session'.acks = Notified(kind, session.acks, rx)
        /\ session'.rx = rx + 1 /\ session'.lost = lost
    BY <1>1, <1>6, <2>1, <2>2 DEF Receive, SessionField
  <2>4. session'.acks = {After(a) : a \in session.acks}
    BY <2>3 DEF Notified
  <2>5. ASSUME NEW a \in session.acks
        PROVE  /\ AckInv(a, events, rx, lost) /\ a.id < session.nextId
               /\ [id |-> a.id, kind |-> a.kind] \in session.subs
               /\ DOMAIN a = {"id", "kind", "from", "notes"}
    BY <2>1 DEF NotesInv, AckInv
  <2>6. ASSUME NEW a \in session.acks
        PROVE  /\ AckInv(After(a), events, rx + 1, lost)
               /\ After(a).id = a.id /\ After(a).kind = a.kind
    <3>1. Hears(a) <=> a.kind = kind
      BY <2>5
    <3>2. rx \in Nat
      BY <2>1
    <3>3. /\ kind = a.kind => AckInv([a EXCEPT !.notes = Append(@, rx)], events, rx + 1, lost)
          /\ kind # a.kind => AckInv(a, events, rx + 1, lost)
      BY <2>1, <2>2, <2>5, <3>2, NoteAdded, Zenon
    <3> HIDE DEF Hears
    <3>4. CASE a.kind = kind
      <4>1. After(a) = [a EXCEPT !.notes = Append(@, rx)]
        BY <3>1, <3>4
      <4>2. /\ [a EXCEPT !.notes = Append(@, rx)].id = a.id
            /\ [a EXCEPT !.notes = Append(@, rx)].kind = a.kind
        BY <2>5
      <4> HIDE DEF After
      <4> QED
        BY <3>3, <3>4, <4>1, <4>2
    <3>5. CASE a.kind # kind
      <4>1. After(a) = a
        BY <3>1, <3>5
      <4> HIDE DEF After
      <4> QED
        BY <3>3, <3>5, <4>1
    <3> QED
      BY <3>4, <3>5
  <2> HIDE DEF After
  <2>7. ASSUME NEW b \in session'.acks
        PROVE  /\ AckInv(b, events, rx + 1, lost) /\ b.id < session.nextId
               /\ [id |-> b.id, kind |-> b.kind] \in session.subs
    <3>1. PICK a \in session.acks : b = After(a)
      BY <2>4
    <3> QED
      BY <2>5, <2>6, <3>1, Zenon
  <2>8. ASSUME NEW a \in session'.acks, NEW b \in session'.acks, a.id = b.id PROVE a = b
    <3>1. PICK c \in session.acks, d \in session.acks : a = After(c) /\ b = After(d)
      BY <2>4
    <3>2. c.id = d.id
      BY <2>6, <2>8, <3>1, Zenon
    <3>3. c = d
      BY <3>2, Zenon DEF NotesInv
    <3> QED
      BY <3>1, <3>3
  <2>9. /\ rx + 1 \in 1 .. n + 1 /\ lost \subseteq 1 .. (rx + 1) - 1
        /\ session.nextId \in Nat /\ \A i \in lost : i <= n - Capacity
    BY <2>1 DEF NotesInv
  <2> QED
    BY <1>1, <2>1, <2>3, <2>7, <2>8, <2>9, Zenon DEF NotesInv
<1> QED
  BY <1>2, <1>3, <1>4, <1>5, <1>6 DEF SessionStep

\* The notes of a session stay exact.
LEMMA NotesStep == ASSUME IInv, NotesInv, [Next]_vars PROVE NotesInv'
<1>1. CASE SessionStep
  BY <1>1, SessionNotes
<1>2. ASSUME NEW kind \in {"heads", "logs", "pending"}, NEW arg \in Nat, Emit(kind, arg)
      PROVE  \E e \in Event : events' = Append(events, e)
  <2>1. [kind |-> kind, arg |-> arg] \in Event
    BY DEF Event
  <2> QED
    BY <1>2, <2>1 DEF Emit
<1>3. CASE Import
  <2>1. head \in Nat
    BY ServiceAssumption DEF IInv, ChainInv, Height
  <2>2. UNCHANGED events \/ Emit("heads", head) \/ Emit("logs", head)
    BY <1>3 DEF Import, InsertBlock, ImportStep, RebuildTxIndex, RecordState, ResetPart, FixPool,
                SendHead, SendLogs
  <2>3. UNCHANGED session
    BY <1>3 DEF Import
  <2> QED
    BY <1>2, <2>1, <2>2, <2>3, ChannelGrows
<1>4. CASE RequestStep
  BY <1>4, ChannelGrows DEF RequestStep
<1>5. CASE DeployStep
  <2>1. deploy.nonce \in Nat
    BY DEF IInv, DeployInv, DeployType
  <2>2. UNCHANGED session /\ (UNCHANGED events \/ Emit("pending", deploy.nonce))
    BY <1>5, Zenon DEF DeployStep, ReadNonce, SendRaw, SendPending, Poll
  <2> QED
    BY <1>2, <2>1, <2>2, ChannelGrows
<1>6. CASE UNCHANGED vars
  BY <1>6, ChannelGrows DEF vars
<1> QED
  BY <1>1, <1>3, <1>4, <1>5, <1>6 DEF Next

\* Whatever the capacity of the channel and however far a session falls behind,
\* each subscription it acknowledged gets every event of its kind once and in
\* order, but for those that Lagged skipped, and those are more than the
\* capacity behind (websocket.rs handle_socket and notifications_for).
THEOREM NotesExactAlways == Spec => []NotesExact
<1>1. Init => NotesInv
  BY DEF Init, NotesInv, NoSession, NewSession
<1>2. NotesInv => NotesExact
  BY Zenon DEF NotesInv, NotesExact, AckInv, Ascending, Heard
<1> QED
  BY <1>1, <1>2, InitIInv, NextIInv, NotesStep, PTL DEF Spec
=============================================================================
