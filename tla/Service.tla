------------------------------ MODULE Service -------------------------------
(***************************************************************************)
(* What a client sees of a node while it imports blocks: the import task   *)
(* (import_and_apply, then the events of import_block), one RPC request    *)
(* that reads several maps (crates/ivory-rpc/src/handler.rs), one          *)
(* WebSocket session (websocket.rs) on the broadcast channel of            *)
(* context.rs, and the deploy command (bin/ivory/src/deploy.rs) run        *)
(* several times for the same package.                                     *)
(*                                                                         *)
(* One task imports, as on a follower; two of them are in ChainTasks.  A   *)
(* block is its height and holds at most one transaction of the deployer,  *)
(* which is known by its nonce: a run that reads the same nonce signs the  *)
(* same transaction.  Every access to a map with a lock of its own is one  *)
(* step.  The node is an archive.                                          *)
(***************************************************************************)
EXTENDS Integers, Sequences, FiniteSets, Functions

CONSTANTS
    Capacity,       \* broadcast::channel(256)
    MaxPolls,       \* 40 polls of wait_create
    MaxHeight,      \* bound on the chain
    MaxSubs,        \* bound on the subscriptions of a session
    MaxRuns,        \* bound on the runs of deploy
    Kind            \* the kinds of events that the session subscribes to

ASSUME ServiceAssumption ==
    /\ Capacity \in Nat \ {0}
    /\ {MaxPolls, MaxHeight, MaxSubs, MaxRuns} \subseteq Nat
    /\ Kind \subseteq {"heads", "pending", "logs"}

Height == 0 .. MaxHeight
TxNonce == 0 .. MaxRuns
Parts == {"accounts", "storage", "code"}

VARIABLES
    mined,      \* mined[h]: the deployer's transactions in block h
    pc,         \* next access of the import task
    head,       \* height of the head, with by_number
    indexed,    \* height up to which tx_index was built
    snapshots,  \* heights with a recorded state
    live,       \* live[p]: height whose state part p of the live StateDB is
    pool,       \* pending transactions and the deployer's next_nonce
    events,     \* all that was sent on the channel
    session,    \* the WebSocket session
    request,    \* an RPC request that takes several accesses
    deploy,     \* the deploy command and its earlier runs
    clients     \* who is there in this behaviour: at most two of the three

chainVars == <<mined, pc, head, indexed, snapshots, live>>
vars == <<chainVars, pool, events, session, request, deploy, clients>>

TxsUpTo(h) == UNION {mined[i] : i \in 1 .. h}
NonceAt(h) == Cardinality(TxsUpTo(h))

\* A session that just connected: it receives what is sent from now on.
NewSession(sent) ==
    [open |-> TRUE, rx |-> Len(sent) + 1, subs |-> {}, nextId |-> 1, acks |-> {},
     lost |-> {}, told |-> 0]
NoSession == [NewSession(<<>>) EXCEPT !.open = FALSE]
NoRequest == [kind |-> "none", at |-> "done", arg |-> 0, floor |-> 0, got |-> <<>>]

Init ==
    /\ mined = [h \in 1 .. MaxHeight |-> {}]
    /\ pc = "idle"
    /\ head = 0 /\ indexed = 0 /\ snapshots = {0}
    /\ live = [p \in Parts |-> 0]
    /\ pool = [pending |-> {}, next |-> 0]
    /\ events = <<>>
    /\ session = NoSession
    /\ request = NoRequest
    /\ deploy = [at |-> "idle", nonce |-> 0, polls |-> 0, runs |-> <<>>]
    /\ clients \in {{"session", "request"}, {"session", "deploy"}, {"request", "deploy"}}
-----------------------------------------------------------------------------
(* The import task.                                                        *)

Goto(from, to) == pc = from /\ pc' = to
Emit(kind, arg) == events' = Append(events, [kind |-> kind, arg |-> arg])

\* Mutant: the transactions leave the pool with the insertion.
InsertDropping(txs) ==
    /\ Goto("idle", "index")
    /\ head < MaxHeight
    /\ txs \in {{}} \cup {{n} : n \in {n \in 0 .. pool.next - 1 : n = NonceAt(head)}}
    /\ head' = head + 1
    /\ mined' = [mined EXCEPT ![head + 1] = txs]
    /\ pool' = [pool EXCEPT !.pending = @ \ txs]
    /\ UNCHANGED <<indexed, snapshots, live, events>>

\* import_and_apply up to the new head.  The block's producer has what the
\* pool gossiped; execution takes the nonces in order.
InsertBlock(txs) ==
    /\ Goto("idle", "index")
    /\ head < MaxHeight
    /\ txs \in {{}} \cup {{n} : n \in {n \in 0 .. pool.next - 1 : n = NonceAt(head)}}
    /\ head' = head + 1
    /\ mined' = [mined EXCEPT ![head + 1] = txs]
    /\ UNCHANGED <<indexed, snapshots, live, pool, events>>

RebuildTxIndex ==
    /\ Goto("index", "record")
    /\ indexed' = head
    /\ UNCHANGED <<mined, head, snapshots, live, pool, events>>

\* Mutant: the event is sent before the live state is replaced.
RecordAndSend ==
    /\ Goto("record", "accounts")
    /\ snapshots' = snapshots \cup {head}
    /\ Emit("heads", head)
    /\ UNCHANGED <<mined, head, indexed, live, pool>>

RecordState ==
    /\ Goto("record", "accounts")
    /\ snapshots' = snapshots \cup {head}
    /\ UNCHANGED <<mined, head, indexed, live, pool, events>>

ResetPart(part, next) ==
    /\ Goto(part, next)
    /\ live' = [live EXCEPT ![part] = head]
    /\ UNCHANGED <<mined, head, indexed, snapshots, pool, events>>

\* Mutant: the pool forgets the nonce of what it removes.
FixPoolRewinding ==
    /\ Goto("pool", "notify")
    /\ pool' = [pending |-> pool.pending \ TxsUpTo(head),
                next |-> IF mined[head] = {} THEN pool.next ELSE NonceAt(head - 1)]
    /\ UNCHANGED <<mined, head, indexed, snapshots, live, events>>

\* apply_head_change: what the chain holds leaves the pool
FixPool ==
    /\ Goto("pool", "notify")
    /\ pool' = [pool EXCEPT !.pending = @ \ TxsUpTo(head)]
    /\ UNCHANGED <<mined, head, indexed, snapshots, live, events>>

SendHead ==
    /\ Goto("notify", "logs")
    /\ Emit("heads", head)
    /\ UNCHANGED <<mined, head, indexed, snapshots, live, pool>>

\* emit_logs sends nothing for a block without logs
SendLogs ==
    /\ Goto("logs", "idle")
    /\ Emit("logs", head) \/ UNCHANGED events
    /\ UNCHANGED <<mined, head, indexed, snapshots, live, pool>>

ImportStep ==
    \/ RebuildTxIndex \/ RecordState
    \/ ResetPart("accounts", "storage") \/ ResetPart("storage", "code")
    \/ ResetPart("code", "pool")
    \/ FixPool \/ SendHead \/ SendLogs

Import ==
    /\ (\E n \in TxNonce : InsertBlock({n})) \/ InsertBlock({}) \/ ImportStep
    /\ UNCHANGED <<session, request, deploy>>
-----------------------------------------------------------------------------
(* The WebSocket session.                                                  *)

\* handle_socket starts: subscribe_events
Connect ==
    /\ ~session.open
    /\ session' = NewSession(events)

\* the client closes, or a send fails
Close ==
    /\ session.open
    /\ session' = NoSession

\* Mutant: the id is the number of subscriptions.
SubscribeByCount(kind) ==
    LET id == Cardinality(session.subs) + 1
    IN  /\ session.open /\ id <= MaxSubs
        /\ session' = [session EXCEPT
                          !.subs = {s \in @ : s.id # id} \cup {[id |-> id, kind |-> kind]},
                          !.nextId = @ + 1,
                          !.acks = @ \cup {[id |-> id, kind |-> kind,
                                            from |-> session.rx, notes |-> <<>>]}]

\* eth_subscribe; an ack is what the client was told: the id, with the position
\* of the first event it may hear of and the notes it got since
Subscribe(kind) ==
    LET id == session.nextId
    IN  /\ session.open /\ id <= MaxSubs
        /\ session' = [session EXCEPT
                          !.subs = {s \in @ : s.id # id} \cup {[id |-> id, kind |-> kind]},
                          !.nextId = @ + 1,
                          !.acks = @ \cup {[id |-> id, kind |-> kind,
                                            from |-> session.rx, notes |-> <<>>]}]

Unsubscribe(id) ==
    /\ session.open /\ id \in {s.id : s \in session.subs}
    /\ session' = [session EXCEPT !.subs = {s \in @ : s.id # id},
                                  !.acks = {a \in @ : a.id # id}]

Oldest == IF Len(events) > Capacity THEN Len(events) - Capacity + 1 ELSE 1

\* Mutant: the receiver stays where it is.
LaggedStays ==
    /\ session.open /\ session.rx < Oldest
    /\ UNCHANGED session

\* recv of a receiver that is too far behind: Lagged, and on with the oldest
\* event that the channel still holds
ReceiveLagged ==
    /\ session.open /\ session.rx < Oldest
    /\ session' = [session EXCEPT !.lost = @ \cup (session.rx .. Oldest - 1), !.rx = Oldest]

\* notifications_for, and the sends
Notified(kind, acks, pos) ==
    {IF a.kind = kind /\ [id |-> a.id, kind |-> kind] \in session.subs
     THEN [a EXCEPT !.notes = Append(@, pos)] ELSE a : a \in acks}

Receive ==
    /\ session.open /\ session.rx \in Oldest .. Len(events)
    /\ LET ev == events[session.rx]
       IN  session' = [session EXCEPT
               !.acks = Notified(ev.kind, @, session.rx),
               !.told = IF ev.kind = "heads" /\ \E s \in session.subs : s.kind = "heads"
                        THEN ev.arg ELSE @,
               !.rx = @ + 1]

SessionStep ==
    /\ "session" \in clients
    /\ \/ Connect \/ Close
       \/ \E kind \in Kind : Subscribe(kind)
       \/ \E id \in 1 .. MaxSubs : Unsubscribe(id)
       \/ ReceiveLagged \/ Receive
    /\ UNCHANGED <<chainVars, pool, events, request, deploy>>
-----------------------------------------------------------------------------
(* An RPC request of the same client; floor is the last head it was told.  *)

Ask(kind, arg, first) ==
    /\ request.at = "done"
    /\ request' = [kind |-> kind, at |-> first, arg |-> arg, floor |-> session.told, got |-> <<>>]

Read(from, to, value) ==
    /\ request.at = from
    /\ request' = [request EXCEPT !.at = to, !.got = Append(@, value)]

\* state_for_tag of "latest", for balances, eth_call, eth_getProof...: fork
AskLatest == Ask("latest", 0, "accounts")
ReadPart(part, next) == request.kind = "latest" /\ Read(part, next, live[part])

\* state_for_tag of a number: by_number, then state_at; -1 is BlockNotFound
AskNumber(h) == Ask("number", h, "block")
ReadByNumber ==
    IF request.arg <= head THEN Read("block", "snapshot", request.arg)
    ELSE Read("block", "done", -1)
ReadSnapshot ==
    Read("snapshot", "done", IF request.arg \in snapshots THEN request.arg ELSE -1)

\* get_transaction_by_hash of a transaction the node has accepted: the pool,
\* then the store; -1 is TransactionNotFound
AskTransaction(n) == n < pool.next /\ Ask("transaction", n, "pool")
ReadPool ==
    IF request.arg \in pool.pending THEN Read("pool", "done", request.arg)
    ELSE Read("pool", "index", -1)
ReadIndex ==
    Read("index", "done", IF request.arg \in TxsUpTo(indexed) THEN request.arg ELSE -1)

RequestStep ==
    /\ "request" \in clients
    /\ \/ AskLatest \/ (\E h \in Height : AskNumber(h)) \/ (\E n \in TxNonce : AskTransaction(n))
       \/ ReadPart("accounts", "storage") \/ ReadPart("storage", "code")
       \/ ReadPart("code", "done")
       \/ ReadByNumber \/ ReadSnapshot \/ ReadPool \/ ReadIndex
    /\ UNCHANGED <<chainVars, pool, events, session, deploy>>
-----------------------------------------------------------------------------
(* ivory-dev deploy, run again and again.                                  *)

Ended(outcome) ==
    deploy' = [at |-> "idle", nonce |-> 0, polls |-> 0,
               runs |-> Append(deploy.runs, [nonce |-> deploy.nonce, outcome |-> outcome])]

\* the bound; with a session in the picture one run sends all there is to hear
RunsLeft == Len(deploy.runs) < (IF "session" \in clients THEN 1 ELSE MaxRuns)

\* eth_getTransactionCount of "latest"
ReadNonce ==
    /\ deploy.at = "idle" /\ RunsLeft
    /\ deploy' = [deploy EXCEPT !.at = "send", !.nonce = NonceAt(live["accounts"])]
    /\ UNCHANGED <<pool, events>>

\* eth_sendRawTransaction: add_transaction and on_tx; an error ends the run
SendRaw ==
    /\ deploy.at = "send"
    /\ IF deploy.nonce = pool.next
       THEN /\ pool' = [pending |-> pool.pending \cup {deploy.nonce}, next |-> pool.next + 1]
            /\ deploy' = [deploy EXCEPT !.at = "emit"]
       ELSE Ended("refused") /\ UNCHANGED pool
    /\ UNCHANGED events

SendPending ==
    /\ deploy.at = "emit"
    /\ Emit("pending", deploy.nonce)
    /\ deploy' = [deploy EXCEPT !.at = "poll"]
    /\ UNCHANGED pool

\* a poll of wait_create: eth_getTransactionReceipt, an error being no receipt
Poll ==
    /\ deploy.at = "poll"
    /\ IF deploy.polls = MaxPolls THEN Ended("timed out")
       ELSE IF deploy.nonce \in TxsUpTo(indexed) THEN Ended("deployed")
       ELSE deploy' = [deploy EXCEPT !.polls = @ + 1]
    /\ UNCHANGED <<pool, events>>

DeployStep ==
    /\ "deploy" \in clients
    /\ ReadNonce \/ SendRaw \/ SendPending \/ Poll
    /\ UNCHANGED <<chainVars, session, request>>

Next == (Import \/ SessionStep \/ RequestStep \/ DeployStep) /\ UNCHANGED clients

\* The import task runs on to the end of a block, and the session takes events
\* as long as its client reads; both are tasks of the runtime that wait for
\* nothing else.
Fairness ==
    /\ WF_vars(ImportStep /\ UNCHANGED <<session, request, deploy, clients>>)
    /\ WF_vars(/\ ReceiveLagged \/ Receive
               /\ UNCHANGED <<chainVars, pool, events, request, deploy, clients>>)

Spec == Init /\ [][Next]_vars /\ Fairness
-----------------------------------------------------------------------------
\* What a request answers with: the last thing it read.
Answer(got) == got[Len(got)]

\* A client that was told of a head (newHeads) finds it wherever it looks next:
\* every map that a request for "latest" copies is of that head or a later one,
\* and a request by number for that head or one below it is answered, with the
\* state of that very block.  (What the copies of one request are of may still
\* differ: fork takes the three locks one after another.)
NotifiedStateVisible ==
    request.at = "done" =>
        /\ request.kind = "latest" =>
              \A i \in DOMAIN request.got : request.got[i] \in request.floor .. head
        /\ request.kind = "number" /\ request.arg <= request.floor =>
              Answer(request.got) = request.arg

\* eth_getTransactionByHash finds a transaction that the node accepted, in the
\* pool or on the chain, also while the import moves it from one to the other.
TxAlwaysFound ==
    request.at = "done" /\ request.kind = "transaction" => Answer(request.got) = request.arg

\* Each subscription that was acknowledged and not cancelled has an id of its own
\* and was sent every event of its kind, once and in the order of the channel,
\* since it was made, but for what the receiver lost; and a receiver loses only
\* what is more than the channel's capacity behind.
NotesExact ==
    /\ \A a \in session.acks :
          /\ \A m, n \in DOMAIN a.notes : m < n => a.notes[m] < a.notes[n]
          /\ Range(a.notes) = {i \in a.from .. session.rx - 1 :
                                  events[i].kind = a.kind /\ i \notin session.lost}
    /\ \A a, b \in session.acks : a.id = b.id => a = b
    /\ \A i \in session.lost : i <= Len(events) - Capacity

\* Every run of deploy creates at most one contract and no two runs share one:
\* the runs that were not refused have increasing nonces, and one that reported
\* an address is on the chain.  So a run after a timeout creates a second
\* contract only if the first was on the chain when it read its nonce.
DeploysDistinct ==
    LET runs == deploy.runs
    IN  /\ \A i, j \in DOMAIN runs :
              i < j /\ runs[i].outcome # "refused" /\ runs[j].outcome # "refused"
                  => runs[i].nonce < runs[j].nonce
        /\ \A i \in DOMAIN runs : runs[i].outcome = "deployed" => runs[i].nonce \in TxsUpTo(head)

\* A head that was imported while a session is subscribed to newHeads.
Owed ==
    /\ \E s \in session.subs : s.kind = "heads"
    /\ \/ pc # "idle"
       \/ session.rx <= Len(events)

\* The session hears of it: the import always gets as far as the events, and the
\* session, however far behind it is, takes events until it is level with the
\* channel.  A receiver that lags goes on (websocket.rs).
HeadsHeard == Owed ~> ~Owed
=============================================================================
