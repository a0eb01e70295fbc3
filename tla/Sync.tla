-------------------------------- MODULE Sync --------------------------------
(***************************************************************************)
(* A master and its followers: block gossip, the walk back over unknown    *)
(* parents and the orphan map (bin/ivory/src/node.rs, import task and      *)
(* import_block), over the swarm of crates/ivory-network/src/service.rs.   *)
(*                                                                         *)
(* There is one validator, so the chain is a line and a block is its       *)
(* height; forks are in module Chain.  A pruned node (archive = false)     *)
(* has bodies from low[n] on and answers with a bare block below.  Blocks  *)
(* are produced for transactions only, so a bare body never reaches the    *)
(* header's state root.                                                    *)
(*                                                                         *)
(* The wire holds what was published and not yet handled by the import     *)
(* task of a peer, in any order: the command and event channels are part   *)
(* of it.  Followers dial the master when they start and never again.  A   *)
(* published message reaches all peers, by way of the master.              *)
(*                                                                         *)
(* An import is saved after it has changed the chain in memory, and a save *)
(* that fails is only logged, so a follower may start again below the head *)
(* that it had.  Which saves failed is chosen at the restart, the first    *)
(* step that shows it.  The writes of one save are in module Persist, with *)
(* the torn databases that a node does not start from and those that lack  *)
(* the head's snapshot; both are left out here.  The master goes on        *)
(* without a restart.                                                      *)
(***************************************************************************)
EXTENDS Integers, FiniteSets

CONSTANTS
    Master, Follower,
    Keep,           \* archive_keep
    MaxHeight,      \* bound on the chain
    MaxFaults       \* bound on restarts and lost connections

Node == Follower \cup {Master}

ASSUME SyncAssumption ==
    /\ Master \notin Follower
    /\ Keep \in Nat
    /\ MaxHeight \in Nat
    /\ MaxFaults \in Nat

Height == 0 .. MaxHeight

VARIABLES
    head,       \* head[n]: height of the head; the store holds 0 .. head[n]
    low,        \* low[n]: lowest height with a body
    states,     \* states[n]: heights with a snapshot
    loaded,     \* loaded[n]: those of them that its last start found on disk
    orphans,    \* orphans[n]: [height, bare], at most one for a hash
    link,       \* link[f]: "dialing", "up" or "down"
    wire,       \* messages in flight
    announced,  \* announced[f]: last block the master published to f's connection
    faults,
    pruned      \* the nodes with archive = false

storeVars == <<head, low, states, loaded>>
nodeVars == <<storeVars, orphans>>
vars == <<nodeVars, link, pruned, wire, announced, faults>>

Init ==
    /\ head = [n \in Node |-> 0]
    /\ low = [n \in Node |-> 0] /\ states = [n \in Node |-> {0}]
    /\ loaded = states
    /\ orphans = [n \in Node |-> {}]
    /\ link = [f \in Follower |-> "dialing"]
    /\ wire = {}
    /\ announced = [f \in Follower |-> 0]
    /\ faults = 0
    /\ pruned \in SUBSET Node
-----------------------------------------------------------------------------
Up == {f \in Follower : link[f] = "up"}
PeersOf(n) == IF n = Master THEN Up ELSE IF n \in Up THEN (Up \cup {Master}) \ {n} ELSE {}

\* publish: without a peer the message is gone and the caller sees Ok
Publish(n, contents) ==
    {[from |-> n, to |-> p, kind |-> c.kind, height |-> c.height, bare |-> c.bare] :
        p \in PeersOf(n), c \in contents}

Header(h) == [kind |-> "header", height |-> h, bare |-> FALSE]
Body(h, bare) == [kind |-> "block", height |-> h, bare |-> bare]
GetBlock(h) == [kind |-> "get", height |-> h, bare |-> FALSE]

\* broadcast_block: the header, then the block
BlockMessages(h, bare) == {Header(h), Body(h, bare)}

HasState(n, h) == h \in states[n]

SaturatingSub(m, n) == IF m >= n THEN m - n ELSE 0
Greatest(S) == CHOOSE h \in S : \A k \in S : k <= h

\* the cutoff of prune_snapshots_keep for a head h
LowAfter(n, h) == IF n \in pruned THEN SaturatingSub(h, SaturatingSub(Keep, 1)) ELSE 0

\* prune_store after the blocks h .. top
PruneStore(n, h, top) ==
    /\ low' = [low EXCEPT ![n] = LowAfter(n, top)]
    /\ states' = [states EXCEPT ![n] = {k \in @ \cup (h .. top) : k >= LowAfter(n, top)}]

\* How far the import of block h goes: its orphan children are imported after
\* it, each with its own children.
FullOrphans(n) == {o.height : o \in {o \in orphans[n] : ~o.bare}}
Top(n, h) == Greatest({k \in h .. MaxHeight : \A j \in h + 1 .. k : j \in FullOrphans(n)})

\* Mutant: the orphans are not looked at.
ImportAlone(n, h) ==
    /\ head' = [head EXCEPT ![n] = h]
    /\ PruneStore(n, h, h)
    /\ UNCHANGED <<orphans, loaded>>

\* The orphans tried on the way are no longer in the map; a bare one fails.
Import(n, h) ==
    LET top == Top(n, h)
    IN  /\ head' = [head EXCEPT ![n] = top]
        /\ PruneStore(n, h, top)
        /\ orphans' = [orphans EXCEPT ![n] =
                          {o \in @ : o.height \notin h + 1 .. top + 1}]
        /\ UNCHANGED loaded

Without(msg) == wire \ {msg}
Reply(msg, contents) == wire' = Without(msg) \cup Publish(msg.to, contents)

\* HeaderReceived: a block that is not in the store is asked for
OnHeader(msg) ==
    /\ msg.kind = "header"
    /\ Reply(msg, IF msg.height > head[msg.to] THEN {GetBlock(msg.height)} ELSE {})
    /\ UNCHANGED nodeVars

\* BlockRequest
OnGetBlock(msg) ==
    /\ msg.kind = "get"
    /\ Reply(msg, IF msg.height \in 0 .. head[msg.to]
                  THEN BlockMessages(msg.height, msg.height < low[msg.to]) ELSE {})
    /\ UNCHANGED nodeVars

\* Mutant: the parent asked for only by the first orphan of a walk.
OnOrphanQuiet(msg) ==
    /\ msg.kind = "block"
    /\ ~HasState(msg.to, msg.height - 1)
    /\ orphans' = [orphans EXCEPT ![msg.to] =
                      {o \in @ : o.height # msg.height}
                          \cup {[height |-> msg.height, bare |-> msg.bare]}]
    /\ Reply(msg, IF orphans[msg.to] = {} THEN {GetBlock(msg.height - 1)} ELSE {})
    /\ UNCHANGED storeVars

\* import_block without the parent's state: kept as an orphan, in place of
\* another body of the same hash, and the parent asked for
OnOrphan(msg) ==
    /\ msg.kind = "block"
    /\ ~HasState(msg.to, msg.height - 1)
    /\ orphans' = [orphans EXCEPT ![msg.to] =
                      {o \in @ : o.height # msg.height}
                          \cup {[height |-> msg.height, bare |-> msg.bare]}]
    /\ Reply(msg, {GetBlock(msg.height - 1)})
    /\ UNCHANGED storeVars

\* import_block of a block that is known, or bare and so of another root
OnRefused(msg) ==
    /\ msg.kind = "block"
    /\ HasState(msg.to, msg.height - 1)
    /\ msg.bare \/ msg.height <= head[msg.to]
    /\ Reply(msg, {})
    /\ UNCHANGED nodeVars

\* Mutant: a block put off, and asked for again, while orphans wait.
OnBlockPutOff(msg) ==
    /\ msg.kind = "block"
    /\ HasState(msg.to, msg.height - 1)
    /\ ~msg.bare /\ msg.height > head[msg.to]
    /\ IF orphans[msg.to] = {} THEN Import(msg.to, msg.height) /\ Reply(msg, {})
       ELSE UNCHANGED nodeVars /\ Reply(msg, {GetBlock(msg.height)})

OnBlock(msg) ==
    /\ msg.kind = "block"
    /\ HasState(msg.to, msg.height - 1)
    /\ ~msg.bare /\ msg.height > head[msg.to]
    /\ Import(msg.to, msg.height)
    /\ Reply(msg, {})

Handle(msg) ==
    /\ msg \in wire
    /\ \/ OnHeader(msg) \/ OnGetBlock(msg) \/ OnOrphan(msg) \/ OnRefused(msg) \/ OnBlock(msg)
    /\ UNCHANGED <<link, pruned, announced, faults>>

\* A tick of the producer with a transaction in the pool: import, prune,
\* broadcast.
Produce ==
    LET h == head[Master] + 1
    IN  /\ h <= MaxHeight
        /\ head' = [head EXCEPT ![Master] = h]
        /\ PruneStore(Master, h, h)
        /\ wire' = wire \cup Publish(Master, BlockMessages(h, FALSE))
        /\ announced' = [f \in Follower |-> IF f \in Up THEN h ELSE announced[f]]
        /\ UNCHANGED <<orphans, loaded, link, pruned, faults>>
-----------------------------------------------------------------------------
\* ConnectionEstablished, of a peer that the allowlist does not rule out
Connect(f) ==
    /\ link[f] = "dialing"
    /\ link' = [link EXCEPT ![f] = "up"]
    /\ UNCHANGED <<nodeVars, pruned, wire, announced, faults>>

\* A peer id that the allowlist does not name (build_swarm generates a new one
\* at every start), or a master that is not there.
DialFails(f) ==
    /\ link[f] = "dialing"
    /\ link' = [link EXCEPT ![f] = "down"]
    /\ UNCHANGED <<nodeVars, pruned, wire, announced, faults>>

OnLink(f) == {msg \in wire : f \in {msg.from, msg.to}}

\* ConnectionClosed: what is on the wire is lost, or is already in the event
\* channels
Disconnect(f) ==
    /\ link[f] = "up" /\ faults < MaxFaults
    /\ link' = [link EXCEPT ![f] = "down"]
    /\ faults' = faults + 1
    /\ announced' = [announced EXCEPT ![f] = 0]
    /\ \E lost \in {{}, OnLink(f)} : wire' = wire \ lost
    /\ UNCHANGED <<nodeVars, pruned>>

\* What persist_canonical adds to the snapshots on disk when block k is saved:
\* those imported since the start that the prune after k - 1 left in memory.
SavedWith(f, k) ==
    {j \in Greatest(loaded[f]) + 1 .. k : j >= LowAfter(f, k - 1)}

\* A follower stops and starts again with the chain that it had saved, which may
\* end below its head: `ok' are the blocks imported since the last start whose
\* save returned Ok.  The head's snapshot is saved with it, and no snapshot is
\* deleted from disk.  Its orphans and its channels are gone, and it dials.
Restart(f) ==
    /\ faults < MaxFaults
    /\ faults' = faults + 1
    /\ \E ok \in SUBSET (Greatest(loaded[f]) + 1 .. head[f]) :
          LET found == loaded[f] \cup UNION {SavedWith(f, k) : k \in ok}
          IN  /\ head' = [head EXCEPT ![f] = Greatest(found)]
              /\ low' = [low EXCEPT ![f] = LowAfter(f, Greatest(found))]
              /\ states' = [states EXCEPT ![f] = found]
              /\ loaded' = [loaded EXCEPT ![f] = found]
    /\ orphans' = [orphans EXCEPT ![f] = {}]
    /\ wire' = wire \ OnLink(f)
    /\ link' = [link EXCEPT ![f] = "dialing"]
    /\ announced' = [announced EXCEPT ![f] = 0]
    /\ UNCHANGED pruned

Next ==
    \/ \E msg \in wire : Handle(msg)
    \/ Produce
    \/ \E f \in Follower : Connect(f) \/ DialFails(f) \/ Disconnect(f) \/ Restart(f)

\* The import tasks keep taking events, so that every message that is not lost
\* is handled, and a peer that dials is answered.  Nothing makes the producer
\* go on: it waits for transactions.
Message ==
    [from: Node, to: Node, kind: {"header", "block", "get"}, height: -1 .. MaxHeight,
     bare: BOOLEAN]
HandleSome(n, kind, h) ==
    \E msg \in wire : msg.to = n /\ msg.kind = kind /\ msg.height = h /\ Handle(msg)
Fairness ==
    /\ \A n \in Node, kind \in {"block", "get"}, h \in Height : WF_vars(HandleSome(n, kind, h))
    /\ \A f \in Follower : WF_vars(Connect(f) \/ DialFails(f))

Spec == Init /\ [][Next]_vars /\ Fairness
-----------------------------------------------------------------------------
TypeOK ==
    /\ head \in [Node -> Height] /\ low \in [Node -> Height]
    /\ states \in [Node -> SUBSET Height]
    /\ loaded \in [Node -> SUBSET Height]
    /\ orphans \in [Node -> SUBSET [height: Height, bare: BOOLEAN]]
    /\ link \in [Follower -> {"dialing", "up", "down"}]
    /\ wire \subseteq Message
    /\ announced \in [Follower -> Height]
    /\ faults \in 0 .. MaxFaults
    /\ pruned \subseteq Node

\* An orphan is waiting for something (import_block): its parent's state is not
\* there, whatever was imported, pruned or received since.  On a node that keeps
\* its snapshots these are genesis, whose parent nobody has, or blocks above the
\* head; a pruned node also keeps blocks that it has already, because the
\* parent's snapshot is looked up before the duplicate test (apply.rs).
OrphansBlocked ==
    \A n \in Node : \A o \in orphans[n] :
        /\ ~HasState(n, o.height - 1)
        /\ n \notin pruned => o.height = 0 \/ o.height > head[n] + 1

\* A follower's chain is a prefix of the master's, also as far as it is in
\* flight: nothing is announced, sent or kept that the master does not have.
FollowersBehind ==
    /\ \A n \in Node : head[n] <= head[Master]
    /\ \A n \in Node : \A o \in orphans[n] : o.height <= head[Master]
    /\ \A msg \in wire : msg.height <= head[Master]

\* Block h is on its way to follower f: sent to it, asked for, or an orphan.
InFlight(f, h) ==
    [from |-> Master, to |-> f, kind |-> "block", height |-> h, bare |-> FALSE] \in wire
Asked(f, h) ==
    [from |-> f, to |-> Master, kind |-> "get", height |-> h, bare |-> FALSE] \in wire
IsOrphan(f, h) == \E o \in orphans[f] : o.height = h
Pursued(f, h) == InFlight(f, h) \/ Asked(f, h) \/ IsOrphan(f, h)

WalkOf(f) ==
    /\ head[f] < announced[f] => Pursued(f, announced[f])
    /\ \A o \in orphans[f] : o.height > head[f] => Pursued(f, o.height - 1)

\* The walk back over missing parents is never stuck (import_block asks once and
\* keeps no list of what it asked for): as long as the connection holds and no
\* node answers with bare bodies, the block last announced to a follower behind
\* it is on its way, and so is the parent that an orphan above the head lacks,
\* whatever was imported, answered out of order, lost on other connections,
\* restarted or not saved.
WalkGoesOn == pruned = {} => \A f \in Up : WalkOf(f)

\* A follower that is behind what the master has published to its connection
\* gets level with it, through any number of missing parents, blocks lost
\* earlier and restarts before, unless the connection is lost (announced is 0
\* then); as long as no node of the network answers with bare bodies, which
\* would replace a full orphan of the same hash.
CatchesUp ==
    \A f \in Follower :
        (pruned = {} /\ head[f] < announced[f]) ~> (head[f] >= announced[f])
=============================================================================
