----------------------------- MODULE SyncProofs -----------------------------
(***************************************************************************)
(* Proofs about module Sync, for every number of followers, every length   *)
(* of the chain, every pruning window and any number of faults.            *)
(***************************************************************************)
EXTENDS Sync, WellFoundedInduction, TLAPS

\* The window of a node: bodies from the cutoff of the last prune on, snapshots
\* up to the head, with none missing unless the node prunes; and of the chain
\* that its last start found, which is a part of the present one.
Windows ==
    \A n \in Node :
        /\ low[n] = LowAfter(n, head[n])
        /\ states[n] \subseteq 0 .. head[n]
        /\ loaded[n] # {} /\ loaded[n] \subseteq 0 .. head[n]
        /\ n \notin pruned => /\ states[n] = 0 .. head[n]
                              /\ 0 .. Greatest(loaded[n]) \subseteq loaded[n]

\* A message asks for or brings no more than the chain up to top; only requests
\* go below genesis.
Sound(msg, top) ==
    /\ msg \in Message
    /\ msg.height <= top
    /\ msg.kind = "block" => msg.height >= 0

\* The inductive invariant.
IInv ==
    /\ TypeOK
    /\ OrphansBlocked
    /\ FollowersBehind
    /\ Windows
    /\ \A msg \in wire : Sound(msg, head[Master])

\* Greatest picks the maximum: a nonempty set of heights has one, because the
\* distances to MaxHeight are naturals and have a least one.
LEMMA GreatestIsMax ==
    ASSUME NEW S, S \subseteq Height, S # {}
    PROVE  Greatest(S) \in S /\ \A k \in S : k <= Greatest(S)
<1> DEFINE T == {MaxHeight - k : k \in S}
<1>1. T \subseteq Nat /\ T # {}
  BY SyncAssumption DEF Height
<1>2. PICK d \in T : \A e \in T : ~(<<e, d>> \in OpToRel(<, Nat))
  <2> HIDE DEF T
  <2> QED
    BY <1>1, WFMin, NatLessThanWellFounded, Zenon
<1>3. \A e \in T : ~(e < d)
  BY <1>1, <1>2, Zenon DEF OpToRel
<1>4. PICK h \in S : d = MaxHeight - h
  BY <1>2, Zenon
<1>5. ASSUME NEW k \in S PROVE k <= h
  <2>1. MaxHeight - k \in T
    OBVIOUS
  <2>2. ~(MaxHeight - k < MaxHeight - h)
    BY <1>3, <1>4, <2>1
  <2>3. k \in Int /\ h \in Int /\ MaxHeight \in Int
    BY SyncAssumption DEF Height
  <2> QED
    BY <2>2, <2>3
<1> QED
  BY <1>5 DEF Greatest

-----------------------------------------------------------------------------
\* The cutoff is a height up to the head, and only rises with it.
LEMMA Cutoff ==
    ASSUME NEW n, NEW h \in Height
    PROVE  /\ LowAfter(n, h) \in 0 .. h
           /\ \A g \in 0 .. h : LowAfter(n, g) <= LowAfter(n, h)
           /\ n \notin pruned => LowAfter(n, h) = 0
  BY SyncAssumption DEF LowAfter, SaturatingSub, Height

\* An import reaches the block itself or an orphan above it, and takes along
\* every full orphan that follows without a gap.
LEMMA TopRange ==
    ASSUME NEW n, NEW h \in Height
    PROVE  /\ Top(n, h) \in h .. MaxHeight
           /\ Top(n, h) > h => Top(n, h) \in FullOrphans(n)
           /\ Top(n, h) < MaxHeight => Top(n, h) + 1 \notin FullOrphans(n)
<1> DEFINE S == {k \in h .. MaxHeight : \A j \in h + 1 .. k : j \in FullOrphans(n)}
<1>1. S \subseteq Height /\ h \in S
  BY SyncAssumption DEF Height
<1>2. Top(n, h) \in S /\ \A k \in S : k <= Top(n, h)
  BY <1>1, GreatestIsMax DEF Top
<1>3. ASSUME Top(n, h) < MaxHeight, Top(n, h) + 1 \in FullOrphans(n)
      PROVE  Top(n, h) + 1 \in S
  BY <1>2, <1>3, SyncAssumption DEF Height
<1>4. Top(n, h) < MaxHeight => Top(n, h) + 1 \notin FullOrphans(n)
  <2> SUFFICES ASSUME Top(n, h) < MaxHeight, Top(n, h) + 1 \in FullOrphans(n)
               PROVE  FALSE
    OBVIOUS
  <2>1. Top(n, h) + 1 <= Top(n, h) /\ Top(n, h) \in Int
    BY <1>2, <1>3, SyncAssumption DEF Height
  <2> QED
    BY <2>1
<1> QED
  BY <1>2, <1>4, SyncAssumption DEF Height

\* What a node may publish when the chain ends at top.
Content(top) == [kind: {"header", "block", "get"}, height: -1 .. top, bare: BOOLEAN]

LEMMA Contents ==
    ASSUME NEW top \in Height, NEW h \in -1 .. top, NEW bare \in BOOLEAN
    PROVE  /\ GetBlock(h) \in Content(top) /\ GetBlock(h).kind # "block"
           /\ Header(h) \in Content(top) /\ Header(h).kind # "block"
           /\ Body(h, bare) \in Content(top) /\ Body(h, bare).height = h
  BY DEF Content, GetBlock, Header, Body

\* What is published is sound if its contents are.
LEMMA Published ==
    ASSUME TypeOK, NEW n \in Node, NEW top \in Height, NEW contents,
           contents \subseteq Content(top),
           \A c \in contents : c.kind = "block" => c.height >= 0
    PROVE  \A msg \in Publish(n, contents) : Sound(msg, top)
<1>1. PeersOf(n) \subseteq Node
  BY DEF PeersOf, Up, Node
<1>2. -1 .. top \subseteq -1 .. MaxHeight
  BY SyncAssumption DEF Height
<1>3. ASSUME NEW p \in PeersOf(n), NEW c \in contents
      PROVE  Sound([from |-> n, to |-> p, kind |-> c.kind, height |-> c.height,
                    bare |-> c.bare], top)
  BY <1>1, <1>2, <1>3 DEF Sound, Message, Height, Content
<1> QED
  BY <1>3 DEF Publish

\* An imported block is the next one, and the windows move up with it.
LEMMA Imported ==
    ASSUME IInv, NEW n \in Node, NEW h \in Height,
           HasState(n, h - 1), h > head[n], h <= head[Master],
           Import(n, h), UNCHANGED <<pruned, link, announced, faults>>
    PROVE  /\ head' \in [Node -> Height] /\ low' \in [Node -> Height]
           /\ states' \in [Node -> SUBSET Height] /\ loaded' = loaded
           /\ orphans' \in [Node -> SUBSET [height: Height, bare: BOOLEAN]]
           /\ head'[Master] = head[Master]
           /\ \A m \in Node : head'[m] <= head[Master]
           /\ \A m \in Node : \A o \in orphans'[m] : o.height <= head[Master]
           /\ OrphansBlocked'
           /\ Windows'
<1> DEFINE top == Top(n, h)
<1>1. h = head[n] + 1 /\ head[n] \in Height /\ states[n] \subseteq 0 .. head[n]
  BY SyncAssumption DEF IInv, TypeOK, Windows, HasState, Height
<1>2. top \in h .. MaxHeight /\ top \in Height
  BY TopRange, SyncAssumption DEF Height
<1>3. top <= head[Master]
  <2>1. CASE top = h
    BY <2>1
  <2>2. CASE top > h
    <3>1. PICK o \in orphans[n] : o.height = top
      BY <2>2, TopRange DEF FullOrphans
    <3> QED
      BY <3>1 DEF IInv, FollowersBehind
  <2> QED
    BY <1>2, <2>1, <2>2 DEF Height
<1>4. n # Master
  BY <1>1 DEF Height
<1>5. /\ head' = [head EXCEPT ![n] = top]
      /\ low' = [low EXCEPT ![n] = LowAfter(n, top)]
      /\ states' = [states EXCEPT ![n] = {k \in @ \cup (h .. top) : k >= LowAfter(n, top)}]
      /\ orphans' = [orphans EXCEPT ![n] = {o \in @ : o.height \notin h + 1 .. top + 1}]
      /\ loaded' = loaded
  BY DEF Import, PruneStore
<1>6. LowAfter(n, top) \in 0 .. top /\ LowAfter(n, head[n]) <= LowAfter(n, top)
      /\ (n \notin pruned => LowAfter(n, top) = 0)
  BY <1>1, <1>2, Cutoff, SyncAssumption DEF Height
<1>7. LowAfter(n, top) \in Height
  BY <1>2, <1>6, SyncAssumption DEF Height
<1>8. /\ head' \in [Node -> Height] /\ low' \in [Node -> Height]
      /\ states' \in [Node -> SUBSET Height]
      /\ orphans' \in [Node -> SUBSET [height: Height, bare: BOOLEAN]]
  <2>1. {k \in states[n] \cup (h .. top) : k >= LowAfter(n, top)} \subseteq Height
    BY <1>1, <1>2, SyncAssumption DEF Height
  <2> QED
    BY <1>2, <1>5, <1>7, <2>1 DEF IInv, TypeOK
<1>9. /\ head'[Master] = head[Master]
      /\ \A m \in Node : head'[m] <= head[Master]
      /\ \A m \in Node : \A o \in orphans'[m] : o.height <= head[Master]
  BY <1>3, <1>4, <1>5 DEF IInv, TypeOK, FollowersBehind, Node
<1>10. OrphansBlocked'
  <2> SUFFICES ASSUME NEW m \in Node, NEW o \in orphans'[m]
               PROVE  /\ ~(o.height - 1 \in states'[m])
                      /\ m \notin pruned => o.height = 0 \/ o.height > head'[m] + 1
    BY DEF OrphansBlocked, HasState
  <2>1. o \in orphans[m] /\ o.height \in Height
    BY <1>5 DEF IInv, TypeOK
  <2>2. /\ ~(o.height - 1 \in states[m])
        /\ m \notin pruned => o.height = 0 \/ o.height > head[m] + 1
    BY <2>1 DEF IInv, OrphansBlocked, HasState
  <2>3. CASE m # n
    BY <1>5, <2>2, <2>3 DEF IInv, TypeOK
  <2>4. CASE m = n
    <3>1. /\ head'[n] = top /\ o.height \notin h + 1 .. top + 1
          /\ states'[n] \subseteq states[n] \cup (h .. top)
      BY <1>5, <2>4 DEF IInv, TypeOK
    <3> HIDE DEF top
    <3> QED
      BY <1>1, <1>2, <2>1, <2>2, <2>4, <3>1, SyncAssumption DEF Height
  <2> QED
    BY <2>3, <2>4
<1>11. Windows'
  <2> SUFFICES ASSUME NEW m \in Node
               PROVE  /\ low'[m] = LowAfter(m, head'[m])
                      /\ states'[m] \subseteq 0 .. head'[m]
                      /\ loaded'[m] # {} /\ loaded'[m] \subseteq 0 .. head'[m]
                      /\ m \notin pruned => /\ states'[m] = 0 .. head'[m]
                                            /\ 0 .. Greatest(loaded'[m]) \subseteq loaded'[m]
    BY DEF Windows, LowAfter
  <2>1. CASE m # n
    BY <1>5, <2>1 DEF IInv, TypeOK, Windows
  <2>2. CASE m = n
    <3>1. /\ head'[n] = top /\ low'[n] = LowAfter(n, top)
          /\ states'[n] = {k \in states[n] \cup (h .. top) : k >= LowAfter(n, top)}
          /\ loaded'[n] = loaded[n]
      BY <1>5 DEF IInv, TypeOK
    <3>2. /\ loaded[n] # {} /\ loaded[n] \subseteq 0 .. head[n]
          /\ n \notin pruned => /\ states[n] = 0 .. head[n]
                                /\ 0 .. Greatest(loaded[n]) \subseteq loaded[n]
      BY DEF IInv, Windows
    <3> HIDE DEF top
    <3> QED
      BY <1>1, <1>2, <1>6, <2>2, <3>1, <3>2, SyncAssumption DEF Height
  <2> QED
    BY <2>1, <2>2
<1> QED
  BY <1>5, <1>8, <1>9, <1>10, <1>11
-----------------------------------------------------------------------------
LEMMA InitIInv == Init => IInv
<1> SUFFICES ASSUME Init PROVE IInv
  OBVIOUS
<1>1. 0 \in Height /\ \A n \in Node : LowAfter(n, 0) = 0
  BY Cutoff, SyncAssumption DEF Height
<1>2. TypeOK
  BY <1>1, SyncAssumption DEF Init, TypeOK
<1>3. OrphansBlocked /\ FollowersBehind
  BY DEF Init, OrphansBlocked, FollowersBehind, Node
<1>4. Windows
  <2>1. Greatest({0}) = 0
    BY <1>1, GreatestIsMax
  <2> QED
    BY <1>1, <2>1 DEF Init, Windows
<1> QED
  BY <1>2, <1>3, <1>4 DEF IInv, Init

\* A message is handled without a change of the store or of the orphans.
LEMMA HandledOnly ==
    ASSUME IInv, UNCHANGED <<nodeVars, link, pruned, announced, faults>>,
           \A msg \in wire' : Sound(msg, head[Master])
    PROVE  IInv'
<1>1. TypeOK'
  BY DEF IInv, TypeOK, nodeVars, storeVars, Sound
<1>2. OrphansBlocked' /\ Windows'
  BY DEF IInv, OrphansBlocked, Windows, HasState, LowAfter, nodeVars, storeVars
<1>3. FollowersBehind' /\ \A msg \in wire' : Sound(msg, head'[Master])
  BY DEF IInv, FollowersBehind, nodeVars, storeVars, Sound
<1> QED
  BY <1>1, <1>2, <1>3 DEF IInv, Sound

\* Every step of an import task keeps the invariant.
LEMMA HandleIInv ==
    ASSUME IInv, NEW msg \in wire, Handle(msg)
    PROVE  IInv'
<1> DEFINE n == msg.to
<1> DEFINE top == head[Master]
<1>1. /\ n \in Node /\ msg.height \in -1 .. MaxHeight /\ msg.bare \in BOOLEAN
      /\ msg.height <= top
      /\ msg.kind = "block" => msg.height \in Height
  BY SyncAssumption DEF IInv, TypeOK, Message, Sound, Height
<1>2. top \in Height /\ head[n] \in 0 .. top /\ TypeOK
  BY <1>1, SyncAssumption DEF IInv, TypeOK, FollowersBehind, Node, Height
<1>3. UNCHANGED <<link, pruned, announced, faults>>
  BY DEF Handle
<1>4. ASSUME NEW contents, Reply(msg, contents),
             contents \subseteq Content(top),
             \A c \in contents : c.kind = "block" => c.height >= 0
      PROVE  \A m \in wire' : Sound(m, top)
  <2>1. \A m \in Publish(n, contents) : Sound(m, top)
    <3> HIDE DEF top, n
    <3> QED
      BY <1>1, <1>2, <1>4, Published
  <2> QED
    BY <1>4, <2>1 DEF Reply, Without, IInv
<1>5. CASE OnHeader(msg)
  <2> DEFINE c == IF msg.height > head[n] THEN {GetBlock(msg.height)} ELSE {}
  <2>1. Reply(msg, c) /\ UNCHANGED nodeVars
    BY <1>5 DEF OnHeader
  <2>2. /\ c \subseteq Content(top)
        /\ \A x \in c : x.kind = "block" => x.height >= 0
    <3>1. msg.height \in -1 .. top
      BY <1>1, <1>2, SyncAssumption DEF Height
    <3> QED
      BY <1>2, <3>1, Contents, Zenon
  <2> HIDE DEF c, top
  <2>3. \A m \in wire' : Sound(m, top)
    BY <1>4, <2>1, <2>2
  <2> QED
    BY <1>3, <2>1, <2>3, HandledOnly DEF top
<1>6. CASE OnGetBlock(msg)
  <2> DEFINE c == IF msg.height \in 0 .. head[n]
                  THEN BlockMessages(msg.height, msg.height < low[n]) ELSE {}
  <2>1. Reply(msg, c) /\ UNCHANGED nodeVars
    BY <1>6 DEF OnGetBlock
  <2>2. /\ c \subseteq Content(top)
        /\ \A x \in c : x.kind = "block" => x.height >= 0
    <3>1. CASE msg.height \in 0 .. head[n]
      <4> DEFINE b == msg.height < low[n]
      <4>1. msg.height \in -1 .. top /\ msg.height >= 0 /\ b \in BOOLEAN
        BY <1>2, <3>1, SyncAssumption DEF Height
      <4>2. c = {Header(msg.height), Body(msg.height, b)}
        BY <3>1 DEF BlockMessages
      <4> HIDE DEF b, c, top
      <4> QED
        BY <1>2, <4>1, <4>2, Contents
    <3>2. CASE msg.height \notin 0 .. head[n]
      BY <3>2
    <3> QED
      BY <3>1, <3>2
  <2> HIDE DEF c, top
  <2>3. \A m \in wire' : Sound(m, top)
    BY <1>4, <2>1, <2>2
  <2> QED
    BY <1>3, <2>1, <2>3, HandledOnly DEF top
<1>7. CASE OnRefused(msg)
  <2>1. Reply(msg, {}) /\ UNCHANGED nodeVars
    BY <1>7 DEF OnRefused
  <2>2. \A m \in wire' : Sound(m, top)
    BY <1>4, <2>1
  <2> QED
    BY <1>3, <2>1, <2>2, HandledOnly
<1>8. CASE OnOrphan(msg)
  <2>1. /\ ~HasState(n, msg.height - 1) /\ msg.height \in Height
        /\ orphans' = [orphans EXCEPT ![n] = {o \in @ : o.height # msg.height}
                          \cup {[height |-> msg.height, bare |-> msg.bare]}]
        /\ Reply(msg, {GetBlock(msg.height - 1)})
        /\ UNCHANGED <<head, low, states, loaded>>
    BY <1>1, <1>8 DEF OnOrphan, storeVars
  <2>2. \A m \in wire' : Sound(m, top)
    <3>1. /\ {GetBlock(msg.height - 1)} \subseteq Content(top)
          /\ \A x \in {GetBlock(msg.height - 1)} : x.kind = "block" => x.height >= 0
      <4>1. msg.height - 1 \in -1 .. top
        BY <1>1, <1>2, <2>1, SyncAssumption DEF Height
      <4> QED
        BY <1>2, <4>1, Contents, Zenon
    <3> QED
      BY <1>4, <2>1, <3>1
  <2>3. TypeOK'
    <3>1. wire' \subseteq Message
      BY <2>2 DEF Sound
    <3> QED
      BY <1>1, <1>2, <1>3, <2>1, <3>1 DEF TypeOK
  <2>4. ASSUME NEW m \in Node, NEW o \in orphans'[m]
        PROVE  /\ ~(o.height - 1 \in states[m])
               /\ m \notin pruned => o.height = 0 \/ o.height > head[m] + 1
               /\ o.height <= top
    <3>1. CASE o \in orphans[m]
      BY <3>1 DEF IInv, OrphansBlocked, FollowersBehind, HasState
    <3>2. CASE m = n /\ o.height = msg.height
      <4>1. n \notin pruned => states[n] = 0 .. head[n]
        BY <1>1 DEF IInv, Windows
      <4> HIDE DEF n, top
      <4> QED
        BY <1>1, <1>2, <2>1, <3>2, <4>1, SyncAssumption DEF HasState, Height
    <3> QED
      BY <1>2, <2>1, <2>4, <3>1, <3>2 DEF TypeOK
  <2>5. OrphansBlocked' /\ Windows' /\ FollowersBehind'
    BY <1>3, <2>1, <2>2, <2>4
    DEF IInv, OrphansBlocked, Windows, FollowersBehind, HasState, LowAfter, Sound
  <2> QED
    BY <2>1, <2>2, <2>3, <2>5 DEF IInv, Sound
<1>9. CASE OnBlock(msg)
  <2>1. /\ HasState(n, msg.height - 1) /\ msg.height > head[n] /\ msg.height \in Height
        /\ Import(n, msg.height) /\ Reply(msg, {})
    BY <1>1, <1>9 DEF OnBlock
  <2>2. \A m \in wire' : Sound(m, top)
    BY <1>4, <2>1
  <2>3. /\ head' \in [Node -> Height] /\ low' \in [Node -> Height]
        /\ states' \in [Node -> SUBSET Height] /\ loaded' = loaded
        /\ orphans' \in [Node -> SUBSET [height: Height, bare: BOOLEAN]]
        /\ head'[Master] = top
        /\ \A m \in Node : head'[m] <= top
        /\ \A m \in Node : \A o \in orphans'[m] : o.height <= top
        /\ OrphansBlocked'
        /\ Windows'
    <3> HIDE DEF n
    <3> QED
      BY <1>1, <1>3, <2>1, Imported
  <2>4. TypeOK'
    BY <1>2, <1>3, <2>2, <2>3 DEF TypeOK, Sound
  <2>5. FollowersBehind'
    BY <2>2, <2>3 DEF FollowersBehind, Sound
  <2> QED
    BY <2>2, <2>3, <2>4, <2>5 DEF IInv, Sound
<1> QED
  BY <1>5, <1>6, <1>7, <1>8, <1>9 DEF Handle
\* The producer extends the chain: what is in flight and what waits as an orphan
\* only gets further below its head.
LEMMA ProduceIInv == ASSUME IInv, Produce PROVE IInv'
<1> DEFINE h == head[Master] + 1
<1>1. /\ h \in Height /\ head[Master] \in Height /\ Master \in Node /\ TypeOK
  BY SyncAssumption DEF IInv, TypeOK, Produce, Node, Height
<1>2. /\ head' = [head EXCEPT ![Master] = h]
      /\ low' = [low EXCEPT ![Master] = LowAfter(Master, h)]
      /\ states' = [states EXCEPT ![Master] = {k \in @ \cup (h .. h) : k >= LowAfter(Master, h)}]
      /\ wire' = wire \cup Publish(Master, BlockMessages(h, FALSE))
      /\ announced' = [f \in Follower |-> IF f \in Up THEN h ELSE announced[f]]
      /\ UNCHANGED <<orphans, loaded, link, pruned, faults>>
  BY DEF Produce, PruneStore
<1>3. /\ LowAfter(Master, h) \in 0 .. h
      /\ LowAfter(Master, head[Master]) <= LowAfter(Master, h)
      /\ LowAfter(Master, head[Master]) \in 0 .. head[Master]
      /\ Master \notin pruned => LowAfter(Master, h) = 0
  BY <1>1, Cutoff, SyncAssumption DEF Height
<1>4. \A msg \in wire' : Sound(msg, h)
  <2>1. \A msg \in wire : Sound(msg, h)
    <3> SUFFICES ASSUME NEW msg \in wire PROVE msg.height <= h
      BY DEF IInv, Sound
    <3>1. msg.height <= head[Master] /\ msg.height \in Int
      BY DEF IInv, Sound, Message
    <3> QED
      BY <1>1, <3>1, SyncAssumption DEF Height
  <2>2. \A msg \in Publish(Master, BlockMessages(h, FALSE)) : Sound(msg, h)
    <3>1. h \in -1 .. h /\ h >= 0
      BY <1>1, SyncAssumption DEF Height
    <3>2. BlockMessages(h, FALSE) = {Header(h), Body(h, FALSE)}
      BY DEF BlockMessages
    <3> HIDE DEF h
    <3>3. /\ BlockMessages(h, FALSE) \subseteq Content(h)
          /\ \A c \in BlockMessages(h, FALSE) : c.kind = "block" => c.height >= 0
      BY <1>1, <3>1, <3>2, Contents, Zenon
    <3> QED
      BY <1>1, <3>3, Published, Zenon
  <2> QED
    BY <1>2, <2>1, <2>2, Zenon
<1>5. TypeOK'
  <2>1. LowAfter(Master, h) \in Height
    BY <1>1, <1>3, SyncAssumption DEF Height
  <2>2. wire' \subseteq Message
    BY <1>4 DEF Sound
  <2>3. states' \in [Node -> SUBSET Height]
    BY <1>1, <1>2, SyncAssumption DEF TypeOK, Height
  <2> QED
    BY <1>1, <1>2, <2>1, <2>2, <2>3, Zenon DEF TypeOK
<1>6. head'[Master] = h
  BY <1>1, <1>2 DEF TypeOK
<1>7. FollowersBehind'
  <2>1. ASSUME NEW n \in Node PROVE head'[n] <= h
    BY <1>1, <1>2, SyncAssumption DEF IInv, TypeOK, FollowersBehind, Height
  <2>2. ASSUME NEW n \in Node, NEW o \in orphans[n] PROVE o.height <= h
    <3>1. o.height <= head[Master] /\ o.height \in Height
      BY DEF IInv, TypeOK, FollowersBehind
    <3> QED
      BY <1>1, <3>1, SyncAssumption DEF Height
  <2> QED
    BY <1>2, <1>4, <1>6, <2>1, <2>2, Zenon DEF FollowersBehind, Sound
<1>8. OrphansBlocked'
  <2> SUFFICES ASSUME NEW n \in Node, NEW o \in orphans[n]
               PROVE  /\ ~(o.height - 1 \in states'[n])
                      /\ n \notin pruned => o.height = 0 \/ o.height > head'[n] + 1
    BY <1>2 DEF OrphansBlocked, HasState
  <2>1. /\ ~(o.height - 1 \in states[n])
        /\ n \notin pruned => o.height = 0 \/ o.height > head[n] + 1
        /\ o.height \in Height /\ o.height <= head[Master]
    BY <1>1 DEF IInv, TypeOK, OrphansBlocked, FollowersBehind, HasState
  <2>2. CASE n # Master
    BY <1>1, <1>2, <2>1, <2>2 DEF TypeOK
  <2>3. CASE n = Master
    <3>1. head'[n] = h /\ states'[n] \subseteq states[n] \cup {h}
      BY <1>1, <1>2, <2>3, SyncAssumption DEF TypeOK, Height
    <3> QED
      BY <1>1, <2>1, <2>3, <3>1, SyncAssumption DEF Height
  <2> QED
    BY <2>2, <2>3
<1>9. pruned' = pruned /\ loaded' = loaded
  BY <1>2
<1>10. Windows'
  <2> SUFFICES ASSUME NEW n \in Node
               PROVE  /\ low'[n] = LowAfter(n, head'[n])
                      /\ states'[n] \subseteq 0 .. head'[n]
                      /\ loaded'[n] # {} /\ loaded'[n] \subseteq 0 .. head'[n]
                      /\ n \notin pruned => /\ states'[n] = 0 .. head'[n]
                                            /\ 0 .. Greatest(loaded'[n]) \subseteq loaded'[n]
    BY <1>9 DEF Windows, LowAfter
  <2>1. CASE n # Master
    BY <1>1, <1>2, <2>1 DEF IInv, TypeOK, Windows
  <2>2. CASE n = Master
    <3>1. /\ head'[n] = h /\ low'[n] = LowAfter(n, h)
          /\ states'[n] = {k \in states[n] \cup (h .. h) : k >= LowAfter(n, h)}
          /\ loaded'[n] = loaded[n]
      BY <1>1, <1>2, <2>2 DEF TypeOK
    <3>2. /\ states[n] \subseteq 0 .. head[Master]
          /\ loaded[n] # {} /\ loaded[n] \subseteq 0 .. head[Master]
          /\ n \notin pruned => /\ states[n] = 0 .. head[Master]
                                /\ 0 .. Greatest(loaded[n]) \subseteq loaded[n]
      BY <2>2 DEF IInv, Windows
    <3> QED
      BY <1>1, <1>3, <2>2, <3>1, <3>2, SyncAssumption DEF Height
  <2> QED
    BY <2>1, <2>2
<1> QED
  BY <1>4, <1>5, <1>6, <1>7, <1>8, <1>10 DEF IInv, Sound

\* A start finds a chain that ends at or below the head, whichever saves failed;
\* without pruning it finds the snapshots of all of its heights.
LEMMA Found ==
    ASSUME IInv, NEW f \in Node, NEW ok \in SUBSET (Greatest(loaded[f]) + 1 .. head[f])
    PROVE  LET found == loaded[f] \cup UNION {SavedWith(f, k) : k \in ok}
           IN  /\ found # {} /\ found \subseteq 0 .. head[f]
               /\ Greatest(found) \in 0 .. head[f]
               /\ found \subseteq 0 .. Greatest(found)
               /\ f \notin pruned => 0 .. Greatest(found) \subseteq found
<1> DEFINE G == Greatest(loaded[f])
<1> DEFINE found == loaded[f] \cup UNION {SavedWith(f, k) : k \in ok}
<1>1. /\ head[f] \in Height /\ loaded[f] # {} /\ loaded[f] \subseteq 0 .. head[f]
      /\ f \notin pruned => 0 .. G \subseteq loaded[f]
  BY DEF IInv, TypeOK, Windows
<1>2. loaded[f] \subseteq Height /\ 0 .. head[f] \subseteq Height
  BY <1>1, SyncAssumption DEF Height
<1>3. G \in loaded[f] /\ \A k \in loaded[f] : k <= G
  BY <1>1, <1>2, GreatestIsMax
<1>4. ok \subseteq G + 1 .. head[f]
  OBVIOUS
<1>5. \A k \in ok : SavedWith(f, k) = {j \in G + 1 .. k : j >= LowAfter(f, k - 1)}
  BY DEF SavedWith
<1> HIDE DEF G
<1>6. G \in Int /\ G >= 0
  BY <1>1, <1>3
<1>7. \A k \in ok : SavedWith(f, k) \subseteq 0 .. head[f]
  BY <1>1, <1>4, <1>5, <1>6, SyncAssumption DEF Height
<1>8. found # {} /\ found \subseteq 0 .. head[f]
  BY <1>1, <1>7
<1>9. Greatest(found) \in found /\ \A k \in found : k <= Greatest(found)
  <2> HIDE DEF found
  <2> QED
    BY <1>2, <1>8, GreatestIsMax
<1>10. ASSUME f \notin pruned, NEW j \in 0 .. Greatest(found) PROVE j \in found
  <2>1. CASE j <= G
    BY <1>1, <1>6, <1>10, <2>1
  <2>2. CASE j > G
    <3>1. Greatest(found) > G
      BY <1>6, <1>8, <1>9, <2>2
    <3>2. Greatest(found) \notin loaded[f]
      BY <1>1, <1>3, <1>6, <3>1
    <3>3. PICK k \in ok : Greatest(found) \in SavedWith(f, k)
      BY <1>9, <3>2
    <3>4. k - 1 \in Height /\ k \in Int
      BY <1>1, <1>4, <1>6, SyncAssumption DEF Height
    <3>5. LowAfter(f, k - 1) = 0
      BY <1>10, <3>4, Cutoff
    <3>6. Greatest(found) \in G + 1 .. k
      BY <1>5, <3>3
    <3>7. j \in G + 1 .. k /\ j >= 0
      <4> HIDE DEF found
      <4> QED
        BY <1>6, <2>2, <3>4, <3>6
    <3>8. j \in SavedWith(f, k)
      BY <1>5, <3>5, <3>7
    <3> QED
      BY <3>8
  <2> QED
    BY <1>6, <2>1, <2>2
<1>11. Greatest(found) \in 0 .. head[f] /\ found \subseteq 0 .. Greatest(found)
  <2> HIDE DEF found
  <2>1. Greatest(found) \in 0 .. head[f]
    BY <1>8, <1>9
  <2>2. ASSUME NEW k \in found PROVE k \in 0 .. Greatest(found)
    <3>1. k \in 0 .. head[f] /\ k <= Greatest(found)
      BY <1>8, <1>9
    <3> QED
      BY <1>1, <2>1, <3>1 DEF Height
  <2> QED
    BY <2>1, <2>2
<1> QED
  BY <1>8, <1>10, <1>11

\* A follower starts again, below the head it had or at it.
LEMMA RestartIInv == ASSUME IInv, NEW f \in Follower, Restart(f) PROVE IInv'
<1>1. f \in Node /\ f # Master /\ TypeOK /\ 0 \in Height
  BY SyncAssumption DEF IInv, Node, Height
<1>2. PICK ok \in SUBSET (Greatest(loaded[f]) + 1 .. head[f]) :
        LET found == loaded[f] \cup UNION {SavedWith(f, k) : k \in ok}
        IN  /\ head' = [head EXCEPT ![f] = Greatest(found)]
            /\ low' = [low EXCEPT ![f] = LowAfter(f, Greatest(found))]
            /\ states' = [states EXCEPT ![f] = found]
            /\ loaded' = [loaded EXCEPT ![f] = found]
  BY DEF Restart
<1> DEFINE found == loaded[f] \cup UNION {SavedWith(f, k) : k \in ok}
<1> DEFINE g == Greatest(found)
<1>3. /\ found # {} /\ found \subseteq 0 .. head[f]
      /\ g \in 0 .. head[f] /\ found \subseteq 0 .. g
      /\ f \notin pruned => 0 .. g \subseteq found
  BY <1>1, Found
<1>4. /\ head' = [head EXCEPT ![f] = g]
      /\ low' = [low EXCEPT ![f] = LowAfter(f, g)]
      /\ states' = [states EXCEPT ![f] = found]
      /\ loaded' = [loaded EXCEPT ![f] = found]
  BY <1>2
<1> HIDE DEF found
<1>5. Greatest(found) = g
  OBVIOUS
<1> HIDE DEF g
<1>6. /\ orphans' = [orphans EXCEPT ![f] = {}]
      /\ link' = [link EXCEPT ![f] = "dialing"]
      /\ announced' = [announced EXCEPT ![f] = 0]
      /\ faults < MaxFaults /\ faults' = faults + 1
      /\ wire' \subseteq wire /\ pruned' = pruned
  BY DEF Restart
<1>7. /\ head[f] \in Height /\ g \in Height /\ g <= head[f] /\ found \subseteq Height
      /\ LowAfter(f, g) \in Height
  <2>1. head[f] \in Height
    BY <1>1 DEF TypeOK
  <2>2. g \in Height /\ g <= head[f] /\ found \subseteq Height
    BY <1>3, <2>1, SyncAssumption DEF Height
  <2>3. LowAfter(f, g) \in 0 .. g
    BY <2>2, Cutoff
  <2> QED
    BY <2>1, <2>2, <2>3, SyncAssumption DEF Height
<1>8. TypeOK'
  <2>1. faults' \in 0 .. MaxFaults
    BY <1>1, <1>6, SyncAssumption DEF TypeOK
  <2>2. /\ head' \in [Node -> Height] /\ low' \in [Node -> Height]
        /\ states' \in [Node -> SUBSET Height] /\ loaded' \in [Node -> SUBSET Height]
    BY <1>1, <1>4, <1>7 DEF TypeOK
  <2> QED
    BY <1>1, <1>6, <2>1, <2>2 DEF TypeOK
<1>9. ASSUME NEW n \in Node, NEW o \in orphans'[n]
      PROVE  /\ n # f /\ o \in orphans[n]
             /\ states'[n] = states[n] /\ head'[n] = head[n]
  BY <1>1, <1>4, <1>6, <1>9 DEF TypeOK
<1>10. OrphansBlocked'
  BY <1>6, <1>9 DEF IInv, OrphansBlocked, HasState
<1>11. Windows'
  <2> SUFFICES ASSUME NEW n \in Node
               PROVE  /\ low'[n] = LowAfter(n, head'[n])
                      /\ states'[n] \subseteq 0 .. head'[n]
                      /\ loaded'[n] # {} /\ loaded'[n] \subseteq 0 .. head'[n]
                      /\ n \notin pruned => /\ states'[n] = 0 .. head'[n]
                                            /\ 0 .. Greatest(loaded'[n]) \subseteq loaded'[n]
    BY <1>6 DEF Windows, LowAfter
  <2>1. CASE n # f
    BY <1>1, <1>4, <2>1 DEF IInv, TypeOK, Windows
  <2>2. CASE n = f
    <3>1. head'[n] = g /\ low'[n] = LowAfter(n, g) /\ states'[n] = found /\ loaded'[n] = found
      BY <1>1, <1>4, <2>2 DEF TypeOK
    <3> QED
      BY <1>3, <1>5, <2>2, <3>1
  <2> QED
    BY <2>1, <2>2
<1>12. FollowersBehind' /\ \A msg \in wire' : Sound(msg, head'[Master])
  <2>1. head'[Master] = head[Master]
    BY <1>1, <1>4 DEF TypeOK
  <2>2. ASSUME NEW n \in Node PROVE head'[n] <= head[Master]
    <3>1. head[n] <= head[Master] /\ head[f] <= head[Master] /\ head[Master] \in Height
      BY <1>1 DEF IInv, TypeOK, FollowersBehind, Node
    <3>2. head'[n] = IF n = f THEN g ELSE head[n]
      BY <1>1, <1>4 DEF TypeOK
    <3> QED
      BY <1>7, <3>1, <3>2, SyncAssumption DEF Height
  <2> QED
    BY <1>6, <1>9, <2>1, <2>2 DEF IInv, FollowersBehind, Sound
<1> QED
  BY <1>8, <1>10, <1>11, <1>12 DEF IInv, Sound

\* Connections come and go: the wire only loses messages.
LEMMA LinkIInv ==
    ASSUME IInv, NEW f \in Follower, Connect(f) \/ DialFails(f) \/ Disconnect(f)
    PROVE  IInv'
<1>1. wire' \subseteq wire /\ UNCHANGED <<head, low, states, loaded, orphans, pruned>>
  BY DEF Connect, DialFails, Disconnect, nodeVars, storeVars
<1>2. TypeOK'
  <2>1. /\ link' \in [Follower -> {"dialing", "up", "down"}]
        /\ announced' \in [Follower -> Height]
        /\ faults' \in 0 .. MaxFaults
    BY SyncAssumption DEF Connect, DialFails, Disconnect, IInv, TypeOK, Height
  <2> QED
    BY <1>1, <2>1 DEF IInv, TypeOK
<1>3. OrphansBlocked' /\ Windows'
  BY <1>1 DEF IInv, OrphansBlocked, Windows, HasState, LowAfter
<1>4. FollowersBehind' /\ \A msg \in wire' : Sound(msg, head'[Master])
  BY <1>1 DEF IInv, FollowersBehind, Sound
<1> QED
  BY <1>2, <1>3, <1>4 DEF IInv, Sound

LEMMA NextIInv == IInv /\ [Next]_vars => IInv'
<1> SUFFICES ASSUME IInv, [Next]_vars PROVE IInv'
  OBVIOUS
<1>1. CASE \E msg \in wire : Handle(msg)
  BY <1>1, HandleIInv
<1>2. CASE Produce
  BY <1>2, ProduceIInv
<1>3. CASE \E f \in Follower : Connect(f) \/ DialFails(f) \/ Disconnect(f) \/ Restart(f)
  BY <1>3, LinkIInv, RestartIInv
<1>4. CASE UNCHANGED vars
  <2>1. UNCHANGED <<nodeVars, link, pruned, announced, faults>> /\ wire' = wire
    BY <1>4 DEF vars
  <2> QED
    BY <2>1, HandledOnly DEF IInv
<1> QED
  BY <1>1, <1>2, <1>3, <1>4 DEF Next

LEMMA SpecIInv == Spec => []IInv
  BY InitIInv, NextIInv, PTL DEF Spec

\* The types of the model.
THEOREM TypeCorrect == Spec => []TypeOK
<1>1. IInv => TypeOK
  BY DEF IInv
<1> QED
  BY <1>1, SpecIInv, PTL

\* import_block: whatever is received, imported, pruned or reloaded, an orphan in
\* the map waits for its parent's state.  A node that keeps its snapshots never
\* holds a block there that it could import.
THEOREM OrphansStayBlocked == Spec => []OrphansBlocked
<1>1. IInv => OrphansBlocked
  BY DEF IInv
<1> QED
  BY <1>1, SpecIInv, PTL

\* Gossip and sync bring only what the master imported first: no chain, orphan or
\* message is ahead of it, with any number of followers and lost connections.
THEOREM MasterLeads == Spec => []FollowersBehind
<1>1. IInv => FollowersBehind
  BY DEF IInv
<1> QED
  BY <1>1, SpecIInv, PTL
-----------------------------------------------------------------------------
(* The walk back over missing parents.  Without pruning nobody sends or    *)
(* keeps a bare body, and a follower that dials has nothing to pursue.     *)
NoBare ==
    pruned = {} => /\ \A msg \in wire : ~msg.bare
                   /\ \A n \in Node : \A o \in orphans[n] : ~o.bare

DialsEmpty ==
    \A f \in Follower : link[f] = "dialing" =>
        /\ orphans[f] = {} /\ announced[f] = 0
        /\ \A msg \in wire : msg.from # f /\ msg.to # f

WInv == NoBare /\ DialsEmpty /\ WalkGoesOn

\* Initially nothing is announced, in flight or kept as an orphan.
LEMMA InitWInv == Init => WInv
  BY DEF Init, WInv, NoBare, DialsEmpty, WalkGoesOn, Up, Node

\* A publisher's peers get each of its messages.
LEMMA Reaches ==
    ASSUME NEW n, NEW contents, NEW p \in PeersOf(n), NEW c \in contents
    PROVE  [from |-> n, to |-> p, kind |-> c.kind, height |-> c.height, bare |-> c.bare]
               \in Publish(n, contents)
  BY DEF Publish

\* Nothing is published to a follower that is not connected, and without pruning
\* nothing bare: only an answer to a request could be.
LEMMA HandleEmpty ==
    ASSUME IInv, WInv, NEW msg \in wire, Handle(msg)
    PROVE  NoBare' /\ DialsEmpty'
<1> DEFINE n == msg.to
<1>1. /\ n \in Node /\ TypeOK /\ UNCHANGED <<link, pruned, announced>>
      /\ msg.bare \in BOOLEAN /\ msg.height \in Int
  BY SyncAssumption DEF IInv, TypeOK, Message, Handle, Height
<1>2. PICK contents : /\ wire' = Without(msg) \cup Publish(n, contents)
                      /\ pruned = {} => \A c \in contents : ~c.bare
  <2>1. CASE OnHeader(msg)
    BY <2>1 DEF OnHeader, Reply, GetBlock
  <2>2. CASE OnGetBlock(msg)
    <3>1. pruned = {} => low[n] = 0
      BY <1>1 DEF IInv, Windows, LowAfter
    <3>2. CASE msg.height \in 0 .. head[n]
      <4> DEFINE C == BlockMessages(msg.height, msg.height < low[n])
      <4>1. wire' = Without(msg) \cup Publish(n, C)
        BY <2>2, <3>2 DEF OnGetBlock, Reply
      <4>2. pruned = {} => \A c \in C : ~c.bare
        <5>1. pruned = {} => (msg.height < low[n]) = FALSE
          BY <1>1, <3>1, <3>2
        <5>2. ASSUME NEW b, NEW c \in BlockMessages(msg.height, b)
              PROVE  c.bare = FALSE \/ c.bare = b
          BY <5>2 DEF BlockMessages, Header, Body
        <5> QED
          BY <5>1, <5>2, Zenon
      <4> HIDE DEF C
      <4> QED
        BY <4>1, <4>2
    <3>3. CASE msg.height \notin 0 .. head[n]
      BY <2>2, <3>3 DEF OnGetBlock, Reply
    <3> QED
      BY <3>2, <3>3
  <2>3. CASE OnOrphan(msg)
    BY <2>3 DEF OnOrphan, Reply, GetBlock
  <2>4. CASE OnRefused(msg) \/ OnBlock(msg)
    BY <2>4 DEF OnRefused, OnBlock, Reply
  <2> QED
    BY <2>1, <2>2, <2>3, <2>4 DEF Handle
<1>3. \A m \in wire' : \/ m \in wire
                       \/ /\ m.from = n /\ m.to \in PeersOf(n)
                          /\ pruned = {} => ~m.bare
  BY <1>2 DEF Without, Publish
<1>4. ASSUME NEW k \in Node, NEW o \in orphans'[k]
      PROVE  o \in orphans[k] \/ (k = n /\ o.bare = msg.bare)
  <2>1. CASE OnOrphan(msg)
    BY <1>1, <1>4, <2>1 DEF OnOrphan, TypeOK
  <2>2. CASE OnBlock(msg)
    BY <1>1, <1>4, <2>2 DEF OnBlock, Import, TypeOK
  <2>3. CASE UNCHANGED nodeVars
    BY <1>4, <2>3 DEF nodeVars
  <2> QED
    BY <2>1, <2>2, <2>3 DEF Handle, OnHeader, OnGetBlock, OnRefused
<1>5. NoBare'
  BY <1>1, <1>3, <1>4 DEF WInv, NoBare
<1>6. DialsEmpty'
  <2> SUFFICES ASSUME NEW f \in Follower, link[f] = "dialing"
               PROVE  /\ orphans'[f] = {} /\ announced[f] = 0
                      /\ \A m \in wire' : m.from # f /\ m.to # f
    BY <1>1 DEF DialsEmpty
  <2>1. /\ orphans[f] = {} /\ announced[f] = 0
        /\ \A m \in wire : m.from # f /\ m.to # f
    BY DEF WInv, DialsEmpty
  <2>2. n # f /\ f \in Node /\ f \notin PeersOf(n)
    BY <2>1, SyncAssumption DEF PeersOf, Up, Node
  <2>3. orphans'[f] = {}
    BY <1>4, <2>1, <2>2
  <2> QED
    BY <1>3, <2>1, <2>2, <2>3
<1> QED
  BY <1>5, <1>6

\* A handled message never ends the pursuit of a block before the follower has
\* it: a delivered body is kept or imported, a request answered, and an orphan
\* leaves the map only for the chain.
LEMMA PursuitGoesOn ==
    ASSUME IInv, WInv, pruned = {}, NEW f \in Up, NEW h \in Nat, Pursued(f, h),
           NEW msg \in wire, Handle(msg)
    PROVE  Pursued(f, h)' \/ h <= head'[f]
<1> DEFINE n == msg.to
<1>1. /\ n \in Node /\ f \in Follower /\ f \in Node /\ f # Master /\ Master \in Node
      /\ TypeOK /\ UNCHANGED <<link, pruned, announced>>
      /\ Up' = Up /\ msg \in Message /\ head[n] \in Height
      /\ ~msg.bare
  BY SyncAssumption DEF IInv, TypeOK, Message, Handle, Node, Up, WInv, NoBare
<1>2. \A m \in wire : m = msg \/ m \in wire'
  BY DEF Handle, OnHeader, OnGetBlock, OnOrphan, OnRefused, OnBlock, Reply, Without
<1>3. CASE InFlight(f, h)
  <2> DEFINE m == [from |-> Master, to |-> f, kind |-> "block", height |-> h, bare |-> FALSE]
  <2>1. CASE m # msg
    BY <1>2, <1>3, <2>1 DEF InFlight, Pursued
  <2>2. CASE m = msg
    <3>1. msg.to = f /\ msg.kind = "block" /\ msg.height = h
      BY <2>2
    <3>2. CASE OnOrphan(msg)
      <4>1. [height |-> h, bare |-> msg.bare] \in orphans'[f]
        BY <1>1, <3>1, <3>2 DEF OnOrphan, TypeOK
      <4> QED
        BY <4>1 DEF Pursued, IsOrphan
    <3>3. CASE OnRefused(msg)
      BY <1>1, <3>1, <3>3 DEF OnRefused, nodeVars, storeVars
    <3>4. CASE OnBlock(msg)
      <4>1. h \in Height
        BY <1>1, <3>1 DEF Message, Height
      <4>2. head'[f] = Top(f, h)
        BY <1>1, <3>1, <3>4 DEF OnBlock, Import, TypeOK
      <4> QED
        BY <4>1, <4>2, TopRange, SyncAssumption DEF Height
    <3> QED
      BY <3>1, <3>2, <3>3, <3>4 DEF Handle, OnHeader, OnGetBlock
  <2> QED
    BY <2>1, <2>2
<1>4. CASE Asked(f, h)
  <2> DEFINE m == [from |-> f, to |-> Master, kind |-> "get", height |-> h, bare |-> FALSE]
  <2>1. CASE m # msg
    BY <1>2, <1>4, <2>1 DEF Asked, Pursued
  <2>2. CASE m = msg
    <3>1. msg.to = Master /\ msg.kind = "get" /\ msg.height = h
      BY <2>2
    <3>2. OnGetBlock(msg)
      BY <3>1 DEF Handle, OnHeader, OnGetBlock, OnOrphan, OnRefused, OnBlock
    <3>3. h \in 0 .. head[Master] /\ low[Master] = 0
      BY <1>1, <3>1, SyncAssumption DEF IInv, Sound, Windows, LowAfter, Height, TypeOK
    <3>4. wire' = Without(msg) \cup Publish(Master, BlockMessages(h, h < low[Master]))
      BY <3>1, <3>2, <3>3 DEF OnGetBlock, Reply
    <3>5. (h < low[Master]) = FALSE
      BY <3>3
    <3>6. Body(h, FALSE) \in BlockMessages(h, h < low[Master]) /\ f \in PeersOf(Master)
      BY <3>5 DEF BlockMessages, PeersOf
    <3>7. [from |-> Master, to |-> f, kind |-> "block", height |-> h, bare |-> FALSE]
              \in Publish(Master, BlockMessages(h, h < low[Master]))
      <4> DEFINE c == Body(h, FALSE)
      <4>1. c.kind = "block" /\ c.height = h /\ c.bare = FALSE
        BY DEF Body
      <4> HIDE DEF c
      <4> QED
        BY <3>6, <4>1, Reaches DEF c
    <3>8. InFlight(f, h)'
      BY <3>4, <3>7 DEF InFlight
    <3> QED
      BY <3>8 DEF Pursued
  <2> QED
    BY <2>1, <2>2
<1>5. CASE IsOrphan(f, h)
  <2>1. PICK o \in orphans[f] : o.height = h
    BY <1>5 DEF IsOrphan
  <2>2. CASE OnOrphan(msg)
    <3>1. CASE n = f /\ msg.height = h
      <4>1. [height |-> h, bare |-> msg.bare] \in orphans'[f]
        BY <1>1, <3>1, <2>2 DEF OnOrphan, TypeOK
      <4> QED
        BY <4>1 DEF Pursued, IsOrphan
    <3>2. CASE ~(n = f /\ msg.height = h)
      <4>1. o \in orphans'[f]
        BY <1>1, <2>1, <3>2, <2>2 DEF OnOrphan, TypeOK
      <4> QED
        BY <2>1, <4>1 DEF Pursued, IsOrphan
    <3> QED
      BY <3>1, <3>2
  <2>3. CASE OnBlock(msg)
    <3> DEFINE g == msg.height
               top == Top(n, g)
    <3>1. g \in Height /\ g > head[n] /\ h \in Height /\ top \in g .. MaxHeight
      <4>1. g \in Height /\ g > head[n] /\ h \in Height
        BY <1>1, <2>1, <2>3, SyncAssumption DEF OnBlock, IInv, Sound, TypeOK, Height, Message
      <4> QED
        BY <4>1, TopRange
    <3>2. /\ orphans' = [orphans EXCEPT ![n] = {q \in @ : q.height \notin g + 1 .. top + 1}]
          /\ head' = [head EXCEPT ![n] = top]
      BY <2>3 DEF OnBlock, Import
    <3>3. CASE n # f \/ h \notin g + 1 .. top + 1
      <4>1. o \in orphans'[f]
        BY <1>1, <2>1, <3>2, <3>3 DEF TypeOK
      <4> QED
        BY <2>1, <4>1 DEF Pursued, IsOrphan
    <3>4. CASE n = f /\ h \in g + 1 .. top + 1
      <4>1. h \in FullOrphans(f)
        BY <1>1, <2>1 DEF WInv, NoBare, FullOrphans
      <4>2. top < MaxHeight => top + 1 \notin FullOrphans(f)
        BY <3>1, <3>4, TopRange
      <4>3. h <= top
        BY <3>1, <3>4, <4>1, <4>2, SyncAssumption DEF Height
      <4>4. head'[f] = top
        BY <1>1, <3>2, <3>4 DEF TypeOK
      <4> QED
        BY <4>3, <4>4
    <3> QED
      BY <3>3, <3>4
  <2>4. CASE UNCHANGED nodeVars
    BY <1>5, <2>4 DEF Pursued, IsOrphan, nodeVars
  <2> QED
    BY <2>2, <2>3, <2>4 DEF Handle, OnHeader, OnGetBlock, OnRefused
<1> QED
  BY <1>3, <1>4, <1>5 DEF Pursued

\* A handled message keeps the walk of every connected follower going: an orphan
\* that joins the pool is followed by the request for its parent, and one that
\* stays has a gap below it that is still pursued.
LEMMA HandleWalk ==
    ASSUME IInv, WInv, IInv', NEW msg \in wire, Handle(msg)
    PROVE  WalkGoesOn'
<1> SUFFICES ASSUME pruned = {}, NEW f \in Up PROVE WalkOf(f)'
  BY DEF WalkGoesOn, Up, Handle
<1> DEFINE n == msg.to
<1>1. /\ n \in Node /\ f \in Follower /\ f \in Node /\ f # Master
      /\ head[f] \in Height /\ head'[f] \in Height /\ announced'[f] = announced[f]
      /\ announced[f] \in Height /\ pruned' = {}
      /\ orphans[f] \subseteq [height: Height, bare: BOOLEAN]
      /\ orphans'[f] \subseteq [height: Height, bare: BOOLEAN]
  BY SyncAssumption DEF IInv, TypeOK, Message, Handle, Node, Up
<1>2. WalkOf(f)
  BY DEF WInv, WalkGoesOn
<1>3. head[f] <= head'[f]
  <2>1. CASE OnBlock(msg)
    <3>1. msg.height \in Height /\ msg.height > head[n]
      <4>1. msg.kind = "block" /\ msg.height > head[n]
        BY <2>1 DEF OnBlock
      <4>2. Sound(msg, head[Master])
        BY DEF IInv
      <4>3. msg \in Message /\ msg.height >= 0
        BY <4>1, <4>2 DEF Sound
      <4>4. msg.height \in Height
        BY <4>3, SyncAssumption DEF Message, Height
      <4> QED
        BY <4>1, <4>4
    <3>2. Top(n, msg.height) \in msg.height .. MaxHeight
      BY <3>1, TopRange
    <3>3. head' = [head EXCEPT ![n] = Top(n, msg.height)]
      BY <2>1 DEF OnBlock, Import
    <3> QED
      BY <1>1, <3>1, <3>2, <3>3, SyncAssumption DEF Height, IInv, TypeOK
  <2>2. CASE head' = head
    BY <1>1, <2>2 DEF Height
  <2> QED
    BY <2>1, <2>2 DEF Handle, OnHeader, OnGetBlock, OnRefused, OnOrphan, nodeVars, storeVars
<1>4. ASSUME head'[f] < announced'[f] PROVE Pursued(f, announced[f])'
  <2>1. head[f] < announced[f] /\ announced[f] \in Nat
    BY <1>1, <1>3, <1>4 DEF Height
  <2>2. Pursued(f, announced[f])
    BY <1>2, <2>1 DEF WalkOf
  <2>3. Pursued(f, announced[f])' \/ announced[f] <= head'[f]
    <3>1. PICK h \in Nat : h = announced[f]
      BY <2>1
    <3>2. Pursued(f, h) /\ h = announced'[f]
      BY <1>1, <2>2, <3>1
    <3>3. Pursued(f, h)' \/ h <= head'[f]
      BY <3>2, PursuitGoesOn
    <3> QED
      BY <1>1, <3>1, <3>2, <3>3
  <2> QED
    BY <1>1, <1>4, <2>3 DEF Height
<1>5. ASSUME NEW o \in orphans'[f], o.height > head'[f]
      PROVE  Pursued(f, o.height - 1)'
  <2>1. CASE o \in orphans[f]
    <3>1. o.height \in Height /\ o.height > head[f] /\ o.height - 1 \in Nat
      BY <1>1, <1>3, <1>5 DEF Height
    <3>2. Pursued(f, o.height - 1)
      BY <1>2, <2>1, <3>1 DEF WalkOf
    <3>3. Pursued(f, o.height - 1)' \/ o.height - 1 <= head'[f]
      BY <3>1, <3>2, PursuitGoesOn
    <3>4. o.height > head'[f] + 1
      BY <1>1, <1>5, <3>1 DEF IInv, OrphansBlocked, Height
    <3> QED
      BY <1>1, <3>1, <3>3, <3>4 DEF Height
  <2>2. CASE o \notin orphans[f]
    <3>1. OnOrphan(msg) /\ n = f /\ o.height = msg.height
      <4> DEFINE kept == {p \in orphans[n] : p.height # msg.height}
                 new == [height |-> msg.height, bare |-> msg.bare]
                 rest == {p \in orphans[n] :
                             p.height \notin msg.height + 1 .. Top(n, msg.height) + 1}
      <4>0. DOMAIN orphans = Node
        BY DEF IInv, TypeOK
      <4>1. CASE OnOrphan(msg)
        <5>1. orphans' = [orphans EXCEPT ![n] = kept \cup {new}]
          BY <4>1 DEF OnOrphan
        <5>2. n = f
          BY <1>1, <1>5, <2>2, <4>0, <5>1
        <5>3. orphans'[f] = kept \cup {new}
          BY <1>1, <4>0, <5>1, <5>2
        <5>4. o = new
          BY <1>5, <2>2, <5>2, <5>3
        <5> QED
          BY <4>1, <5>2, <5>4
      <4>2. CASE OnBlock(msg)
        <5>1. orphans' = [orphans EXCEPT ![n] = rest]
          BY <4>2 DEF OnBlock, Import
        <5>2. orphans'[f] \subseteq orphans[f]
          BY <1>1, <4>0, <5>1
        <5> QED
          BY <1>5, <2>2, <5>2
      <4>3. CASE UNCHANGED nodeVars
        BY <1>5, <2>2, <4>3 DEF nodeVars
      <4> QED
        BY <4>1, <4>2, <4>3 DEF Handle, OnHeader, OnGetBlock, OnRefused
    <3>2. wire' = Without(msg) \cup Publish(f, {GetBlock(o.height - 1)})
      BY <3>1 DEF OnOrphan, Reply
    <3>3. Master \in PeersOf(f)
      BY <1>1 DEF PeersOf
    <3>4. [from |-> f, to |-> Master, kind |-> "get", height |-> o.height - 1, bare |-> FALSE]
              \in Publish(f, {GetBlock(o.height - 1)})
      <4> DEFINE c == GetBlock(o.height - 1)
      <4>1. c.kind = "get" /\ c.height = o.height - 1 /\ c.bare = FALSE
        BY DEF GetBlock
      <4> HIDE DEF c
      <4> QED
        BY <3>3, <4>1, Reaches DEF c
    <3>5. Asked(f, o.height - 1)'
      BY <3>2, <3>4 DEF Asked
    <3> QED
      BY <3>5 DEF Pursued
  <2> QED
    BY <2>1, <2>2
<1> QED
  BY <1>4, <1>5 DEF WalkOf

\* The master's new block is in flight to everyone it is announced to, and
\* nothing else changes for a follower.
LEMMA ProduceWInv == ASSUME IInv, WInv, Produce PROVE WInv'
<1> DEFINE h == head[Master] + 1
           C == BlockMessages(h, FALSE)
<1>1. /\ wire' = wire \cup Publish(Master, C)
      /\ announced' = [f \in Follower |-> IF f \in Up THEN h ELSE announced[f]]
      /\ UNCHANGED <<orphans, loaded, link, pruned, faults>> /\ Up' = Up
      /\ head' = [head EXCEPT ![Master] = h]
      /\ Master \in Node /\ Master \notin Follower /\ TypeOK
  BY SyncAssumption DEF Produce, Up, Node, IInv
<1>2. \A m \in Publish(Master, C) : m.to \in Up /\ m.from = Master /\ ~m.bare
  BY DEF Publish, PeersOf, BlockMessages, Header, Body
<1>3. NoBare'
  BY <1>1, <1>2 DEF WInv, NoBare
<1>4. DialsEmpty'
  <2> HIDE DEF C, h
  <2> SUFFICES ASSUME NEW f \in Follower, link[f] = "dialing"
               PROVE  /\ orphans[f] = {} /\ announced'[f] = 0
                      /\ \A m \in wire' : m.from # f /\ m.to # f
    BY <1>1 DEF DialsEmpty
  <2>1. /\ orphans[f] = {} /\ announced[f] = 0
        /\ \A m \in wire : m.from # f /\ m.to # f
    BY DEF WInv, DialsEmpty
  <2>2. f \notin Up /\ f # Master
    BY <1>1 DEF Up
  <2> QED
    BY <1>1, <1>2, <2>1, <2>2
<1>5. WalkGoesOn'
  <2> SUFFICES ASSUME pruned = {}, NEW f \in Up PROVE WalkOf(f)'
    BY <1>1 DEF WalkGoesOn
  <2>1. f \in Follower /\ f # Master /\ f \in Node
    BY <1>1 DEF Up, Node
  <2>2. head'[f] = head[f] /\ orphans'[f] = orphans[f] /\ announced'[f] = h
    BY <1>1, <2>1 DEF TypeOK
  <2>3. WalkOf(f)
    BY DEF WInv, WalkGoesOn
  <2>4. \A k : Pursued(f, k) => Pursued(f, k)'
    BY <1>1 DEF Pursued, InFlight, Asked, IsOrphan
  <2>5. PICK k : k = h
    OBVIOUS
  <2>6. [from |-> Master, to |-> f, kind |-> "block", height |-> k, bare |-> FALSE]
            \in Publish(Master, C)
    <3> DEFINE c == Body(k, FALSE)
    <3>1. c.kind = "block" /\ c.height = k /\ c.bare = FALSE
      BY DEF Body
    <3>2. c \in C /\ f \in PeersOf(Master)
      BY <2>5 DEF BlockMessages, PeersOf
    <3> HIDE DEF c, C
    <3> QED
      BY <3>1, <3>2, Reaches
  <2>7. Pursued(f, k)'
    BY <1>1, <2>6 DEF Pursued, InFlight
  <2>8. Pursued(f, announced[f])'
    BY <2>2, <2>5, <2>7
  <2> QED
    BY <2>2, <2>3, <2>4, <2>8 DEF WalkOf
<1> QED
  BY <1>3, <1>4, <1>5 DEF WInv

\* A follower's connection, its loss and its restart touch no message between the
\* master and another follower; the follower itself has nothing to pursue before
\* its next connection.
LEMMA LinkWInv ==
    ASSUME IInv, WInv, NEW g \in Follower,
           Connect(g) \/ DialFails(g) \/ Disconnect(g) \/ Restart(g)
    PROVE  WInv'
<1>1. /\ wire' \subseteq wire /\ wire \ OnLink(g) \subseteq wire' /\ UNCHANGED pruned
      /\ \A n \in Node : orphans'[n] \subseteq orphans[n]
      /\ \A f \in Follower : f # g => /\ link'[f] = link[f] /\ announced'[f] = announced[f]
                                      /\ orphans'[f] = orphans[f] /\ head'[f] = head[f]
      /\ TypeOK
  <2>1. CASE Restart(g)
    BY <2>1 DEF Restart, IInv, TypeOK, Node
  <2>2. CASE Disconnect(g)
    BY <2>2 DEF Disconnect, IInv, TypeOK, Node, nodeVars, storeVars
  <2>3. CASE Connect(g) \/ DialFails(g)
    BY <2>3 DEF Connect, DialFails, IInv, TypeOK, Node, nodeVars, storeVars
  <2> QED
    BY <2>1, <2>2, <2>3
<1>2. \/ /\ link'[g] = "dialing" /\ orphans'[g] = {} /\ announced'[g] = 0
         /\ wire' = wire \ OnLink(g)
      \/ link'[g] = "down"
      \/ /\ link'[g] = "up" /\ link[g] = "dialing"
         /\ UNCHANGED <<orphans, announced, wire, head>>
  <2>1. CASE Restart(g)
    BY <2>1, <1>1 DEF Restart, TypeOK, Node
  <2>2. CASE Disconnect(g) \/ DialFails(g)
    BY <2>2, <1>1 DEF Disconnect, DialFails, TypeOK
  <2>3. CASE Connect(g)
    BY <2>3, <1>1 DEF Connect, TypeOK, nodeVars, storeVars
  <2> QED
    BY <2>1, <2>2, <2>3
<1>3. NoBare'
  BY <1>1 DEF WInv, NoBare
<1>4. DialsEmpty'
  BY <1>1, <1>2 DEF WInv, DialsEmpty, OnLink
<1>5. WalkGoesOn'
  <2> SUFFICES ASSUME pruned = {}, NEW f \in Follower, link'[f] = "up" PROVE WalkOf(f)'
    BY <1>1 DEF WalkGoesOn, Up
  <2>1. CASE f # g
    <3>1. WalkOf(f)
      BY <1>1, <2>1 DEF WInv, WalkGoesOn, Up
    <3>2. \A k : Pursued(f, k) => Pursued(f, k)'
      <4>1. g # Master
        BY SyncAssumption
      <4> QED
        BY <1>1, <2>1, <4>1 DEF Pursued, InFlight, Asked, IsOrphan, OnLink
    <3> QED
      BY <1>1, <2>1, <3>1, <3>2 DEF WalkOf
  <2>2. CASE f = g
    <3>1. orphans'[g] = {} /\ announced'[g] = 0 /\ head'[g] \in Nat
      <4>1. link[g] = "dialing" /\ UNCHANGED <<orphans, announced, head>>
        BY <1>2, <2>2
      <4>2. orphans[g] = {} /\ announced[g] = 0
        BY <4>1 DEF WInv, DialsEmpty
      <4>3. head[g] \in Nat
        BY <1>1 DEF TypeOK, Node, Height
      <4> QED
        BY <4>1, <4>2, <4>3
    <3> QED
      BY <2>2, <3>1 DEF WalkOf
  <2> QED
    BY <2>1, <2>2
<1> QED
  BY <1>3, <1>4, <1>5 DEF WInv

\* Every step keeps the walks going, one case per action of Next.
LEMMA NextWInv == IInv /\ IInv' /\ WInv /\ [Next]_vars => WInv'
<1> SUFFICES ASSUME IInv, IInv', WInv, [Next]_vars PROVE WInv'
  OBVIOUS
<1>1. ASSUME NEW msg \in wire, Handle(msg) PROVE WInv'
  BY <1>1, HandleEmpty, HandleWalk DEF WInv
<1>2. CASE UNCHANGED vars
  BY <1>2 DEF vars, nodeVars, storeVars, WInv, NoBare, DialsEmpty, WalkGoesOn, WalkOf, Up,
              Pursued, InFlight, Asked, IsOrphan
<1> QED
  BY <1>1, <1>2, ProduceWInv, LinkWInv DEF Next

\* The walk back never stalls: with every body kept, a connected follower's
\* missing blocks (import_block asks for the parent of every orphan it keeps, and
\* imports the orphans above what it imports) are each asked for, on their way,
\* or kept and waiting for the next lower one.
THEOREM WalkNeverStalls == Spec => []WalkGoesOn
<1>1. Spec => [](IInv /\ WInv)
  BY InitIInv, NextIInv, InitWInv, NextWInv, PTL DEF Spec
<1>2. IInv /\ WInv => WalkGoesOn
  BY DEF WInv
<1> QED
  BY <1>1, <1>2, PTL
=============================================================================
