---------------------------- MODULE ChainProofs ----------------------------
(***************************************************************************)
(* Proofs about modules Chain and Persist, for every block universe        *)
(* (however large, and with invalid blocks in it), every execution         *)
(* function and all pruning windows.  Of Chain, IInv is about the store    *)
(* and the live state; FullInv adds the replay of the chain, the           *)
(* transaction index and the mempool.  Of Persist, NodeInv relates the     *)
(* database to the memory at every single write of persist_canonical;      *)
(* Truthful adds that the states in both are those the chain leads to.     *)
(***************************************************************************)
EXTENDS Persist, BlockTreeProofs

\* The inductive invariant.
IInv ==
    /\ StoreTypeOK
    /\ ParentKnown
    /\ Rooted(known)
    /\ ForkChoice
    /\ CanonicalChain
    /\ SnapshotsSound
    /\ LiveFollowsHead

\* import_and_apply preserves the invariant.
LEMMA ImportStep ==
    ASSUME IInv, NEW b \in Block, NEW txs, Import(b, txs)
    PROVE  IInv'
<1> USE Links
<1> DEFINE post == PostState(snapshots, b, txs)
<1>1. /\ post # ExecError
      /\ Parent[b] \in DOMAIN snapshots
      /\ post = Execute(snapshots[Parent[b]], txs)
      /\ RootOf(post) = StateRoot[b]
  BY DEF Import, PostState
<1>2. /\ Parent[b] \in known
      /\ Number[b] = Number[Parent[b]] + 1
      /\ txs = TxsOf[b]
      /\ b \notin known
  BY DEF Import, Insertable, BodyPasses
<1>3. /\ known' = known \cup {b}
      /\ bodies' = bodies \cup {b}
      /\ snapshots' = [c \in DOMAIN snapshots \cup {b} |->
                          IF c = b THEN post ELSE snapshots[c]]
  BY DEF Import
<1> HIDE DEF post
<1>4. known \subseteq Block /\ known' \subseteq Block /\ head \in known
  BY <1>3 DEF IInv, StoreTypeOK
<1>5. ParentKnown'
  BY <1>2, <1>3 DEF IInv, ParentKnown
<1>6. Rooted(known')
  BY <1>2, <1>3, <1>4, InsertKeepsRooted DEF IInv
<1>7. SnapshotsSound'
  <2> SUFFICES ASSUME NEW c \in DOMAIN snapshots'
               PROVE  /\ RootOf(snapshots'[c]) = StateRoot[c]
                      /\ Parent[c] \in DOMAIN snapshots' =>
                            snapshots'[c] = Execute(snapshots'[Parent[c]], TxsOf[c])
    BY DEF SnapshotsSound
  <2>1. CASE c = b
    <3>1. Parent[b] # b
      BY <1>2
    <3>2. QED
      BY <1>1, <1>2, <1>3, <2>1, <3>1
  <2>2. CASE c # b
    <3>1. c \in DOMAIN snapshots /\ c \in known
      BY <1>3, <2>2 DEF IInv, StoreTypeOK
    <3>2. Parent[c] # b
      BY <1>2, <3>1 DEF IInv, ParentKnown
    <3>3. QED
      BY <1>3, <2>2, <3>1, <3>2 DEF IInv, SnapshotsSound
  <2>3. QED
    BY <2>1, <2>2
<1>8. post \in State
  BY <1>1, <1>2, BlockTreeAssumption DEF IInv, StoreTypeOK
<1>9. CASE Better(b, head)
  <2>1. head' = b /\ byNumber' = PathTo(b) /\ live' = post
    BY <1>9 DEF Import, SetCanonical, ResetLive, post
  <2>2. ForkChoice'
    <3>1. \A c \in known' : c \in Nat /\ Number[c] \in Nat
      BY <1>4
    <3>2. \A c \in known :
             \/ Number[c] < Number[head]
             \/ Number[c] = Number[head] /\ head <= c
      BY DEF IInv, ForkChoice
    <3>3. ASSUME NEW c \in known'
          PROVE  \/ Number[c] < Number[head']
                 \/ Number[c] = Number[head'] /\ head' <= c
      <4>1. /\ head \in Nat /\ Number[head] \in Nat
            /\ c \in Nat /\ Number[c] \in Nat /\ b \in Nat /\ Number[b] \in Nat
            /\ c \in known \/ c = b
        BY <1>3, <1>4, <3>1
      <4>2. QED
        BY <1>9, <2>1, <3>2, <4>1 DEF Better
    <3>4. QED
      BY <3>3 DEF ForkChoice
  <2>3. IsPath(PathTo(b), b)
    BY <1>3, <1>4, <1>6, PathToIsPath DEF Rooted
  <2>4. Levelled(PathTo(b), b, known')
    BY <1>3, <1>6, <2>3 DEF Rooted
  <2>5. CanonicalChain'
    <3>1. /\ DOMAIN PathTo(b) = 0 .. Number[b]
          /\ PathTo(b)[Number[b]] = b
          /\ \A n \in 1 .. Number[b] : Parent[PathTo(b)[n]] = PathTo(b)[n - 1]
      <4>1. \A f : IsPath(f, b) =>
              /\ DOMAIN f = 0 .. Number[b]
              /\ f[Number[b]] = b
              /\ \A n \in 1 .. Number[b] : Parent[f[n]] = f[n - 1]
        BY PathIsCanonical
      <4>2. QED
        BY <2>3, <4>1
    <3>2. QED
      BY <2>1, <2>4, <3>1 DEF CanonicalChain, Levelled
  <2>6. LiveFollowsHead'
    BY <1>3, <2>1 DEF LiveFollowsHead
  <2>7. StoreTypeOK'
    BY <1>3, <1>4, <1>8, <2>1, <2>4 DEF IInv, StoreTypeOK, Levelled
  <2>8. QED
    BY <1>5, <1>6, <1>7, <2>2, <2>5, <2>6, <2>7 DEF IInv
<1>10. CASE ~Better(b, head)
  <2>1. UNCHANGED <<head, byNumber, live>>
    BY <1>10 DEF Import
  <2>2. ForkChoice'
    <3>1. \A c \in known' : c \in Nat /\ Number[c] \in Nat
      BY <1>4
    <3>2. \A c \in known :
             \/ Number[c] < Number[head]
             \/ Number[c] = Number[head] /\ head <= c
      BY DEF IInv, ForkChoice
    <3>3. ASSUME NEW c \in known'
          PROVE  \/ Number[c] < Number[head']
                 \/ Number[c] = Number[head'] /\ head' <= c
      <4>1. /\ head \in Nat /\ Number[head] \in Nat
            /\ c \in Nat /\ Number[c] \in Nat /\ b \in Nat /\ Number[b] \in Nat
            /\ c \in known \/ c = b
        BY <1>3, <1>4, <3>1
      <4>2. QED
        BY <1>10, <2>1, <3>2, <4>1 DEF Better
    <3>4. QED
      BY <3>3 DEF ForkChoice
  <2>3. CanonicalChain'
    BY <2>1 DEF IInv, CanonicalChain
  <2>4. LiveFollowsHead'
    BY <1>2, <1>3, <1>4, <2>1 DEF IInv, LiveFollowsHead
  <2>5. StoreTypeOK'
    BY <1>3, <1>4, <1>8, <2>1 DEF IInv, StoreTypeOK
  <2>6. QED
    BY <1>5, <1>6, <1>7, <2>2, <2>3, <2>4, <2>5 DEF IInv
<1>11. QED
  BY <1>9, <1>10

\* The parent walk from the head starts at the head.
LEMMA HeadOnItsChain ==
    ASSUME IInv
    PROVE  head \in ChainFromHead
<1>1. head \in Block /\ Number[head] \in Nat
  BY Links DEF IInv, StoreTypeOK
<1>2. IsPath(PathTo(head), head)
  BY <1>1, PathToIsPath DEF IInv, StoreTypeOK, Rooted
<1>3. \A f : IsPath(f, head) => DOMAIN f = 0 .. Number[head] /\ f[Number[head]] = head
  BY <1>1, PathIsCanonical
<1>4. /\ DOMAIN PathTo(head) = 0 .. Number[head]
      /\ PathTo(head)[Number[head]] = head
  BY <1>2, <1>3
<1>5. QED
  BY <1>1, <1>4 DEF ChainFromHead, Range

\* Dropping snapshots and bodies, but not the head's snapshot, preserves the
\* invariant.
LEMMA DropStep ==
    ASSUME IInv, NEW D \in SUBSET DOMAIN snapshots, head \in D,
           snapshots' = [b \in D |-> snapshots[b]],
           bodies' \subseteq bodies,
           UNCHANGED <<known, byNumber, head, live>>
    PROVE  IInv'
<1>1. StoreTypeOK'
  BY DEF IInv, StoreTypeOK
<1>2. SnapshotsSound'
  BY DEF IInv, SnapshotsSound
<1>3. LiveFollowsHead'
  BY DEF IInv, LiveFollowsHead
<1>4. ParentKnown' /\ Rooted(known') /\ ForkChoice' /\ CanonicalChain'
  BY DEF IInv, ParentKnown, ForkChoice, CanonicalChain
<1>5. QED
  BY <1>1, <1>2, <1>3, <1>4 DEF IInv

\* The pruning cutoff never reaches the head.
LEMMA CutoffBelowHead ==
    ASSUME NEW keep \in Nat, Number[head] \in Nat
    PROVE  Cutoff(keep) <= Number[head]
  BY DEF Cutoff, SaturatingSub

\* run_node on an empty data directory establishes the invariant.
LEMMA InitStep == Init => IInv
<1> SUFFICES ASSUME Init PROVE IInv
  OBVIOUS
<1> USE Links
<1>1. StoreTypeOK
  BY BlockTreeAssumption DEF Init, StoreTypeOK
<1>2. ParentKnown /\ ForkChoice
  BY DEF Init, ParentKnown, ForkChoice
<1>3. CanonicalChain /\ LiveFollowsHead
  BY DEF Init, CanonicalChain, LiveFollowsHead
<1>4. SnapshotsSound
  BY BlockTreeAssumption DEF Init, SnapshotsSound
<1>5. Rooted({Genesis})
  BY GenesisRooted
<1>6. QED
  BY <1>1, <1>2, <1>3, <1>4, <1>5 DEF IInv, Init

\* Every step preserves the invariant.
LEMMA NextStep == IInv /\ [Next]_vars => IInv'
<1> SUFFICES ASSUME IInv, [Next]_vars PROVE IInv'
  OBVIOUS
<1>1. ASSUME NEW b \in Block, NEW txs \in {TxsOf[b], <<>>}, Import(b, txs)
      PROVE  IInv'
  BY <1>1, ImportStep
<1>2. CASE PruneSnapshots
  <2> DEFINE D == {b \in DOMAIN snapshots : b \in ChainFromHead}
  <2>1. head \in D
    BY HeadOnItsChain DEF IInv, LiveFollowsHead
  <2>2. snapshots' = [b \in D |-> snapshots[b]]
    BY <1>2 DEF PruneSnapshots, RestrictDomain, Restrict
  <2>3. UNCHANGED <<known, bodies, byNumber, head, live>>
    BY <1>2 DEF PruneSnapshots
  <2> HIDE DEF D
  <2>4. D \subseteq DOMAIN snapshots
    BY DEF D
  <2>5. QED
    BY <2>1, <2>2, <2>3, <2>4, DropStep
<1>3. ASSUME NEW keep \in Window, PruneSnapshotsKeep(keep)
      PROVE  IInv'
  <2> DEFINE D == {b \in DOMAIN snapshots :
                      b \in ChainFromHead /\ Number[b] >= Cutoff(keep)}
  <2>1. head \in D
    <3>1. Number[head] \in Nat /\ keep \in Nat
      BY Links, ChainAssumption DEF IInv, StoreTypeOK
    <3>2. Cutoff(keep) <= Number[head] /\ Cutoff(keep) \in Int
      BY <3>1, CutoffBelowHead DEF Cutoff, SaturatingSub
    <3>3. QED
      BY <3>1, <3>2, HeadOnItsChain DEF IInv, LiveFollowsHead
  <2>2. snapshots' = [b \in D |-> snapshots[b]]
    BY <1>3 DEF PruneSnapshotsKeep, RestrictDomain, Restrict
  <2>3. bodies' \subseteq bodies /\ UNCHANGED <<known, byNumber, head, live>>
    BY <1>3 DEF PruneSnapshotsKeep
  <2>4. D \subseteq DOMAIN snapshots
    OBVIOUS
  <2> HIDE DEF D
  <2>5. QED
    BY <2>1, <2>2, <2>3, <2>4, DropStep
<1>4. ASSUME NEW t \in Tx, Submit(t) PROVE IInv'
  BY <1>4 DEF Submit, storeVars, IInv, StoreTypeOK, ParentKnown, ForkChoice,
     CanonicalChain, SnapshotsSound, LiveFollowsHead
<1>5. CASE UNCHANGED vars
  BY <1>5 DEF vars, IInv, StoreTypeOK, ParentKnown, ForkChoice,
     CanonicalChain, SnapshotsSound, LiveFollowsHead
<1>6. QED
  BY <1>1, <1>2, <1>3, <1>4, <1>5 DEF Next

\* The store is in order in every reachable state.
LEMMA Invariance == Spec => []IInv
  BY InitStep, NextStep, PTL DEF Spec

\* Whatever order blocks arrive in, the head is the best block of the store.
THEOREM ForkChoiceAlways == Spec => []ForkChoice
<1>1. IInv => ForkChoice
  BY DEF IInv
<1>2. QED
  BY <1>1, Invariance, PTL

\* by_number is one chain of parent links that ends at the head.
THEOREM CanonicalChainAlways == Spec => []CanonicalChain
<1>1. IInv => CanonicalChain
  BY DEF IInv
<1>2. QED
  BY <1>1, Invariance, PTL

\* Every snapshot has its header's root and follows from its parent's.
THEOREM SnapshotsSoundAlways == Spec => []SnapshotsSound
<1>1. IInv => SnapshotsSound
  BY DEF IInv
<1>2. QED
  BY <1>1, Invariance, PTL

\* The live state is that of the canonical head, and its snapshot is never
\* pruned.
THEOREM LiveFollowsHeadAlways == Spec => []LiveFollowsHead
<1>1. IInv => LiveFollowsHead
  BY DEF IInv
<1>2. QED
  BY <1>1, Invariance, PTL

\* The head only ever moves to a better block.
THEOREM HeadImprovesAlways == Spec => HeadImproves
<1>1. [Next]_vars => [head' # head => \/ Number[head'] > Number[head]
                                      \/ Number[head'] = Number[head] /\ head' < head]_vars
  <2> SUFFICES ASSUME Next, head' # head PROVE Better(head', head)
    BY DEF vars, Better
  <2>1. PICK b \in Block : \E txs \in {TxsOf[b], <<>>} : Import(b, txs)
    BY Zenon DEF Next, PruneSnapshots, PruneSnapshotsKeep, Submit, storeVars
  <2>2. QED
    BY <2>1 DEF Import, SetCanonical, Better
<1>2. QED
  BY <1>1, PTL DEF Spec, HeadImproves
----------------------------------------------------------------------------
\* A block has one parent walk.
LEMMA PathUnique ==
    ASSUME NEW b \in Block, NEW f, NEW g, IsPath(f, b), IsPath(g, b)
    PROVE  f = g
<1> DEFINE n == Number[b]
           T == {k \in 0 .. n : f[n - k] = g[n - k]}
<1>1. n \in Nat
  BY Links
<1>2. /\ f = [i \in 0 .. n |-> f[i]] /\ f[n] = b
      /\ \A i \in 0 .. n - 1 : f[i] = Parent[f[i + 1]]
  BY PathShape
<1>3. /\ g = [i \in 0 .. n |-> g[i]] /\ g[n] = b
      /\ \A i \in 0 .. n - 1 : g[i] = Parent[g[i + 1]]
  BY PathShape
<1> HIDE DEF n
<1>4. 0 \in T
  BY <1>1, <1>2, <1>3
<1>5. ASSUME NEW k \in 0 .. n - 1, k \in T PROVE k + 1 \in T
  <2>1. PICK i \in 0 .. n - 1 : i = n - (k + 1) /\ i + 1 = n - k
    BY <1>1
  <2>2. f[i] = Parent[f[i + 1]] /\ g[i] = Parent[g[i + 1]] /\ f[i + 1] = g[i + 1]
    BY <1>2, <1>3, <1>5, <2>1, Zenon
  <2> QED
    BY <1>1, <2>1, <2>2
<1>6. 0 .. n \subseteq T
  <2>1. \A k \in 0 .. n - 1 : k \in T => k + 1 \in T
    BY <1>5
  <2> HIDE DEF T
  <2> QED
    BY <1>1, <1>4, <2>1, SetInduction
<1>7. ASSUME NEW i \in 0 .. n PROVE f[i] = g[i]
  <2>1. PICK k \in 0 .. n : i = n - k
    <3>1. n - i \in 0 .. n /\ i = n - (n - i)
      BY <1>1
    <3> QED
      BY <3>1
  <2> QED
    BY <1>6, <2>1
<1> QED
  BY <1>2, <1>3, <1>7, Zenon

\* The state after each block of a chain is what the block makes of the state
\* before it.
LEMMA ReplayMeans ==
    ASSUME NEW tip \in Block, NEW after, after = Replay(tip)
    PROVE  /\ after[0] = GenesisState
           /\ \A i \in 1 .. Number[tip] : after[i] = Execute(after[i - 1], TxsOf[PathTo(tip)[i]])
<1> DEFINE n == Number[tip]
           path == PathTo(tip)
           Solves(m, f) ==
              f = [i \in 0 .. m |->
                     IF i = 0 THEN GenesisState ELSE Execute(f[i - 1], TxsOf[path[i]])]
           T == {m \in 0 .. n : \E f : Solves(m, f)}
<1>1. n \in Nat
  BY Links
<1>2. after = CHOOSE f : Solves(n, f)
  BY DEF Replay
<1> HIDE DEF n, path
<1>3. 0 \in T
  <2>1. Solves(0, [i \in 0 .. 0 |-> GenesisState])
    OBVIOUS
  <2> HIDE DEF Solves
  <2> QED
    BY <1>1, <2>1
<1>4. ASSUME NEW m \in 0 .. n - 1, m \in T PROVE m + 1 \in T
  <2>1. PICK f : Solves(m, f)
    BY <1>4
  <2> DEFINE g == [i \in 0 .. m + 1 |->
                     IF i = m + 1 THEN Execute(f[m], TxsOf[path[m + 1]]) ELSE f[i]]
  <2>2. ASSUME NEW i \in 0 .. m + 1
        PROVE  g[i] = IF i = 0 THEN GenesisState ELSE Execute(g[i - 1], TxsOf[path[i]])
    <3>1. CASE i = m + 1
      <4>1. g[i] = Execute(f[m], TxsOf[path[m + 1]]) /\ g[i - 1] = f[m] /\ i # 0
        BY <1>1, <3>1
      <4> HIDE DEF g
      <4> QED
        BY <3>1, <4>1
    <3>2. CASE i # m + 1
      <4>1. g[i] = f[i] /\ (i # 0 => g[i - 1] = f[i - 1]) /\ i \in 0 .. m
        BY <1>1, <3>2
      <4> HIDE DEF g
      <4>2. f[i] = IF i = 0 THEN GenesisState ELSE Execute(f[i - 1], TxsOf[path[i]])
        BY <2>1, <4>1
      <4> QED
        BY <4>1, <4>2
    <3> QED
      BY <3>1, <3>2
  <2>3. Solves(m + 1, g)
    BY <2>2
  <2> HIDE DEF Solves, g
  <2> QED
    BY <1>1, <2>3
<1>5. n \in T
  <2>1. \A m \in 0 .. n - 1 : m \in T => m + 1 \in T
    BY <1>4
  <2> HIDE DEF T
  <2>2. 0 .. n \subseteq T
    BY <1>1, <1>3, <2>1, SetInduction
  <2> QED
    BY <1>1, <2>2
<1>6. Solves(n, after)
  BY <1>2, <1>5, Zenon
<1>7. /\ after[0] = GenesisState
      /\ \A i \in 1 .. n : after[i] = Execute(after[i - 1], TxsOf[path[i]])
  BY <1>1, <1>6
<1> QED
  BY <1>7 DEF n, path

\* Replaying up to a block is replaying up to its parent, and the block.
LEMMA ReplayExtends ==
    ASSUME NEW K \in SUBSET Block, Rooted(K), NEW b \in Block, NEW p \in K,
           Parent[b] = p, Number[b] = Number[p] + 1
    PROVE  Replay(b)[Number[b]] = Execute(Replay(p)[Number[p]], TxsOf[b])
<1> DEFINE n == Number[p]
<1>1. n \in Nat /\ Number[b] = n + 1 /\ p \in Block
  BY Links
<1>2. IsPath(PathTo(p), p)
  BY <1>1, PathToIsPath DEF Rooted
<1>3. IsPath(PathTo(b), b)
  <2>1. Rooted(K \cup {b}) /\ b \in K \cup {b}
    BY InsertKeepsRooted
  <2> QED
    BY <2>1, PathToIsPath DEF Rooted
<1>4. PICK P, Q : P = PathTo(p) /\ Q = PathTo(b)
  OBVIOUS
<1>5. P = [i \in 0 .. n |-> Q[i]]
  <2>1. \A g : IsPath(g, b) => IsPath([i \in 0 .. Number[p] |-> g[i]], p)
    BY <1>1, ExtendPath, ZenonT(30)
  <2>2. IsPath([i \in 0 .. n |-> Q[i]], p)
    BY <1>3, <1>4, <2>1
  <2> QED
    BY <1>1, <1>2, <1>4, <2>2, PathUnique
<1>6. \A i \in 0 .. n : P[i] = Q[i]
  BY <1>5
<1>7. Q[n + 1] = b
  <2>1. \A g : IsPath(g, b) => g[Number[b]] = b
    BY PathShape
  <2> QED
    BY <1>1, <1>3, <1>4, <2>1
<1>8. PICK f, g : f = Replay(p) /\ g = Replay(b)
  OBVIOUS
<1>9. f[0] = GenesisState /\ \A i \in 1 .. n : f[i] = Execute(f[i - 1], TxsOf[P[i]])
  BY <1>1, <1>4, <1>8, ReplayMeans
<1>10. g[0] = GenesisState /\ \A i \in 1 .. n + 1 : g[i] = Execute(g[i - 1], TxsOf[Q[i]])
  BY <1>1, <1>4, <1>8, ReplayMeans
<1> HIDE DEF n
<1> DEFINE T == {i \in 0 .. n : g[i] = f[i]}
<1>11. 0 \in T
  BY <1>1, <1>9, <1>10
<1>12. ASSUME NEW i \in 0 .. n - 1, i \in T PROVE i + 1 \in T
  <2>1. PICK j \in 1 .. n : j = i + 1 /\ j - 1 = i
    BY <1>1
  <2>2. /\ f[j] = Execute(f[j - 1], TxsOf[P[j]])
        /\ g[j] = Execute(g[j - 1], TxsOf[Q[j]]) /\ P[j] = Q[j]
    BY <1>1, <1>6, <1>9, <1>10
  <2>3. g[j] = f[j]
    BY <1>12, <2>1, <2>2
  <2> QED
    BY <1>1, <2>1, <2>3
<1>13. g[n] = f[n]
  <2>1. \A i \in 0 .. n - 1 : i \in T => i + 1 \in T
    BY <1>12
  <2> HIDE DEF T
  <2>2. 0 .. n \subseteq T
    BY <1>1, <1>11, <2>1, SetInduction
  <2> QED
    BY <1>1, <2>2 DEF T
<1>14. g[n + 1] = Execute(g[n], TxsOf[b])
  <2>1. n + 1 \in 1 .. n + 1 /\ (n + 1) - 1 = n
    BY <1>1
  <2> QED
    BY <1>7, <1>10, <2>1
<1> QED
  BY <1>1, <1>8, <1>13, <1>14 DEF n

\* The elements of a concatenation.
LEMMA ConcatRange ==
    ASSUME NEW S, NEW s \in Seq(S), NEW t \in Seq(S)
    PROVE  s \o t \in Seq(S) /\ Range(s \o t) = Range(s) \cup Range(t)
<1>1. s \o t \in Seq(S) /\ Len(s \o t) = Len(s) + Len(t)
  OBVIOUS
<1>2. /\ DOMAIN s = 1 .. Len(s) /\ DOMAIN t = 1 .. Len(t) /\ DOMAIN (s \o t) = 1 .. Len(s) + Len(t)
      /\ Len(s) \in Nat /\ Len(t) \in Nat
  OBVIOUS
<1>3. ASSUME NEW i \in 1 .. Len(s) PROVE (s \o t)[i] = s[i]
  OBVIOUS
<1>4. ASSUME NEW i \in 1 .. Len(t) PROVE (s \o t)[Len(s) + i] = t[i]
  OBVIOUS
<1>5. ASSUME NEW x \in Range(s \o t) PROVE x \in Range(s) \cup Range(t)
  <2>1. PICK i \in 1 .. Len(s) + Len(t) : x = (s \o t)[i]
    BY <1>2, <1>5 DEF Range
  <2>2. CASE i <= Len(s)
    BY <1>2, <1>3, <2>1, <2>2 DEF Range
  <2>3. CASE i > Len(s)
    <3>1. PICK j \in 1 .. Len(t) : i = Len(s) + j
      <4>1. i - Len(s) \in 1 .. Len(t) /\ i = Len(s) + (i - Len(s))
        BY <1>2, <2>3
      <4> QED
        BY <4>1
    <3> QED
      BY <1>2, <1>4, <2>1, <3>1 DEF Range
  <2> QED
    BY <1>2, <2>2, <2>3
<1>6. ASSUME NEW x \in Range(s) \cup Range(t) PROVE x \in Range(s \o t)
  <2>1. CASE x \in Range(s)
    <3>1. PICK i \in 1 .. Len(s) : x = s[i]
      BY <1>2, <2>1 DEF Range
    <3>2. i \in 1 .. Len(s) + Len(t)
      BY <1>2
    <3> QED
      BY <1>2, <1>3, <3>1, <3>2 DEF Range
  <2>2. CASE x \in Range(t)
    <3>1. PICK i \in 1 .. Len(t) : x = t[i]
      BY <1>2, <2>2 DEF Range
    <3>2. Len(s) + i \in 1 .. Len(s) + Len(t)
      BY <1>2
    <3> QED
      BY <1>2, <1>4, <3>1, <3>2, Zenon DEF Range
  <2> QED
    BY <1>6, <2>1, <2>2
<1> QED
  BY <1>1, <1>5, <1>6

\* The loop solves its recursion.
LEMMA ConcatStages ==
    ASSUME NEW n \in Nat, NEW S, NEW s, \A i \in 0 .. n : s[i] \in Seq(S)
    PROVE  \E out : /\ Concat(s, n) = out[n]
                    /\ out[0] = s[0]
                    /\ \A i \in 1 .. n : out[i] = out[i - 1] \o s[i]
                    /\ \A i \in 0 .. n : out[i] \in Seq(S)
<1> DEFINE Solves(m, f) == f = [i \in 0 .. m |-> (IF i = 0 THEN <<>> ELSE f[i - 1]) \o s[i]]
           out == CHOOSE f : Solves(n, f)
           T == {m \in 0 .. n : \E f : Solves(m, f)}
<1>1. Concat(s, n) = out[n]
  BY Zenon DEF Concat
<1>2. 0 \in T
  <2>1. Solves(0, [i \in 0 .. 0 |-> <<>> \o s[i]])
    OBVIOUS
  <2> HIDE DEF Solves
  <2> QED
    BY <2>1
<1>3. ASSUME NEW m \in 0 .. n - 1, m \in T PROVE m + 1 \in T
  <2>1. PICK f : Solves(m, f)
    BY <1>3, Zenon
  <2> DEFINE g == [i \in 0 .. m + 1 |-> IF i = m + 1 THEN f[m] \o s[m + 1] ELSE f[i]]
  <2>2. ASSUME NEW i \in 0 .. m + 1
        PROVE  g[i] = (IF i = 0 THEN <<>> ELSE g[i - 1]) \o s[i]
    <3>1. CASE i = m + 1
      <4>1. m + 1 \in 0 .. m + 1 /\ m \in 0 .. m + 1 /\ m # m + 1 /\ i - 1 = m /\ i # 0
        BY <3>1
      <4>2. g[m + 1] = f[m] \o s[m + 1] /\ g[m] = f[m]
        BY <4>1, Zenon
      <4> HIDE DEF g
      <4> QED
        BY <3>1, <4>1, <4>2, Zenon
    <3>2. CASE i # m + 1
      <4>1. g[i] = f[i] /\ (i # 0 => g[i - 1] = f[i - 1]) /\ i \in 0 .. m
        BY <3>2
      <4> HIDE DEF g
      <4>2. f[i] = (IF i = 0 THEN <<>> ELSE f[i - 1]) \o s[i]
        BY <2>1, <4>1, Zenon
      <4> QED
        BY <4>1, <4>2, Zenon
    <3> QED
      BY <3>1, <3>2, Zenon
  <2>3. Solves(m + 1, g)
    BY <2>2, Zenon
  <2> HIDE DEF Solves, g
  <2> QED
    BY <2>3
<1>4. Solves(n, out)
  <2>1. \A m \in 0 .. n - 1 : m \in T => m + 1 \in T
    BY <1>3, Zenon
  <2> HIDE DEF T
  <2>2. 0 .. n \subseteq T
    BY <1>2, <2>1, SetInduction, Zenon
  <2>3. n \in T
    BY <2>2
  <2> HIDE DEF Solves
  <2> QED
    BY <2>3, Zenon DEF T
<1> HIDE DEF out
<1>5. \A i \in 0 .. n : out[i] = (IF i = 0 THEN <<>> ELSE out[i - 1]) \o s[i]
  BY <1>4, Zenon
<1> HIDE DEF Solves
<1> DEFINE U == {i \in 0 .. n : out[i] \in Seq(S)}
<1>6. out[0] = s[0] /\ s[0] \in Seq(S)
  <2>1. 0 \in 0 .. n /\ s[0] \in Seq(S)
    OBVIOUS
  <2>2. out[0] = <<>> \o s[0]
    BY <1>5, <2>1, Zenon
  <2> QED
    BY <2>1, <2>2
<1>7. ASSUME NEW i \in 1 .. n PROVE out[i] = out[i - 1] \o s[i]
  <2>1. i \in 0 .. n /\ i # 0
    OBVIOUS
  <2> QED
    BY <1>5, <2>1, Zenon
<1>8. ASSUME NEW i \in 0 .. n - 1, i \in U PROVE i + 1 \in U
  <2>1. PICK j \in 1 .. n : j = i + 1 /\ j - 1 = i /\ s[j] \in Seq(S)
    OBVIOUS
  <2>2. out[j] = out[i] \o s[j] /\ out[i] \in Seq(S)
    BY <1>7, <1>8, <2>1, Zenon
  <2>3. out[j] \in Seq(S)
    BY <2>1, <2>2
  <2> QED
    BY <2>1, <2>3
<1>9. 0 .. n \subseteq U
  <2>1. \A i \in 0 .. n - 1 : i \in U => i + 1 \in U
    BY <1>8
  <2>2. 0 \in U
    BY <1>6
  <2> HIDE DEF U
  <2> QED
    BY <2>1, <2>2, SetInduction, Zenon
<1>10. \A i \in 0 .. n : out[i] \in Seq(S)
  BY <1>9
<1> QED
  BY <1>1, <1>6, <1>7, <1>10, Zenon

\* The transactions of a chain are a sequence of transactions.
LEMMA TxsOnPathType ==
    ASSUME NEW K \in SUBSET Block, Rooted(K), NEW tip \in K, NEW B
    PROVE  TxsOnPath(B, tip) \in Seq(Tx)
<1>1. PICK n : n = Number[tip] /\ n \in Nat
  BY Links
<1>2. PICK path : path = PathTo(tip) /\ path \in [0 .. n -> K]
  <2>1. IsPath(PathTo(tip), tip)
    BY PathToIsPath DEF Rooted
  <2> QED
    BY <1>1, <2>1 DEF Rooted, Levelled
<1>3. PICK body : body = [i \in 0 .. n |-> BodyOf(B, path[i])]
  BY Zenon
<1>4. ASSUME NEW i \in 0 .. n PROVE body[i] \in Seq(Tx)
  <2>1. path[i] \in Block /\ body[i] = BodyOf(B, path[i])
    BY <1>2, <1>3
  <2> QED
    BY <2>1, ChainAssumption DEF BodyOf
<1>5. PICK out : Concat(body, n) = out[n] /\ \A i \in 0 .. n : out[i] \in Seq(Tx)
  <2>1. n \in Nat /\ \A i \in 0 .. n : body[i] \in Seq(Tx)
    BY <1>1, <1>4
  <2> QED
    BY <2>1, ConcatStages, ZenonT(30)
<1>6. TxsOnPath(B, tip) = Concat(body, n)
  BY <1>1, <1>2, <1>3, Zenon DEF TxsOnPath
<1> QED
  BY <1>1, <1>5, <1>6

\* A set of numbers up to n has a largest one.
LEMMA MaxIn ==
    ASSUME NEW n \in Nat, NEW S \in SUBSET (0 .. n), S # {}
    PROVE  Max(S) \in S
<1> DEFINE U == {k \in 0 .. n : n - k \in S}
<1>1. U \subseteq Nat /\ U # {}
  <2>1. PICK x \in S : TRUE
    BY Zenon
  <2>2. n - x \in U
    OBVIOUS
  <2>3. U \subseteq Nat
    OBVIOUS
  <2> HIDE DEF U
  <2> QED
    BY <2>2, <2>3
<1> HIDE DEF U
<1>2. PICK d \in U : \A e \in U : ~(<<e, d>> \in OpToRel(<, Nat))
  BY <1>1, WFMin, NatLessThanWellFounded, Zenon
<1>3. \A e \in U : ~(e < d)
  BY <1>1, <1>2, Zenon DEF OpToRel
<1>4. n - d \in S /\ \A y \in S : n - d >= y
  <2>1. d \in 0 .. n /\ n - d \in S
    BY <1>2, Zenon DEF U
  <2>2. ASSUME NEW y \in S PROVE n - d >= y
    <3>1. PICK e \in Nat : e = n - y
      OBVIOUS
    <3>2. e \in U
      BY <3>1 DEF U
    <3>3. ~(e < d)
      BY <1>3, <3>2
    <3> QED
      BY <2>1, <3>1, <3>3
  <2> QED
    BY <2>1, <2>2
<1>5. \E x \in S : \A y \in S : x >= y
  BY <1>4, Zenon
<1> QED
  BY <1>5, Zenon DEF Max

\* The index built for a chain finds the transactions in the kept bodies of
\* its blocks, and no others.
LEMMA LocationsSound ==
    ASSUME NEW n \in Nat, NEW path \in [0 .. n -> Block], NEW B
    PROVE  /\ \A t \in DOMAIN Locations(B, path) :
                 /\ Locations(B, path)[t].block \in Range(path)
                 /\ TxsOf[Locations(B, path)[t].block][Locations(B, path)[t].index] = t
           /\ \A b \in Range(path) \cap B : Range(TxsOf[b]) \subseteq DOMAIN Locations(B, path)
<1> DEFINE at(t) == {i \in DOMAIN path : t \in Range(BodyOf(B, path[i]))}
           blockOf(t) == path[Max(at(t))]
           index(t) == Max({i \in DOMAIN TxsOf[blockOf(t)] : TxsOf[blockOf(t)][i] = t})
           D == UNION {Range(BodyOf(B, path[i])) : i \in DOMAIN path}
<1>1. Locations(B, path) = [t \in D |-> [block |-> blockOf(t), index |-> index(t)]]
  BY DEF Locations
<1>2. ASSUME NEW t \in D PROVE blockOf(t) \in Range(path) /\ TxsOf[blockOf(t)][index(t)] = t
  <2>1. at(t) \in SUBSET (0 .. n) /\ at(t) # {}
    OBVIOUS
  <2>2. Max(at(t)) \in at(t)
    <3> HIDE DEF at
    <3> QED
      BY <2>1, MaxIn, Zenon
  <2>3. PICK b \in Block : b = blockOf(t) /\ b \in Range(path) /\ t \in Range(BodyOf(B, b))
    <3>1. PICK m : m = Max(at(t))
      BY Zenon
    <3>2. m \in DOMAIN path /\ t \in Range(BodyOf(B, path[m])) /\ blockOf(t) = path[m]
      BY <2>2, <3>1, Zenon
    <3> HIDE DEF at, blockOf
    <3> QED
      BY <3>2 DEF Range
  <2>4. t \in Range(TxsOf[b])
    <3>1. Range(<<>>) = {}
      BY DEF Range
    <3> QED
      BY <2>3, <3>1 DEF BodyOf
  <2>5. PICK txs \in Seq(Tx) : txs = TxsOf[b]
    BY ChainAssumption
  <2>6. PICK I : I = {i \in DOMAIN txs : txs[i] = t}
    OBVIOUS
  <2>7. I \in SUBSET (0 .. Len(txs)) /\ I # {}
    BY <2>4, <2>5, <2>6 DEF Range
  <2>8. Max(I) \in I
    BY <2>7, MaxIn
  <2>9. txs[Max(I)] = t
    BY <2>6, <2>8
  <2> QED
    BY <2>3, <2>5, <2>6, <2>9
<1>3. ASSUME NEW b \in Range(path) \cap B PROVE Range(TxsOf[b]) \subseteq D
  <2>1. PICK i \in DOMAIN path : b = path[i]
    BY DEF Range
  <2>2. BodyOf(B, path[i]) = TxsOf[b]
    BY <2>1 DEF BodyOf
  <2> QED
    BY <2>1, <2>2
<1> HIDE DEF D, blockOf, index
<1>4. PICK loc : loc = Locations(B, path)
  OBVIOUS
<1>5. DOMAIN loc = D /\ \A t \in D : loc[t].block = blockOf(t) /\ loc[t].index = index(t)
  BY <1>1, <1>4
<1>6. \A t \in DOMAIN loc : loc[t].block \in Range(path) /\ TxsOf[loc[t].block][loc[t].index] = t
  BY <1>2, <1>5
<1>7. \A b \in Range(path) \cap B : Range(TxsOf[b]) \subseteq DOMAIN loc
  BY <1>3, <1>5
<1> QED
  BY <1>4, <1>6, <1>7
----------------------------------------------------------------------------
(* Persist: the database, its keys and what one write does.                *)

\* The keys of the database never collide.
LEMMA Keys ==
    /\ \A m, n : HeightKey(m) = HeightKey(n) => m = n
    /\ \A m, n : BlockKey(m) = BlockKey(n) => m = n
    /\ \A m, n : HeaderKey(m) = HeaderKey(n) => m = n
    /\ \A m, n : SnapshotKey(m) = SnapshotKey(n) => m = n
    /\ \A m, n : /\ HeadKey # HeightKey(m) /\ HeadKey # BlockKey(m)
                 /\ HeadKey # HeaderKey(m) /\ HeadKey # SnapshotKey(m)
                 /\ HeightKey(m) # BlockKey(n) /\ HeightKey(m) # HeaderKey(n)
                 /\ HeightKey(m) # SnapshotKey(n) /\ BlockKey(m) # HeaderKey(n)
                 /\ BlockKey(m) # SnapshotKey(n) /\ HeaderKey(m) # SnapshotKey(n)
  BY DEF HeadKey, HeightKey, BlockKey, HeaderKey, SnapshotKey

\* What a write leaves on disk.
Effect(w) == IF w.op = "delete" THEN ~Has(w.key) ELSE Has(w.key) /\ disk[w.key] = w.value

\* A write has its effect, and no other.
LEMMA DiskAfter ==
    ASSUME Write, NEW w, w = Head(todo)
    PROVE  /\ Effect(w)'
           /\ \A key : key # w.key => /\ Has(key)' <=> Has(key)
                                      /\ Has(key) => disk'[key] = disk[key]
<1>1. disk' = After(w)
  BY DEF Write
<1>2. CASE w.op = "delete"
  BY <1>1, <1>2 DEF After, Effect, Has
<1>3. CASE w.op # "delete"
  BY <1>1, <1>3 DEF After, Effect, Has
<1> QED
  BY <1>2, <1>3

\* Every body that is deleted has its header written just before.
Guarded(s) ==
    \A i \in 1 .. Len(s) : \A b :
        s[i] = Delete(BlockKey(b)) => i > 1 /\ s[i - 1] = Put(HeaderKey(b), b)

\* It holds of a list that is put together from two.
LEMMA GuardedConcat ==
    ASSUME NEW S, NEW s \in Seq(S), NEW t \in Seq(S), Guarded(s), Guarded(t)
    PROVE  Guarded(s \o t)
<1>1. Len(s) \in Nat /\ Len(t) \in Nat /\ Len(s \o t) = Len(s) + Len(t)
  OBVIOUS
<1>2. ASSUME NEW i \in 1 .. Len(s) PROVE (s \o t)[i] = s[i]
  OBVIOUS
<1>3. ASSUME NEW i \in 1 .. Len(t) PROVE (s \o t)[Len(s) + i] = t[i]
  OBVIOUS
<1>4. ASSUME NEW i \in 1 .. Len(s) + Len(t), NEW b, (s \o t)[i] = Delete(BlockKey(b))
      PROVE  i > 1 /\ (s \o t)[i - 1] = Put(HeaderKey(b), b)
  <2>1. CASE i \in 1 .. Len(s)
    <3>1. i > 1 /\ s[i - 1] = Put(HeaderKey(b), b)
      BY <1>2, <1>4, <2>1, Zenon DEF Guarded
    <3>2. i - 1 \in 1 .. Len(s)
      BY <1>1, <2>1, <3>1
    <3> QED
      BY <1>2, <3>1, <3>2
  <2>2. CASE i \notin 1 .. Len(s)
    <3>1. PICK j \in 1 .. Len(t) : i = Len(s) + j
      <4>1. i - Len(s) \in 1 .. Len(t) /\ i = Len(s) + (i - Len(s))
        BY <1>1, <2>2
      <4> QED
        BY <4>1
    <3>2. j > 1 /\ t[j - 1] = Put(HeaderKey(b), b)
      BY <1>3, <1>4, <3>1, ZenonT(30) DEF Guarded
    <3>3. PICK k \in 1 .. Len(t) : k = j - 1 /\ i - 1 = Len(s) + k
      BY <1>1, <3>1, <3>2
    <3>4. (s \o t)[i - 1] = t[k]
      BY <1>3, <3>3, Zenon
    <3> QED
      BY <1>1, <3>1, <3>2, <3>3, <3>4
  <2> QED
    BY <2>1, <2>2
<1> QED
  BY <1>1, <1>4, Zenon DEF Guarded

\* The writes of a loop over the chain are those of its rounds.
LEMMA ConcatCollects ==
    ASSUME NEW n \in Nat, NEW S, NEW s, \A i \in 0 .. n : s[i] \in Seq(S)
    PROVE  /\ Concat(s, n) \in Seq(S)
           /\ Range(Concat(s, n)) = UNION {Range(s[i]) : i \in 0 .. n}
           /\ (\A i \in 0 .. n : Guarded(s[i])) => Guarded(Concat(s, n))
<1>1. PICK out : /\ Concat(s, n) = out[n]
                 /\ out[0] = s[0]
                 /\ \A i \in 1 .. n : out[i] = out[i - 1] \o s[i]
                 /\ \A i \in 0 .. n : out[i] \in Seq(S)
  BY ConcatStages, ZenonT(30)
<1> DEFINE Of(m) == UNION {Range(s[i]) : i \in 0 .. m}
           T == {m \in 0 .. n : Range(out[m]) = Of(m)}
           U == {m \in 0 .. n : Guarded(out[m])}
<1>2. 0 \in T
  <2>1. 0 .. 0 = {0} /\ 0 \in 0 .. n
    OBVIOUS
  <2>2. Of(0) = Range(s[0])
    BY <2>1
  <2> QED
    BY <1>1, <2>1, <2>2, Zenon
<1>3. ASSUME NEW m \in 0 .. n - 1
      PROVE  /\ m \in T => m + 1 \in T
             /\ m \in U /\ Guarded(s[m + 1]) => m + 1 \in U
  <2>1. PICK k \in 1 .. n : k = m + 1 /\ k - 1 = m /\ k \in 0 .. n /\ m \in 0 .. n
    OBVIOUS
  <2>2. out[k] = out[m] \o s[k] /\ out[m] \in Seq(S) /\ s[k] \in Seq(S)
    BY <1>1, <2>1, Zenon
  <2>3. Range(out[k]) = Range(out[m]) \cup Range(s[k])
    BY <2>2, ConcatRange
  <2>4. 0 .. k = (0 .. m) \cup {k}
    BY <2>1
  <2>5. Of(k) = Of(m) \cup Range(s[k])
    BY <2>4
  <2>6. Guarded(out[m]) /\ Guarded(s[k]) => Guarded(out[k])
    BY <2>2, GuardedConcat
  <2>7. ASSUME m \in T PROVE k \in T
    <3> HIDE DEF Of
    <3> QED
      BY <2>1, <2>3, <2>5, <2>7, Zenon
  <2>8. ASSUME m \in U, Guarded(s[k]) PROVE k \in U
    BY <2>1, <2>6, <2>8
  <2> HIDE DEF T, U
  <2> QED
    BY <2>1, <2>7, <2>8
<1> HIDE DEF T, U
<1>4. n \in T
  <2>1. \A m \in 0 .. n - 1 : m \in T => m + 1 \in T
    BY <1>3, Zenon
  <2>2. 0 .. n \subseteq T
    BY <1>2, <2>1, SetInduction, Zenon
  <2> QED
    BY <2>2
<1>5. ASSUME \A i \in 0 .. n : Guarded(s[i]) PROVE n \in U
  <2>1. 0 \in U
    BY <1>1, <1>5 DEF U
  <2>2. ASSUME NEW m \in 0 .. n - 1, m \in U PROVE m + 1 \in U
    <3>1. m + 1 \in 0 .. n
      OBVIOUS
    <3> QED
      BY <1>3, <1>5, <2>2, <3>1, Zenon
  <2>3. 0 .. n \subseteq U
    BY <2>1, <2>2, SetInduction, Zenon
  <2> QED
    BY <2>3
<1> QED
  BY <1>1, <1>4, <1>5 DEF T, U

----------------------------------------------------------------------------
(* Persist: the list of writes that persist_canonical makes.               *)

\* The store and the live state of a node, whatever it was started from.
Store ==
    /\ known \subseteq Block
    /\ ParentKnown
    /\ Rooted(known)
    /\ head \in known /\ byNumber = PathTo(head)
    /\ bodies \subseteq known /\ DOMAIN snapshots \subseteq known
    /\ known \ {Genesis} \subseteq ValidHeader
    /\ bodies \ {Genesis} \subseteq ValidBody
    /\ LiveFollowsHead

\* The canonical index of such a store.
LEMMA IndexShape ==
    ASSUME Store
    PROVE  /\ Number[head] \in Nat /\ head \in Block
           /\ byNumber \in [0 .. Number[head] -> known]
           /\ \A n \in 0 .. Number[head] : byNumber[n] \in Block /\ Number[byNumber[n]] = n
           /\ byNumber[Number[head]] = head /\ byNumber[0] = Genesis
           /\ \A n \in 1 .. Number[head] : Parent[byNumber[n]] = byNumber[n - 1]
<1>1. head \in Block /\ Number[head] \in Nat /\ known \subseteq Block
  BY Links DEF Store
<1>2. PICK f : f = byNumber /\ IsPath(f, head) /\ Levelled(f, head, known)
  <2>1. IsPath(PathTo(head), head)
    BY <1>1, PathToIsPath DEF Store, Rooted
  <2> QED
    BY <2>1 DEF Store, Rooted
<1>3. f \in [0 .. Number[head] -> known] /\ \A n \in 0 .. Number[head] : Number[f[n]] = n
  BY <1>2 DEF Levelled
<1>4. f[Number[head]] = head /\ \A n \in 1 .. Number[head] : Parent[f[n]] = f[n - 1]
  BY <1>1, <1>2, PathIsCanonical
<1>5. f[0] = Genesis
  <2>1. 0 \in 0 .. Number[head]
    BY <1>1
  <2>2. f[0] \in known /\ Number[f[0]] = 0
    BY <1>3, <2>1
  <2>3. \A b \in known \ {Genesis} : Number[b] # 0
    BY <1>1, Links DEF Store, ParentKnown
  <2> QED
    BY <2>2, <2>3
<1> QED
  BY <1>1, <1>2, <1>3, <1>4, <1>5

\* The writes of one round of either loop.
IndexOps(n) ==
    LET b == byNumber[n]
    IN  (IF KeepsBody(n) THEN {PutBlock(b)} ELSE {Put(HeaderKey(b), b), Delete(BlockKey(b))})
        \cup {Put(HeightKey(n), b)}
SnapshotOps(n) ==
    LET b == byNumber[n]
    IN  IF b \in DOMAIN snapshots THEN {Put(SnapshotKey(b), snapshots[b])} ELSE {}
ChainOps == UNION {IndexOps(n) \cup SnapshotOps(n) : n \in 0 .. Number[head]}

\* The lists of a round hold its writes, in an order that keeps the header.
LEMMA RoundShape ==
    ASSUME NEW n, NEW S, IndexOps(n) \cup SnapshotOps(n) \subseteq S
    PROVE  /\ HeightWrites(n) \in Seq(S) /\ SnapshotWrites(n) \in Seq(S)
           /\ Range(HeightWrites(n)) = IndexOps(n)
           /\ Range(SnapshotWrites(n)) = SnapshotOps(n)
           /\ Guarded(HeightWrites(n)) /\ Guarded(SnapshotWrites(n))
<1>1. PICK b, u, v, w, x : /\ b = byNumber[n] /\ u = PutBlock(b) /\ v = Put(HeaderKey(b), b)
                           /\ w = Delete(BlockKey(b)) /\ x = Put(HeightKey(n), b)
  BY Zenon
<1>2. \A c : /\ u # Delete(BlockKey(c)) /\ v # Delete(BlockKey(c)) /\ x # Delete(BlockKey(c))
             /\ w = Delete(BlockKey(c)) => c = b
  <2>1. u.op = "put" /\ v.op = "put" /\ x.op = "put"
    BY <1>1 DEF PutBlock, Put
  <2>2. \A c : Delete(BlockKey(c)).op = "delete" /\ Delete(BlockKey(c)).key = BlockKey(c)
    BY DEF Delete
  <2> QED
    BY <1>1, <2>1, <2>2, Keys
<1>3. /\ HeightWrites(n) \in Seq(S) /\ Range(HeightWrites(n)) = IndexOps(n)
      /\ Guarded(HeightWrites(n))
  <2>1. CASE KeepsBody(n)
    <3>1. IndexOps(n) = {u, x}
      BY <1>1, <2>1 DEF IndexOps
    <3>2. HeightWrites(n) = <<u, x>>
      BY <1>1, <2>1, Zenon DEF HeightWrites
    <3>3. Range(<<u, x>>) = {u, x}
      BY DEF Range
    <3>4. Guarded(<<u, x>>)
      BY <1>2 DEF Guarded
    <3>5. <<u, x>> \in Seq(S)
      BY <3>1
    <3> QED
      BY <3>1, <3>2, <3>3, <3>4, <3>5
  <2>2. CASE ~KeepsBody(n)
    <3>1. IndexOps(n) = {v, w, x}
      BY <1>1, <2>2 DEF IndexOps
    <3>2. HeightWrites(n) = <<v, w, x>>
      BY <1>1, <2>2, Zenon DEF HeightWrites
    <3>3. Range(<<v, w, x>>) = {v, w, x}
      BY DEF Range
    <3>4. Guarded(<<v, w, x>>)
      BY <1>1, <1>2 DEF Guarded
    <3>5. <<v, w, x>> \in Seq(S)
      BY <3>1
    <3> QED
      BY <3>1, <3>2, <3>3, <3>4, <3>5
  <2> QED
    BY <2>1, <2>2
<1>4. /\ SnapshotWrites(n) \in Seq(S) /\ Range(SnapshotWrites(n)) = SnapshotOps(n)
      /\ Guarded(SnapshotWrites(n))
  <2>1. PICK y : y = Put(SnapshotKey(b), snapshots[b])
    BY Zenon
  <2>2. \A c : y # Delete(BlockKey(c))
    <3>1. y.op = "put" /\ \A c : Delete(BlockKey(c)).op = "delete"
      BY <2>1 DEF Put, Delete
    <3> QED
      BY <3>1
  <2>3. CASE b \in DOMAIN snapshots
    <3>1. SnapshotOps(n) = {y} /\ SnapshotWrites(n) = <<y>>
      BY <1>1, <2>1, <2>3, Zenon DEF SnapshotOps, SnapshotWrites
    <3>2. Range(<<y>>) = {y} /\ y \in S
      BY <3>1 DEF Range
    <3>3. Guarded(<<y>>)
      BY <2>2 DEF Guarded
    <3> QED
      BY <3>1, <3>2, <3>3
  <2>4. CASE b \notin DOMAIN snapshots
    <3>1. SnapshotOps(n) = {} /\ SnapshotWrites(n) = <<>>
      BY <1>1, <2>4, Zenon DEF SnapshotOps, SnapshotWrites
    <3>2. Range(<<>>) = {} /\ Guarded(<<>>)
      BY DEF Range, Guarded
    <3> QED
      BY <3>1, <3>2
  <2> QED
    BY <2>3, <2>4
<1> QED
  BY <1>3, <1>4

\* persist_canonical writes the block and the head, and then for every height
\* of the canonical chain what that height needs.
LEMMA WritesShape ==
    ASSUME Store, NEW W, W = Writes
    PROVE  /\ \E S : W \in Seq(S)
           /\ Len(W) \in Nat /\ Len(W) >= 2
           /\ W[1] = PutBlock(block) /\ W[2] = Put(HeadKey, head)
           /\ \A i \in 3 .. Len(W) : W[i] \in ChainOps
           /\ \A w \in ChainOps : \E i \in 3 .. Len(W) : W[i] = w
           /\ \A i \in 3 .. Len(W) : \A b :
                 W[i] = Delete(BlockKey(b)) => i > 3 /\ W[i - 1] = Put(HeaderKey(b), b)
<1> DEFINE n == Number[head]
           index == [i \in 0 .. n |-> HeightWrites(i)]
           state == [i \in 0 .. n |-> SnapshotWrites(i)]
<1>1. n \in Nat
  BY IndexShape
<1>2. ASSUME NEW i \in 0 .. n
      PROVE  /\ index[i] \in Seq(ChainOps) /\ state[i] \in Seq(ChainOps)
             /\ Range(index[i]) = IndexOps(i) /\ Range(state[i]) = SnapshotOps(i)
             /\ Guarded(index[i]) /\ Guarded(state[i])
  <2>1. IndexOps(i) \cup SnapshotOps(i) \subseteq ChainOps
    BY DEF ChainOps
  <2>2. index[i] = HeightWrites(i) /\ state[i] = SnapshotWrites(i)
    BY Zenon
  <2> QED
    BY <2>1, <2>2, RoundShape
<1>3. PICK I, J : I = Concat(index, n) /\ J = Concat(state, n)
  BY Zenon
<1>4. W = <<PutBlock(block), Put(HeadKey, head)>> \o I \o J
  BY <1>3, Zenon DEF Writes, IndexWrites, StateWrites
<1> HIDE DEF n, index, state
<1>5. /\ I \in Seq(ChainOps) /\ Guarded(I)
      /\ Range(I) = UNION {Range(index[i]) : i \in 0 .. n}
  BY <1>1, <1>2, <1>3, ConcatCollects
<1>6. /\ J \in Seq(ChainOps) /\ Guarded(J)
      /\ Range(J) = UNION {Range(state[i]) : i \in 0 .. n}
  BY <1>1, <1>2, <1>3, ConcatCollects
<1>7. PICK R : R = I \o J /\ R \in Seq(ChainOps) /\ Guarded(R) /\ Range(R) = Range(I) \cup Range(J)
  BY <1>5, <1>6, ConcatRange, GuardedConcat, ZenonT(30)
<1>8. Range(R) = ChainOps
  <2>1. \A i \in 0 .. n : Range(index[i]) = IndexOps(i) /\ Range(state[i]) = SnapshotOps(i)
    BY <1>2
  <2> QED
    BY <1>5, <1>6, <1>7, <2>1 DEF ChainOps, n
<1>9. PICK u, v, S : /\ u = PutBlock(block) /\ v = Put(HeadKey, head)
                     /\ S = ChainOps \cup {u, v}
  BY Zenon
<1>10. W = <<u, v>> \o R /\ <<u, v>> \in Seq(S) /\ R \in Seq(S)
  <2>1. <<u, v>> \in Seq(S) /\ I \in Seq(S) /\ J \in Seq(S) /\ R \in Seq(S)
    BY <1>5, <1>6, <1>7, <1>9
  <2>2. <<u, v>> \o I \o J = <<u, v>> \o (I \o J)
    BY <2>1
  <2> QED
    BY <1>4, <1>7, <1>9, <2>1, <2>2
<1>11. /\ W \in Seq(S) /\ Len(R) \in Nat /\ Len(W) = 2 + Len(R)
       /\ W[1] = u /\ W[2] = v
       /\ \A i \in 1 .. Len(R) : W[2 + i] = R[i]
  BY <1>10
<1>12. ASSUME NEW i \in 3 .. Len(W)
       PROVE  \E j \in 1 .. Len(R) : i = 2 + j /\ W[i] = R[j]
  <2>1. i - 2 \in 1 .. Len(R) /\ i = 2 + (i - 2)
    BY <1>11
  <2> QED
    BY <1>11, <2>1, Zenon
<1>13. ASSUME NEW i \in 3 .. Len(W) PROVE W[i] \in ChainOps
  <2>1. PICK j \in 1 .. Len(R) : W[i] = R[j]
    BY <1>12
  <2> QED
    BY <1>7, <2>1
<1>14. ASSUME NEW w \in ChainOps PROVE \E i \in 3 .. Len(W) : W[i] = w
  <2>1. PICK j \in 1 .. Len(R) : R[j] = w
    BY <1>7, <1>8 DEF Range
  <2>2. 2 + j \in 3 .. Len(W) /\ W[2 + j] = w
    BY <1>11, <2>1
  <2> QED
    BY <2>2
<1>15. ASSUME NEW i \in 3 .. Len(W), NEW b, W[i] = Delete(BlockKey(b))
       PROVE  i > 3 /\ W[i - 1] = Put(HeaderKey(b), b)
  <2>1. PICK j \in 1 .. Len(R) : i = 2 + j /\ W[i] = R[j]
    BY <1>12
  <2>2. j > 1 /\ R[j - 1] = Put(HeaderKey(b), b)
    BY <1>7, <1>15, <2>1, Zenon DEF Guarded
  <2>3. PICK k \in 1 .. Len(R) : k = j - 1 /\ i - 1 = 2 + k
    BY <1>11, <2>1, <2>2
  <2> QED
    BY <1>11, <2>1, <2>2, <2>3
<1> QED
  BY <1>9, <1>11, <1>13, <1>14, <1>15

\* A round writes each key once, and no two rounds write the same key.
LEMMA OpsAgree ==
    ASSUME Store, NEW v \in ChainOps, NEW w \in ChainOps, v.key = w.key
    PROVE  v = w /\ v.key # HeadKey
<1>1. PICK m \in 0 .. Number[head] : v \in IndexOps(m) \cup SnapshotOps(m)
  BY DEF ChainOps
<1>2. PICK n \in 0 .. Number[head] : w \in IndexOps(n) \cup SnapshotOps(n)
  BY DEF ChainOps
<1>3. PICK b, c : b = byNumber[m] /\ c = byNumber[n]
  OBVIOUS
<1>4. b = c => m = n
  BY <1>3, IndexShape, Zenon
<1>5. \A key, value : Put(key, value).key = key
  BY DEF Put
<1>6. \A key : Delete(key).key = key
  BY DEF Delete
<1>7. \A x : PutBlock(x).key = BlockKey(x)
  BY <1>5 DEF PutBlock
<1>8. \/ KeepsBody(m) /\ v = PutBlock(b)
      \/ ~KeepsBody(m) /\ v = Put(HeaderKey(b), b)
      \/ ~KeepsBody(m) /\ v = Delete(BlockKey(b))
      \/ v = Put(HeightKey(m), b)
      \/ v = Put(SnapshotKey(b), snapshots[b])
  BY <1>1, <1>3, Zenon DEF IndexOps, SnapshotOps
<1>9. \/ KeepsBody(n) /\ w = PutBlock(c)
      \/ ~KeepsBody(n) /\ w = Put(HeaderKey(c), c)
      \/ ~KeepsBody(n) /\ w = Delete(BlockKey(c))
      \/ w = Put(HeightKey(n), c)
      \/ w = Put(SnapshotKey(c), snapshots[c])
  BY <1>2, <1>3, Zenon DEF IndexOps, SnapshotOps
<1>10. v.key # HeadKey
  BY <1>5, <1>6, <1>7, <1>8, Keys
<1>11. m = n
  BY <1>4, <1>5, <1>6, <1>7, <1>8, <1>9, Keys
<1>12. v = w
  BY <1>3, <1>5, <1>6, <1>7, <1>8, <1>9, <1>11, Keys
<1> QED
  BY <1>10, <1>12

\* persist_canonical is before its i-th write, and those from the second on have
\* their effect.  (The first, the imported block, may be undone by a round.)
Progress(i) ==
    /\ i \in 1 .. Len(Writes) + 1
    /\ todo = SubSeq(Writes, i, Len(Writes))
    /\ \A j \in 2 .. i - 1 : Effect(Writes[j])

\* The writes are those of the store as it was when persist_canonical began.
LEMMA WritesSame ==
    ASSUME UNCHANGED <<bodies, byNumber, head, snapshots, cfg, block>>
    PROVE  Writes' = Writes /\ PutsStripped' = PutsStripped
<1>1. \A n : HeightWrites(n)' = HeightWrites(n)
  BY Zenon DEF HeightWrites, PutBlock, KeepsBody, SaturatingSub, BodyOf
<1>2. \A n : SnapshotWrites(n)' = SnapshotWrites(n)
  BY Zenon DEF SnapshotWrites
<1>3. [n \in 0 .. Number[head] |-> HeightWrites(n)]'
      = [n \in 0 .. Number[head] |-> HeightWrites(n)]
  BY <1>1
<1>4. [n \in 0 .. Number[head] |-> SnapshotWrites(n)]'
      = [n \in 0 .. Number[head] |-> SnapshotWrites(n)]
  BY <1>2
<1>5. IndexWrites' = IndexWrites
  BY <1>3, Zenon DEF IndexWrites
<1>6. StateWrites' = StateWrites
  BY <1>4, Zenon DEF StateWrites
<1>7. PutBlock(block)' = PutBlock(block)
  BY Zenon DEF PutBlock, BodyOf
<1>8. PutsStripped' = PutsStripped
  BY Zenon DEF PutsStripped, KeepsBody, SaturatingSub
<1> QED
  BY <1>5, <1>6, <1>7, <1>8, Zenon DEF Writes

\* One write.
LEMMA WriteProgress ==
    ASSUME Store, NEW i, Progress(i), Write
    PROVE  /\ Writes' = Writes /\ i \in 1 .. Len(Writes)
           /\ Head(todo) = Writes[i]
           /\ Progress(i + 1)'
<1>1. PICK W : W = Writes
  OBVIOUS
<1>2. PICK S : W \in Seq(S)
  BY <1>1, WritesShape
<1>3. /\ Len(W) \in Nat /\ Len(W) >= 2 /\ W[2] = Put(HeadKey, head)
      /\ \A j \in 3 .. Len(W) : W[j] \in ChainOps
  BY <1>1, WritesShape
<1>4. Writes' = W
  <2>1. UNCHANGED <<bodies, byNumber, head, snapshots, cfg, block>>
    BY DEF Write, vars
  <2> QED
    BY <1>1, <2>1, WritesSame
<1>5. i \in 1 .. Len(W) + 1 /\ todo = SubSeq(W, i, Len(W)) /\ todo # <<>>
  BY <1>1 DEF Progress, Write
<1>6. i \in 1 .. Len(W)
  BY <1>2, <1>3, <1>5
<1>7. Head(todo) = W[i] /\ Tail(todo) = SubSeq(W, i + 1, Len(W))
  BY <1>2, <1>3, <1>5, <1>6
<1>8. todo' = SubSeq(W, i + 1, Len(W))
  BY <1>7, Zenon DEF Write
<1>9. PICK w : w = W[i] /\ w = Head(todo)
  BY <1>7
<1>10. /\ Effect(w)'
       /\ \A key : key # w.key => /\ Has(key)' <=> Has(key)
                                  /\ Has(key) => disk'[key] = disk[key]
  BY <1>9, DiskAfter
<1>11. ASSUME NEW j \in 2 .. i PROVE Effect(W[j])'
  <2>1. CASE j = i
    BY <1>9, <1>10, <2>1, Zenon
  <2>2. CASE j # i
    <3>1. j \in 2 .. i - 1 /\ Effect(W[j])
      BY <1>1, <1>5, <2>2 DEF Progress
    <3>2. PICK x : x = W[j]
      OBVIOUS
    <3>3. CASE x.key = w.key
      <4>1. w \in ChainOps
        <5>1. i \in 3 .. Len(W)
          BY <1>3, <1>6, <3>1
        <5> QED
          BY <1>3, <1>9, <5>1, Zenon
      <4>2. CASE j = 2
        <5>1. x.key = HeadKey
          BY <1>3, <3>2, <4>2 DEF Put
        <5>2. w.key # HeadKey
          BY <4>1, OpsAgree
        <5> QED
          BY <3>3, <5>1, <5>2
      <4>3. CASE j # 2
        <5>1. x \in ChainOps
          BY <1>3, <1>6, <3>1, <3>2, <4>3
        <5>2. x = w
          BY <3>3, <4>1, <5>1, OpsAgree
        <5> QED
          BY <1>10, <3>2, <5>2
      <4> QED
        BY <4>2, <4>3
    <3>4. CASE x.key # w.key
      <4>1. (Has(x.key)' <=> Has(x.key)) /\ (Has(x.key) => disk'[x.key] = disk[x.key])
        BY <1>10, <3>4
      <4> QED
        BY <3>1, <3>2, <4>1 DEF Effect
    <3> QED
      BY <3>3, <3>4
  <2> QED
    BY <2>1, <2>2
<1>12. Progress(i + 1)'
  <2>1. i + 1 \in 1 .. Len(W) + 1 /\ (i + 1) - 1 = i
    BY <1>3, <1>6
  <2>2. \A j \in 2 .. (i + 1) - 1 : Effect(W[j])'
    BY <1>11, <2>1
  <2> QED
    BY <1>4, <1>8, <2>1, <2>2 DEF Progress
<1> QED
  BY <1>1, <1>4, <1>6, <1>9, <1>12

----------------------------------------------------------------------------
(* Persist: what load_into accepts, and the store in memory.               *)

\* What the database says of the chain.
DiskSound ==
    /\ Has(HeadKey) => DiskHead \in Block
    /\ \A n \in Nat : Has(HeightKey(n)) => OnDisk(n) \in Block /\ Number[OnDisk(n)] = n

\* The chain that load_into accepts is one chain of parent links from genesis.
LEMMA LoadedChain ==
    ASSUME DiskSound, ChainLoads, Has(HeadKey)
    PROVE  /\ DiskHeight \in Nat /\ Loaded \subseteq Block /\ Rooted(Loaded)
           /\ LoadedHead \in Loaded /\ Number[LoadedHead] = DiskHeight
           /\ \A n \in 0 .. DiskHeight : /\ Has(HeightKey(n)) /\ OnDisk(n) \in Loaded
                                         /\ Number[OnDisk(n)] = n
           /\ \A n \in 1 .. DiskHeight : Parent[OnDisk(n)] = OnDisk(n - 1)
           /\ OnDisk(0) = Genesis
           /\ PathTo(LoadedHead) = [n \in 0 .. DiskHeight |-> OnDisk(n)]
<1>1. PICK d : d = DiskHeight
  OBVIOUS
<1>2. d \in Nat
  BY <1>1, Links, Zenon DEF DiskSound, DiskHeight
<1>3. PICK f : f = [n \in 0 .. d |-> OnDisk(n)]
  BY Zenon
<1>4. \A n \in 0 .. d : f[n] = OnDisk(n)
  BY <1>3
<1>5. \A n \in 0 .. d : Has(HeightKey(n)) /\ f[n] \in Block /\ Number[f[n]] = n
  BY <1>1, <1>2, <1>4 DEF DiskSound, ChainLoads
<1>6. f[0] = Genesis
  BY <1>2, <1>4 DEF ChainLoads
<1>7. ASSUME NEW n \in 1 .. d PROVE Parent[f[n]] = f[n - 1]
  <2>1. /\ Parent[f[n]] \in {OnDisk(m) : m \in 0 .. n - 1}
        /\ Number[f[n]] = Number[Parent[f[n]]] + 1
    BY <1>1, <1>2, <1>4 DEF ChainLoads, InsertableFromDisk
  <2>2. PICK m \in 0 .. n - 1 : Parent[f[n]] = OnDisk(m)
    BY <2>1
  <2>3. m \in 0 .. d /\ n \in 0 .. d
    BY <1>2
  <2>4. Parent[f[n]] = f[m] /\ Number[f[m]] = m /\ Number[f[n]] = n
    BY <1>4, <1>5, <2>2, <2>3
  <2> QED
    BY <1>2, <2>1, <2>3, <2>4
<1>8. PICK tip : tip = f[d]
  OBVIOUS
<1>9. tip \in Block /\ Number[tip] = d /\ tip = LoadedHead
  BY <1>1, <1>2, <1>4, <1>5, <1>8 DEF LoadedHead
<1>10. PathTo(tip) = f
  <2>1. \A i \in 0 .. d - 1 : f[i] = Parent[f[i + 1]]
    <3> SUFFICES ASSUME NEW i \in 0 .. d - 1 PROVE f[i] = Parent[f[i + 1]]
      OBVIOUS
    <3>1. i + 1 \in 1 .. d /\ (i + 1) - 1 = i
      BY <1>2
    <3> QED
      BY <1>7, <3>1
  <2>2. f = [i \in 0 .. d |-> f[i]]
    BY <1>3
  <2>3. IsPath(f, tip)
    BY <1>8, <1>9, <2>1, <2>2, PathShape, Zenon
  <2>4. IsPath(PathTo(tip), tip)
    BY <1>9, <2>3, PathToIsPath
  <2> QED
    BY <1>9, <2>3, <2>4, PathUnique
<1>11. PICK L : L = Loaded
  OBVIOUS
<1>12. L = {f[n] : n \in 0 .. d}
  BY <1>1, <1>4, <1>11 DEF Loaded
<1>13. Rooted(L)
  <2> DEFINE Upto(m) == {f[n] : n \in 0 .. m}
             T == {m \in 0 .. d : Rooted(Upto(m))}
  <2>1. 0 \in T
    <3>1. Upto(0) = {Genesis}
      BY <1>6
    <3> QED
      BY <1>2, <3>1, GenesisRooted
  <2>2. ASSUME NEW m \in 0 .. d - 1, m \in T PROVE m + 1 \in T
    <3>1. m + 1 \in 1 .. d /\ m + 1 \in 0 .. d /\ m \in 0 .. d /\ (m + 1) - 1 = m
      BY <1>2
    <3>2. PICK K, b : K = Upto(m) /\ b = f[m + 1]
      BY Zenon
    <3>3. Upto(m + 1) = K \cup {b}
      BY <1>2, <3>2
    <3>4. K \in SUBSET Block
      BY <1>2, <1>5, <3>2
    <3>5. f[m] \in K
      BY <1>2, <3>2
    <3>6. Parent[b] = f[m] /\ b \in Block /\ Number[b] = m + 1 /\ Number[f[m]] = m
      BY <1>5, <1>7, <3>1, <3>2
    <3>7. Rooted(K)
      BY <2>2, <3>2
    <3> HIDE DEF Upto
    <3>8. Rooted(K \cup {b})
      BY <3>4, <3>5, <3>6, <3>7, InsertKeepsRooted, Zenon
    <3> QED
      BY <3>1, <3>3, <3>8
  <2>3. \A m \in 0 .. d - 1 : m \in T => m + 1 \in T
    BY <2>2
  <2>4. Upto(d) = L
    BY <1>12
  <2> HIDE DEF T, Upto
  <2>5. 0 .. d \subseteq T
    BY <1>2, <2>1, <2>3, SetInduction
  <2>6. d \in T
    BY <1>2, <2>5
  <2> QED
    BY <2>4, <2>6 DEF T
<1>14. L \subseteq Block /\ tip \in L /\ \A n \in 0 .. d : f[n] \in L
  BY <1>2, <1>5, <1>8, <1>12
<1>15. \A n \in 1 .. d : Parent[OnDisk(n)] = OnDisk(n - 1)
  <2> SUFFICES ASSUME NEW n \in 1 .. d PROVE Parent[OnDisk(n)] = OnDisk(n - 1)
    OBVIOUS
  <2>1. n \in 0 .. d /\ n - 1 \in 0 .. d
    BY <1>2
  <2> QED
    BY <1>4, <1>7, <2>1
<1>16. \A n \in 0 .. d : Has(HeightKey(n)) /\ OnDisk(n) \in L /\ Number[OnDisk(n)] = n
  BY <1>4, <1>5, <1>14
<1>17. OnDisk(0) = Genesis
  BY DEF ChainLoads
<1> QED
  BY <1>1, <1>2, <1>3, <1>9, <1>10, <1>11, <1>13, <1>14, <1>15, <1>16, <1>17, Zenon

\* load_into accepts what is on disk of a block of the chain.
Readable(b) ==
    IF Has(BlockKey(b)) THEN b \in ValidBody /\ disk[BlockKey(b)] = TxsOf[b]
    ELSE Has(HeaderKey(b))

\* A start from this disk gives the chain that is in memory.
Serves ==
    /\ Has(HeadKey) /\ DiskHeight = Number[head] /\ Has(BlockKey(DiskHead))
    /\ Has(BlockKey(Genesis))
    /\ \A n \in 0 .. Number[head] : Has(HeightKey(n)) /\ OnDisk(n) = byNumber[n]
    /\ \A n \in 1 .. Number[head] : Readable(byNumber[n])

\* load_into accepts such a disk, and ends on that head.
LEMMA ServesLoads ==
    ASSUME Store, Serves
    PROVE  ChainLoads /\ LoadedHead = head
<1>1. PICK h : h = Number[head]
  OBVIOUS
<1>2. /\ h \in Nat /\ byNumber \in [0 .. h -> known] /\ byNumber[0] = Genesis
      /\ byNumber[h] = head
      /\ \A n \in 0 .. h : byNumber[n] \in Block /\ Number[byNumber[n]] = n
      /\ \A n \in 1 .. h : Parent[byNumber[n]] = byNumber[n - 1]
  BY <1>1, IndexShape
<1>3. /\ DiskHeight = h
      /\ \A n \in 0 .. h : Has(HeightKey(n)) /\ OnDisk(n) = byNumber[n]
      /\ \A n \in 1 .. h : Readable(byNumber[n])
  BY <1>1 DEF Serves
<1>4. LoadedHead = head
  BY <1>2, <1>3 DEF LoadedHead
<1>5. ASSUME NEW n \in 1 .. h PROVE Has(HeightKey(n)) /\ InsertableFromDisk(n)
  <2>1. n \in 0 .. h /\ n - 1 \in 0 .. h /\ n - 1 \in 0 .. n - 1
    BY <1>2
  <2>2. PICK b : b = OnDisk(n)
    OBVIOUS
  <2>3. /\ b = byNumber[n] /\ Has(HeightKey(n)) /\ Readable(b) /\ Number[b] = n
        /\ Parent[b] = OnDisk(n - 1) /\ Number[OnDisk(n - 1)] = n - 1
    BY <1>2, <1>3, <2>1, <2>2
  <2>4. b # Genesis /\ b \in known
    BY <1>2, <2>1, <2>3, Links
  <2>5. b \in ValidHeader
    BY <2>4 DEF Store
  <2>6. Parent[b] \in {OnDisk(m) : m \in 0 .. n - 1}
    BY <2>1, <2>3
  <2>7. Number[b] = Number[Parent[b]] + 1
    BY <2>3
  <2> QED
    BY <2>2, <2>3, <2>5, <2>6, <2>7, Zenon
    DEF InsertableFromDisk, WithBody, Readable, BodyPasses
<1>6. Has(HeightKey(0)) /\ WithBody(0) /\ OnDisk(0) = Genesis
  <2>1. 0 \in 0 .. h
    BY <1>2
  <2>2. OnDisk(0) = Genesis /\ Has(HeightKey(0))
    BY <1>2, <1>3, <2>1
  <2> QED
    BY <2>2 DEF WithBody, Serves
<1>7. Has(BlockKey(DiskHead))
  BY DEF Serves
<1> QED
  BY <1>3, <1>4, <1>5, <1>6, <1>7 DEF ChainLoads

\* Conversely, once it has been loaded.
LEMMA LoadsServe ==
    ASSUME DiskSound, ChainLoads, Has(HeadKey),
           head' = LoadedHead, byNumber' = PathTo(LoadedHead), disk' = disk
    PROVE  Serves'
<1>1. PICK d : d = DiskHeight
  OBVIOUS
<1>2. /\ d \in Nat /\ Number[LoadedHead] = d
      /\ \A n \in 0 .. d : /\ Has(HeightKey(n)) /\ OnDisk(n) \in Loaded
                           /\ Number[OnDisk(n)] = n
      /\ PathTo(LoadedHead) = [n \in 0 .. d |-> OnDisk(n)]
  BY <1>1, LoadedChain
<1>3. Number[head'] = d /\ \A n \in 0 .. d : byNumber'[n] = OnDisk(n)
  BY <1>2
<1>4. \A n \in 1 .. d : Readable(OnDisk(n))
  BY <1>1 DEF ChainLoads, InsertableFromDisk, BodyPasses, WithBody, Readable
<1>5. /\ Has(BlockKey(DiskHead)) /\ Has(BlockKey(Genesis))
  BY DEF ChainLoads, WithBody
<1>6. \A b : Readable(b)' <=> Readable(b)
  BY DEF Readable, Has
<1>7. \A n \in 1 .. d : Readable(byNumber[n])'
  <2> SUFFICES ASSUME NEW n \in 1 .. d PROVE Readable(byNumber[n])'
    OBVIOUS
  <2>1. n \in 0 .. d
    BY <1>2
  <2>2. PICK b : b = OnDisk(n) /\ b = byNumber'[n]
    BY <1>3, <2>1
  <2>3. Readable(b)'
    BY <1>4, <1>6, <2>2, Zenon
  <2> QED
    BY <2>2, <2>3, Zenon DEF Readable, Has
<1>8. \A n \in 0 .. d : Has(HeightKey(n))' /\ OnDisk(n)' = byNumber'[n]
  BY <1>2, <1>3 DEF Has, OnDisk
<1>9. /\ Has(HeadKey)' /\ DiskHeight' = d /\ Has(BlockKey(DiskHead))' /\ Has(BlockKey(Genesis))'
  BY <1>1, <1>5 DEF Has, DiskHeight, DiskHead
<1> QED
  BY <1>3, <1>7, <1>8, <1>9 DEF Serves

\* The start state of a node, before it has read anything.
LEMMA StoreInit == Init => Store
<1> SUFFICES ASSUME Init PROVE Store
  OBVIOUS
<1>1. IInv
  BY InitStep
<1>2. PathTo(Genesis) = byNumber
  <2>1. Number[Genesis] = 0 /\ Genesis \in Block
    BY Links
  <2>2. IsPath(PathTo(Genesis), Genesis)
    BY <2>1, PathToIsPath, GenesisRooted DEF Rooted
  <2>3. IsPath([n \in {0} |-> Genesis], Genesis)
    BY <2>1 DEF IsPath
  <2> QED
    BY <2>1, <2>2, <2>3, PathUnique DEF Init
<1> QED
  BY <1>1, <1>2 DEF IInv, Store, Init, StoreTypeOK

\* A crash leaves the memory as a new process finds it.
LEMMA StoreCrash == Crash => Store'
<1> SUFFICES ASSUME Crash PROVE Store'
  OBVIOUS
<1>1. Init'
  BY Zenon DEF Crash, Init
<1>2. Init' => Store'
  BY StoreInit, PTL
<1> QED
  BY <1>1, <1>2

\* An import.
LEMMA StoreImport ==
    ASSUME Store, NEW b \in Block, NEW txs, Import(b, txs)
    PROVE  /\ Store' /\ b \in bodies'
           /\ \/ UNCHANGED <<head, byNumber, live>>
              \/ head' = b /\ Better(b, head)
<1> DEFINE post == PostState(snapshots, b, txs)
<1>1. /\ known' = known \cup {b} /\ bodies' = bodies \cup {b}
      /\ snapshots' = [c \in DOMAIN snapshots \cup {b} |-> IF c = b THEN post ELSE snapshots[c]]
  BY DEF Import
<1>2. /\ Parent[b] \in known /\ Number[b] = Number[Parent[b]] + 1
      /\ b \in ValidHeader /\ b \in ValidBody /\ b \notin known
  BY DEF Import, Insertable, BodyPasses
<1>3. \/ Better(b, head) /\ head' = b /\ byNumber' = PathTo(b) /\ live' = post
      \/ UNCHANGED <<head, byNumber, live>>
  BY DEF Import, SetCanonical, ResetLive
<1> HIDE DEF post
<1>4. known \in SUBSET Block
  BY DEF Store
<1>5. ParentKnown'
  BY <1>1, <1>2 DEF Store, ParentKnown
<1>6. Rooted(known')
  BY <1>1, <1>2, <1>4, InsertKeepsRooted DEF Store
<1>7. /\ known' \ {Genesis} \subseteq ValidHeader
      /\ bodies' \ {Genesis} \subseteq ValidBody
      /\ known' \subseteq Block /\ bodies' \subseteq known' /\ DOMAIN snapshots' \subseteq known'
  BY <1>1, <1>2 DEF Store
<1>8. head' \in known' /\ byNumber' = PathTo(head')
  BY <1>1, <1>3, Zenon DEF Store
<1>9. LiveFollowsHead'
  BY <1>1, <1>2, <1>3 DEF Store, LiveFollowsHead
<1> QED
  BY <1>1, <1>3, <1>5, <1>6, <1>7, <1>8, <1>9 DEF Store

\* Pruning after persist_canonical drops bodies and snapshots, but not the
\* head's snapshot.
LEMMA StorePrune ==
    ASSUME Store, PruneStore, cfg.keep \in Nat
    PROVE  /\ Store' /\ UNCHANGED <<known, byNumber, head, live>>
           /\ \A b \in DOMAIN snapshots' : b \in DOMAIN snapshots /\ snapshots'[b] = snapshots[b]
<1>1. head \in ChainFromHead
  <2>1. /\ Number[head] \in Nat /\ byNumber \in [0 .. Number[head] -> known]
        /\ byNumber[Number[head]] = head
    BY IndexShape
  <2>2. head \in Range(byNumber)
    BY <2>1 DEF Range
  <2> QED
    BY <2>2, Zenon DEF Store, ChainFromHead
<1>2. UNCHANGED <<known, byNumber, head, live>> /\ bodies' \subseteq bodies
  BY DEF PruneStore, PruneSnapshots, PruneSnapshotsKeep
<1>3. Cutoff(cfg.keep) <= Number[head] /\ Number[head] \in Nat
  BY IndexShape, CutoffBelowHead
<1>4. head \in DOMAIN snapshots
  BY DEF Store, LiveFollowsHead
<1>5. PICK D \in SUBSET DOMAIN snapshots : head \in D /\ snapshots' = [b \in D |-> snapshots[b]]
  <2>1. CASE cfg.archive
    <3> DEFINE D == {b \in DOMAIN snapshots : b \in ChainFromHead}
    <3>1. snapshots' = [b \in D |-> snapshots[b]]
      BY <2>1 DEF PruneStore, PruneSnapshots, RestrictDomain, Restrict
    <3> QED
      BY <1>1, <1>4, <3>1
  <2>2. CASE ~cfg.archive
    <3> DEFINE D == {b \in DOMAIN snapshots :
                        b \in ChainFromHead /\ Number[b] >= Cutoff(cfg.keep)}
    <3>1. snapshots' = [b \in D |-> snapshots[b]]
      BY <2>2 DEF PruneStore, PruneSnapshotsKeep, RestrictDomain, Restrict
    <3>2. head \in D
      <4>1. Cutoff(cfg.keep) \in Int
        BY <1>3 DEF Cutoff, SaturatingSub
      <4> QED
        BY <1>1, <1>3, <1>4, <4>1
    <3> QED
      BY <3>1, <3>2
  <2> QED
    BY <2>1, <2>2
<1>6. LiveFollowsHead'
  BY <1>2, <1>5 DEF Store, LiveFollowsHead
<1>7. ParentKnown'
  BY <1>2 DEF Store, ParentKnown
<1>8. DOMAIN snapshots' \subseteq known' /\ bodies' \subseteq known'
  BY <1>2, <1>5 DEF Store
<1>9. bodies' \ {Genesis} \subseteq ValidBody
  BY <1>2 DEF Store
<1>10. Store'
  BY <1>2, <1>6, <1>7, <1>8, <1>9, Zenon DEF Store
<1> QED
  BY <1>2, <1>5, <1>10

\* The reload.
LEMMA StoreStart ==
    ASSUME DiskSound, StartFromDisk
    PROVE  Store' /\ Serves' /\ Number[head'] = DiskHeight
<1>1. /\ Has(HeadKey) /\ ChainLoads
      /\ known' = Loaded /\ bodies' = LoadedBodies /\ head' = LoadedHead
      /\ byNumber' = PathTo(LoadedHead) /\ snapshots' = LoadedSnapshots /\ live' = LoadedLive
      /\ disk' = disk
  BY DEF StartFromDisk, Starts
<1>2. PICK d : d = DiskHeight
  OBVIOUS
<1>3. /\ d \in Nat /\ Loaded \subseteq Block /\ Rooted(Loaded)
      /\ LoadedHead \in Loaded /\ Number[LoadedHead] = d
      /\ \A n \in 0 .. d : OnDisk(n) \in Loaded /\ Number[OnDisk(n)] = n
      /\ \A n \in 1 .. d : Parent[OnDisk(n)] = OnDisk(n - 1)
      /\ OnDisk(0) = Genesis
  BY <1>1, <1>2, LoadedChain
<1>4. ASSUME NEW b \in Loaded, b # Genesis
      PROVE  \E n \in 1 .. d : b = OnDisk(n)
  <2>1. PICK n \in 0 .. d : b = OnDisk(n)
    BY <1>2 DEF Loaded
  <2>2. n \in 1 .. d
    BY <1>3, <1>4, <2>1
  <2> QED
    BY <2>1, <2>2
<1>5. \A n \in 1 .. d : InsertableFromDisk(n)
  BY <1>1, <1>2 DEF ChainLoads
<1>6. ParentKnown'
  <2>1. Genesis \in Loaded
    BY <1>3
  <2>2. ASSUME NEW b \in Loaded \ {Genesis}
        PROVE  Parent[b] \in Loaded /\ Number[b] = Number[Parent[b]] + 1
    <3>1. PICK n \in 1 .. d : b = OnDisk(n)
      BY <1>4
    <3>2. n - 1 \in 0 .. d /\ n \in 0 .. d
      BY <1>3
    <3>3. Parent[b] = OnDisk(n - 1) /\ OnDisk(n - 1) \in Loaded
      BY <1>3, <3>1, <3>2
    <3>4. Number[OnDisk(n - 1)] = n - 1 /\ Number[b] = n
      BY <1>3, <3>1, <3>2
    <3> QED
      BY <1>3, <3>3, <3>4
  <2> QED
    BY <1>1, <2>1, <2>2 DEF ParentKnown
<1>7. Loaded \ {Genesis} \subseteq ValidHeader
  <2> SUFFICES ASSUME NEW b \in Loaded, b # Genesis PROVE b \in ValidHeader
    OBVIOUS
  <2>1. PICK n \in 1 .. d : b = OnDisk(n)
    BY <1>4
  <2> QED
    BY <1>5, <2>1 DEF InsertableFromDisk
<1>8. LoadedBodies \subseteq Loaded
  BY DEF LoadedBodies, Loaded
<1>9. LoadedBodies \ {Genesis} \subseteq ValidBody
  <2> SUFFICES ASSUME NEW b \in LoadedBodies, b # Genesis PROVE b \in ValidBody
    OBVIOUS
  <2>1. PICK m \in 0 .. d : b = OnDisk(m) /\ WithBody(m)
    BY <1>2 DEF LoadedBodies
  <2>2. m \in 1 .. d
    BY <1>3, <2>1
  <2> QED
    BY <1>5, <2>1, <2>2 DEF InsertableFromDisk, BodyPasses
<1>10. DOMAIN LoadedSnapshots \subseteq Loaded
  BY DEF LoadedSnapshots
<1>11. LiveFollowsHead'
  <2>1. LoadedHead \in DOMAIN LoadedSnapshots /\ LoadedLive = LoadedSnapshots[LoadedHead]
    <3>1. CASE Restored
      BY <1>3, <3>1 DEF LoadedSnapshots, LoadedLive, Restored
    <3>2. CASE ~Restored
      BY <1>2, <1>3, <3>2 DEF LoadedSnapshots, LoadedLive
    <3> QED
      BY <3>1, <3>2
  <2> QED
    BY <1>1, <2>1 DEF LiveFollowsHead
<1>12. Store'
  BY <1>1, <1>3, <1>6, <1>7, <1>8, <1>9, <1>10, <1>11, Zenon DEF Store
<1>13. Serves'
  BY <1>1, LoadsServe
<1> QED
  BY <1>1, <1>2, <1>3, <1>12, <1>13

----------------------------------------------------------------------------
(* Persist: the inductive invariant, and a single write.                   *)

\* Where the node is in a start, an import or persist_canonical.
Stage ==
    /\ mode \in {"down", "up", "import", "write"}
    /\ cfg.keep \in Nat \ {0} /\ cfg.archive \in BOOLEAN
    /\ mode = "down" => head = Genesis /\ Genesis \in bodies
    /\ mode \in {"import", "write"} => block \in bodies
    /\ mode = "write" => (\E i : Progress(i)) /\ (PutsStripped => thinned)

\* What the database keeps of a head that persist_canonical confirmed.
Confirmed ==
    /\ durable \in Block /\ Has(HeadKey) /\ Has(SnapshotKey(durable))
    /\ Number[durable] <= DiskHeight
    /\ DiskHeight = Number[durable] =>
          /\ Has(BlockKey(durable))
          /\ Has(HeightKey(DiskHeight)) =>
                OnDisk(DiskHeight) = durable \/ Better(OnDisk(DiskHeight), durable)

\* The database is never ahead of a node that runs.
Order ==
    /\ mode # "down" /\ Has(HeadKey) => DiskHeight <= Number[head]
    /\ durable # ZeroHash => Confirmed
    /\ ConfirmedHeadKept

\* While the head is the confirmed one, the database holds it and its state.
Exact ==
    mode # "down" /\ durable = head => disk[SnapshotKey(head)] = live /\ (thinned \/ Serves)

\* The inductive invariant of a node and its database.
NodeInv == Store /\ DiskSound /\ Stage /\ Order /\ Exact

\* What one write of persist_canonical can be.
WriteOf(w) ==
    \/ w = PutBlock(block)
    \/ w = Put(HeadKey, head)
    \/ /\ Has(HeadKey) /\ DiskHead = head
       /\ \E n \in 0 .. Number[head] :
             \/ KeepsBody(n) /\ w = PutBlock(byNumber[n])
             \/ ~KeepsBody(n) /\ w = Put(HeaderKey(byNumber[n]), byNumber[n])
             \/ /\ ~KeepsBody(n) /\ w = Delete(BlockKey(byNumber[n]))
                /\ Has(HeaderKey(byNumber[n]))
             \/ w = Put(HeightKey(n), byNumber[n])
             \/ /\ byNumber[n] \in DOMAIN snapshots
                /\ w = Put(SnapshotKey(byNumber[n]), snapshots[byNumber[n]])

\* One write: what it is, what it leaves on disk, and that it touches no other
\* key.
LEMMA WriteMeans ==
    ASSUME Store, Stage, Write
    PROVE  /\ Stage'
           /\ \E w : /\ WriteOf(w) /\ Effect(w)'
                     /\ \A key : key # w.key => /\ Has(key)' <=> Has(key)
                                                /\ Has(key) => disk'[key] = disk[key]
<1>1. PICK i : Progress(i)
  BY DEF Stage, Write
<1>2. /\ Writes' = Writes /\ i \in 1 .. Len(Writes) /\ Head(todo) = Writes[i]
      /\ Progress(i + 1)'
  BY <1>1, WriteProgress
<1>3. UNCHANGED <<mode, cfg, head, bodies, block, thinned, byNumber, snapshots>>
  BY DEF Write, vars
<1>4. PutsStripped' = PutsStripped
  BY <1>3, WritesSame
<1>5. Stage'
  BY <1>2, <1>3, <1>4 DEF Stage
<1>6. PICK w : w = Head(todo)
  OBVIOUS
<1>7. /\ Effect(w)'
      /\ \A key : key # w.key => /\ Has(key)' <=> Has(key)
                                 /\ Has(key) => disk'[key] = disk[key]
  BY <1>6, DiskAfter
<1>8. PICK W : W = Writes
  OBVIOUS
<1>9. /\ Len(W) \in Nat /\ Len(W) >= 2
      /\ W[1] = PutBlock(block) /\ W[2] = Put(HeadKey, head)
      /\ \A j \in 3 .. Len(W) : W[j] \in ChainOps
      /\ \A j \in 3 .. Len(W) : \A b :
            W[j] = Delete(BlockKey(b)) => j > 3 /\ W[j - 1] = Put(HeaderKey(b), b)
  BY <1>8, WritesShape
<1>10. i \in 1 .. Len(W) /\ w = W[i] /\ \A j \in 2 .. i - 1 : Effect(W[j])
  BY <1>1, <1>2, <1>6, <1>8 DEF Progress
<1>11. WriteOf(w)
  <2>1. CASE i = 1
    BY <1>9, <1>10, <2>1 DEF WriteOf
  <2>2. CASE i = 2
    BY <1>9, <1>10, <2>2 DEF WriteOf
  <2>3. CASE i \in 3 .. Len(W)
    <3>1. Has(HeadKey) /\ DiskHead = head
      <4>1. Effect(W[2]) /\ W[2] = Put(HeadKey, head)
        BY <1>9, <1>10, <2>3
      <4> QED
        BY <4>1 DEF Effect, Put, DiskHead
    <3>2. PICK n \in 0 .. Number[head] : w \in IndexOps(n) \cup SnapshotOps(n)
      BY <1>9, <1>10, <2>3 DEF ChainOps
    <3>3. PICK b : b = byNumber[n]
      OBVIOUS
    <3>4. ASSUME w = Delete(BlockKey(b)) PROVE Has(HeaderKey(b))
      <4>1. i > 3 /\ W[i - 1] = Put(HeaderKey(b), b)
        BY <1>9, <1>10, <2>3, <3>4, Zenon
      <4>2. i - 1 \in 2 .. i - 1
        BY <2>3, <4>1
      <4>3. Effect(W[i - 1])
        BY <1>10, <4>2
      <4> QED
        BY <4>1, <4>3 DEF Effect, Put
    <3>5. \/ KeepsBody(n) /\ w = PutBlock(b)
          \/ ~KeepsBody(n) /\ w = Put(HeaderKey(b), b)
          \/ ~KeepsBody(n) /\ w = Delete(BlockKey(b))
          \/ w = Put(HeightKey(n), b)
          \/ b \in DOMAIN snapshots /\ w = Put(SnapshotKey(b), snapshots[b])
      BY <3>2, <3>3, Zenon DEF IndexOps, SnapshotOps
    <3> QED
      BY <3>1, <3>3, <3>4, <3>5, ZenonT(30) DEF WriteOf
  <2> QED
    BY <1>9, <1>10, <2>1, <2>2, <2>3
<1> QED
  BY <1>5, <1>7, <1>11

\* A body that is deleted is not the head's, nor genesis'.
LEMMA StrippedBelowHead ==
    ASSUME Store, Stage, NEW n \in 0 .. Number[head], ~KeepsBody(n)
    PROVE  /\ n \in 1 .. Number[head] - 1
           /\ byNumber[n] \in Block /\ Number[byNumber[n]] = n
<1>1. Number[head] \in Nat /\ byNumber[n] \in Block /\ Number[byNumber[n]] = n
  BY IndexShape
<1>2. n # 0 /\ ~(SaturatingSub(Number[head], n) < cfg.keep)
  BY DEF KeepsBody
<1>3. Number[head] - n >= cfg.keep /\ cfg.keep \in Nat \ {0}
  BY <1>1, <1>2 DEF SaturatingSub, Stage
<1> QED
  BY <1>1, <1>2, <1>3

\* What one write can change, key by key.
LEMMA WriteKeys ==
    ASSUME Store, Stage, Write
    PROVE  /\ Has(HeadKey) => Has(HeadKey)'
           /\ Has(HeadKey)' => DiskHead' = head \/ (Has(HeadKey) /\ DiskHead' = DiskHead)
           /\ \A n : Has(HeightKey(n)) => Has(HeightKey(n))'
           /\ \A n : Has(HeightKey(n))' =>
                 \/ Has(HeightKey(n)) /\ OnDisk(n)' = OnDisk(n)
                 \/ /\ n \in 0 .. Number[head] /\ OnDisk(n)' = byNumber[n]
                    /\ Has(HeadKey) /\ DiskHead = head
           /\ \A b : Has(SnapshotKey(b)) => Has(SnapshotKey(b))'
           /\ \A b : Has(SnapshotKey(b))' =>
                 \/ Has(SnapshotKey(b)) /\ disk'[SnapshotKey(b)] = disk[SnapshotKey(b)]
                 \/ b \in DOMAIN snapshots /\ disk'[SnapshotKey(b)] = snapshots[b]
           /\ \A b : Has(HeaderKey(b)) => Has(HeaderKey(b))'
           /\ \A b : Has(BlockKey(b)) /\ ~Has(BlockKey(b))' =>
                 /\ Has(HeadKey) /\ DiskHead = head /\ Has(HeaderKey(b))
                 /\ Number[b] \in 1 .. Number[head] - 1
           /\ \A b : Has(BlockKey(b))' =>
                 \/ Has(BlockKey(b)) /\ disk'[BlockKey(b)] = disk[BlockKey(b)]
                 \/ /\ disk'[BlockKey(b)] = BodyOf(bodies, b)
                    /\ b \in bodies \/ b = Genesis \/ PutsStripped
<1>1. PICK w : /\ WriteOf(w) /\ Effect(w)'
               /\ \A key : key # w.key => /\ Has(key)' <=> Has(key)
                                          /\ Has(key) => disk'[key] = disk[key]
  BY WriteMeans
<1>2. ASSUME NEW c, w = PutBlock(c)
      PROVE  /\ Has(BlockKey(c))' /\ disk'[BlockKey(c)] = BodyOf(bodies, c)
             /\ w.key = BlockKey(c)
  <2>1. w.op = "put" /\ w.key = BlockKey(c) /\ w.value = BodyOf(bodies, c)
    BY <1>2 DEF PutBlock, Put
  <2> QED
    BY <1>1, <2>1, Zenon DEF Effect
<1>3. ASSUME NEW key, NEW value, w = Put(key, value)
      PROVE  Has(key)' /\ disk'[key] = value /\ w.key = key
  <2>1. w.op = "put" /\ w.key = key /\ w.value = value
    BY <1>3 DEF Put
  <2> QED
    BY <1>1, <2>1, Zenon DEF Effect
<1>4. ASSUME NEW key, w = Delete(key) PROVE w.key = key /\ ~Has(key)'
  <2>1. w.op = "delete" /\ w.key = key
    BY <1>4 DEF Delete
  <2> QED
    BY <1>1, <2>1, Zenon DEF Effect
<1>5. \A key : key = w.key \/ ((Has(key)' <=> Has(key)) /\ (Has(key) => disk'[key] = disk[key]))
  BY <1>1
<1>6. \/ \E c : /\ w.key = BlockKey(c) /\ Has(BlockKey(c))'
                /\ disk'[BlockKey(c)] = BodyOf(bodies, c)
                /\ c \in bodies \/ c = Genesis \/ PutsStripped
      \/ w.key = HeadKey /\ Has(HeadKey)' /\ DiskHead' = head
      \/ \E c : w.key = HeaderKey(c) /\ Has(HeaderKey(c))'
      \/ \E c : /\ w.key = BlockKey(c) /\ ~Has(BlockKey(c))' /\ Has(HeaderKey(c))
                /\ Has(HeadKey) /\ DiskHead = head
                /\ Number[c] \in 1 .. Number[head] - 1
      \/ \E n \in 0 .. Number[head] :
            /\ w.key = HeightKey(n) /\ Has(HeightKey(n))' /\ OnDisk(n)' = byNumber[n]
            /\ Has(HeadKey) /\ DiskHead = head
      \/ \E c \in DOMAIN snapshots :
            /\ w.key = SnapshotKey(c) /\ Has(SnapshotKey(c))'
            /\ disk'[SnapshotKey(c)] = snapshots[c]
  <2>1. CASE w = PutBlock(block)
    <3>1. block \in bodies
      BY DEF Stage, Write
    <3> QED
      BY <1>2, <2>1, <3>1, Zenon
  <2>2. CASE w = Put(HeadKey, head)
    BY <1>3, <2>2, Zenon DEF DiskHead
  <2>3. ASSUME Has(HeadKey), DiskHead = head, NEW n \in 0 .. Number[head], KeepsBody(n),
               w = PutBlock(byNumber[n])
        PROVE  \E c : /\ w.key = BlockKey(c) /\ Has(BlockKey(c))'
                      /\ disk'[BlockKey(c)] = BodyOf(bodies, c)
                      /\ c \in bodies \/ c = Genesis \/ PutsStripped
    <3>1. PICK c : c = byNumber[n]
      OBVIOUS
    <3>2. Number[head] \in Nat /\ byNumber[0] = Genesis
      BY IndexShape
    <3>3. c \in bodies \/ c = Genesis \/ PutsStripped
      <4>1. CASE n = 0
        BY <3>1, <3>2, <4>1
      <4>2. CASE n # 0
        <5>1. n \in 1 .. Number[head]
          BY <3>2, <4>2
        <5> QED
          BY <2>3, <3>1, <5>1 DEF PutsStripped
      <4> QED
        BY <4>1, <4>2
    <3> QED
      BY <1>2, <2>3, <3>1, <3>3, Zenon
  <2>4. ASSUME NEW n \in 0 .. Number[head], w = Put(HeaderKey(byNumber[n]), byNumber[n])
        PROVE  \E c : w.key = HeaderKey(c) /\ Has(HeaderKey(c))'
    BY <1>3, <2>4, Zenon
  <2>5. ASSUME Has(HeadKey), DiskHead = head, NEW n \in 0 .. Number[head], ~KeepsBody(n),
               w = Delete(BlockKey(byNumber[n])), Has(HeaderKey(byNumber[n]))
        PROVE  \E c : /\ w.key = BlockKey(c) /\ ~Has(BlockKey(c))' /\ Has(HeaderKey(c))
                      /\ Has(HeadKey) /\ DiskHead = head
                      /\ Number[c] \in 1 .. Number[head] - 1
    <3>1. Number[byNumber[n]] \in 1 .. Number[head] - 1
      BY <2>5, StrippedBelowHead
    <3> QED
      BY <1>4, <2>5, <3>1, Zenon
  <2>6. ASSUME Has(HeadKey), DiskHead = head, NEW n \in 0 .. Number[head],
               w = Put(HeightKey(n), byNumber[n])
        PROVE  /\ w.key = HeightKey(n) /\ Has(HeightKey(n))' /\ OnDisk(n)' = byNumber[n]
               /\ Has(HeadKey) /\ DiskHead = head
    BY <1>3, <2>6, Zenon DEF OnDisk
  <2>7. ASSUME NEW n \in 0 .. Number[head], byNumber[n] \in DOMAIN snapshots,
               w = Put(SnapshotKey(byNumber[n]), snapshots[byNumber[n]])
        PROVE  \E c \in DOMAIN snapshots :
                  /\ w.key = SnapshotKey(c) /\ Has(SnapshotKey(c))'
                  /\ disk'[SnapshotKey(c)] = snapshots[c]
    BY <1>3, <2>7, Zenon
  <2> QED
    BY <1>1, <2>1, <2>2, <2>3, <2>4, <2>5, <2>6, <2>7, Zenon DEF WriteOf
<1>7. PICK k : k = w.key
  OBVIOUS
<1>8. /\ Has(HeadKey) => Has(HeadKey)'
      /\ Has(HeadKey)' => DiskHead' = head \/ (Has(HeadKey) /\ DiskHead' = DiskHead)
  <2>1. CASE k = HeadKey
    BY <1>6, <1>7, <2>1, Keys, Zenon
  <2>2. CASE k # HeadKey
    BY <1>5, <1>7, <2>2, Zenon DEF DiskHead
  <2> QED
    BY <2>1, <2>2
<1>9. ASSUME NEW n
      PROVE  /\ Has(HeightKey(n)) => Has(HeightKey(n))'
             /\ Has(HeightKey(n))' =>
                 \/ Has(HeightKey(n)) /\ OnDisk(n)' = OnDisk(n)
                 \/ /\ n \in 0 .. Number[head] /\ OnDisk(n)' = byNumber[n]
                    /\ Has(HeadKey) /\ DiskHead = head
  <2>1. CASE k = HeightKey(n)
    BY <1>6, <1>7, <2>1, Keys, Zenon
  <2>2. CASE k # HeightKey(n)
    BY <1>5, <1>7, <2>2, ZenonT(30) DEF OnDisk
  <2> QED
    BY <2>1, <2>2
<1>10. ASSUME NEW b
       PROVE  /\ Has(SnapshotKey(b)) => Has(SnapshotKey(b))'
              /\ Has(SnapshotKey(b))' =>
                 \/ Has(SnapshotKey(b)) /\ disk'[SnapshotKey(b)] = disk[SnapshotKey(b)]
                 \/ b \in DOMAIN snapshots /\ disk'[SnapshotKey(b)] = snapshots[b]
  <2>1. CASE k = SnapshotKey(b)
    BY <1>6, <1>7, <2>1, Keys, Zenon
  <2>2. CASE k # SnapshotKey(b)
    BY <1>5, <1>7, <2>2, Zenon
  <2> QED
    BY <2>1, <2>2
<1>11. ASSUME NEW b PROVE Has(HeaderKey(b)) => Has(HeaderKey(b))'
  <2>1. CASE k = HeaderKey(b)
    BY <1>6, <1>7, <2>1, Keys, Zenon
  <2>2. CASE k # HeaderKey(b)
    BY <1>5, <1>7, <2>2, ZenonT(30)
  <2> QED
    BY <2>1, <2>2
<1>12. ASSUME NEW b
       PROVE  /\ Has(BlockKey(b)) /\ ~Has(BlockKey(b))' =>
                 /\ Has(HeadKey) /\ DiskHead = head /\ Has(HeaderKey(b))
                 /\ Number[b] \in 1 .. Number[head] - 1
              /\ Has(BlockKey(b))' =>
                 \/ Has(BlockKey(b)) /\ disk'[BlockKey(b)] = disk[BlockKey(b)]
                 \/ /\ disk'[BlockKey(b)] = BodyOf(bodies, b)
                    /\ b \in bodies \/ b = Genesis \/ PutsStripped
  <2>1. CASE k = BlockKey(b)
    BY <1>6, <1>7, <2>1, Keys, Zenon
  <2>2. CASE k # BlockKey(b)
    BY <1>5, <1>7, <2>2, Zenon
  <2> QED
    BY <2>1, <2>2
<1> QED
  BY <1>8, <1>9, <1>10, <1>11, <1>12, ZenonT(30)

\* The store is part of the state that a write leaves alone.
LEMMA StoreSame == Store /\ UNCHANGED vars => Store'
  BY Zenon DEF Store, vars, ParentKnown, LiveFollowsHead

\* One write of persist_canonical keeps what was confirmed.
LEMMA WriteOrder ==
    ASSUME NodeInv, Write
    PROVE  DiskSound' /\ Order'
<1>1. Store /\ DiskSound /\ Stage /\ Order
  BY DEF NodeInv
<1>2. /\ UNCHANGED <<head, byNumber, durable, mode>> /\ mode = "write"
  BY DEF Write, vars
<1>3. PICK h : h = Number[head]
  OBVIOUS
<1>4. /\ h \in Nat /\ head \in Block /\ byNumber[h] = head
      /\ \A n \in 0 .. h : byNumber[n] \in Block /\ Number[byNumber[n]] = n
  BY <1>1, <1>3, IndexShape
<1>5. /\ Has(HeadKey) => Has(HeadKey)'
      /\ Has(HeadKey)' => DiskHead' = head \/ (Has(HeadKey) /\ DiskHead' = DiskHead)
  BY <1>1, WriteKeys
<1>6. \A n : Has(HeightKey(n))' =>
                 \/ Has(HeightKey(n)) /\ OnDisk(n)' = OnDisk(n)
                 \/ /\ n \in 0 .. h /\ OnDisk(n)' = byNumber[n]
                    /\ Has(HeadKey) /\ DiskHead = head
  BY <1>1, <1>3, WriteKeys, Zenon
<1>7. DiskSound'
  <2>1. Has(HeadKey)' => DiskHead' \in Block
    BY <1>1, <1>4, <1>5 DEF DiskSound
  <2>2. ASSUME NEW n \in Nat, Has(HeightKey(n))'
        PROVE  OnDisk(n)' \in Block /\ Number[OnDisk(n)'] = n
    BY <1>1, <1>4, <1>6, <2>2, Zenon DEF DiskSound
  <2> QED
    BY <2>1, <2>2 DEF DiskSound
<1>8. Has(HeadKey) => DiskHead \in Block /\ DiskHeight \in Nat /\ DiskHeight <= h
  BY <1>1, <1>2, <1>3, Links, Zenon DEF DiskSound, Order, DiskHeight
<1>9. ASSUME Has(HeadKey)'
      PROVE  \/ DiskHeight' = h
             \/ Has(HeadKey) /\ DiskHeight' = DiskHeight
  BY <1>3, <1>5, <1>9 DEF DiskHeight
<1>10. Has(HeadKey)' => DiskHeight' <= h
  BY <1>4, <1>8, <1>9
<1>11. ASSUME durable # ZeroHash PROVE Confirmed'
  <2>1. Confirmed /\ (durable = head \/ Better(head, durable))
    BY <1>1, <1>2, <1>11 DEF Order, ConfirmedHeadKept
  <2>2. PICK e, c : e = Number[durable] /\ c = durable /\ c = durable'
    BY <1>2
  <2>3. /\ durable \in Block /\ Has(HeadKey) /\ Has(SnapshotKey(durable)) /\ e <= DiskHeight
        /\ e \in Nat
    BY <2>1, <2>2, Links DEF Confirmed
  <2>4. Has(HeadKey)' /\ Has(SnapshotKey(durable))'
    <3>1. Has(SnapshotKey(c))'
      BY <1>1, <2>2, <2>3, WriteKeys, Zenon
    <3> QED
      BY <1>5, <2>2, <2>3, <3>1 DEF SnapshotKey
  <2>5. e <= DiskHeight'
    BY <1>4, <1>8, <1>9, <2>3, <2>4
  <2>6. ASSUME DiskHeight' = e
        PROVE  /\ Has(BlockKey(durable))'
               /\ Has(HeightKey(e))' => OnDisk(e)' = durable \/ Better(OnDisk(e)', durable)
    <3>1. DiskHeight = e
      BY <1>4, <1>8, <1>9, <2>3, <2>4, <2>6
    <3>2. /\ Has(BlockKey(durable))
          /\ Has(HeightKey(e)) => OnDisk(e) = durable \/ Better(OnDisk(e), durable)
      BY <2>1, <2>2, <3>1, Zenon DEF Confirmed
    <3>3. Has(BlockKey(durable))'
      <4> SUFFICES ASSUME ~Has(BlockKey(c))' PROVE FALSE
        BY <2>2 DEF BlockKey
      <4>1. DiskHead = head /\ e \in 1 .. h - 1
        BY <1>1, <1>3, <2>2, <3>2, WriteKeys, Zenon
      <4> QED
        BY <1>3, <1>4, <3>1, <4>1 DEF DiskHeight
    <3>4. ASSUME Has(HeightKey(e))'
          PROVE  OnDisk(e)' = durable \/ Better(OnDisk(e)', durable)
      <4>1. CASE Has(HeightKey(e)) /\ OnDisk(e)' = OnDisk(e)
        BY <3>2, <4>1
      <4>2. CASE OnDisk(e)' = byNumber[e] /\ DiskHead = head
        <5>1. e = h
          BY <1>3, <3>1, <4>2 DEF DiskHeight
        <5> QED
          BY <1>4, <2>1, <4>2, <5>1
      <4> QED
        BY <1>6, <3>4, <4>1, <4>2
    <3> QED
      BY <3>3, <3>4
  <2>7. PICK dd : dd = DiskHeight'
    OBVIOUS
  <2>8. Number[durable'] = e /\ durable' = durable
    BY <1>2, <2>2
  <2>9. DiskHeight' = Number[durable'] =>
          /\ Has(BlockKey(durable))'
          /\ Has(HeightKey(DiskHeight))' =>
                OnDisk(DiskHeight)' = durable' \/ Better(OnDisk(DiskHeight)', durable')
    <3> SUFFICES ASSUME DiskHeight' = e
                 PROVE  /\ Has(BlockKey(durable))'
                        /\ Has(HeightKey(DiskHeight))' =>
                             OnDisk(DiskHeight)' = durable' \/ Better(OnDisk(DiskHeight)', durable')
      BY <2>8
    <3>1. /\ Has(HeightKey(DiskHeight))' <=> Has(HeightKey(e))'
          /\ OnDisk(DiskHeight)' = OnDisk(e)'
      BY DEF Has, HeightKey, OnDisk
    <3>2. Has(BlockKey(durable))'
      BY <2>6
    <3> QED
      BY <2>6, <2>8, <3>1, <3>2
  <2> QED
    BY <2>3, <2>4, <2>5, <2>8, <2>9 DEF Confirmed
<1>12. ConfirmedHeadKept'
  BY <1>1, <1>2 DEF Order, ConfirmedHeadKept
<1>13. Order'
  BY <1>2, <1>3, <1>10, <1>11, <1>12 DEF Order
<1> QED
  BY <1>7, <1>13

\* One write of persist_canonical, while the head is the confirmed one, changes
\* nothing that a start would read.
LEMMA WriteExact ==
    ASSUME NodeInv, Write
    PROVE  Exact'
<1>1. Store /\ DiskSound /\ Stage /\ Order /\ Exact
  BY DEF NodeInv
<1>2. /\ UNCHANGED <<head, byNumber, durable, mode, thinned, live>> /\ mode = "write"
  BY DEF Write, vars
<1> SUFFICES ASSUME durable = head
             PROVE  disk'[SnapshotKey(head)] = live /\ (thinned \/ Serves')
  BY <1>2 DEF Exact
<1>3. PICK h : h = Number[head]
  OBVIOUS
<1>4. /\ h \in Nat /\ head \in Block /\ head # ZeroHash /\ byNumber[h] = head
      /\ byNumber \in [0 .. h -> known]
      /\ \A n \in 0 .. h : byNumber[n] \in Block /\ Number[byNumber[n]] = n
  BY <1>1, <1>3, IndexShape, Links, Zenon
<1>5. Confirmed
  BY <1>1, <1>4 DEF Order
<1>6. disk'[SnapshotKey(head)] = live
  <2>1. Has(SnapshotKey(head)) /\ disk[SnapshotKey(head)] = live /\ snapshots[head] = live
    BY <1>1, <1>2, <1>5 DEF Confirmed, Exact, Store, LiveFollowsHead
  <2>2. \/ disk'[SnapshotKey(head)] = disk[SnapshotKey(head)]
        \/ disk'[SnapshotKey(head)] = snapshots[head]
    BY <1>1, <2>1, WriteKeys, Zenon
  <2> QED
    BY <2>1, <2>2
<1>7. ASSUME ~thinned PROVE Serves'
  <2>1. Serves /\ ~PutsStripped
    BY <1>1, <1>2, <1>7 DEF Exact, Stage
  <2>2. /\ Has(HeadKey) /\ DiskHeight = h /\ Has(BlockKey(DiskHead)) /\ Has(BlockKey(Genesis))
        /\ \A n \in 0 .. h : Has(HeightKey(n)) /\ OnDisk(n) = byNumber[n]
        /\ \A n \in 1 .. h : Readable(byNumber[n])
    BY <1>3, <2>1 DEF Serves
  <2>3. Has(BlockKey(head))
    BY <1>3, <1>5, <2>2 DEF Confirmed
  <2>4. Has(HeadKey)' /\ (DiskHead' = head \/ DiskHead' = DiskHead)
    BY <1>1, <2>2, WriteKeys, Zenon
  <2>5. DiskHeight' = h
    BY <1>3, <2>2, <2>4 DEF DiskHeight
  <2>6. \A b : Has(BlockKey(b)) /\ ~Has(BlockKey(b))' =>
           DiskHead = head /\ Has(HeaderKey(b)) /\ Number[b] \in 1 .. h - 1
    BY <1>1, <1>3, WriteKeys, ZenonT(30)
  <2>7. Has(BlockKey(DiskHead))'
    <3>1. PICK c : c = DiskHead' /\ (c = head \/ c = DiskHead)
      BY <2>4
    <3>2. Has(BlockKey(c)) /\ Number[c] = h
      BY <1>3, <2>2, <2>3, <3>1 DEF DiskHeight
    <3>3. Has(BlockKey(c))'
      BY <1>4, <2>6, <3>2
    <3> QED
      BY <3>1, <3>3 DEF Has, BlockKey
  <2>8. Has(BlockKey(Genesis))'
    BY <2>2, <2>6, Links
  <2>9. ASSUME NEW n \in 0 .. h PROVE Has(HeightKey(n))' /\ OnDisk(n)' = byNumber[n]
    BY <1>1, <2>2, WriteKeys, Zenon
  <2>10. ASSUME NEW n \in 1 .. h PROVE Readable(byNumber[n])'
    <3>1. PICK b : b = byNumber[n]
      OBVIOUS
    <3> SUFFICES Readable(b)'
      BY <1>2, <3>1, Zenon DEF Readable, BlockKey, HeaderKey
    <3>2. Readable(b) /\ b # Genesis
      <4>1. n \in 0 .. h /\ n # 0
        BY <1>4
      <4> QED
        BY <1>4, <2>2, <3>1, <4>1, Links
    <3>3. CASE Has(BlockKey(b))'
      <4>1. CASE Has(BlockKey(b)) /\ disk'[BlockKey(b)] = disk[BlockKey(b)]
        BY <3>2, <3>3, <4>1, Zenon DEF Readable, BlockKey, HeaderKey
      <4>2. CASE disk'[BlockKey(b)] = BodyOf(bodies, b) /\ b \in bodies
        <5>1. b \in ValidBody
          BY <1>1, <3>2, <4>2 DEF Store
        <5>2. disk'[BlockKey(b)] = TxsOf[b]
          BY <4>2 DEF BodyOf
        <5> QED
          BY <3>3, <5>1, <5>2, Zenon DEF Readable, BlockKey, HeaderKey
      <4>3. \/ Has(BlockKey(b)) /\ disk'[BlockKey(b)] = disk[BlockKey(b)]
            \/ /\ disk'[BlockKey(b)] = BodyOf(bodies, b)
               /\ b \in bodies \/ b = Genesis \/ PutsStripped
        BY <1>1, <3>3, WriteKeys, Zenon
      <4> QED
        BY <2>1, <3>2, <4>1, <4>2, <4>3, Zenon
    <3>4. CASE ~Has(BlockKey(b))'
      <4>1. Has(HeaderKey(b))
        BY <2>6, <3>2, <3>4, Zenon DEF Readable, BlockKey, HeaderKey
      <4>2. Has(HeaderKey(b))'
        BY <1>1, <4>1, WriteKeys, Zenon
      <4> QED
        BY <3>4, <4>2, Zenon DEF Readable, BlockKey, HeaderKey
    <3> QED
      BY <3>3, <3>4
  <2>11. /\ \A n \in 0 .. h : Has(HeightKey(n))' /\ OnDisk(n)' = byNumber'[n]
         /\ \A n \in 1 .. h : Readable(byNumber[n])'
    BY <1>2, <2>9, <2>10
  <2> QED
    BY <1>2, <1>3, <2>4, <2>5, <2>7, <2>8, <2>11, Zenon DEF Serves
<1> QED
  BY <1>6, <1>7

----------------------------------------------------------------------------
(* Persist: every other step.                                              *)

\* A step that leaves the database alone.
LEMMA DiskSame ==
    ASSUME disk' = disk
    PROVE  /\ DiskSound => DiskSound'
           /\ Has(HeadKey)' <=> Has(HeadKey)
           /\ DiskHeight' = DiskHeight
           /\ Confirmed /\ durable' = durable => Confirmed'
           /\ Serves /\ UNCHANGED <<head, byNumber>> => Serves'
  BY Zenon DEF DiskSound, DiskHead, DiskHeight, OnDisk, Confirmed, Serves, Readable,
     Has, BlockKey, HeightKey, SnapshotKey, HeaderKey

\* Every configuration that ChainPersist::open makes keeps the head's body.
LEMMA OpenKeepsHead ==
    \A c \in Configs : OpenWith(c).keep \in Nat \ {0} /\ OpenWith(c).archive \in BOOLEAN
<1> SUFFICES ASSUME NEW c \in Configs
             PROVE  OpenWith(c).keep \in Nat \ {0} /\ OpenWith(c).archive \in BOOLEAN
  OBVIOUS
<1>1. c \in [archive : BOOLEAN, keep : Nat]
  BY ConfigsAssumption
<1> QED
  BY <1>1 DEF OpenWith

\* An empty data directory.
LEMMA NodeInitStep == NodeInit => NodeInv
<1> SUFFICES ASSUME NodeInit PROVE NodeInv
  OBVIOUS
<1>1. Store
  BY StoreInit DEF NodeInit
<1>2. \A key : ~Has(key)
  BY DEF NodeInit, Has
<1>3. DiskSound
  BY <1>2, Zenon DEF DiskSound
<1>4. Stage
  BY OpenKeepsHead DEF NodeInit, Stage, Init
<1>5. Order /\ Exact
  BY DEF NodeInit, Order, Exact, ConfirmedHeadKept
<1> QED
  BY <1>1, <1>3, <1>4, <1>5 DEF NodeInv

\* A start that finds no head on disk has confirmed nothing.
LEMMA StartFreshStep ==
    ASSUME NodeInv, StartFresh
    PROVE  NodeInv'
<1>1. Store /\ DiskSound /\ Stage /\ Order
  BY DEF NodeInv
<1>2. /\ UNCHANGED vars /\ disk' = disk /\ durable' = durable /\ cfg' = cfg
      /\ mode = "down" /\ mode' = "import" /\ ~Has(HeadKey) /\ block' = Genesis
  BY DEF StartFresh
<1>3. Store'
  BY <1>1, <1>2, StoreSame
<1>4. DiskSound' /\ ~Has(HeadKey)'
  BY <1>1, <1>2, DiskSame
<1>5. durable = ZeroHash
  BY <1>1, <1>2 DEF Order, Confirmed
<1>6. head' = Genesis /\ bodies' = bodies
  BY <1>1, <1>2 DEF Stage, vars
<1>7. Genesis \in bodies
  BY <1>1, <1>2 DEF Stage
<1>8. Stage'
  BY <1>1, <1>2, <1>6, <1>7 DEF Stage
<1>9. Order' /\ Exact'
  BY <1>2, <1>4, <1>5, <1>6, Links DEF Order, ConfirmedHeadKept, Exact
<1> QED
  BY <1>3, <1>4, <1>8, <1>9 DEF NodeInv

\* A start from disk.
LEMMA StartFromDiskStep ==
    ASSUME NodeInv, StartFromDisk
    PROVE  NodeInv'
<1>1. Store /\ DiskSound /\ Stage /\ Order
  BY DEF NodeInv
<1>2. /\ Has(HeadKey) /\ ChainLoads /\ head' = LoadedHead /\ live' = LoadedLive
      /\ disk' = disk /\ durable' = durable /\ mode' = "up"
      /\ cfg' \in {OpenWith(c) : c \in Configs}
  BY DEF StartFromDisk, Starts
<1>3. Store' /\ Serves' /\ Number[head'] = DiskHeight
  BY <1>1, StoreStart
<1>4. DiskSound'
  BY <1>1, <1>2, DiskSame
<1>5. Stage'
  BY <1>2, OpenKeepsHead DEF Stage
<1>6. DiskHeight \in Nat /\ Has(HeightKey(DiskHeight)) /\ LoadedHead = OnDisk(DiskHeight)
  BY <1>1, <1>2, LoadedChain DEF LoadedHead
<1>7. ASSUME durable # ZeroHash
      PROVE  Confirmed /\ (durable = head' \/ Better(head', durable))
  <2>1. Confirmed
    BY <1>1, <1>7 DEF Order
  <2>2. durable \in Block /\ Number[durable] \in Nat /\ Number[durable] <= DiskHeight
    BY <2>1, Links DEF Confirmed
  <2>3. CASE DiskHeight = Number[durable]
    <3>1. OnDisk(DiskHeight) = durable \/ Better(OnDisk(DiskHeight), durable)
      BY <1>6, <2>1, <2>3, Zenon DEF Confirmed
    <3>2. head' = OnDisk(DiskHeight)
      BY <1>2, <1>6, Zenon
    <3> QED
      BY <2>1, <3>1, <3>2, Zenon
  <2>4. CASE DiskHeight # Number[durable]
    BY <1>3, <1>6, <2>1, <2>2, <2>4 DEF Better
  <2> QED
    BY <2>1, <2>3, <2>4
<1>8. Order'
  <2>1. DiskHeight' <= Number[head']
    BY <1>2, <1>3, <1>6, DiskSame
  <2>2. durable' # ZeroHash => Confirmed'
    BY <1>2, <1>7, DiskSame
  <2>3. ConfirmedHeadKept'
    BY <1>2, <1>7 DEF ConfirmedHeadKept
  <2> QED
    BY <2>1, <2>2, <2>3 DEF Order
<1>9. Exact'
  <2> SUFFICES ASSUME durable = head' PROVE disk[SnapshotKey(head')] = live'
    BY <1>2, <1>3 DEF Exact, SnapshotKey
  <2>1. durable # ZeroHash
    BY <1>3, Links DEF Store
  <2>2. Has(SnapshotKey(LoadedHead))
    BY <1>2, <1>7, <2>1 DEF Confirmed
  <2> QED
    BY <1>2, <2>2 DEF LoadedLive, Restored
<1> QED
  BY <1>3, <1>4, <1>5, <1>8, <1>9 DEF NodeInv

\* A better head is never the one it replaced, nor one before.
LEMMA BetterOrder ==
    ASSUME NEW a \in Block, NEW b \in Block, NEW c \in Block
    PROVE  ~Better(a, a) /\ (Better(a, b) /\ Better(b, c) => Better(a, c))
<1>1. /\ a \in Nat /\ b \in Nat /\ c \in Nat
      /\ Number[a] \in Nat /\ Number[b] \in Nat /\ Number[c] \in Nat
  BY Links
<1> QED
  BY <1>1 DEF Better

\* An import never takes the head back to the confirmed one.
LEMMA ImportBlockStep ==
    ASSUME NodeInv, NEW b \in Block, ImportBlock(b)
    PROVE  NodeInv'
<1>1. Store /\ DiskSound /\ Stage /\ Order /\ Exact
  BY DEF NodeInv
<1>2. /\ UNCHANGED <<disk, durable, cfg, thinned>>
      /\ mode = "up" /\ mode' = "import" /\ block' = b
  BY DEF ImportBlock
<1>3. PICK txs : Import(b, txs)
  BY DEF ImportBlock
<1>4. /\ Store' /\ b \in bodies'
      /\ UNCHANGED <<head, byNumber, live>> \/ (head' = b /\ Better(b, head))
  BY <1>1, <1>3, StoreImport
<1>5. DiskSound'
  BY <1>1, <1>2, DiskSame
<1>6. Stage'
  BY <1>1, <1>2, <1>4 DEF Stage
<1>7. /\ head \in Block /\ Number[head] \in Nat /\ Number[b] \in Nat
      /\ Has(HeadKey) => DiskHeight \in Nat
  BY <1>1, Links, Zenon DEF Store, DiskSound, DiskHeight
<1>8. Number[head] <= Number[head']
  BY <1>4, <1>7 DEF Better
<1>9. ASSUME durable # ZeroHash
      PROVE  /\ Confirmed /\ (durable = head' \/ Better(head', durable))
             /\ durable = head' => head' = head
  <2>1. Confirmed /\ (durable = head \/ Better(head, durable))
    BY <1>1, <1>2, <1>9 DEF Order, ConfirmedHeadKept
  <2>2. durable \in Block
    BY <2>1 DEF Confirmed
  <2>3. Better(b, head) /\ Better(head, durable) => Better(b, durable)
    BY <1>7, <2>2, BetterOrder
  <2>4. ~Better(durable, durable)
    BY <2>2, BetterOrder
  <2> QED
    BY <1>4, <2>1, <2>3, <2>4
<1>10. Order'
  <2>1. Has(HeadKey)' => DiskHeight' <= Number[head']
    <3>1. Has(HeadKey) => DiskHeight <= Number[head]
      BY <1>1, <1>2 DEF Order
    <3>2. (Has(HeadKey)' <=> Has(HeadKey)) /\ DiskHeight' = DiskHeight
      BY <1>2, DiskSame
    <3>3. Number[head'] \in Nat
      BY <1>4, <1>7
    <3> QED
      BY <1>7, <1>8, <3>1, <3>2, <3>3
  <2>2. durable' # ZeroHash => Confirmed'
    BY <1>2, <1>9, DiskSame
  <2>3. ConfirmedHeadKept'
    BY <1>2, <1>9 DEF ConfirmedHeadKept
  <2> QED
    BY <2>1, <2>2, <2>3 DEF Order
<1>11. Exact'
  <2> SUFFICES ASSUME durable = head'
               PROVE  disk[SnapshotKey(head')] = live' /\ (thinned \/ Serves')
    BY <1>2 DEF Exact, SnapshotKey
  <2>1. head' # ZeroHash
    BY <1>4, Links DEF Store
  <2>2. head' = head
    BY <1>9, <2>1
  <2>3. UNCHANGED <<head, byNumber, live>>
    BY <1>4, <1>7, <2>2, BetterOrder
  <2>4. disk[SnapshotKey(head)] = live /\ (thinned \/ Serves)
    BY <1>1, <1>2, <2>3 DEF Exact
  <2> QED
    BY <1>2, <2>3, <2>4, DiskSame
<1> QED
  BY <1>4, <1>5, <1>6, <1>10, <1>11 DEF NodeInv

\* Entering persist_canonical changes nothing yet.
LEMMA PersistCanonicalStep ==
    ASSUME NodeInv, PersistCanonical
    PROVE  NodeInv'
<1>1. Store /\ DiskSound /\ Stage /\ Order /\ Exact
  BY DEF NodeInv
<1>2. /\ UNCHANGED vars /\ UNCHANGED <<disk, durable, cfg, block>>
      /\ mode = "import" /\ mode' = "write" /\ todo' = Writes
      /\ thinned' = (thinned \/ PutsStripped)
  BY DEF PersistCanonical
<1>3. UNCHANGED <<bodies, byNumber, head, snapshots, live>>
  BY <1>2 DEF vars
<1>4. Writes' = Writes /\ PutsStripped' = PutsStripped
  BY <1>2, <1>3, WritesSame
<1>5. Store'
  BY <1>1, <1>2, StoreSame
<1>6. DiskSound'
  BY <1>1, <1>2, DiskSame
<1>7. Progress(1)'
  <2>1. PICK W : W = Writes
    OBVIOUS
  <2>2. Len(W) \in Nat /\ \E S : W \in Seq(S)
    BY <1>1, <2>1, WritesShape
  <2>3. W = SubSeq(W, 1, Len(W)) /\ 1 \in 1 .. Len(W) + 1 /\ 2 .. 1 - 1 = {}
    BY <2>2
  <2> QED
    BY <1>2, <1>4, <2>1, <2>3 DEF Progress
<1>8. Stage'
  BY <1>1, <1>2, <1>3, <1>4, <1>7, Zenon DEF Stage
<1>9. Order'
  <2>1. Has(HeadKey)' => DiskHeight' <= Number[head']
    BY <1>1, <1>2, <1>3, DiskSame DEF Order
  <2>2. durable' # ZeroHash => Confirmed'
    BY <1>1, <1>2, DiskSame DEF Order
  <2>3. ConfirmedHeadKept'
    BY <1>1, <1>2, <1>3 DEF Order, ConfirmedHeadKept
  <2> QED
    BY <2>1, <2>2, <2>3 DEF Order
<1>10. Exact'
  <2> SUFFICES ASSUME durable = head
               PROVE  disk[SnapshotKey(head)] = live /\ (thinned' \/ Serves')
    BY <1>2, <1>3 DEF Exact, SnapshotKey
  <2>1. disk[SnapshotKey(head)] = live /\ (thinned \/ Serves)
    BY <1>1, <1>2 DEF Exact
  <2> QED
    BY <1>2, <1>3, <2>1, DiskSame, Zenon
<1> QED
  BY <1>5, <1>6, <1>8, <1>9, <1>10 DEF NodeInv

\* When persist_canonical returns, all its writes but the first have their
\* effect.
LEMMA AllWritten ==
    ASSUME Store, Stage, Persisted
    PROVE  Has(HeadKey) /\ DiskHead = head /\ \A w \in ChainOps : Effect(w)
<1>1. PICK i : Progress(i)
  BY DEF Stage, Persisted
<1>2. PICK W : W = Writes
  OBVIOUS
<1>3. /\ \E S : W \in Seq(S)
      /\ Len(W) \in Nat /\ Len(W) >= 2 /\ W[2] = Put(HeadKey, head)
      /\ \A w \in ChainOps : \E j \in 3 .. Len(W) : W[j] = w
  BY <1>2, WritesShape
<1>4. /\ i \in 1 .. Len(W) + 1 /\ SubSeq(W, i, Len(W)) = <<>>
      /\ \A j \in 2 .. i - 1 : Effect(W[j])
  BY <1>1, <1>2 DEF Progress, Persisted
<1>5. i = Len(W) + 1
  <2> SUFFICES ASSUME i \in 1 .. Len(W) PROVE FALSE
    BY <1>3, <1>4
  <2>1. Len(SubSeq(W, i, Len(W))) = Len(W) - i + 1
    BY <1>3
  <2>2. Len(SubSeq(W, i, Len(W))) = 0
    BY <1>4
  <2> QED
    BY <1>3, <2>1, <2>2
<1>6. \A j \in 2 .. Len(W) : Effect(W[j])
  BY <1>3, <1>4, <1>5
<1>7. Effect(Put(HeadKey, head))
  BY <1>3, <1>6
<1>8. \A w \in ChainOps : Effect(w)
  <2> SUFFICES ASSUME NEW w \in ChainOps PROVE Effect(w)
    OBVIOUS
  <2>1. PICK j \in 3 .. Len(W) : W[j] = w
    BY <1>3
  <2>2. j \in 2 .. Len(W)
    BY <1>3
  <2> QED
    BY <1>6, <2>1, <2>2
<1> QED
  BY <1>7, <1>8 DEF Effect, Put, DiskHead

\* Then the database holds the chain in memory, and its head's state.
LEMMA WrittenServes ==
    ASSUME NodeInv, Persisted
    PROVE  /\ Has(HeadKey) /\ DiskHead = head
           /\ Has(BlockKey(head)) /\ OnDisk(Number[head]) = head
           /\ Has(SnapshotKey(head)) /\ disk[SnapshotKey(head)] = live
           /\ thinned \/ Serves
<1>1. Store /\ Stage
  BY DEF NodeInv
<1>2. Has(HeadKey) /\ DiskHead = head /\ \A w \in ChainOps : Effect(w)
  BY <1>1, AllWritten
<1>3. PICK h : h = Number[head]
  OBVIOUS
<1>4. /\ h \in Nat /\ head \in Block /\ byNumber[h] = head /\ byNumber[0] = Genesis
      /\ \A n \in 0 .. h : byNumber[n] \in Block /\ Number[byNumber[n]] = n
  BY <1>1, <1>3, IndexShape
<1>5. \A n \in 0 .. h : \A w \in IndexOps(n) \cup SnapshotOps(n) : Effect(w)
  BY <1>2, <1>3 DEF ChainOps
<1>6. ASSUME NEW n \in 0 .. h
      PROVE  Has(HeightKey(n)) /\ OnDisk(n) = byNumber[n]
  <2>1. Put(HeightKey(n), byNumber[n]) \in IndexOps(n)
    BY DEF IndexOps
  <2>2. Effect(Put(HeightKey(n), byNumber[n]))
    BY <1>5, <2>1
  <2> QED
    BY <2>2 DEF Effect, Put, OnDisk
<1>7. ASSUME NEW n \in 0 .. h, KeepsBody(n)
      PROVE  Has(BlockKey(byNumber[n])) /\ disk[BlockKey(byNumber[n])] = BodyOf(bodies, byNumber[n])
  <2>1. PutBlock(byNumber[n]) \in IndexOps(n)
    BY <1>7 DEF IndexOps
  <2>2. Effect(PutBlock(byNumber[n]))
    BY <1>5, <2>1
  <2> QED
    BY <2>2 DEF Effect, PutBlock, Put
<1>8. ASSUME NEW n \in 0 .. h, ~KeepsBody(n)
      PROVE  ~Has(BlockKey(byNumber[n])) /\ Has(HeaderKey(byNumber[n]))
  <2>1. /\ Put(HeaderKey(byNumber[n]), byNumber[n]) \in IndexOps(n)
        /\ Delete(BlockKey(byNumber[n])) \in IndexOps(n)
    BY <1>8 DEF IndexOps
  <2>2. /\ Effect(Put(HeaderKey(byNumber[n]), byNumber[n]))
        /\ Effect(Delete(BlockKey(byNumber[n])))
    BY <1>5, <2>1
  <2> QED
    BY <2>2 DEF Effect, Delete, Put
<1>9. h \in 0 .. h /\ 0 \in 0 .. h
  BY <1>4
<1>10. KeepsBody(h) /\ KeepsBody(0)
  BY <1>1, <1>3, <1>4 DEF KeepsBody, SaturatingSub, Stage
<1>11. Has(SnapshotKey(head)) /\ disk[SnapshotKey(head)] = live
  <2>1. head \in DOMAIN snapshots /\ snapshots[head] = live
    BY <1>1 DEF Store, LiveFollowsHead
  <2>2. Put(SnapshotKey(head), live) \in SnapshotOps(h)
    BY <1>4, <2>1 DEF SnapshotOps
  <2>3. Effect(Put(SnapshotKey(head), live))
    BY <1>5, <1>9, <2>2
  <2> QED
    BY <2>3 DEF Effect, Put
<1>12. ASSUME ~thinned, NEW n \in 1 .. h PROVE Readable(byNumber[n])
  <2>1. n \in 0 .. h /\ n # 0
    BY <1>4
  <2>2. PICK b : b = byNumber[n]
    OBVIOUS
  <2>3. b # Genesis
    BY <1>4, <2>1, <2>2, Links
  <2>4. CASE KeepsBody(n)
    <3>1. b \in bodies
      BY <1>1, <1>3, <1>12, <2>2, <2>4 DEF Stage, Persisted, PutsStripped
    <3>2. b \in ValidBody
      BY <1>1, <2>3, <3>1 DEF Store
    <3>3. Has(BlockKey(b)) /\ disk[BlockKey(b)] = TxsOf[b]
      BY <1>7, <2>1, <2>2, <2>4, <3>1 DEF BodyOf
    <3> QED
      BY <2>2, <3>2, <3>3 DEF Readable
  <2>5. CASE ~KeepsBody(n)
    BY <1>8, <2>1, <2>5 DEF Readable
  <2> QED
    BY <2>4, <2>5
<1>13. Has(BlockKey(head)) /\ Has(BlockKey(Genesis)) /\ OnDisk(h) = head
  BY <1>4, <1>6, <1>7, <1>9, <1>10
<1>14. ASSUME ~thinned PROVE Serves
  BY <1>2, <1>3, <1>6, <1>12, <1>13, <1>14 DEF Serves, DiskHeight
<1> QED
  BY <1>2, <1>3, <1>11, <1>13, <1>14

\* persist_canonical returns Ok, and the store is pruned.
LEMMA PersistedStep ==
    ASSUME NodeInv, Persisted
    PROVE  NodeInv'
<1>1. Store /\ DiskSound /\ Stage
  BY DEF NodeInv
<1>2. /\ PruneStore /\ disk' = disk /\ cfg' = cfg /\ thinned' = thinned
      /\ durable' = head /\ mode' = "up"
  BY DEF Persisted
<1>3. Store' /\ UNCHANGED <<known, byNumber, head, live>>
  BY <1>1, <1>2, StorePrune DEF Stage
<1>4. DiskSound'
  BY <1>1, <1>2, DiskSame
<1>5. Stage'
  BY <1>1, <1>2 DEF Stage
<1>6. /\ Has(HeadKey) /\ DiskHead = head
      /\ Has(BlockKey(head)) /\ OnDisk(Number[head]) = head
      /\ Has(SnapshotKey(head)) /\ disk[SnapshotKey(head)] = live
      /\ thinned \/ Serves
  BY WrittenServes
<1>7. head \in Block /\ Number[head] \in Nat
  BY <1>1, Links DEF Store
<1>8. Confirmed'
  <2>1. PICK h : h = Number[head]
    OBVIOUS
  <2>2. DiskHeight' = h /\ Number[durable'] = h /\ h <= h
    BY <1>2, <1>6, <1>7, <2>1 DEF DiskHeight, DiskHead
  <2>3. OnDisk(DiskHeight)' = durable'
    BY <1>2, <1>6, <2>1, <2>2, Zenon DEF OnDisk, HeightKey
  <2>4. Has(HeadKey)' /\ Has(SnapshotKey(durable))' /\ Has(BlockKey(durable))'
    BY <1>2, <1>6, ZenonT(30) DEF Has, BlockKey, SnapshotKey, HeadKey
  <2> QED
    BY <1>2, <1>7, <2>2, <2>3, <2>4, ZenonT(30) DEF Confirmed
<1>9. DiskHeight' <= Number[head']
  BY <1>2, <1>3, <1>6, <1>7 DEF DiskHeight, DiskHead
<1>10. Order'
  BY <1>2, <1>3, <1>8, <1>9 DEF Order, ConfirmedHeadKept
<1>11. thinned' \/ Serves'
  BY <1>2, <1>3, <1>6, DiskSame
<1>12. Exact'
  BY <1>2, <1>3, <1>6, <1>11 DEF Exact, SnapshotKey
<1> QED
  BY <1>3, <1>4, <1>5, <1>10, <1>12 DEF NodeInv

\* A write fails: what was confirmed before still is.
LEMMA WriteFailsStep ==
    ASSUME NodeInv, WriteFails
    PROVE  NodeInv'
<1>1. Store /\ DiskSound /\ Stage /\ Order /\ Exact
  BY DEF NodeInv
<1>2. /\ PruneStore /\ UNCHANGED <<disk, durable, cfg, thinned>>
      /\ mode = "write" /\ mode' = "up"
  BY DEF WriteFails
<1>3. Store' /\ UNCHANGED <<known, byNumber, head, live>>
  BY <1>1, <1>2, StorePrune DEF Stage
<1>4. DiskSound'
  BY <1>1, <1>2, DiskSame
<1>5. Stage'
  BY <1>1, <1>2 DEF Stage
<1>6. Order'
  <2>1. Has(HeadKey)' => DiskHeight' <= Number[head']
    BY <1>1, <1>2, <1>3, DiskSame DEF Order
  <2>2. durable' # ZeroHash => Confirmed'
    BY <1>1, <1>2, DiskSame DEF Order
  <2>3. ConfirmedHeadKept'
    BY <1>1, <1>2, <1>3 DEF Order, ConfirmedHeadKept
  <2> QED
    BY <2>1, <2>2, <2>3 DEF Order
<1>7. Exact'
  <2> SUFFICES ASSUME durable = head
               PROVE  disk[SnapshotKey(head)] = live /\ (thinned \/ Serves')
    BY <1>2, <1>3 DEF Exact, SnapshotKey
  <2>1. disk[SnapshotKey(head)] = live /\ (thinned \/ Serves)
    BY <1>1, <1>2 DEF Exact
  <2> QED
    BY <1>2, <1>3, <2>1, DiskSame
<1> QED
  BY <1>3, <1>4, <1>5, <1>6, <1>7 DEF NodeInv

\* A crash loses the memory and nothing of the database.
LEMMA CrashStep ==
    ASSUME NodeInv, Crash
    PROVE  NodeInv'
<1>1. DiskSound /\ Stage /\ Order
  BY DEF NodeInv
<1>2. /\ UNCHANGED <<disk, durable, cfg>> /\ mode' = "down"
      /\ head' = Genesis /\ bodies' = {Genesis}
  BY DEF Crash
<1>3. Store'
  BY StoreCrash
<1>4. DiskSound'
  BY <1>1, <1>2, DiskSame
<1>5. Stage'
  BY <1>1, <1>2 DEF Stage
<1>6. durable' # ZeroHash => Confirmed'
  BY <1>1, <1>2, DiskSame DEF Order
<1>7. Order' /\ Exact'
  BY <1>2, <1>6 DEF Order, Exact, ConfirmedHeadKept
<1> QED
  BY <1>3, <1>4, <1>5, <1>7 DEF NodeInv

\* One write of persist_canonical.
LEMMA WriteStep ==
    ASSUME NodeInv, Write
    PROVE  NodeInv'
<1>1. Store'
  BY StoreSame DEF NodeInv, Write
<1>2. Stage'
  BY WriteMeans DEF NodeInv
<1>3. DiskSound' /\ Order' /\ Exact'
  BY WriteOrder, WriteExact
<1> QED
  BY <1>1, <1>2, <1>3 DEF NodeInv

\* Every step of the node keeps the invariant, whatever it interrupts.
LEMMA NodeNextStep == NodeInv /\ [NodeNext]_nodeVars => NodeInv'
<1> SUFFICES ASSUME NodeInv, [NodeNext]_nodeVars PROVE NodeInv'
  OBVIOUS
<1>1. ASSUME NEW b \in Block, ImportBlock(b) PROVE NodeInv'
  BY <1>1, ImportBlockStep
<1>2. CASE UNCHANGED nodeVars
  <2>1. UNCHANGED vars
    BY <1>2 DEF nodeVars
  <2>2. UNCHANGED <<mode, cfg, block, todo, disk, durable, thinned>>
    BY <1>2 DEF nodeVars
  <2>3. UNCHANGED <<known, bodies, byNumber, head, snapshots, live>>
    BY <2>1 DEF vars
  <2>4. Store'
    BY <2>1, StoreSame DEF NodeInv
  <2>5. DiskSound'
    BY <2>2, DiskSame DEF NodeInv
  <2>6. Writes' = Writes /\ PutsStripped' = PutsStripped
    BY <2>2, <2>3, WritesSame
  <2>7. \A i : Progress(i) => Progress(i)'
    BY <2>2, <2>6, Zenon DEF Progress, Effect, Has
  <2>8. Stage'
    BY <2>2, <2>3, <2>6, <2>7 DEF NodeInv, Stage
  <2>9. /\ Has(HeadKey)' <=> Has(HeadKey)
        /\ DiskHeight' = DiskHeight
        /\ Confirmed => Confirmed'
        /\ Serves => Serves'
    BY <2>2, <2>3, DiskSame
  <2>10. Order'
    BY <2>2, <2>3, <2>9, Zenon DEF NodeInv, Order, ConfirmedHeadKept, Better
  <2>11. Exact'
    BY <2>2, <2>3, <2>9, ZenonT(30) DEF NodeInv, Exact, SnapshotKey
  <2> QED
    BY <2>4, <2>5, <2>8, <2>10, <2>11 DEF NodeInv
<1> QED
  BY <1>1, <1>2, StartFreshStep, StartFromDiskStep, PersistCanonicalStep, WriteStep,
     PersistedStep, WriteFailsStep, CrashStep DEF NodeNext

\* The invariant holds of every reachable state.
LEMMA NodeInvariance == NodeSpec => []NodeInv
  BY NodeInitStep, NodeNextStep, PTL DEF NodeSpec

\* Whatever crashes, fails or is reconfigured, a node that runs is on the head
\* that persist_canonical last confirmed, or on a better one.
THEOREM ConfirmedHeadKeptAlways == NodeSpec => []ConfirmedHeadKept
<1>1. NodeInv => ConfirmedHeadKept
  BY DEF NodeInv, Order
<1> QED
  BY <1>1, NodeInvariance, PTL

\* A start from what persist_canonical wrote gives the same head and the same
\* live state, for every block tree, window and history of crashes in which no
\* stripped body was put in the place of a block.
THEOREM RestartIsExactAlways == NodeSpec => []RestartIsExact
<1>1. NodeInv => RestartIsExact
  <2> SUFFICES ASSUME NodeInv, mode = "up", durable = head, ~thinned
               PROVE  Has(HeadKey) /\ Starts /\ LoadedHead = head /\ LoadedLive = live
    BY DEF RestartIsExact
  <2>1. Store /\ Order /\ Exact
    BY DEF NodeInv
  <2>2. Serves /\ disk[SnapshotKey(head)] = live
    BY <2>1 DEF Exact
  <2>3. ChainLoads /\ LoadedHead = head
    BY <2>1, <2>2, ServesLoads
  <2>4. durable # ZeroHash
    BY <2>1, Links DEF Store
  <2>5. Has(HeadKey) /\ Has(SnapshotKey(head))
    BY <2>1, <2>4 DEF Order, Confirmed
  <2> QED
    BY <2>2, <2>3, <2>5 DEF Starts, Restored, LoadedLive
<1> QED
  BY <1>1, NodeInvariance, PTL

----------------------------------------------------------------------------
(* Persist: the states in memory and on disk.                              *)

\* The state that the chain to b leads to, and that it is the one b commits to.
Truth(b) == Replay(b)[Number[b]]
Good(b) == Truth(b) \in State /\ RootOf(Truth(b)) = StateRoot[b]

\* As long as no start had to guess, every state in memory and on disk is the
\* one its chain leads to, and every block that can be reached is executable.
Truthful ==
    ~guessed =>
        /\ \A b \in known : Good(b)
        /\ \A b \in DOMAIN snapshots : snapshots[b] = Truth(b)
        /\ \A b : Has(SnapshotKey(b)) => disk[SnapshotKey(b)] = Truth(b)
        /\ \A n \in Nat : Has(HeightKey(n)) => Good(OnDisk(n))

\* Genesis commits to the genesis allocation.
LEMMA GenesisTruth == Truth(Genesis) = GenesisState /\ Good(Genesis)
<1>1. Genesis \in Block /\ Number[Genesis] = 0
  BY Links
<1>2. \A f : f = Replay(Genesis) => f[0] = GenesisState
  BY <1>1, ReplayMeans, Zenon
<1>3. Truth(Genesis) = GenesisState
  BY <1>1, <1>2 DEF Truth
<1> QED
  BY <1>3, BlockTreeAssumption DEF Good

\* The state of a chain follows from that of the chain one block shorter.
LEMMA TruthExtends ==
    ASSUME NEW K \in SUBSET Block, Rooted(K), NEW b \in Block, Parent[b] \in K,
           Number[b] = Number[Parent[b]] + 1
    PROVE  Truth(b) = Execute(Truth(Parent[b]), TxsOf[b])
  BY ReplayExtends DEF Truth

\* What a state and its successor say of the truth of a block is the same.
LEMMA TruthPrimed ==
    ASSUME ~guessed' => /\ \A c \in known' : Good(c)
                        /\ \A c \in DOMAIN snapshots' : snapshots'[c] = Truth(c)
                        /\ \A c : Has(SnapshotKey(c))' => disk'[SnapshotKey(c)] = Truth(c)
                        /\ \A n \in Nat : Has(HeightKey(n))' => Good(OnDisk(n)')
    PROVE  Truthful'
  BY Zenon DEF Truthful, Good, Truth, SnapshotKey, Replay, PathTo

\* import_and_apply records the state the chain leads to.
LEMMA ImportTruth ==
    ASSUME NodeInv, Truthful, NEW b \in Block, ImportBlock(b)
    PROVE  Truthful'
<1>1. Store
  BY DEF NodeInv
<1>2. guessed' = guessed /\ disk' = disk
  BY DEF ImportBlock
<1>3. PICK txs : Import(b, txs)
  BY DEF ImportBlock
<1> SUFFICES ASSUME ~guessed
             PROVE  /\ \A c \in known' : Good(c)
                    /\ \A c \in DOMAIN snapshots' : snapshots'[c] = Truth(c)
                    /\ \A c : Has(SnapshotKey(c))' => disk'[SnapshotKey(c)] = Truth(c)
                    /\ \A n \in Nat : Has(HeightKey(n))' => Good(OnDisk(n)')
  BY <1>2, TruthPrimed, ZenonT(30)
<1>4. /\ \A c \in known : Good(c)
      /\ \A c \in DOMAIN snapshots : snapshots[c] = Truth(c)
      /\ \A c : Has(SnapshotKey(c)) => disk[SnapshotKey(c)] = Truth(c)
      /\ \A n \in Nat : Has(HeightKey(n)) => Good(OnDisk(n))
  BY DEF Truthful
<1> DEFINE post == PostState(snapshots, b, txs)
           p == Parent[b]
<1>5. /\ known' = known \cup {b}
      /\ snapshots' = [c \in DOMAIN snapshots \cup {b} |-> IF c = b THEN post ELSE snapshots[c]]
      /\ post # ExecError
  BY <1>3 DEF Import
<1>6. /\ p \in known /\ Number[b] = Number[p] + 1 /\ txs = TxsOf[b]
  BY <1>3, ZenonT(30) DEF Import, Insertable, BodyPasses
<1>7. /\ p \in DOMAIN snapshots /\ post = Execute(snapshots[p], txs)
      /\ RootOf(post) = StateRoot[b]
  BY <1>5, Zenon DEF PostState
<1> HIDE DEF post
<1>8. known \in SUBSET Block /\ Rooted(known)
  BY <1>1 DEF Store
<1>9. Truth(b) = Execute(Truth(p), TxsOf[b])
  BY <1>6, <1>8, TruthExtends
<1>10. post = Truth(b) /\ Truth(p) \in State
  BY <1>4, <1>6, <1>7, <1>9 DEF Good
<1>11. Execute(Truth(p), TxsOf[b]) \in State \cup {ExecError}
  BY <1>10, BlockTreeAssumption
<1>12. Good(b)
  BY <1>5, <1>7, <1>9, <1>10, <1>11 DEF Good
<1>13. /\ \A c \in known' : Good(c)
       /\ \A c \in DOMAIN snapshots' : snapshots'[c] = Truth(c)
  BY <1>4, <1>5, <1>10, <1>12, ZenonT(30)
<1> QED
  BY <1>2, <1>4, <1>13, Zenon DEF Has, OnDisk

\* A replay of bodies that were all kept gives the states the chain leads to.
LEMMA ReplayedTruth ==
    ASSUME DiskSound, ChainLoads, Has(HeadKey), LoadedBodies = Loaded,
           \A n \in 0 .. DiskHeight : Good(OnDisk(n))
    PROVE  \A n \in 0 .. DiskHeight : Replayed[n] = Truth(OnDisk(n))
<1>1. PICK d : d = DiskHeight
  OBVIOUS
<1>2. PICK f : f = [n \in 0 .. d |-> OnDisk(n)]
  BY Zenon
<1>3. PICK t : t = [n \in 0 .. d |-> Truth(f[n])]
  BY Zenon
<1>4. /\ d \in Nat /\ Loaded \subseteq Block /\ Rooted(Loaded)
      /\ \A n \in 0 .. d : OnDisk(n) \in Loaded /\ Number[OnDisk(n)] = n
      /\ \A n \in 1 .. d : Parent[OnDisk(n)] = OnDisk(n - 1)
      /\ OnDisk(0) = Genesis
  BY <1>1, LoadedChain
<1>5. \A n \in 0 .. d : f[n] = OnDisk(n) /\ t[n] = Truth(f[n])
  BY <1>2, <1>3
<1>6. \A n \in 0 .. d : BodyOf(LoadedBodies, OnDisk(n)) = TxsOf[f[n]]
  BY <1>4, <1>5 DEF BodyOf
<1>7. t[0] = GenesisState
  BY <1>4, <1>5, GenesisTruth
<1>8. \A n \in 0 .. d : t[n] \in State
  BY <1>1, <1>5 DEF Good
<1>9. ASSUME NEW n \in 1 .. d PROVE t[n] = Execute(t[n - 1], TxsOf[f[n]])
  <2>1. n \in 0 .. d /\ n - 1 \in 0 .. d
    BY <1>4
  <2>2. PICK b, p : b = f[n] /\ p = f[n - 1]
    OBVIOUS
  <2>3. /\ b \in Loaded /\ p \in Loaded /\ Parent[b] = p
        /\ Number[b] = n /\ Number[p] = n - 1
    BY <1>4, <1>5, <2>1, <2>2
  <2>4. Number[b] = Number[p] + 1
    BY <1>4, <2>3
  <2>5. Truth(b) = Execute(Truth(p), TxsOf[b])
    BY <1>4, <2>3, <2>4, TruthExtends
  <2> QED
    BY <1>5, <2>1, <2>2, <2>5
<1> DEFINE Solves(g) ==
              g = [n \in 0 .. d |->
                     IF n = 0 THEN GenesisState
                     ELSE IF g[n - 1] = ExecError THEN ExecError
                     ELSE Execute(g[n - 1], BodyOf(LoadedBodies, OnDisk(n)))]
<1>10. ASSUME NEW n \in 0 .. d
       PROVE  t[n] = IF n = 0 THEN GenesisState
                     ELSE IF t[n - 1] = ExecError THEN ExecError
                     ELSE Execute(t[n - 1], BodyOf(LoadedBodies, OnDisk(n)))
  <2>1. CASE n = 0
    BY <1>7, <2>1
  <2>2. CASE n # 0
    <3>1. n \in 1 .. d /\ n - 1 \in 0 .. d
      BY <1>4, <2>2
    <3>2. t[n - 1] # ExecError
      BY <1>8, <3>1, BlockTreeAssumption
    <3> QED
      BY <1>6, <1>9, <2>2, <3>1, <3>2
  <2> QED
    BY <2>1, <2>2
<1>11. Solves(t)
  BY <1>3, <1>10
<1>12. Replayed = CHOOSE g : Solves(g)
  BY <1>1 DEF Replayed
<1>13. Solves(Replayed)
  <2> HIDE DEF Solves
  <2> QED
    BY <1>11, <1>12, Zenon
<1>14. PICK r : r = Replayed
  OBVIOUS
<1> DEFINE T == {n \in 0 .. d : r[n] = t[n]}
<1>15. \A n \in 0 .. d : r[n] = IF n = 0 THEN GenesisState
                     ELSE IF r[n - 1] = ExecError THEN ExecError
                     ELSE Execute(r[n - 1], BodyOf(LoadedBodies, OnDisk(n)))
  BY <1>13, <1>14, Zenon
<1> HIDE DEF Solves
<1>16. 0 \in T
  BY <1>4, <1>7, <1>15
<1>17. ASSUME NEW m \in 0 .. d - 1, m \in T PROVE m + 1 \in T
  <2>1. PICK n \in 0 .. d : n = m + 1 /\ n - 1 = m /\ n # 0
    BY <1>4
  <2>2. r[n - 1] = t[n - 1]
    BY <1>17, <2>1
  <2>3. r[n] = t[n]
    BY <1>10, <1>15, <2>1, <2>2, ZenonT(30)
  <2> QED
    BY <2>1, <2>3
<1>18. 0 .. d \subseteq T
  <2>1. \A m \in 0 .. d - 1 : m \in T => m + 1 \in T
    BY <1>17
  <2> HIDE DEF T
  <2> QED
    BY <1>4, <1>16, <2>1, SetInduction, Zenon
<1> QED
  BY <1>1, <1>5, <1>14, <1>18

\* Steps that record no new state.
LEMMA TruthSame ==
    ASSUME Truthful, guessed' = guessed, disk' = disk, known' \subseteq known \cup {Genesis},
           \A b \in DOMAIN snapshots' :
              \/ b \in DOMAIN snapshots /\ snapshots'[b] = snapshots[b]
              \/ b = Genesis /\ snapshots'[b] = GenesisState
    PROVE  Truthful'
<1> SUFFICES ASSUME ~guessed
             PROVE  /\ \A c \in known' : Good(c)
                    /\ \A c \in DOMAIN snapshots' : snapshots'[c] = Truth(c)
                    /\ \A c : Has(SnapshotKey(c))' => disk'[SnapshotKey(c)] = Truth(c)
                    /\ \A n \in Nat : Has(HeightKey(n))' => Good(OnDisk(n)')
  BY TruthPrimed, Zenon
<1>1. /\ \A c \in known : Good(c)
      /\ \A c \in DOMAIN snapshots : snapshots[c] = Truth(c)
      /\ \A c : Has(SnapshotKey(c)) => disk[SnapshotKey(c)] = Truth(c)
      /\ \A n \in Nat : Has(HeightKey(n)) => Good(OnDisk(n))
  BY DEF Truthful
<1>2. \A c \in known' : Good(c)
  BY <1>1, GenesisTruth
<1>3. \A c \in DOMAIN snapshots' : snapshots'[c] = Truth(c)
  BY <1>1, GenesisTruth, Zenon
<1> QED
  BY <1>1, <1>2, <1>3, Zenon DEF Has, OnDisk

\* persist_canonical writes the states that are in memory.
LEMMA WriteTruth ==
    ASSUME NodeInv, Truthful, Write
    PROVE  Truthful'
<1>1. Store /\ Stage
  BY DEF NodeInv
<1>2. UNCHANGED <<known, snapshots, guessed>>
  BY DEF Write, vars
<1> SUFFICES ASSUME ~guessed
             PROVE  /\ \A c \in known' : Good(c)
                    /\ \A c \in DOMAIN snapshots' : snapshots'[c] = Truth(c)
                    /\ \A c : Has(SnapshotKey(c))' => disk'[SnapshotKey(c)] = Truth(c)
                    /\ \A n \in Nat : Has(HeightKey(n))' => Good(OnDisk(n)')
  BY <1>2, TruthPrimed, ZenonT(30)
<1>3. /\ \A c \in known : Good(c)
      /\ \A c \in DOMAIN snapshots : snapshots[c] = Truth(c)
      /\ \A c : Has(SnapshotKey(c)) => disk[SnapshotKey(c)] = Truth(c)
      /\ \A n \in Nat : Has(HeightKey(n)) => Good(OnDisk(n))
  BY DEF Truthful
<1>4. ASSUME NEW c, Has(SnapshotKey(c))' PROVE disk'[SnapshotKey(c)] = Truth(c)
  <2>1. \/ Has(SnapshotKey(c)) /\ disk'[SnapshotKey(c)] = disk[SnapshotKey(c)]
        \/ c \in DOMAIN snapshots /\ disk'[SnapshotKey(c)] = snapshots[c]
    BY <1>1, <1>4, WriteKeys, Zenon
  <2> QED
    BY <1>3, <2>1, Zenon
<1>5. ASSUME NEW n \in Nat, Has(HeightKey(n))' PROVE Good(OnDisk(n)')
  <2>1. \/ Has(HeightKey(n)) /\ OnDisk(n)' = OnDisk(n)
        \/ n \in 0 .. Number[head] /\ OnDisk(n)' = byNumber[n]
    BY <1>1, <1>5, WriteKeys, Zenon
  <2>2. n \in 0 .. Number[head] => byNumber[n] \in known
    BY <1>1, IndexShape
  <2> QED
    BY <1>3, <2>1, <2>2, Zenon
<1> QED
  BY <1>2, <1>3, <1>4, <1>5, Zenon

\* A start takes the states from disk, or replays bodies that were all kept.
LEMMA StartTruth ==
    ASSUME NodeInv, Truthful, StartFromDisk
    PROVE  Truthful'
<1>1. DiskSound
  BY DEF NodeInv
<1>2. /\ Has(HeadKey) /\ ChainLoads /\ known' = Loaded /\ snapshots' = LoadedSnapshots
      /\ disk' = disk /\ guessed' = (guessed \/ ReplaysStripped)
  BY DEF StartFromDisk, Starts
<1> SUFFICES ASSUME ~guessed, ~ReplaysStripped
             PROVE  /\ \A c \in known' : Good(c)
                    /\ \A c \in DOMAIN snapshots' : snapshots'[c] = Truth(c)
                    /\ \A c : Has(SnapshotKey(c))' => disk'[SnapshotKey(c)] = Truth(c)
                    /\ \A n \in Nat : Has(HeightKey(n))' => Good(OnDisk(n)')
  BY <1>2, TruthPrimed, ZenonT(30)
<1>3. /\ \A c : Has(SnapshotKey(c)) => disk[SnapshotKey(c)] = Truth(c)
      /\ \A n \in Nat : Has(HeightKey(n)) => Good(OnDisk(n))
  BY DEF Truthful
<1>4. PICK d : d = DiskHeight
  OBVIOUS
<1>5. d \in Nat /\ \A n \in 0 .. d : Has(HeightKey(n)) /\ Number[OnDisk(n)] = n
  BY <1>1, <1>2, <1>4, LoadedChain
<1>6. \A n \in 0 .. d : Good(OnDisk(n))
  BY <1>3, <1>5
<1>7. \A b \in Loaded : \E n \in 0 .. d : b = OnDisk(n)
  BY <1>4 DEF Loaded
<1>8. \A b \in Loaded : Good(b)
  BY <1>6, <1>7, Zenon
<1>9. ASSUME NEW b \in DOMAIN LoadedSnapshots PROVE LoadedSnapshots[b] = Truth(b)
  <2>1. CASE Restored
    <3>1. Has(SnapshotKey(b)) /\ LoadedSnapshots[b] = disk[SnapshotKey(b)]
      BY <1>9, <2>1 DEF LoadedSnapshots
    <3> QED
      BY <1>3, <3>1, ZenonT(30)
  <2>2. CASE ~Restored
    <3>1. b \in Loaded /\ LoadedSnapshots[b] = Replayed[Number[b]]
      BY <1>9, <2>2 DEF LoadedSnapshots
    <3>2. PICK n \in 0 .. d : b = OnDisk(n)
      BY <1>7, <3>1
    <3>3. LoadedBodies = Loaded
      BY <2>2 DEF ReplaysStripped
    <3>4. Replayed[n] = Truth(OnDisk(n))
      BY <1>1, <1>2, <1>4, <1>6, <3>3, ReplayedTruth
    <3> QED
      BY <1>5, <3>1, <3>2, <3>4
  <2> QED
    BY <2>1, <2>2
<1> QED
  BY <1>2, <1>3, <1>8, <1>9, Zenon DEF Has, OnDisk

\* Every step keeps the truth.
LEMMA TruthNext == NodeInv /\ Truthful /\ [NodeNext]_nodeVars => Truthful'
<1> SUFFICES ASSUME NodeInv, Truthful, [NodeNext]_nodeVars PROVE Truthful'
  OBVIOUS
<1>1. CASE StartFresh \/ PersistCanonical \/ UNCHANGED nodeVars
  <2>1. UNCHANGED vars /\ guessed' = guessed /\ disk' = disk
    BY <1>1 DEF StartFresh, PersistCanonical, nodeVars
  <2>2. known' = known /\ snapshots' = snapshots
    BY <2>1 DEF vars
  <2> QED
    BY <2>1, <2>2, TruthSame
<1>2. CASE Persisted \/ WriteFails
  <2>1. PruneStore /\ guessed' = guessed /\ disk' = disk
    BY <1>2 DEF Persisted, WriteFails
  <2>2. /\ known' = known
        /\ \A b \in DOMAIN snapshots' : b \in DOMAIN snapshots /\ snapshots'[b] = snapshots[b]
    BY <2>1, StorePrune DEF NodeInv, Stage
  <2> QED
    BY <2>1, <2>2, TruthSame
<1>3. CASE Crash
  <2>1. /\ guessed' = guessed /\ disk' = disk /\ known' = {Genesis}
        /\ snapshots' = [b \in {Genesis} |-> GenesisState]
    BY <1>3 DEF Crash
  <2> QED
    BY <2>1, TruthSame
<1>4. ASSUME NEW b \in Block, ImportBlock(b) PROVE Truthful'
  BY <1>4, ImportTruth
<1> QED
  BY <1>1, <1>2, <1>3, <1>4, WriteTruth, StartTruth DEF NodeNext

\* On an empty data directory only genesis has a state.
LEMMA TruthInit == NodeInit => Truthful
<1> SUFFICES ASSUME NodeInit PROVE Truthful
  OBVIOUS
<1>1. /\ known = {Genesis} /\ snapshots = [b \in {Genesis} |-> GenesisState]
  BY DEF NodeInit, Init
<1>2. \A key : ~Has(key)
  BY DEF NodeInit, Has
<1>3. /\ \A b \in known : Good(b)
      /\ \A b \in DOMAIN snapshots : snapshots[b] = Truth(b)
  BY <1>1, GenesisTruth
<1> QED
  BY <1>2, <1>3, Zenon DEF Truthful

\* Whatever a crash, a failed write or a change of window leaves behind, a node
\* that starts runs on the state its chain leads to and its header commits to,
\* for every block tree and every execution function, as long as no start had to
\* replay stripped bodies.
THEOREM RecoveredStateAlways == NodeSpec => []RecoveredState
<1>1. NodeInv /\ Truthful => RecoveredState
  <2> SUFFICES ASSUME NodeInv, Truthful, ~guessed
               PROVE  LiveFollowsHead /\ SnapshotsSound /\ LiveIsReplay
    BY DEF RecoveredState
  <2>1. Store
    BY DEF NodeInv
  <2>2. /\ \A b \in known : Good(b)
        /\ \A b \in DOMAIN snapshots : snapshots[b] = Truth(b)
    BY DEF Truthful
  <2>3. LiveFollowsHead
    BY <2>1 DEF Store
  <2>4. LiveIsReplay
    BY <2>2, <2>3 DEF LiveFollowsHead, LiveIsReplay, Truth
  <2>5. SnapshotsSound
    <3> SUFFICES ASSUME NEW b \in DOMAIN snapshots
                 PROVE  /\ RootOf(snapshots[b]) = StateRoot[b]
                        /\ Parent[b] \in DOMAIN snapshots =>
                              snapshots[b] = Execute(snapshots[Parent[b]], TxsOf[b])
      BY DEF SnapshotsSound
    <3>1. b \in known /\ known \in SUBSET Block /\ Rooted(known)
      BY <2>1 DEF Store
    <3>2. RootOf(snapshots[b]) = StateRoot[b]
      BY <2>2, <3>1 DEF Good
    <3>3. ASSUME Parent[b] \in DOMAIN snapshots
          PROVE  snapshots[b] = Execute(snapshots[Parent[b]], TxsOf[b])
      <4>1. Parent[b] \in known
        BY <2>1, <3>3 DEF Store
      <4>2. b # Genesis
        BY <3>1, <4>1, Links
      <4>3. Number[b] = Number[Parent[b]] + 1
        BY <2>1, <3>1, <4>2 DEF Store, ParentKnown
      <4>4. Truth(b) = Execute(Truth(Parent[b]), TxsOf[b])
        BY <3>1, <4>1, <4>3, TruthExtends
      <4> QED
        BY <2>2, <3>3, <4>4
    <3> QED
      BY <3>2, <3>3
  <2> QED
    BY <2>3, <2>4, <2>5
<1>2. NodeSpec => []Truthful
  BY TruthInit, TruthNext, NodeInvariance, PTL DEF NodeSpec
<1> QED
  BY <1>1, <1>2, NodeInvariance, PTL
----------------------------------------------------------------------------
\* The lemmas about the mempool, for the pool of the chain.
PoolProofs == INSTANCE TxPoolProofs WITH admitted <- {}

\* Their assumption holds here.
LEMMA PoolProofsApply == PoolProofs!TxPoolAssumption
  BY ChainAssumption DEF PoolProofs!TxPoolAssumption

\* The store is in order; each snapshot is the replay of its chain, the index
\* is sound, and so is the pool.
FullInv ==
    /\ IInv
    /\ \A b \in DOMAIN snapshots : snapshots[b] = Replay(b)[Number[b]]
    /\ TxIndexSound
    /\ PoolProofs!Sound(pool)

\* The pool of a node stays sound; after a head change nothing of the new
\* chain is pending.
LEMMA HeadChangePool ==
    ASSUME NEW K \in SUBSET Block, Rooted(K), NEW old \in K, NEW new \in K, NEW B,
           PoolProofs!Sound(pool)
    PROVE  /\ PoolProofs!Sound(PoolAfterHeadChange(B, old, new))
           /\ PoolAfterHeadChange(B, old, new).pending \cap Range(TxsOnPath(B, new)) = {}
<1>1. PICK txs, fresh \in Seq(Tx) : txs = TxsOnPath(B, old) /\ fresh = TxsOnPath(B, new)
  BY TxsOnPathType
<1>2. PICK p : p = PoolProofs!AddAllBut(pool, txs, Range(fresh))
  OBVIOUS
<1>3. PoolProofs!Sound(p) /\ p \in PoolProofs!Pools
  <2>1. pool \in PoolProofs!Pools
    BY DEF PoolProofs!Sound
  <2>2. PoolProofs!Sound(p)
    BY <1>2, <2>1, PoolProofsApply, PoolProofs!AddAllButSound
  <2> QED
    BY <2>2 DEF PoolProofs!Sound
<1>4. PICK q : q = PoolProofs!RemoveAll(p, fresh)
  OBVIOUS
<1>5. PoolProofs!Sound(q) /\ q.pending = p.pending \ {fresh[i] : i \in 1 .. Len(fresh)}
  BY <1>3, <1>4, PoolProofsApply, PoolProofs!RemoveAllMeans
<1>6. PoolAfterHeadChange(B, old, new) = q
  <2>1. Pool!AddAllBut(pool, txs, Range(fresh)) = p
    BY <1>2, ZenonT(30) DEF Pool!AddAllBut, PoolProofs!AddAllBut, Pool!AddTransaction,
       PoolProofs!AddTransaction, Pool!Admissible, PoolProofs!Admissible,
       Pool!Cardinality, PoolProofs!Cardinality
  <2>2. Pool!RemoveAll(p, fresh) = q
    BY <1>4, Zenon DEF Pool!RemoveAll, PoolProofs!RemoveAll, Pool!RemoveTransaction, PoolProofs!RemoveTransaction,
       Pool!SaturatingDec, PoolProofs!SaturatingDec
  <2> QED
    BY <1>1, <2>1, <2>2 DEF PoolAfterHeadChange
<1>7. Range(fresh) = {fresh[i] : i \in 1 .. Len(fresh)}
  BY DEF Range
<1> QED
  BY <1>1, <1>5, <1>6, <1>7

\* import_and_apply preserves the full invariant, and cleans the pool when it
\* moves the head.
LEMMA ImportFull ==
    ASSUME FullInv, NEW b \in Block, NEW txs, Import(b, txs)
    PROVE  /\ FullInv'
           /\ head' # head => pool'.pending \cap Range(TxsOnPath(bodies', head')) = {}
<1>1. IInv /\ IInv'
  BY ImportStep DEF FullInv
<1>2. PICK post, p, B : post = PostState(snapshots, b, txs) /\ p = Parent[b] /\ B = bodies \cup {b}
  BY ZenonT(30)
<1>3. /\ p \in DOMAIN snapshots
      /\ post = Execute(snapshots[p], TxsOf[b])
      /\ p \in known /\ b \notin known
      /\ Number[b] = Number[p] + 1
  BY <1>2, ZenonT(30) DEF Import, PostState, Insertable, BodyPasses
<1>4. /\ known' = known \cup {b}
      /\ bodies' = B
      /\ snapshots' = [c \in DOMAIN snapshots \cup {b} |->
                          IF c = b THEN post ELSE snapshots[c]]
  BY <1>2, ZenonT(30) DEF Import
<1>5. /\ known \in SUBSET Block /\ Rooted(known) /\ head \in known
      /\ DOMAIN snapshots \subseteq known
  BY <1>1 DEF IInv, StoreTypeOK
<1>6. ASSUME NEW c \in DOMAIN snapshots' PROVE snapshots'[c] = Replay(c)[Number[c]]
  <2>1. CASE c = b
    <3>1. Replay(b)[Number[b]] = Execute(Replay(p)[Number[p]], TxsOf[b])
      BY <1>2, <1>3, <1>5, ReplayExtends
    <3>2. snapshots[p] = Replay(p)[Number[p]]
      BY <1>3 DEF FullInv
    <3> QED
      BY <1>3, <1>4, <2>1, <3>1, <3>2
  <2>2. CASE c # b
    <3>1. c \in DOMAIN snapshots /\ snapshots'[c] = snapshots[c]
      BY <1>4, <2>2
    <3> QED
      BY <3>1 DEF FullInv
  <2> QED
    BY <2>1, <2>2
<1>7. CASE Better(b, head)
  <2>1. /\ head' = b /\ byNumber' = PathTo(b) /\ txIndex' = Locations(B, PathTo(b))
        /\ pool' = PoolAfterHeadChange(B, head, b)
    BY <1>2, <1>7, ZenonT(30) DEF Import, SetCanonical, TxIndex
  <2>2. Rooted(known') /\ known' \in SUBSET Block /\ b \in known' /\ head \in known'
    BY <1>1, <1>4, <1>5 DEF IInv, StoreTypeOK
  <2>3. /\ PoolProofs!Sound(pool')
        /\ pool'.pending \cap Range(TxsOnPath(B, b)) = {}
    <3>1. PoolProofs!Sound(pool)
      BY DEF FullInv
    <3> QED
      BY <2>1, <2>2, <3>1, HeadChangePool, ZenonT(30)
  <2>4. TxIndexSound'
    <3>1. PICK path, n : path = PathTo(b) /\ n = Number[b]
      OBVIOUS
    <3>2. n \in Nat /\ path \in [0 .. n -> Block]
      <4>1. IsPath(PathTo(b), b)
        BY <2>2, PathToIsPath DEF Rooted
      <4>2. PathTo(b) \in [0 .. Number[b] -> known']
        BY <2>2, <4>1 DEF Rooted, Levelled
      <4> QED
        BY <2>2, <3>1, <4>2, Links, ZenonT(30)
    <3>3. /\ \A t \in DOMAIN Locations(B, path) :
                /\ Locations(B, path)[t].block \in Range(path)
                /\ TxsOf[Locations(B, path)[t].block][Locations(B, path)[t].index] = t
          /\ \A c \in Range(path) \cap B : Range(TxsOf[c]) \subseteq DOMAIN Locations(B, path)
      BY <3>2, LocationsSound
    <3> QED
      BY <1>4, <2>1, <3>1, <3>3, ZenonT(30) DEF TxIndexSound, CanonicalHashes
  <2> QED
    BY <1>1, <1>4, <1>6, <2>1, <2>3, <2>4, ZenonT(30) DEF FullInv
<1>8. CASE ~Better(b, head)
  <2>1. UNCHANGED <<head, byNumber, txIndex, pool>>
    BY <1>8 DEF Import
  <2>2. b \notin Range(byNumber)
    BY <1>1, <1>3 DEF IInv, StoreTypeOK, Range
  <2>3. TxIndexSound'
    <3>1. \A c \in Range(byNumber) \cap B : c \in bodies
      BY <1>2, <2>2
    <3>2. TxIndexSound
      BY DEF FullInv
    <3> QED
      BY <1>4, <2>1, <3>1, <3>2 DEF TxIndexSound, CanonicalHashes
  <2> QED
    BY <1>1, <1>6, <2>1, <2>3, ZenonT(30) DEF FullInv
<1> QED
  BY <1>7, <1>8

\* Pruning preserves the full invariant.
LEMMA PruneFull ==
    ASSUME FullInv, IInv', DOMAIN snapshots' \subseteq DOMAIN snapshots,
           \A b \in DOMAIN snapshots' : snapshots'[b] = snapshots[b],
           bodies' \subseteq bodies,
           UNCHANGED <<byNumber, head, txIndex, pool>>
    PROVE  FullInv'
<1>1. TxIndexSound'
  BY DEF FullInv, TxIndexSound, CanonicalHashes
<1>2. ASSUME NEW b \in DOMAIN snapshots' PROVE snapshots'[b] = Replay(b)[Number[b]]
  <2>1. b \in DOMAIN snapshots /\ snapshots'[b] = snapshots[b]
    OBVIOUS
  <2> QED
    BY <2>1 DEF FullInv
<1> QED
  BY <1>1, <1>2, ZenonT(30) DEF FullInv

\* The full invariant holds initially.
LEMMA InitFull == Init => FullInv
<1> SUFFICES ASSUME Init PROVE FullInv
  OBVIOUS
<1>1. IInv
  BY InitStep
<1>2. ASSUME NEW b \in DOMAIN snapshots PROVE snapshots[b] = Replay(b)[Number[b]]
  <2>1. b = Genesis /\ snapshots[b] = GenesisState /\ Number[Genesis] = 0 /\ Genesis \in Block
    BY Links DEF Init
  <2>2. Replay(Genesis)[0] = GenesisState
    BY <2>1, ReplayMeans, Zenon
  <2> QED
    BY <2>1, <2>2
<1>3. TxIndexSound
  <2>1. PICK path : path = [n \in {0} |-> Genesis]
    BY ZenonT(30)
  <2>2. path \in [0 .. 0 -> Block]
    BY <2>1, Links
  <2>3. /\ \A t \in DOMAIN Locations({Genesis}, path) :
              /\ Locations({Genesis}, path)[t].block \in Range(path)
              /\ TxsOf[Locations({Genesis}, path)[t].block][Locations({Genesis}, path)[t].index] = t
        /\ \A c \in Range(path) \cap {Genesis} :
              Range(TxsOf[c]) \subseteq DOMAIN Locations({Genesis}, path)
    BY <2>2, LocationsSound, ZenonT(30)
  <2>4. byNumber = path /\ txIndex = Locations({Genesis}, path) /\ bodies = {Genesis}
    BY <2>1 DEF Init
  <2> QED
    BY <2>3, <2>4, ZenonT(30) DEF TxIndexSound, CanonicalHashes
<1>4. PoolProofs!Sound(pool)
  <2>1. [s \in Sender |-> 0] \in [Sender -> Nat]
    OBVIOUS
  <2>2. pool = [pending |-> {}, nextNonce |-> [s \in Sender |-> 0],
                perSender |-> [s \in Sender |-> 0]]
    BY DEF Init, Pool!EmptyPool
  <2> QED
    BY <2>1, <2>2, PoolProofsApply, PoolProofs!EmptySound
<1> QED
  BY <1>1, <1>2, <1>3, <1>4 DEF FullInv

\* Every step preserves the full invariant and cleans the pool.
LEMMA NextFull ==
    ASSUME FullInv, [Next]_vars
    PROVE  /\ FullInv'
           /\ head' # head => pool'.pending \cap Range(TxsOnPath(bodies', head')) = {}
<1>1. IInv'
  BY NextStep DEF FullInv
<1>2. ASSUME NEW b \in Block, NEW txs \in {TxsOf[b], <<>>}, Import(b, txs)
      PROVE  /\ FullInv'
             /\ head' # head => pool'.pending \cap Range(TxsOnPath(bodies', head')) = {}
  BY <1>2, ImportFull
<1>3. CASE PruneSnapshots
  <2>1. /\ DOMAIN snapshots' \subseteq DOMAIN snapshots
        /\ \A b \in DOMAIN snapshots' : snapshots'[b] = snapshots[b]
    BY <1>3 DEF PruneSnapshots, RestrictDomain, Restrict
  <2>2. UNCHANGED <<bodies, byNumber, head, txIndex, pool>>
    BY <1>3 DEF PruneSnapshots
  <2> QED
    BY <1>1, <2>1, <2>2, PruneFull
<1>4. ASSUME NEW keep \in Window, PruneSnapshotsKeep(keep)
      PROVE  FullInv' /\ head' = head
  <2>1. /\ DOMAIN snapshots' \subseteq DOMAIN snapshots
        /\ \A b \in DOMAIN snapshots' : snapshots'[b] = snapshots[b]
    BY <1>4 DEF PruneSnapshotsKeep, RestrictDomain, Restrict
  <2>2. bodies' \subseteq bodies /\ UNCHANGED <<byNumber, head, txIndex, pool>>
    BY <1>4 DEF PruneSnapshotsKeep
  <2> QED
    BY <1>1, <2>1, <2>2, PruneFull
<1>5. ASSUME NEW t \in Tx, Submit(t) PROVE FullInv' /\ head' = head
  <2>1. PoolProofs!Sound(PoolProofs!AddTransaction(pool, t))
    BY PoolProofsApply, PoolProofs!AddSound, Zenon DEF FullInv
  <2>2. Pool!AddTransaction(pool, t) = PoolProofs!AddTransaction(pool, t)
    BY Zenon DEF Pool!AddTransaction, PoolProofs!AddTransaction, Pool!Admissible,
       PoolProofs!Admissible, Pool!Cardinality, PoolProofs!Cardinality
  <2>3. PoolProofs!Sound(pool')
    BY <1>5, <2>1, <2>2 DEF Submit
  <2>4. UNCHANGED storeVars
    BY <1>5 DEF Submit
  <2> QED
    BY <1>1, <2>3, <2>4, ZenonT(30) DEF FullInv, storeVars, TxIndexSound, CanonicalHashes
<1>6. CASE UNCHANGED vars
  BY <1>1, <1>6 DEF FullInv, vars, TxIndexSound, CanonicalHashes
<1> QED
  BY <1>2, <1>3, <1>4, <1>5, <1>6 DEF Next, PruneSnapshots

\* The invariant of all reachable states.
LEMMA FullInvariance == Spec => []FullInv
<1>1. FullInv /\ [Next]_vars => FullInv'
  BY NextFull
<1> QED
  BY <1>1, InitFull, PTL DEF Spec

\* Whatever branches were imported, adopted, left and pruned, the live state
\* that executor and RPC read is what the blocks of the canonical chain make of
\* the genesis state, each applied once and in order (apply_head_change).
THEOREM LiveIsReplayAlways == Spec => []LiveIsReplay
<1>1. FullInv => LiveIsReplay
  BY DEF FullInv, IInv, LiveFollowsHead, LiveIsReplay
<1> QED
  BY <1>1, FullInvariance, PTL

\* get_transaction finds, in a canonical block, the transaction it was asked
\* for, and all those of canonical blocks whose body is kept
\* (rebuild_tx_index, prune_snapshots_keep).
THEOREM TxIndexSoundAlways == Spec => []TxIndexSound
<1>1. FullInv => TxIndexSound
  BY DEF FullInv
<1> QED
  BY <1>1, FullInvariance, PTL

\* A step that moves the head leaves no pending transaction that the new chain
\* has in a kept body, although apply_head_change first offers the dropped
\* ones to the pool.
THEOREM PoolCleanAlways == Spec => PoolCleanAfterHeadChange
<1>1. FullInv /\ [Next]_vars =>
        [head' # head => pool'.pending \cap Range(TxsOnPath(bodies', head')) = {}]_vars
  BY NextFull
<1> QED
  BY <1>1, FullInvariance, PTL DEF Spec, PoolCleanAfterHeadChange
=============================================================================
