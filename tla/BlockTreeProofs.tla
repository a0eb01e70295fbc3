-------------------------- MODULE BlockTreeProofs --------------------------
(***************************************************************************)
(* Parent walks in a block tree: what the proofs of Chain and ChainTasks   *)
(* share.  They unfold the recursion of PathTo without induction, since a  *)
(* store grows by blocks whose parent it has.                              *)
(***************************************************************************)
EXTENDS BlockTree, NaturalsInduction, WellFoundedInduction, TLAPS

\* A set that has 0, and with each number up to n the next one, has them all.
LEMMA SetInduction ==
    ASSUME NEW n \in Nat, NEW T, 0 \in T, \A i \in 0 .. n - 1 : i \in T => i + 1 \in T
    PROVE  0 .. n \subseteq T
<1> DEFINE U == (0 .. n) \ T
<1> SUFFICES ASSUME U # {} PROVE FALSE
  OBVIOUS
<1>1. U \subseteq Nat
  OBVIOUS
<1> HIDE DEF U
<1>2. PICK d \in U : \A e \in U : ~(<<e, d>> \in OpToRel(<, Nat))
  BY <1>1, WFMin, NatLessThanWellFounded, Zenon
<1>3. \A e \in U : ~(e < d)
  BY <1>1, <1>2, Zenon DEF OpToRel
<1>4. d \in 1 .. n /\ d - 1 \notin U
  BY <1>3 DEF U
<1> QED
  BY <1>4 DEF U

\* f is a parent walk from tip down to height 0.
IsPath(f, tip) ==
    f = [n \in 0 .. Number[tip] |-> IF n = Number[tip] THEN tip ELSE Parent[f[n + 1]]]

\* f is a walk that stays in K and meets each height once.
Levelled(f, b, K) ==
    /\ f \in [0 .. Number[b] -> K]
    /\ \A n \in 0 .. Number[b] : Number[f[n]] = n

\* Every block of K has a parent walk, and all its walks are levelled.  This
\* is what unfolds the recursion of PathTo without induction: the import of
\* a block extends its parent's walk.
Rooted(K) ==
    \A b \in K :
        /\ \E f : IsPath(f, b)
        /\ \A f : IsPath(f, b) => Levelled(f, b, K)

\* The facts about blocks that the walks need.
LEMMA Links ==
    /\ Block \subseteq Nat \ {ZeroHash}
    /\ Genesis \in Block
    /\ Parent \in [Block -> Block \cup {ZeroHash}]
    /\ Parent[Genesis] = ZeroHash
    /\ Number \in [Block -> Nat]
    /\ Number[Genesis] = 0
  BY BlockTreeAssumption

\* What a walk looks like, without the equation that defines it.
LEMMA PathShape ==
    ASSUME NEW tip \in Block, NEW f
    PROVE  IsPath(f, tip) <=>
             /\ f = [n \in 0 .. Number[tip] |-> f[n]]
             /\ f[Number[tip]] = tip
             /\ \A n \in 0 .. Number[tip] - 1 : f[n] = Parent[f[n + 1]]
  BY Links DEF IsPath

\* PathTo solves its recursion as soon as there is a solution.
LEMMA PathToIsPath ==
    ASSUME NEW tip \in Block, \E f : IsPath(f, tip)
    PROVE  IsPath(PathTo(tip), tip)
<1>1. PathTo(tip) = CHOOSE g : g = [n \in 0 .. Number[tip] |->
                                      IF n = Number[tip] THEN tip ELSE Parent[g[n + 1]]]
  BY DEF PathTo
<1>2. QED
  BY <1>1, Zenon DEF IsPath

\* A block whose parent has walks has walks, one step longer.
LEMMA ExtendPath ==
    ASSUME NEW b \in Block, NEW p \in Block, Parent[b] = p, Number[b] = Number[p] + 1
    PROVE  /\ \A f : IsPath(f, p) =>
                IsPath([n \in 0 .. Number[b] |-> IF n = Number[b] THEN b ELSE f[n]], b)
           /\ \A g : IsPath(g, b) => IsPath([n \in 0 .. Number[p] |-> g[n]], p)
<1> USE Links
<1>1. ASSUME NEW f, IsPath(f, p)
      PROVE  IsPath([n \in 0 .. Number[b] |-> IF n = Number[b] THEN b ELSE f[n]], b)
  <2> DEFINE g == [n \in 0 .. Number[b] |-> IF n = Number[b] THEN b ELSE f[n]]
  <2>1. /\ f[Number[p]] = p
        /\ \A n \in 0 .. Number[p] - 1 : f[n] = Parent[f[n + 1]]
    BY <1>1, PathShape
  <2>2. g[Number[b]] = b /\ g = [n \in 0 .. Number[b] |-> g[n]]
    OBVIOUS
  <2>3. ASSUME NEW n \in 0 .. Number[b] - 1 PROVE g[n] = Parent[g[n + 1]]
    <3>1. CASE n = Number[p]
      BY <2>1, <3>1
    <3>2. CASE n < Number[p]
      BY <2>1, <3>2
    <3>3. QED
      BY <3>1, <3>2
  <2> HIDE DEF g
  <2>4. IsPath(g, b)
    BY <2>2, <2>3, PathShape, Zenon
  <2>5. QED
    BY <2>4 DEF g
<1>2. ASSUME NEW g, IsPath(g, b) PROVE IsPath([n \in 0 .. Number[p] |-> g[n]], p)
  <2> DEFINE f == [n \in 0 .. Number[p] |-> g[n]]
  <2>1. /\ g[Number[b]] = b
        /\ \A n \in 0 .. Number[b] - 1 : g[n] = Parent[g[n + 1]]
    BY <1>2, PathShape
  <2>2. f[Number[p]] = p
    BY <2>1
  <2>3. \A n \in 0 .. Number[p] - 1 : f[n] = Parent[f[n + 1]]
    BY <2>1
  <2>4. f = [n \in 0 .. Number[p] |-> f[n]]
    OBVIOUS
  <2> HIDE DEF f
  <2>5. IsPath(f, p)
    BY <2>2, <2>3, <2>4, PathShape, Zenon
  <2>6. QED
    BY <2>5 DEF f
<1>3. QED
  BY <1>1, <1>2

\* The walks of the store survive the insertion of a block over its parent.
LEMMA InsertKeepsRooted ==
    ASSUME NEW K \in SUBSET Block, Rooted(K), NEW b \in Block, Parent[b] \in K,
           Number[b] = Number[Parent[b]] + 1
    PROVE  Rooted(K \cup {b})
<1> USE Links
<1> DEFINE p == Parent[b]
           L == K \cup {b}
<1>1. ASSUME NEW c \in K, NEW f, IsPath(f, c) PROVE Levelled(f, c, L)
  <2>1. Levelled(f, c, K)
    BY <1>1 DEF Rooted
  <2>2. QED
    BY <2>1 DEF Levelled
<1>2. p \in Block /\ Number[p] \in Nat /\ Number[b] = Number[p] + 1 /\ Number[b] \in Nat
  BY Zenon
<1>3. \E g : IsPath(g, b)
  <2>1. PICK f : IsPath(f, p)
    BY Zenon DEF Rooted
  <2>2. \A h : IsPath(h, p) =>
          IsPath([n \in 0 .. Number[b] |-> IF n = Number[b] THEN b ELSE h[n]], b)
    BY <1>2, ExtendPath, ZenonT(30)
  <2>3. QED
    BY <2>1, <2>2, Zenon
<1>4. ASSUME NEW g, IsPath(g, b) PROVE Levelled(g, b, L)
  <2> DEFINE f == [n \in 0 .. Number[p] |-> g[n]]
  <2>0. \A h : IsPath(h, b) => IsPath([n \in 0 .. Number[p] |-> h[n]], p)
    BY <1>2, ExtendPath, ZenonT(30)
  <2>1. IsPath(f, p)
    BY <1>4, <2>0
  <2>2. \A n \in 0 .. Number[p] : f[n] = g[n]
    OBVIOUS
  <2> HIDE DEF f
  <2>3. Levelled(f, p, K)
    BY <2>1, Zenon DEF Rooted
  <2>4. \A n \in 0 .. Number[p] : g[n] \in K /\ Number[g[n]] = n
    BY <2>2, <2>3 DEF Levelled
  <2>5. /\ g = [n \in 0 .. Number[b] |-> g[n]]
        /\ g[Number[b]] = b
    BY <1>4, PathShape
  <2>6. ASSUME NEW n \in 0 .. Number[b]
        PROVE  g[n] \in L /\ Number[g[n]] = n
    <3>1. CASE n = Number[b]
      BY <2>5, <3>1
    <3>2. CASE n # Number[b]
      BY <1>2, <2>4, <3>2
    <3>3. QED
      BY <3>1, <3>2
  <2>7. QED
    BY <2>5, <2>6, Zenon DEF Levelled
<1>5. QED
  BY <1>1, <1>3, <1>4 DEF Rooted

\* The canonical index rebuilt for a new head is the chain down to genesis.
LEMMA PathIsCanonical ==
    ASSUME NEW b \in Block, NEW f, IsPath(f, b)
    PROVE  /\ DOMAIN f = 0 .. Number[b]
           /\ f[Number[b]] = b
           /\ \A n \in 1 .. Number[b] : Parent[f[n]] = f[n - 1]
<1> USE Links
<1>1. /\ f = [n \in 0 .. Number[b] |-> f[n]]
      /\ f[Number[b]] = b
      /\ \A n \in 0 .. Number[b] - 1 : f[n] = Parent[f[n + 1]]
  BY PathShape
<1>2. ASSUME NEW n \in 1 .. Number[b] PROVE Parent[f[n]] = f[n - 1]
  <2>1. n - 1 \in 0 .. Number[b] - 1 /\ (n - 1) + 1 = n
    OBVIOUS
  <2>2. QED
    BY <1>1, <2>1, Zenon
<1>3. QED
  BY <1>1, <1>2, Zenon

\* A store with nothing but genesis.
LEMMA GenesisRooted == Rooted({Genesis})
<1> USE Links
<1> DEFINE g == [n \in 0 .. 0 |-> Genesis]
<1>1. IsPath(g, Genesis)
  BY DEF IsPath
<1>2. ASSUME NEW f, IsPath(f, Genesis) PROVE Levelled(f, Genesis, {Genesis})
  <2>1. f = [n \in 0 .. 0 |-> f[n]] /\ f[0] = Genesis
    <3>1. /\ f = [n \in 0 .. Number[Genesis] |-> f[n]]
          /\ f[Number[Genesis]] = Genesis
      BY <1>2, PathShape, ZenonT(30)
    <3>2. QED
      BY <3>1
  <2>2. \A n \in 0 .. 0 : n = 0
    OBVIOUS
  <2>3. QED
    BY <2>1, <2>2 DEF Levelled
<1> HIDE DEF g
<1>3. QED
  BY <1>1, <1>2 DEF Rooted

\* A block of the store has all its ancestors in it.
LEMMA AncestorsKnown ==
    ASSUME NEW K \in SUBSET Block, Rooted(K), NEW b \in K
    PROVE  Range(PathTo(b)) \subseteq K
<1>1. IsPath(PathTo(b), b)
  BY PathToIsPath DEF Rooted
<1>2. PathTo(b) \in [0 .. Number[b] -> K]
  BY <1>1 DEF Rooted, Levelled
<1>3. QED
  BY <1>2 DEF Range
=============================================================================
