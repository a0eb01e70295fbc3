---------------------------- MODULE TxPoolProofs ----------------------------
(***************************************************************************)
(* Proofs about the mempool, for every set of transactions and senders and *)
(* all limits.  The pool operations are proved to preserve Sound, and the  *)
(* theorems about Spec follow.                                             *)
(***************************************************************************)
EXTENDS TxPool, FiniteSetTheorems, NaturalsInduction, WellFoundedInduction, TLAPS

\* What every operation needs of the pool it is given, and returns.
Sound(p) ==
    /\ p \in Pools
    /\ IsFiniteSet(p.pending)
    /\ CountsExact(p)
    /\ Limited(p)

IInv == TypeOK /\ Sound(pool) /\ StrictNonces

\* A pool without transactions is sound.
LEMMA EmptySound == ASSUME NEW n \in [Sender -> Nat]
                    PROVE  Sound([pending   |-> {},
                                  nextNonce |-> n,
                                  perSender |-> [s \in Sender |-> 0]])
<1> DEFINE p == [pending |-> {}, nextNonce |-> n, perSender |-> [s \in Sender |-> 0]]
<1>1. p \in Pools
  BY DEF Pools
<1>2. \A s \in Sender : PendingOf(p, s) = {}
  BY DEF PendingOf
<1>3. /\ p.pending = {}
      /\ \A s \in Sender : p.perSender[s] = 0
  OBVIOUS
<1> HIDE DEF p
<1>4. IsFiniteSet({}) /\ Cardinality({}) = 0
  BY FS_EmptySet
<1>5. CountsExact(p)
  BY <1>2, <1>3, <1>4 DEF CountsExact
<1>6. Limited(p)
  BY <1>3, <1>4, TxPoolAssumption DEF Limited
<1>7. Sound(p)
  BY <1>1, <1>3, <1>4, <1>5, <1>6 DEF Sound
<1>8. QED
  BY <1>7 DEF p

\* add_transaction_at keeps the pool sound, admitted or refused.
LEMMA AddSound == ASSUME NEW p, NEW t \in Tx, Sound(p)
                  PROVE  Sound(AddTransaction(p, t))
<1> DEFINE q == AddTransaction(p, t)
<1>1. CASE ~Admissible(p, t)
  BY <1>1 DEF AddTransaction
<1>2. CASE Admissible(p, t)
  <2>1. /\ q.pending = p.pending \cup {t}
        /\ q.perSender = [p.perSender EXCEPT ![From[t]] = @ + 1]
        /\ q.nextNonce = [p.nextNonce EXCEPT ![From[t]] = @ + 1]
        /\ t \notin p.pending
        /\ q \in Pools
    BY <1>2, TxPoolAssumption DEF AddTransaction, Admissible, Sound, Pools
  <2> HIDE DEF q
  <2>2. IsFiniteSet(q.pending) /\ Cardinality(q.pending) = Cardinality(p.pending) + 1
    <3>1. IsFiniteSet(p.pending)
      BY DEF Sound
    <3>2. t \notin p.pending /\ q.pending = p.pending \cup {t}
      BY <2>1
    <3>3. QED
      BY <3>1, <3>2, FS_AddElement
  <2>3. ASSUME NEW s \in Sender
        PROVE  q.perSender[s] = Cardinality(PendingOf(q, s))
    <3>1. IsFiniteSet(PendingOf(p, s))
      <4>1. PendingOf(p, s) \in SUBSET p.pending
        BY DEF PendingOf
      <4>2. QED
        BY <4>1, FS_Subset DEF Sound
    <3>2. CASE s = From[t]
      <4>1. PendingOf(q, s) = PendingOf(p, s) \cup {t} /\ t \notin PendingOf(p, s)
        BY <2>1, <3>2 DEF PendingOf
      <4>2. Cardinality(PendingOf(q, s)) = Cardinality(PendingOf(p, s)) + 1
        BY <4>1, <3>1, FS_AddElement
      <4>3. q.perSender[s] = p.perSender[s] + 1
        BY <2>1, <3>2 DEF Sound, Pools
      <4>4. QED
        BY <4>2, <4>3 DEF Sound, CountsExact
    <3>3. CASE s # From[t]
      <4>1. PendingOf(q, s) = PendingOf(p, s)
        BY <2>1, <3>3 DEF PendingOf
      <4>2. q.perSender[s] = p.perSender[s]
        BY <2>1, <3>3 DEF Sound, Pools
      <4>3. QED
        BY <4>1, <4>2 DEF Sound, CountsExact
    <3>4. QED
      BY <3>2, <3>3
  <2>4. Cardinality(p.pending) \in Nat
    BY FS_CardinalityType DEF Sound
  <2>5. Limited(q)
    BY <2>1, <2>2, <2>4, <1>2, TxPoolAssumption DEF Limited, Sound, Admissible, Pools
  <2>6. QED
    BY <2>1, <2>2, <2>3, <2>5 DEF Sound, CountsExact, q
<1>3. QED
  BY <1>1, <1>2

\* remove keeps the pool sound, whether or not the transaction is pending.
LEMMA RemoveSound == ASSUME NEW p, NEW t \in Tx, Sound(p)
                     PROVE  Sound(RemoveTransaction(p, t))
<1> DEFINE q == RemoveTransaction(p, t)
<1>1. CASE t \notin p.pending
  BY <1>1 DEF RemoveTransaction
<1>2. CASE t \in p.pending
  <2>1. /\ q.pending = p.pending \ {t}
        /\ q.perSender = [p.perSender EXCEPT ![From[t]] = SaturatingDec(@)]
        /\ q \in Pools
    <3>1. \A n \in Nat : SaturatingDec(n) \in Nat
      BY DEF SaturatingDec
    <3>2. QED
      BY <1>2, <3>1, TxPoolAssumption DEF RemoveTransaction, Sound, Pools
  <2> HIDE DEF q
  <2>2. IsFiniteSet(q.pending) /\ Cardinality(q.pending) = Cardinality(p.pending) - 1
    <3>1. IsFiniteSet(p.pending)
      BY DEF Sound
    <3>2. QED
      BY <3>1, <2>1, <1>2, FS_RemoveElement, Zenon
  <2>3. ASSUME NEW s \in Sender
        PROVE  q.perSender[s] = Cardinality(PendingOf(q, s))
    <3>1. IsFiniteSet(PendingOf(p, s))
      <4>1. PendingOf(p, s) \in SUBSET p.pending
        BY DEF PendingOf
      <4>2. QED
        BY <4>1, FS_Subset DEF Sound
    <3>2. CASE s = From[t]
      <4>1. PendingOf(q, s) = PendingOf(p, s) \ {t} /\ t \in PendingOf(p, s)
        BY <2>1, <3>2, <1>2 DEF PendingOf
      <4>2. Cardinality(PendingOf(q, s)) = Cardinality(PendingOf(p, s)) - 1
        BY <4>1, <3>1, FS_RemoveElement, Zenon
      <4>3. Cardinality(PendingOf(p, s)) \in Nat /\ Cardinality(PendingOf(p, s)) # 0
        BY <3>1, <4>1, FS_CardinalityType, FS_EmptySet
      <4>4. q.perSender[s] = SaturatingDec(p.perSender[s])
        BY <2>1, <3>2 DEF Sound, Pools
      <4>5. QED
        BY <4>2, <4>3, <4>4 DEF Sound, CountsExact, SaturatingDec
    <3>3. CASE s # From[t]
      <4>1. PendingOf(q, s) = PendingOf(p, s)
        BY <2>1, <3>3 DEF PendingOf
      <4>2. q.perSender[s] = p.perSender[s]
        BY <2>1, <3>3 DEF Sound, Pools
      <4>3. QED
        BY <4>1, <4>2 DEF Sound, CountsExact
    <3>4. QED
      BY <3>2, <3>3
  <2>4. Cardinality(p.pending) \in Nat
    BY FS_CardinalityType DEF Sound
  <2>5. Limited(q)
    BY <2>1, <2>2, <2>4, TxPoolAssumption DEF Limited, Sound, Pools, SaturatingDec
  <2>6. QED
    BY <2>1, <2>2, <2>3, <2>5 DEF Sound, CountsExact, q
<1>3. QED
  BY <1>1, <1>2

-----------------------------------------------------------------------------
(* The loops over the transactions of a chain.  Induction over their length *)
(* is an argument about a set of naturals without a least element.          *)

\* A set that has 0, and with each number up to n the next one, has them all.
LEMMA SetInduction ==
    ASSUME NEW n \in Nat, NEW T, 0 \in T, \A i \in 0 .. n - 1 : i \in T => i + 1 \in T
    PROVE  0 .. n \subseteq T
<1> DEFINE U == (0 .. n) \ T
<1> SUFFICES ASSUME U # {} PROVE FALSE
  OBVIOUS
<1>1. U \subseteq Nat
  OBVIOUS
<1> HIDE DEF U
<1>2. PICK d \in U : \A e \in U : ~(<<e, d>> \in OpToRel(<, Nat))
  BY <1>1, WFMin, NatLessThanWellFounded, Zenon
<1>3. \A e \in U : ~(e < d)
  BY <1>1, <1>2, Zenon DEF OpToRel
<1>4. d \in 1 .. n /\ d - 1 \notin U
  BY <1>3 DEF U
<1> QED
  BY <1>4 DEF U

\* f holds what a loop of n rounds has after each of them.
IsLoop(f, n, S, b, round) ==
    /\ f = [i \in 0 .. n |-> f[i]]
    /\ f[0] = b
    /\ \A i \in 0 .. n : f[i] \in S
    /\ \A i \in 1 .. n : f[i] = round[i][f[i - 1]]

\* A loop of n rounds over values of S has a value after each of them.
LEMMA Iteration ==
    ASSUME NEW n \in Nat, NEW S, NEW b \in S, NEW round,
           \A i \in 1 .. n : \A q \in S : round[i][q] \in S
    PROVE  \E f : IsLoop(f, n, S, b, round)
<1> USE DEF IsLoop
<1> DEFINE Runs(m, f) == IsLoop(f, m, S, b, round)
           T == {m \in 0 .. n : \E f : Runs(m, f)}
<1>1. 0 \in T
  <2>1. Runs(0, [i \in 0 .. 0 |-> b])
    OBVIOUS
  <2> HIDE DEF Runs, IsLoop
  <2> QED
    BY <2>1
<1>2. ASSUME NEW m \in 0 .. n - 1, m \in T PROVE m + 1 \in T
  <2>1. PICK f : Runs(m, f)
    BY <1>2
  <2> DEFINE g == [i \in 0 .. m + 1 |-> IF i = m + 1 THEN round[m + 1][f[m]] ELSE f[i]]
  <2>2. g = [i \in 0 .. m + 1 |-> g[i]] /\ g[0] = b
    BY <2>1
  <2>3. \A i \in 0 .. m + 1 : g[i] \in S
    BY <2>1
  <2>4. ASSUME NEW i \in 1 .. m + 1 PROVE g[i] = round[i][g[i - 1]]
    <3>1. CASE i = m + 1
      BY <3>1
    <3>2. CASE i # m + 1
      <4>1. g[i] = f[i] /\ g[i - 1] = f[i - 1] /\ i \in 1 .. m
        BY <3>2
      <4> HIDE DEF g
      <4> QED
        BY <2>1, <4>1, Zenon
    <3> QED
      BY <3>1, <3>2
  <2> HIDE DEF g
  <2>5. Runs(m + 1, g)
    BY <2>2, <2>3, <2>4, Zenon
  <2> HIDE DEF Runs, IsLoop
  <2> QED
    BY <2>5
<1>3. n \in T
  <2> HIDE DEF T
  <2>1. \A m \in 0 .. n - 1 : m \in T => m + 1 \in T
    BY <1>2
  <2>2. 0 .. n \subseteq T
    BY <1>1, <2>1, SetInduction
  <2> QED
    BY <2>2
<1> HIDE DEF IsLoop
<1> QED
  BY <1>3

\* What a loop has before and after round i.
LEMMA LoopRound ==
    ASSUME NEW n \in Nat, NEW S, NEW b, NEW round, NEW f, IsLoop(f, n, S, b, round),
           NEW i \in 1 .. n
    PROVE  f[i] = round[i][f[i - 1]] /\ f[i - 1] \in S
<1>1. i - 1 \in 0 .. n
  OBVIOUS
<1> QED
  BY <1>1, Zenon DEF IsLoop

\* remove takes a transaction out of the pool and leaves the nonces alone.
LEMMA RemoveMeans ==
    ASSUME NEW p \in Pools, NEW t \in Tx
    PROVE  /\ RemoveTransaction(p, t) \in Pools
           /\ RemoveTransaction(p, t).pending = p.pending \ {t}
           /\ RemoveTransaction(p, t).nextNonce = p.nextNonce
<1>1. \A n \in Nat : SaturatingDec(n) \in Nat
  BY DEF SaturatingDec
<1> QED
  BY <1>1, TxPoolAssumption DEF RemoveTransaction, Pools

\* Removing the transactions of a list takes exactly these out of the pool.
LEMMA RemoveAllMeans ==
    ASSUME NEW p \in Pools, NEW txs \in Seq(Tx)
    PROVE  /\ RemoveAll(p, txs) \in Pools
           /\ RemoveAll(p, txs).pending = p.pending \ {txs[i] : i \in 1 .. Len(txs)}
           /\ RemoveAll(p, txs).nextNonce = p.nextNonce
           /\ Sound(p) => Sound(RemoveAll(p, txs))
<1> DEFINE n == Len(txs)
           Solves(f) == f = [i \in 0 .. n |-> IF i = 0 THEN p ELSE RemoveTransaction(f[i - 1], txs[i])]
           after == CHOOSE f : Solves(f)
<1>1. n \in Nat /\ \A i \in 1 .. n : txs[i] \in Tx
  OBVIOUS
<1>2. \E f : Solves(f)
  <2> DEFINE round == [i \in 1 .. n |-> [q \in Pools |-> RemoveTransaction(q, txs[i])]]
  <2>1. \A i \in 1 .. n : \A q \in Pools : round[i][q] \in Pools
    BY <1>1, RemoveMeans
  <2>2. \A i \in 1 .. n : \A q \in Pools : round[i][q] = RemoveTransaction(q, txs[i])
    OBVIOUS
  <2> HIDE DEF round, n
  <2>3. PICK f : IsLoop(f, n, Pools, p, round)
    BY <1>1, <2>1, Iteration, Zenon
  <2>4. ASSUME NEW i \in 1 .. n PROVE f[i] = RemoveTransaction(f[i - 1], txs[i])
    <3>1. f[i] = round[i][f[i - 1]] /\ f[i - 1] \in Pools
      BY <1>1, <2>3, LoopRound
    <3> QED
      BY <2>2, <3>1
  <2>5. Solves(f)
    <3>1. f = [i \in 0 .. n |-> f[i]] /\ f[0] = p
      BY <2>3 DEF IsLoop
    <3>2. ASSUME NEW i \in 0 .. n PROVE f[i] = IF i = 0 THEN p ELSE RemoveTransaction(f[i - 1], txs[i])
      BY <1>1, <2>4, <3>1
    <3> QED
      BY <3>1, <3>2, Zenon
  <2> QED
    BY <2>5, Zenon
<1>3. RemoveAll(p, txs) = after[n]
  BY DEF RemoveAll
<1>4. Solves(after)
  BY <1>2
<1> HIDE DEF after, n
<1>5. after[0] = p /\ \A i \in 1 .. n : after[i] = RemoveTransaction(after[i - 1], txs[i])
  BY <1>1, <1>4
<1> HIDE DEF Solves
<1> DEFINE Done(i) == /\ after[i] \in Pools
                      /\ after[i].pending = p.pending \ {txs[j] : j \in 1 .. i}
                      /\ after[i].nextNonce = p.nextNonce
                      /\ Sound(p) => Sound(after[i])
           T == {i \in 0 .. n : Done(i)}
<1>6. Done(0)
  BY <1>5
<1>7. ASSUME NEW i \in 0 .. n - 1, Done(i) PROVE Done(i + 1)
  <2>1. after[i + 1] = RemoveTransaction(after[i], txs[i + 1]) /\ txs[i + 1] \in Tx
    BY <1>1, <1>5
  <2>2. /\ after[i + 1] \in Pools
        /\ after[i + 1].pending = after[i].pending \ {txs[i + 1]}
        /\ after[i + 1].nextNonce = p.nextNonce
    <3>1. after[i] \in Pools /\ after[i].nextNonce = p.nextNonce
      BY <1>7
    <3> QED
      BY <2>1, <3>1, RemoveMeans
  <2>3. {txs[j] : j \in 1 .. i + 1} = {txs[j] : j \in 1 .. i} \cup {txs[i + 1]}
    OBVIOUS
  <2>4. Sound(p) => Sound(after[i + 1])
    BY <1>7, <2>1, RemoveSound
  <2> QED
    BY <1>7, <2>2, <2>3, <2>4
<1> HIDE DEF Done
<1>8. 0 .. n \subseteq T
  <2>1. 0 \in T
    BY <1>1, <1>6
  <2>2. \A i \in 0 .. n - 1 : i \in T => i + 1 \in T
    BY <1>1, <1>7
  <2> HIDE DEF T
  <2> QED
    BY <1>1, <2>1, <2>2, SetInduction
<1>9. Done(n)
  BY <1>1, <1>8
<1> QED
  BY <1>3, <1>9 DEF Done, n

\* Offering the transactions of a list to the pool keeps it sound.
LEMMA AddAllButSound ==
    ASSUME NEW p \in Pools, Sound(p), NEW txs \in Seq(Tx), NEW fresh
    PROVE  Sound(AddAllBut(p, txs, fresh))
<1> DEFINE n == Len(txs)
           Offer(q, t) == IF t \in fresh THEN q ELSE AddTransaction(q, t)
           Solves(f) == f = [i \in 0 .. n |-> IF i = 0 THEN p ELSE Offer(f[i - 1], txs[i])]
           after == CHOOSE f : Solves(f)
           Sounds == {q \in Pools : Sound(q)}
<1>1. n \in Nat /\ \A i \in 1 .. n : txs[i] \in Tx
  OBVIOUS
<1>2. AddAllBut(p, txs, fresh) = after[n]
  BY DEF AddAllBut
<1>3. ASSUME NEW q \in Sounds, NEW t \in Tx PROVE Offer(q, t) \in Sounds
  BY AddSound DEF Sound
<1> HIDE DEF n, Offer, Sounds
<1>4. \E f : Solves(f)
  <2> DEFINE round == [i \in 1 .. n |-> [q \in Sounds |-> Offer(q, txs[i])]]
  <2>1. \A i \in 1 .. n : \A q \in Sounds : round[i][q] \in Sounds
    BY <1>1, <1>3
  <2>2. \A i \in 1 .. n : \A q \in Sounds : round[i][q] = Offer(q, txs[i])
    OBVIOUS
  <2>3. p \in Sounds
    BY DEF Sounds
  <2> HIDE DEF round
  <2>4. PICK f : IsLoop(f, n, Sounds, p, round)
    BY <1>1, <2>1, <2>3, Iteration, Zenon
  <2>5. ASSUME NEW i \in 1 .. n PROVE f[i] = Offer(f[i - 1], txs[i])
    <3>1. f[i] = round[i][f[i - 1]] /\ f[i - 1] \in Sounds
      BY <1>1, <2>4, LoopRound, Zenon
    <3> QED
      BY <2>2, <3>1
  <2>6. Solves(f)
    <3>1. f = [i \in 0 .. n |-> f[i]] /\ f[0] = p
      BY <2>4 DEF IsLoop
    <3>2. ASSUME NEW i \in 0 .. n PROVE f[i] = IF i = 0 THEN p ELSE Offer(f[i - 1], txs[i])
      BY <1>1, <2>5, <3>1
    <3> QED
      BY <3>1, <3>2, Zenon
  <2> QED
    BY <2>6, Zenon
<1>5. Solves(after)
  BY <1>4, Zenon
<1> HIDE DEF after
<1>6. after[0] = p /\ \A i \in 1 .. n : after[i] = Offer(after[i - 1], txs[i])
  BY <1>1, <1>5
<1> HIDE DEF Solves
<1> DEFINE T == {i \in 0 .. n : after[i] \in Sounds}
<1>7. 0 .. n \subseteq T
  <2>1. 0 \in T
    BY <1>1, <1>6 DEF Sounds
  <2>2. ASSUME NEW i \in 0 .. n - 1, i \in T PROVE i + 1 \in T
    <3>1. after[i + 1] = Offer(after[i], txs[i + 1]) /\ txs[i + 1] \in Tx
      BY <1>1, <1>6
    <3>2. after[i + 1] \in Sounds
      BY <1>3, <2>2, <3>1
    <3> QED
      BY <1>1, <3>2
  <2>3. \A i \in 0 .. n - 1 : i \in T => i + 1 \in T
    BY <2>2
  <2> HIDE DEF T
  <2> QED
    BY <1>1, <2>1, <2>3, SetInduction
<1> QED
  BY <1>1, <1>2, <1>7 DEF Sounds
-----------------------------------------------------------------------------

\* Admission gives the sender's next nonce to a new transaction.
LEMMA AdmissionStrict ==
  ASSUME TypeOK, StrictNonces, NEW t \in Tx, Add(t)
  PROVE  StrictNonces'
<1>1. CASE ~Admissible(pool, t)
  BY <1>1 DEF Add, AddTransaction, StrictNonces
<1>2. CASE Admissible(pool, t)
  <2>1. /\ pool'.pending = pool.pending \cup {t}
        /\ pool'.nextNonce = [pool.nextNonce EXCEPT ![From[t]] = @ + 1]
        /\ admitted' = admitted \cup {t}
    BY <1>2 DEF Add, AddTransaction
  <2>2. Nonce[t] = pool.nextNonce[From[t]] /\ pool.nextNonce \in [Sender -> Nat]
    BY <1>2 DEF Admissible, TypeOK, Pools
  <2>3. ASSUME NEW u \in admitted, From[u] = From[t]
        PROVE  Nonce[u] < Nonce[t]
    <3>1. From[t] \in Sender /\ u \in Tx
      BY TxPoolAssumption DEF TypeOK
    <3>2. Nonce[u] \in 0 .. pool.nextNonce[From[t]] - 1
      BY <2>3, <3>1 DEF StrictNonces
    <3>3. QED
      BY <2>2, <3>1, <3>2, TxPoolAssumption
  <2>4. pool'.pending \subseteq admitted'
    BY <2>1 DEF StrictNonces
  <2>5. ASSUME NEW u \in admitted', NEW v \in admitted',
               From[u] = From[v], Nonce[u] = Nonce[v]
        PROVE  u = v
    <3>1. u \in Tx /\ v \in Tx
      BY <2>1 DEF TypeOK
    <3>2. QED
      BY <2>1, <2>3, <2>5, <3>1, TxPoolAssumption DEF StrictNonces
  <2>6. ASSUME NEW s \in Sender
        PROVE  {Nonce[u] : u \in {v \in admitted' : From[v] = s}}
                  = 0 .. pool'.nextNonce[s] - 1
    <3>1. {Nonce[u] : u \in {v \in admitted : From[v] = s}}
             = 0 .. pool.nextNonce[s] - 1
      BY DEF StrictNonces
    <3>2. CASE s # From[t]
      BY <2>1, <2>2, <3>1, <3>2
    <3>3. CASE s = From[t]
      <4>1. {Nonce[u] : u \in {v \in admitted' : From[v] = s}}
              = {Nonce[u] : u \in {v \in admitted : From[v] = s}} \cup {Nonce[t]}
        BY <2>1, <3>3
      <4>2. pool'.nextNonce[s] = pool.nextNonce[s] + 1 /\ pool.nextNonce[s] \in Nat
        BY <2>1, <2>2, <3>3
      <4>3. \A k \in Nat : (0 .. k - 1) \cup {k} = 0 .. (k + 1) - 1
        OBVIOUS
      <4>4. (0 .. pool.nextNonce[s] - 1) \cup {Nonce[t]} = 0 .. pool'.nextNonce[s] - 1
        BY <4>2, <4>3, <2>2, <3>3
      <4>5. QED
        BY <4>1, <4>4, <3>1, Zenon
    <3>4. QED
      BY <3>2, <3>3
  <2>7. QED
    BY <2>4, <2>5, <2>6 DEF StrictNonces
<1>3. QED
  BY <1>1, <1>2

\* The inductive invariant holds in every state of the pool.
LEMMA Invariance == Spec => []IInv
<1>1. Init => IInv
  <2> SUFFICES ASSUME Init PROVE IInv
    OBVIOUS
  <2>1. Sound(pool)
    BY EmptySound DEF Init, EmptyPool
  <2>2. TypeOK
    BY <2>1 DEF Init, TypeOK, Sound
  <2>3. StrictNonces
    BY DEF Init, EmptyPool, StrictNonces
  <2>4. QED
    BY <2>1, <2>2, <2>3 DEF IInv
<1>2. IInv /\ [Next]_vars => IInv'
  <2> SUFFICES ASSUME IInv, [Next]_vars PROVE IInv'
    OBVIOUS
  <2> USE DEF IInv
  <2>1. ASSUME NEW t \in Tx, Add(t) PROVE IInv'
    <3>1. Sound(pool)'
      BY <2>1, AddSound DEF Add
    <3>2. StrictNonces'
      BY <2>1, AdmissionStrict
    <3>3. admitted' \in SUBSET Tx
      BY <2>1 DEF Add, TypeOK
    <3>4. QED
      BY <3>1, <3>2, <3>3 DEF Sound, TypeOK
  <2>2. ASSUME NEW t \in Tx, Take(t) PROVE IInv'
    <3>1. Sound(pool)'
      BY <2>2, RemoveSound DEF Take
    <3>2. StrictNonces'
      BY <2>2 DEF Take, RemoveTransaction, StrictNonces
    <3>3. QED
      BY <2>2, <3>1, <3>2 DEF Take, Sound, TypeOK
  <2>3. CASE DropPending
    <3>1. pool.nextNonce \in [Sender -> Nat]
      BY DEF TypeOK, Pools
    <3>2. Sound(pool)'
      BY <2>3, <3>1, EmptySound DEF DropPending, ClearPending
    <3>3. StrictNonces'
      BY <2>3 DEF DropPending, ClearPending, StrictNonces
    <3>4. QED
      BY <2>3, <3>2, <3>3 DEF DropPending, Sound, TypeOK
  <2>4. CASE Clear
    <3>1. Sound(pool)'
      BY <2>4, EmptySound DEF Clear, EmptyPool
    <3>2. StrictNonces'
      BY <2>4 DEF Clear, EmptyPool, StrictNonces
    <3>3. QED
      BY <2>4, <3>1, <3>2 DEF Clear, Sound, TypeOK
  <2>5. CASE UNCHANGED vars
    BY <2>5 DEF vars, TypeOK, Sound, CountsExact, PendingOf, Limited, StrictNonces
  <2>6. QED
    BY <2>1, <2>2, <2>3, <2>4, <2>5 DEF Next
<1>3. QED
  BY <1>1, <1>2, PTL DEF Spec

\* Every call returns a pool whose maps have the keys and values of their
\* types; in particular no count goes below zero.
THEOREM TypeOKAlways == Spec => []TypeOK
<1>1. IInv => TypeOK
  BY DEF IInv
<1>2. QED
  BY <1>1, Invariance, PTL

\* The count the admission limit reads is the sender's number of pending
\* transactions in every reachable pool.
THEOREM PerSenderExactAlways == Spec => []PerSenderExact
<1>1. IInv => PerSenderExact
  BY DEF IInv, Sound, PerSenderExact
<1>2. QED
  BY <1>1, Invariance, PTL

\* Nonces are admitted once each and without gaps, for any mix of calls.
THEOREM StrictNoncesAlways == Spec => []StrictNonces
<1>1. IInv => StrictNonces
  BY DEF IInv
<1>2. QED
  BY <1>1, Invariance, PTL

\* max_pending and max_per_sender bound what is really pending.
THEOREM WithinLimitsAlways == Spec => []WithinLimits
<1>1. IInv => WithinLimits
  BY DEF IInv, Sound, CountsExact, Limited, WithinLimits
<1>2. QED
  BY <1>1, Invariance, PTL
=============================================================================
