--------------------------- MODULE ProducerProofs ---------------------------
(***************************************************************************)
(* Proofs about the executor and the block producer, for every set of      *)
(* transactions and accounts, all programs, gas schedules and limits:      *)
(*  - what one execution of a transaction does on any state, and gas       *)
(*    estimation;                                                          *)
(*  - sums over accounts and receipts;                                     *)
(*  - the stages of a block, the order of its transactions, and when       *)
(*    executing a block again yields the same block;                       *)
(*  - the ledger: what an imported block does to balances and nonces;      *)
(*  - the pool beside the accounts, the inductive invariant Inv, and the   *)
(*    theorems about Spec.                                                 *)
(* Facts about loops and folds are proved by induction over a set of       *)
(* numbers (SetInduction) or of subsets (SubsetInduction).                 *)
(***************************************************************************)
EXTENDS Producer, FiniteSetTheorems, NaturalsInduction, WellFoundedInduction, TLAPS

\* The fields of a transaction are natural numbers.
LEMMA Fields ==
    ASSUME NEW t \in Tx
    PROVE  /\ From[t] \in Address
           /\ To[t] \in Address \cup {NoAddress}
           /\ Recipient(t) \in Address
           /\ Value[t] \in Nat /\ Gas[t] \in Nat /\ GasPrice[t] \in Nat /\ Nonce[t] \in Nat
           /\ Intrinsic(t) \in Nat /\ Total(t) \in Nat
           /\ Gas[t] * GasPrice[t] \in Nat
           /\ Value[t] <= Total(t)
           /\ MaxU256 \in Nat /\ DefaultFuel \in Nat /\ MaxGasPerBlock \in Nat
<1>1. /\ From[t] \in Address
      /\ To[t] \in Address \cup {NoAddress}
      /\ Value[t] \in Nat /\ Gas[t] \in Nat /\ GasPrice[t] \in Nat /\ Nonce[t] \in Nat
      /\ DataLen[t] \in Nat
      /\ TxGasCost \in Nat /\ DataGasCost \in Nat
      /\ MaxU256 \in Nat /\ DefaultFuel \in Nat /\ MaxGasPerBlock \in Nat
  BY ExecutorAssumption, Zenon
<1>2. Recipient(t) \in Address
  BY <1>1, ExecutorAssumption DEF Recipient
<1>3. DataLen[t] * DataGasCost \in Nat /\ Gas[t] * GasPrice[t] \in Nat
  BY <1>1
<1>4. QED
  BY <1>1, <1>2, <1>3 DEF Intrinsic, Total

\* An update of two maps of a StateDB.
LEMMA RecordUpdate ==
    ASSUME NEW b, NEW n, NEW c, NEW d, NEW x, NEW v, NEW made, NEW w, NEW s, NEW r,
           s = [balance |-> b, nonce |-> n, code |-> c, slot |-> d],
           r = [s EXCEPT !.balance[x] = @ + v, !.code[x] = IF made THEN w ELSE @]
    PROVE  r = [balance |-> [b EXCEPT ![x] = b[x] + v], nonce |-> n,
                code |-> [c EXCEPT ![x] = IF made THEN w ELSE c[x]], slot |-> d]
  BY Zenon

\* The sender's account after the gas and the value were taken from it.
LEMMA ChargedShape ==
    ASSUME NEW s \in States, NEW t \in Tx
    PROVE  Charged(s, t) =
             [balance |-> [a \in Address |-> IF a = From[t] THEN s.balance[a] - Total(t)
                                                            ELSE s.balance[a]],
              nonce   |-> [a \in Address |-> IF a = From[t] THEN s.nonce[a] + 1
                                                            ELSE s.nonce[a]],
              code    |-> s.code,
              slot    |-> s.slot]
<1>1. /\ s = [balance |-> s.balance, nonce |-> s.nonce, code |-> s.code, slot |-> s.slot]
      /\ s.balance \in [Address -> 0 .. MaxU256] /\ s.nonce \in [Address -> Nat]
  BY DEF States
<1>2. PICK r : r = Charged(s, t)
  OBVIOUS
<1>3. r = [balance |-> [s.balance EXCEPT ![From[t]] = s.balance[From[t]] - Total(t)],
           nonce   |-> [s.nonce EXCEPT ![From[t]] = s.nonce[From[t]] + 1],
           code    |-> s.code,
           slot    |-> s.slot]
  BY <1>1, <1>2, Zenon DEF Charged
<1>4. /\ [s.balance EXCEPT ![From[t]] = s.balance[From[t]] - Total(t)]
           = [a \in Address |-> IF a = From[t] THEN s.balance[a] - Total(t) ELSE s.balance[a]]
      /\ [s.nonce EXCEPT ![From[t]] = s.nonce[From[t]] + 1]
           = [a \in Address |-> IF a = From[t] THEN s.nonce[a] + 1 ELSE s.nonce[a]]
  BY <1>1, Fields
<1>5. QED
  BY <1>2, <1>3, <1>4

\* ... and after the recipient got the value, or the creation its code.
LEMMA CreditedShape ==
    ASSUME NEW s \in States, NEW t \in Tx
    PROVE  Credited(s, t) =
             [balance |-> [a \in Address |->
                              (IF a = From[t] THEN s.balance[a] - Total(t) ELSE s.balance[a])
                              + (IF a = Recipient(t) THEN Value[t] ELSE 0)],
              nonce   |-> [a \in Address |-> IF a = From[t] THEN s.nonce[a] + 1
                                                            ELSE s.nonce[a]],
              code    |-> [a \in Address |->
                              IF a = Recipient(t) /\ To[t] = NoAddress THEN CodeOf[t]
                                                                       ELSE s.code[a]],
              slot    |-> s.slot]
<1> USE Fields
<1>1. /\ s.balance \in [Address -> 0 .. MaxU256] /\ s.nonce \in [Address -> Nat]
      /\ s.code \in [Address -> Programs] /\ s.slot \in [Address -> Nat]
  BY DEF States
<1>2. PICK b, n : /\ b = [a \in Address |-> IF a = From[t] THEN s.balance[a] - Total(t)
                                                            ELSE s.balance[a]]
                  /\ n = [a \in Address |-> IF a = From[t] THEN s.nonce[a] + 1
                                                            ELSE s.nonce[a]]
  BY Zenon
<1>3. Charged(s, t) = [balance |-> b, nonce |-> n, code |-> s.code, slot |-> s.slot]
  BY <1>2, ChargedShape
<1>4. \A a \in Address : b[a] \in Int
  BY <1>1, <1>2
<1>5. PICK r, c : r = Credited(s, t) /\ c = Charged(s, t)
  OBVIOUS
<1>6. r =
        [balance |-> [b EXCEPT ![Recipient(t)] = b[Recipient(t)] + Value[t]],
         nonce   |-> n,
         code    |-> [s.code EXCEPT ![Recipient(t)] =
                         IF To[t] = NoAddress THEN CodeOf[t] ELSE s.code[Recipient(t)]],
         slot    |-> s.slot]
  <2>1. r = [c EXCEPT !.balance[Recipient(t)] = @ + Value[t],
                      !.code[Recipient(t)] = IF To[t] = NoAddress THEN CodeOf[t] ELSE @]
    BY <1>5 DEF Credited
  <2>2. c = [balance |-> b, nonce |-> n, code |-> s.code, slot |-> s.slot]
    BY <1>3, <1>5
  <2>3. QED
    BY <2>1, <2>2, RecordUpdate, Zenon
<1>7. [b EXCEPT ![Recipient(t)] = b[Recipient(t)] + Value[t]]
        = [a \in Address |->
              (IF a = From[t] THEN s.balance[a] - Total(t) ELSE s.balance[a])
              + (IF a = Recipient(t) THEN Value[t] ELSE 0)]
  BY <1>1, <1>2, <1>4
<1>8. [s.code EXCEPT ![Recipient(t)] =
          IF To[t] = NoAddress THEN CodeOf[t] ELSE s.code[Recipient(t)]]
        = [a \in Address |-> IF a = Recipient(t) /\ To[t] = NoAddress THEN CodeOf[t]
                                                                      ELSE s.code[a]]
  BY <1>1
<1>9. QED
  BY <1>2, <1>5, <1>6, <1>7, <1>8

\* The recipient's code is a program that was there before the transaction.
LEMMA CalleeIsProgram ==
    ASSUME NEW s \in States, NEW t \in Tx
    PROVE  /\ Callee(Credited(s, t), t) = Callee(s, t)
           /\ Callee(s, t) \in Programs
           /\ Callee(s, t).fuel \in Nat /\ Callee(s, t).write \in Nat
<1>1. Callee(Credited(s, t), t) = Callee(s, t)
  BY CreditedShape, Fields DEF Callee
<1>2. Callee(s, t) \in Programs
  BY Fields DEF Callee, States, NoCode, Programs
<1>3. QED
  BY <1>1, <1>2 DEF Programs

\* Gas is a product, and the refund its difference to the fee.
LEMMA Distribute ==
    ASSUME NEW g \in Int, NEW i \in Int, NEW c \in Int, NEW p \in Int
    PROVE  (g - i - c) * p = g * p - (i + c) * p
  OBVIOUS

\* A product of natural numbers is one.
LEMMA ProductNat ==
    ASSUME NEW g \in Nat, NEW p \in Nat
    PROVE  g * p \in Nat
  OBVIOUS

\* The call burns no more than is left.
LEMMA CallGasBound ==
    ASSUME NEW s \in States, NEW t \in Tx, Intrinsic(t) <= Gas[t],
           ~CallFails(Credited(s, t), t, Remaining(t))
    PROVE  /\ CallGas(Credited(s, t), t, Remaining(t)) \in Nat
           /\ CallGas(Credited(s, t), t, Remaining(t)) <= Remaining(t)
           /\ Remaining(t) \in Nat
<1>1. Remaining(t) \in Nat
  BY Fields DEF Remaining
<1>2. Callee(Credited(s, t), t).fuel \in Nat
  BY CalleeIsProgram
<1>3. QED
  BY <1>1, <1>2 DEF CallGas, CallFails, Fuel

\* The refund, and what the sender has paid after it.
LEMMA RefundValue ==
    ASSUME NEW s \in States, NEW t \in Tx, Intrinsic(t) <= Gas[t],
           ~CallFails(Credited(s, t), t, Remaining(t)),
           NEW fee, fee = (Intrinsic(t) + CallGas(Credited(s, t), t, Remaining(t))) * GasPrice[t]
    PROVE  /\ Refund(Credited(s, t), t) = Gas[t] * GasPrice[t] - fee
           /\ Refund(Credited(s, t), t) \in Nat
           /\ fee \in Nat
<1> DEFINE c == CallGas(Credited(s, t), t, Remaining(t))
<1>1. /\ c \in Nat /\ c <= Remaining(t) /\ Remaining(t) \in Nat
      /\ Intrinsic(t) \in Nat /\ Gas[t] \in Nat /\ GasPrice[t] \in Nat
  BY CallGasBound, Fields
<1>2. Refund(Credited(s, t), t) = (Gas[t] - Intrinsic(t) - c) * GasPrice[t]
  BY DEF Refund, Remaining
<1>3. Gas[t] - Intrinsic(t) - c \in Nat
  BY <1>1 DEF Remaining
<1> HIDE DEF c
<1>4. Refund(Credited(s, t), t) \in Nat
  BY <1>1, <1>2, <1>3, ProductNat
<1>5. (Gas[t] - Intrinsic(t) - c) * GasPrice[t]
        = Gas[t] * GasPrice[t] - (Intrinsic(t) + c) * GasPrice[t]
  BY <1>1, Distribute
<1>6. (Intrinsic(t) + c) * GasPrice[t] \in Nat
  BY <1>1, ProductNat
<1>7. QED
  BY <1>2, <1>4, <1>5, <1>6 DEF c

\* When execute_transaction returns Ok, and what it returns then.
LEMMA OkMeans ==
    ASSUME NEW s, NEW used, NEW t, NEW result, result = ExecuteTransaction(s, used, t),
           NEW paid, paid = Credited(s, t), NEW called, called = Called(paid, t)
    PROVE  /\ result.ok <=>
                 /\ ~Refused(s, used, t)
                 /\ Fits(paid.balance[Recipient(t)])
                 /\ ~CallFails(paid, t, Remaining(t))
                 /\ Fits(called.balance[From[t]] + Refund(paid, t))
           /\ result.ok => result.gasUsed = Intrinsic(t) + CallGas(paid, t, Remaining(t))
           /\ result.ok => result.state
                              = [called EXCEPT !.balance[From[t]] = @ + Refund(paid, t)]
  BY DEF ExecuteTransaction

\* A refund to the sender.
LEMMA RecordRefund ==
    ASSUME NEW b, NEW n, NEW c, NEW d, NEW x, NEW v, NEW s, NEW r,
           s = [balance |-> b, nonce |-> n, code |-> c, slot |-> d],
           r = [s EXCEPT !.balance[x] = @ + v]
    PROVE  r = [balance |-> [b EXCEPT ![x] = b[x] + v], nonce |-> n, code |-> c, slot |-> d]
  OBVIOUS

\* A write by the machine.
LEMMA RecordWrite ==
    ASSUME NEW b, NEW n, NEW c, NEW d, NEW x, NEW v, NEW s, NEW r,
           s = [balance |-> b, nonce |-> n, code |-> c, slot |-> d],
           r = [s EXCEPT !.slot[x] = v]
    PROVE  r = [balance |-> b, nonce |-> n, code |-> c, slot |-> [d EXCEPT ![x] = v]]
  OBVIOUS

\* The call leaves everything but a slot as the transfer has left it.
LEMMA CalledShape ==
    ASSUME NEW s \in States, NEW t \in Tx, NEW paid, paid = Credited(s, t)
    PROVE  \E slot \in [Address -> Nat] :
              Called(paid, t) = [balance |-> paid.balance, nonce |-> paid.nonce,
                                 code |-> paid.code, slot |-> slot]
<1>1. /\ paid = [balance |-> paid.balance, nonce |-> paid.nonce,
                 code |-> paid.code, slot |-> s.slot]
      /\ s.slot \in [Address -> Nat]
  BY CreditedShape DEF States
<1>2. CASE Callee(paid, t).write = 0
  BY <1>1, <1>2 DEF Called
<1>3. CASE Callee(paid, t).write # 0
  <2>1. PICK r : r = [paid EXCEPT !.slot[To[t]] = Callee(paid, t).write]
    BY Zenon
  <2>2. r = [balance |-> paid.balance, nonce |-> paid.nonce, code |-> paid.code,
             slot |-> [s.slot EXCEPT ![To[t]] = Callee(paid, t).write]]
    BY <1>1, <2>1, RecordWrite
  <2>3. [s.slot EXCEPT ![To[t]] = Callee(paid, t).write] \in [Address -> Nat]
    BY <1>1, CalleeIsProgram, Zenon
  <2>4. QED
    BY <1>3, <2>1, <2>2, <2>3, Zenon DEF Called
<1>4. QED
  BY <1>2, <1>3

\* The value goes from the sender to the recipient, and the sender pays a fee.
Moves(s, next, t, fee) ==
    \A a \in Address :
        next.balance[a] = s.balance[a]
                          - (IF a = From[t] THEN Value[t] + fee ELSE 0)
                          + (IF a = Recipient(t) THEN Value[t] ELSE 0)

\* A transaction that executes moves exactly its value, charges its sender for
\* exactly the gas of the receipt, never more than offered, counts the sender's
\* nonce up by one, keeps the block within max_gas_per_block and leaves a state
\* in which no balance has wrapped (executor.rs execute_transaction: charge,
\* credit, call and refund).
THEOREM TransactionExact ==
    ASSUME NEW s \in States, NEW used \in Nat, NEW t \in Tx,
           NEW result, result = ExecuteTransaction(s, used, t), result.ok
    PROVE  /\ s.nonce[From[t]] = Nonce[t]
           /\ result.state \in States
           /\ result.gasUsed \in Intrinsic(t) .. Gas[t]
           /\ used + result.gasUsed <= MaxGasPerBlock
           /\ result.state.nonce = [a \in Address |-> IF a = From[t] THEN Nonce[t] + 1
                                                                     ELSE s.nonce[a]]
           /\ Moves(s, result.state, t, result.gasUsed * GasPrice[t])
<1>1. PICK paid, called : paid = Credited(s, t) /\ called = Called(paid, t)
  OBVIOUS
<1>2. PICK slot \in [Address -> Nat] :
         called = [balance |-> paid.balance, nonce |-> paid.nonce,
                   code |-> paid.code, slot |-> slot]
  BY <1>1, CalledShape
<1>3. /\ ~Refused(s, used, t)
      /\ Fits(paid.balance[Recipient(t)])
      /\ ~CallFails(paid, t, Remaining(t))
      /\ Fits(called.balance[From[t]] + Refund(paid, t))
      /\ result.state = [called EXCEPT !.balance[From[t]] = @ + Refund(paid, t)]
      /\ result.gasUsed = Intrinsic(t) + CallGas(paid, t, Remaining(t))
  BY <1>1, OkMeans
<1>4. /\ s.nonce[From[t]] = Nonce[t] /\ Intrinsic(t) <= Gas[t]
      /\ Total(t) <= s.balance[From[t]] /\ used + Gas[t] <= MaxGasPerBlock
  <2>1. /\ s.balance[From[t]] \in Nat
        /\ Intrinsic(t) \in Nat /\ Gas[t] \in Nat /\ Total(t) \in Nat /\ MaxGasPerBlock \in Nat
    BY Fields DEF States
  <2>2. QED
    BY <1>3, <2>1 DEF Refused
<1>5. result.gasUsed \in Intrinsic(t) .. Gas[t] /\ used + result.gasUsed <= MaxGasPerBlock
  <2>1. /\ CallGas(paid, t, Remaining(t)) \in Nat
        /\ CallGas(paid, t, Remaining(t)) <= Gas[t] - Intrinsic(t)
    BY <1>1, <1>3, <1>4, CallGasBound DEF Remaining
  <2>2. Intrinsic(t) \in Nat /\ Gas[t] \in Nat /\ MaxGasPerBlock \in Nat
    BY Fields
  <2>3. QED
    BY <1>3, <1>4, <2>1, <2>2
<1>6. PICK fee : fee = result.gasUsed * GasPrice[t]
  OBVIOUS
<1>7. /\ Refund(paid, t) = Gas[t] * GasPrice[t] - fee
      /\ Refund(paid, t) \in Nat /\ fee \in Nat
  BY <1>1, <1>3, <1>4, <1>6, RefundValue
<1>8. /\ paid.balance = [a \in Address |->
             (IF a = From[t] THEN s.balance[a] - Total(t) ELSE s.balance[a])
             + (IF a = Recipient(t) THEN Value[t] ELSE 0)]
      /\ paid.nonce = [a \in Address |-> IF a = From[t] THEN s.nonce[a] + 1 ELSE s.nonce[a]]
      /\ paid.code = [a \in Address |->
             IF a = Recipient(t) /\ To[t] = NoAddress THEN CodeOf[t] ELSE s.code[a]]
  BY <1>1, CreditedShape
<1>9. PICK b : b = [paid.balance EXCEPT ![From[t]] = paid.balance[From[t]] + Refund(paid, t)]
  BY Zenon
<1>10. result.state = [balance |-> b, nonce |-> paid.nonce, code |-> paid.code, slot |-> slot]
  BY <1>2, <1>3, <1>9, RecordRefund
<1>11. ASSUME NEW a \in Address
       PROVE  /\ b[a] = s.balance[a] - (IF a = From[t] THEN Value[t] + fee ELSE 0)
                        + (IF a = Recipient(t) THEN Value[t] ELSE 0)
              /\ b[a] \in 0 .. MaxU256
  <2>1. /\ s.balance[a] \in 0 .. MaxU256 /\ Value[t] \in Nat /\ MaxU256 \in Nat
        /\ Gas[t] * GasPrice[t] \in Nat /\ From[t] \in Address /\ Recipient(t) \in Address
        /\ Total(t) = Value[t] + Gas[t] * GasPrice[t]
    BY Fields DEF States, Total
  <2>2. PICK offered \in Nat : offered = Gas[t] * GasPrice[t]
    BY <2>1
  <2>3. CASE a = From[t]
    <3>1. /\ b[a] = paid.balance[a] + Refund(paid, t)
          /\ called.balance[a] = paid.balance[a]
      BY <1>2, <1>8, <1>9, <2>1, <2>3
    <3>2. paid.balance[a] + Refund(paid, t) <= MaxU256
      BY <1>3, <2>3, <3>1 DEF Fits
    <3>3. paid.balance[a] = s.balance[a] - (Value[t] + offered)
                            + (IF a = Recipient(t) THEN Value[t] ELSE 0)
      BY <1>8, <2>1, <2>2, <2>3
    <3>4. Refund(paid, t) = offered - fee /\ Value[t] + offered <= s.balance[a]
      BY <1>4, <1>7, <2>1, <2>2, <2>3
    <3>5. fee <= offered
      BY <1>7, <2>2
    <3>6. QED
      BY <1>7, <2>1, <2>3, <3>1, <3>2, <3>3, <3>4, <3>5
  <2>4. CASE a # From[t]
    <3>1. b[a] = s.balance[a] + (IF a = Recipient(t) THEN Value[t] ELSE 0)
      BY <1>8, <1>9, <2>1, <2>4
    <3>2. a = Recipient(t) => b[a] <= MaxU256
      <4>1. a = Recipient(t) => paid.balance[a] = b[a]
        BY <1>8, <1>9, <2>1, <2>4
      <4>2. QED
        BY <1>3, <4>1 DEF Fits
    <3>3. QED
      BY <2>1, <2>4, <3>1, <3>2
  <2>5. QED
    BY <2>3, <2>4
<1>12. result.state \in States
  <2>1. b \in [Address -> 0 .. MaxU256]
    BY <1>8, <1>9, <1>11, Zenon
  <2>2. paid.nonce \in [Address -> Nat]
    BY <1>8 DEF States
  <2>3. paid.code \in [Address -> Programs]
    BY <1>8, ExecutorAssumption DEF States
  <2>4. QED
    BY <1>10, <2>1, <2>2, <2>3 DEF States
<1>13. result.state.nonce = [a \in Address |-> IF a = From[t] THEN Nonce[t] + 1
                                                              ELSE s.nonce[a]]
  BY <1>4, <1>8, <1>10
<1>14. Moves(s, result.state, t, fee)
  BY <1>10, <1>11 DEF Moves
<1>15. QED
  BY <1>4, <1>5, <1>6, <1>12, <1>13, <1>14

\* The transfer of a simulation.
LEMMA TransferredShape ==
    ASSUME NEW s \in States, NEW t \in Tx, s.nonce[From[t]] = Nonce[t],
           NEW moved, moved = Transferred(s, t)
    PROVE  /\ Recipient(t) # From[t] =>
                 moved.balance[Recipient(t)] = s.balance[Recipient(t)] + Value[t]
           /\ Callee(moved, t) = Callee(s, t)
<1>1. /\ s = [balance |-> s.balance, nonce |-> s.nonce, code |-> s.code, slot |-> s.slot]
      /\ s.balance \in [Address -> 0 .. MaxU256] /\ s.code \in [Address -> Programs]
      /\ From[t] \in Address /\ Recipient(t) \in Address
  BY Fields DEF States
<1>2. PICK debited : debited = [s EXCEPT !.balance[From[t]] = @ - Value[t]]
  BY Zenon
<1>3. PICK b : b = [s.balance EXCEPT ![From[t]] = s.balance[From[t]] - Value[t]]
  BY Zenon
<1>4. debited = [balance |-> b, nonce |-> s.nonce, code |-> s.code, slot |-> s.slot]
  BY <1>1, <1>2, <1>3
<1>5. moved = [debited EXCEPT !.balance[Recipient(t)] = @ + Value[t],
                 !.code[Recipient(t)] = IF To[t] = NoAddress THEN CodeOf[t] ELSE @]
  BY <1>2 DEF Transferred, Recipient
<1>6. moved = [balance |-> [b EXCEPT ![Recipient(t)] = b[Recipient(t)] + Value[t]],
               nonce   |-> s.nonce,
               code    |-> [s.code EXCEPT ![Recipient(t)] =
                               IF To[t] = NoAddress THEN CodeOf[t] ELSE s.code[Recipient(t)]],
               slot    |-> s.slot]
  BY <1>4, <1>5, RecordUpdate, Zenon
<1>7. Recipient(t) # From[t] =>
         moved.balance[Recipient(t)] = s.balance[Recipient(t)] + Value[t]
  BY <1>1, <1>3, <1>6
<1>8. Callee(moved, t) = Callee(s, t)
  BY <1>1, <1>6 DEF Callee, Recipient
<1>9. QED
  BY <1>7, <1>8

\* An estimate is the gas of the call: the default gas of a simulation leaves
\* some for it.
LEMMA EstimateMeans ==
    ASSUME NEW s \in States, NEW t \in Tx, s.nonce[From[t]] = Nonce[t],
           Intrinsic(t) # DefaultFuel, NEW estimate \in EstimateGas(s, t, 0)
    PROVE  /\ estimate = Intrinsic(t) + Callee(s, t).fuel
           /\ ~Callee(s, t).traps
           /\ Callee(s, t).fuel <= DefaultFuel
           /\ Recipient(t) # From[t] => Fits(s.balance[Recipient(t)] + Value[t])
<1>1. PICK moved, left : moved = Transferred(s, t) /\ left = DefaultFuel - Intrinsic(t)
  OBVIOUS
<1>2. /\ Intrinsic(t) <= DefaultFuel
      /\ \A a \in Address : Fits(moved.balance[a])
      /\ ~CallFails(moved, t, left)
      /\ estimate = Intrinsic(t) + CallGas(moved, t, left)
  BY <1>1 DEF EstimateGas, Simulate, SimulateFrom, RequestGas
<1>3. /\ Callee(moved, t) = Callee(s, t) /\ Callee(s, t).fuel \in Nat
      /\ Recipient(t) \in Address /\ Intrinsic(t) \in Nat /\ DefaultFuel \in Nat
  BY <1>1, TransferredShape, CalleeIsProgram, Fields
<1>4. left \in Nat \ {0} /\ left <= DefaultFuel
  BY <1>1, <1>2, <1>3
<1>5. Recipient(t) # From[t] => Fits(s.balance[Recipient(t)] + Value[t])
  BY <1>1, <1>2, <1>3, TransferredShape
<1>6. QED
  BY <1>2, <1>3, <1>4, <1>5 DEF CallFails, CallGas, Fuel

\* On every state, reachable or not, a transaction that is not refused at once
\* executes with the gas of eth_estimateGas or more, at exactly that gas, and
\* with less it fails or runs its call uncharged (call.rs, executor.rs
\* simulate and execute_transaction), as long as the default gas of a
\* simulation is not exactly the intrinsic gas.
THEOREM EstimateExactOnStates ==
    ASSUME state \in States, \A t \in Tx : Intrinsic(t) # DefaultFuel
    PROVE  EstimateExact
<1> SUFFICES ASSUME NEW t \in Tx, ~Refused(state, 0, t),
                    NEW estimate \in EstimateGas(state, t, 0),
                    NEW result, result = ExecuteTransaction(state, 0, t)
             PROVE  IF Gas[t] >= estimate
                    THEN result.ok /\ result.gasUsed = estimate
                    ELSE result.ok => result.gasUsed = Gas[t] /\ Gas[t] = Intrinsic(t)
  BY DEF EstimateExact
<1> DEFINE fuel == Callee(state, t).fuel
<1>1. /\ state.balance \in [Address -> 0 .. MaxU256]
      /\ From[t] \in Address /\ Recipient(t) \in Address
      /\ Value[t] \in Nat /\ Gas[t] \in Nat /\ Intrinsic(t) \in Nat /\ Total(t) \in Nat
      /\ Gas[t] * GasPrice[t] \in Nat /\ Total(t) = Value[t] + Gas[t] * GasPrice[t]
      /\ MaxU256 \in Nat /\ DefaultFuel \in Nat /\ fuel \in Nat
  BY Fields, CalleeIsProgram DEF States, Total
<1>2. /\ state.nonce[From[t]] = Nonce[t] /\ Intrinsic(t) <= Gas[t]
      /\ Total(t) <= state.balance[From[t]]
  BY <1>1 DEF Refused
<1>3. /\ estimate = Intrinsic(t) + fuel /\ ~Callee(state, t).traps /\ fuel <= DefaultFuel
      /\ Recipient(t) # From[t] => Fits(state.balance[Recipient(t)] + Value[t])
  BY <1>2, EstimateMeans
<1>4. PICK paid, called : paid = Credited(state, t) /\ called = Called(paid, t)
  OBVIOUS
<1>5. Callee(paid, t) = Callee(state, t)
  BY <1>4, CalleeIsProgram
<1>6. Remaining(t) = Gas[t] - Intrinsic(t)
  BY DEF Remaining
<1>7. /\ result.ok <=> /\ Fits(paid.balance[Recipient(t)])
                       /\ ~CallFails(paid, t, Remaining(t))
                       /\ Fits(called.balance[From[t]] + Refund(paid, t))
      /\ result.ok => result.gasUsed = Intrinsic(t) + CallGas(paid, t, Remaining(t))
  BY <1>4 DEF ExecuteTransaction
<1>8. CASE Gas[t] >= estimate
  <2>1. ~CallFails(paid, t, Remaining(t)) /\ CallGas(paid, t, Remaining(t)) = fuel
    BY <1>1, <1>2, <1>3, <1>5, <1>6, <1>8 DEF CallFails, CallGas, Fuel
  <2>2. /\ paid.balance[From[t]] = state.balance[From[t]] - Total(t)
                                    + (IF From[t] = Recipient(t) THEN Value[t] ELSE 0)
        /\ Recipient(t) # From[t] =>
              paid.balance[Recipient(t)] = state.balance[Recipient(t)] + Value[t]
    BY <1>1, <1>4, CreditedShape
  <2>3. Fits(paid.balance[Recipient(t)])
    <3>1. CASE Recipient(t) # From[t]
      BY <1>3, <2>2, <3>1
    <3>2. CASE Recipient(t) = From[t]
      BY <1>1, <1>2, <2>2, <3>2 DEF Fits
    <3>3. QED
      BY <3>1, <3>2
  <2>4. Refund(paid, t) \in Nat /\ Refund(paid, t) <= Gas[t] * GasPrice[t]
    <3>1. PICK fee : fee = (Intrinsic(t) + CallGas(paid, t, Remaining(t))) * GasPrice[t]
      OBVIOUS
    <3>2. /\ Refund(paid, t) = Gas[t] * GasPrice[t] - fee
          /\ Refund(paid, t) \in Nat /\ fee \in Nat
      BY <1>2, <1>4, <2>1, <3>1, RefundValue
    <3>3. QED
      BY <1>1, <3>2
  <2>5. called.balance = paid.balance
    BY <1>4, CalledShape
  <2>6. Fits(called.balance[From[t]] + Refund(paid, t))
    BY <1>1, <1>2, <2>2, <2>4, <2>5 DEF Fits
  <2>7. result.ok /\ result.gasUsed = Intrinsic(t) + fuel
    BY <1>7, <2>1, <2>3, <2>6
  <2>8. QED
    BY <1>3, <1>8, <2>7
<1>9. CASE ~(Gas[t] >= estimate)
  <2>1. SUFFICES ASSUME result.ok PROVE result.gasUsed = Gas[t] /\ Gas[t] = Intrinsic(t)
    BY <1>9
  <2>2. ~CallFails(paid, t, Remaining(t))
    BY <1>7, <2>1
  <2>3. Remaining(t) = 0
    BY <1>1, <1>2, <1>3, <1>5, <1>6, <1>9, <2>2 DEF CallFails, Fuel
  <2>4. result.gasUsed = Intrinsic(t) + CallGas(paid, t, Remaining(t))
    BY <1>7, <2>1
  <2>5. QED
    BY <1>1, <1>6, <2>3, <2>4 DEF CallGas
<1>10. QED
  BY <1>8, <1>9
----------------------------------------------------------------------------
\* A set that has 0, and with each number up to n the next one, has them all.
LEMMA SetInduction ==
    ASSUME NEW n \in Nat, NEW T, 0 \in T, \A i \in 0 .. n - 1 : i \in T => i + 1 \in T
    PROVE  0 .. n \subseteq T
<1> DEFINE U == (0 .. n) \ T
<1> SUFFICES ASSUME U # {} PROVE FALSE
  OBVIOUS
<1>1. U \subseteq Nat
  OBVIOUS
<1> HIDE DEF U
<1>2. PICK d \in U : \A e \in U : ~(<<e, d>> \in OpToRel(<, Nat))
  BY <1>1, WFMin, NatLessThanWellFounded, Zenon
<1>3. \A e \in U : ~(e < d)
  BY <1>1, <1>2, Zenon DEF OpToRel
<1>4. d \in 1 .. n /\ d - 1 \notin U
  BY <1>3 DEF U
<1> QED
  BY <1>4 DEF U

\* FoldFunction sums up the parts of the domain, element by element.
Adds(f, sums, family) ==
    sums = [s \in family |->
               IF s = {} THEN 0
               ELSE f[CHOOSE x \in s : TRUE] + sums[s \ {CHOOSE x \in s : TRUE}]]

Sums(f) == CHOOSE sums : Adds(f, sums, SUBSET DOMAIN f)

\* The sum of a function is that over its whole domain.
LEMMA SumIsLast == ASSUME NEW f PROVE Sum(f) = Sums(f)[DOMAIN f]
  BY DEF Sum, FoldFunction, FoldFunctionOnSet, MapThenFoldSet, Sums, Adds

\* The parts have sums.
LEMMA SumsExist ==
    ASSUME NEW f, IsFiniteSet(DOMAIN f)
    PROVE  Adds(f, Sums(f), SUBSET DOMAIN f)
<1> DEFINE D == DOMAIN f
           n == Cardinality(D)
           pick(s) == CHOOSE x \in s : TRUE
           Small(k) == {s \in SUBSET D : Cardinality(s) <= k}
           T == {k \in 0 .. n : \E sums : Adds(f, sums, Small(k))}
<1>1. /\ n \in Nat
      /\ \A s \in SUBSET D :
            IsFiniteSet(s) /\ Cardinality(s) \in Nat /\ Cardinality(s) <= n
  BY FS_CardinalityType, FS_Subset
<1>2. \A s \in SUBSET D : s # {} => /\ pick(s) \in s
                                    /\ s \ {pick(s)} \in SUBSET D
                                    /\ Cardinality(s \ {pick(s)}) = Cardinality(s) - 1
  <2>1. ASSUME NEW s \in SUBSET D, s # {}
        PROVE  pick(s) \in s
    BY <2>1
  <2> QED
    BY <1>1, <2>1, FS_RemoveElement, Zenon
<1> HIDE DEF pick, n
<1>3. 0 \in T
  <2>1. \A s \in Small(0) : s = {}
    BY <1>1, FS_EmptySet
  <2>2. Adds(f, [s \in Small(0) |-> 0], Small(0))
    BY <2>1 DEF Adds
  <2> HIDE DEF Small
  <2> QED
    BY <1>1, <2>2
<1>4. ASSUME NEW k \in 0 .. n - 1, k \in T PROVE k + 1 \in T
  <2>1. PICK g : Adds(f, g, Small(k))
    BY <1>4, SMTT(30)
  <2> DEFINE h == [s \in Small(k + 1) |->
                      IF s = {} THEN 0 ELSE f[pick(s)] + g[s \ {pick(s)}]]
  <2>2. \A s \in Small(k) : g[s] = IF s = {} THEN 0 ELSE f[pick(s)] + g[s \ {pick(s)}]
    BY <2>1, Zenon DEF Adds, pick
  <2>3. ASSUME NEW s \in Small(k) PROVE h[s] = g[s]
    <3>1. s \in Small(k + 1)
      BY <1>1
    <3> HIDE DEF Small
    <3>2. h[s] = IF s = {} THEN 0 ELSE f[pick(s)] + g[s \ {pick(s)}]
      BY <3>1
    <3> HIDE DEF h
    <3> QED
      BY <2>2, <3>2, Zenon
  <2>4. ASSUME NEW s \in Small(k + 1), s # {} PROVE h[s \ {pick(s)}] = g[s \ {pick(s)}]
    <3>1. s \ {pick(s)} \in Small(k)
      <4>1. s \in SUBSET D /\ Cardinality(s) <= k + 1 /\ Cardinality(s) \in Nat
        BY <1>1
      <4>2. /\ s \ {pick(s)} \in SUBSET D
            /\ Cardinality(s \ {pick(s)}) = Cardinality(s) - 1
        BY <1>2, <2>4, <4>1
      <4> QED
        BY <4>1, <4>2
    <3> HIDE DEF Small, h
    <3> QED
      BY <2>3, <3>1
  <2>5. h = [s \in Small(k + 1) |-> IF s = {} THEN 0 ELSE f[pick(s)] + h[s \ {pick(s)}]]
    BY <2>4, Zenon
  <2> HIDE DEF h
  <2>6. Adds(f, h, Small(k + 1))
    BY <2>5 DEF Adds, pick
  <2> HIDE DEF Small
  <2> QED
    BY <1>1, <2>6
<1>5. n \in T
  <2>1. \A k \in 0 .. n - 1 : k \in T => k + 1 \in T
    BY <1>4, Zenon
  <2> HIDE DEF T
  <2>2. 0 .. n \subseteq T
    BY <1>1, <1>3, <2>1, SetInduction
  <2> QED
    BY <1>1, <2>2
<1>6. Small(n) = SUBSET D
  BY <1>1
<1>7. \E sums : Adds(f, sums, SUBSET D)
  BY <1>5, <1>6, Zenon
<1> QED
  BY <1>7, Zenon DEF Sums

\* A set of parts that has each part whose smaller ones it has, has them all.
LEMMA SubsetInduction ==
    ASSUME NEW D, IsFiniteSet(D), NEW T,
           \A s \in SUBSET D : (\A x \in s : s \ {x} \in T) => s \in T
    PROVE  SUBSET D \subseteq T
<1> DEFINE n == Cardinality(D)
           U == {k \in 0 .. n : \A s \in SUBSET D : Cardinality(s) = k => s \in T}
<1>1. n \in Nat /\ \A s \in SUBSET D : IsFiniteSet(s) /\ Cardinality(s) \in 0 .. n
  BY FS_CardinalityType, FS_Subset
<1>2. 0 \in U
  BY <1>1, FS_EmptySet
<1>3. ASSUME NEW k \in 0 .. n - 1, k \in U PROVE k + 1 \in U
  <2>1. ASSUME NEW s \in SUBSET D, Cardinality(s) = k + 1 PROVE s \in T
    <3>1. ASSUME NEW x \in s PROVE s \ {x} \in T
      <4>1. IsFiniteSet(s)
        BY <1>1
      <4>2. Cardinality(s \ {x}) = k
        <5>1. Cardinality(s \ {x}) = Cardinality(s) - 1
          BY <4>1, FS_RemoveElement, Zenon
        <5> QED
          BY <2>1, <5>1
      <4>3. s \ {x} \in SUBSET D
        OBVIOUS
      <4> QED
        BY <1>3, <4>2, <4>3
    <3> QED
      BY <3>1
  <2> QED
    BY <1>1, <2>1
<1>4. 0 .. n \subseteq U
  <2>1. \A k \in 0 .. n - 1 : k \in U => k + 1 \in U
    BY <1>3
  <2> HIDE DEF U, n
  <2> QED
    BY <1>1, <1>2, <2>1, SetInduction
<1> HIDE DEF n
<1> QED
  BY <1>1, <1>4

\* Any element may be taken first.
LEMMA SumsPick ==
    ASSUME NEW f, IsFiniteSet(DOMAIN f), \A x \in DOMAIN f : f[x] \in Int
    PROVE  /\ Sums(f)[{}] = 0
           /\ \A s \in SUBSET DOMAIN f :
                 /\ Sums(f)[s] \in Int
                 /\ \A x \in s : Sums(f)[s] = f[x] + Sums(f)[s \ {x}]
<1> DEFINE D == DOMAIN f
           g == Sums(f)
           pick(s) == CHOOSE x \in s : TRUE
           Ints == {s \in SUBSET D : g[s] \in Int}
           Good(s) == \A x \in s : g[s] = f[x] + g[s \ {x}]
           T == {s \in SUBSET D : Good(s)}
<1>1. \A s \in SUBSET D : g[s] = IF s = {} THEN 0 ELSE f[pick(s)] + g[s \ {pick(s)}]
  BY SumsExist, Zenon DEF Adds
<1>2. IsFiniteSet(D) /\ \A x \in D : f[x] \in Int
  OBVIOUS
<1> HIDE DEF g, D
<1>3. g[{}] = 0
  BY <1>1, Zenon
<1>4. \A s \in SUBSET D : s # {} => pick(s) \in s
  OBVIOUS
<1> HIDE DEF pick
<1>5. SUBSET D \subseteq Ints
  <2>1. ASSUME NEW s \in SUBSET D, \A x \in s : s \ {x} \in Ints PROVE g[s] \in Int
    <3>1. CASE s = {}
      BY <1>3, <3>1
    <3>2. CASE s # {}
      <4>1. pick(s) \in s /\ f[pick(s)] \in Int /\ g[s] = f[pick(s)] + g[s \ {pick(s)}]
        BY <1>1, <1>2, <1>4, <3>2
      <4> QED
        BY <2>1, <4>1
    <3> QED
      BY <3>1, <3>2
  <2>2. \A s \in SUBSET D : (\A x \in s : s \ {x} \in Ints) => s \in Ints
    BY <2>1, Zenon
  <2> HIDE DEF Ints
  <2> QED
    BY <1>2, <2>2, SubsetInduction, Zenon
<1>6. \A s \in SUBSET D : g[s] \in Int
  BY <1>5
<1> HIDE DEF Ints
<1>7. ASSUME NEW s \in SUBSET D, \A x \in s : s \ {x} \in T, NEW x \in s
      PROVE  g[s] = f[x] + g[s \ {x}]
  <2>1. PICK p \in s : p = pick(s)
    BY <1>4
  <2>2. g[s] = f[p] + g[s \ {p}]
    BY <1>1, <2>1
  <2>3. CASE x # p
    <3>1. s \ {x} \in T /\ s \ {p} \in T /\ p \in s \ {x} /\ x \in s \ {p}
      BY <1>7, <2>3
    <3> DEFINE u == (s \ {x}) \ {p}
    <3>2. (s \ {p}) \ {x} = u /\ u \in SUBSET D
      OBVIOUS
    <3>3. g[s \ {p}] = f[x] + g[u] /\ g[s \ {x}] = f[p] + g[u]
      BY <3>1, <3>2, Zenon
    <3> HIDE DEF u
    <3>4. g[u] \in Int /\ f[x] \in Int /\ f[p] \in Int
      BY <1>2, <1>6, <3>2
    <3>5. PICK a, b : a = g[s \ {p}] /\ b = g[s \ {x}]
      OBVIOUS
    <3>6. g[s] = f[p] + a /\ a = f[x] + g[u] /\ b = f[p] + g[u]
      BY <2>2, <3>3, <3>5, Zenon
    <3>7. g[s] = f[x] + b
      BY <3>4, <3>6
    <3> QED
      BY <3>5, <3>7, Zenon
  <2> QED
    BY <2>2, <2>3
<1>8. SUBSET D \subseteq T
  <2>1. \A s \in SUBSET D : (\A x \in s : s \ {x} \in T) => s \in T
    BY <1>7, Zenon
  <2> HIDE DEF T
  <2> QED
    BY <1>2, <2>1, SubsetInduction, Zenon
<1> QED
  BY <1>3, <1>6, <1>8 DEF g, D

\* Functions that agree on a part have the same sum there.
LEMMA SumsAgree ==
    ASSUME NEW f, IsFiniteSet(DOMAIN f), \A x \in DOMAIN f : f[x] \in Int,
           NEW g, IsFiniteSet(DOMAIN g), \A x \in DOMAIN g : g[x] \in Int,
           NEW D, D \subseteq DOMAIN f, D \subseteq DOMAIN g, \A x \in D : f[x] = g[x]
    PROVE  Sums(f)[D] = Sums(g)[D]
<1> DEFINE T == {s \in SUBSET D : Sums(f)[s] = Sums(g)[s]}
<1>1. ASSUME NEW s \in SUBSET D, \A x \in s : s \ {x} \in T PROVE s \in T
  <2>1. CASE s = {}
    BY <2>1, SumsPick
  <2>2. CASE s # {}
    <3>1. PICK x \in s : TRUE
      BY <2>2
    <3>2. s \in SUBSET DOMAIN f /\ s \in SUBSET DOMAIN g
      OBVIOUS
    <3>3. Sums(f)[s] = f[x] + Sums(f)[s \ {x}] /\ Sums(g)[s] = g[x] + Sums(g)[s \ {x}]
      BY <3>2, SumsPick
    <3>4. f[x] = g[x] /\ Sums(f)[s \ {x}] = Sums(g)[s \ {x}]
      BY <1>1
    <3> QED
      BY <3>3, <3>4
  <2> QED
    BY <2>1, <2>2
<1>2. IsFiniteSet(D)
  BY FS_Subset
<1>3. SUBSET D \subseteq T
  <2>1. \A s \in SUBSET D : (\A x \in s : s \ {x} \in T) => s \in T
    BY <1>1
  <2> HIDE DEF T
  <2> QED
    BY <1>2, <2>1, SubsetInduction, Zenon
<1> QED
  BY <1>3

\* A change at one place changes the sum by as much.
LEMMA SumUpdate ==
    ASSUME NEW D, IsFiniteSet(D), NEW f \in [D -> Int], NEW g \in [D -> Int],
           NEW x \in D, \A y \in D \ {x} : g[y] = f[y]
    PROVE  Sum(f) \in Int /\ Sum(g) = Sum(f) + (g[x] - f[x])
<1>1. Sum(f) = Sums(f)[D] /\ Sum(g) = Sums(g)[D]
  BY SumIsLast
<1>2. Sums(f)[D] = f[x] + Sums(f)[D \ {x}] /\ Sums(g)[D] = g[x] + Sums(g)[D \ {x}]
  <2>1. DOMAIN f = D /\ DOMAIN g = D /\ D \in SUBSET D
    OBVIOUS
  <2> QED
    BY <2>1, SumsPick
<1>3. Sums(f)[D \ {x}] = Sums(g)[D \ {x}]
  <2>1. DOMAIN f = D /\ DOMAIN g = D /\ D \ {x} \subseteq D
    OBVIOUS
  <2> QED
    BY <2>1, SumsAgree
<1>4. Sums(f)[D \ {x}] \in Int
  <2>1. DOMAIN f = D /\ D \ {x} \in SUBSET D
    OBVIOUS
  <2> QED
    BY <2>1, SumsPick
<1>5. f[x] \in Int /\ g[x] \in Int
  OBVIOUS
<1> QED
  BY <1>1, <1>2, <1>3, <1>4, <1>5

\* The sum over a list that gets one more entry.
LEMMA SumAppend ==
    ASSUME NEW n \in Nat, NEW f \in [1 .. n -> Int], NEW g \in [1 .. n + 1 -> Int],
           \A i \in 1 .. n : g[i] = f[i]
    PROVE  Sum(f) \in Int /\ Sum(g) = Sum(f) + g[n + 1]
<1> DEFINE D == 1 .. n
           E == 1 .. n + 1
<1>1. /\ DOMAIN f = D /\ DOMAIN g = E /\ n + 1 \in E
      /\ E \ {n + 1} = D /\ D \subseteq E
  OBVIOUS
<1> IsFiniteSet(D) /\ IsFiniteSet(E)
  BY FS_Interval
<1>2. /\ \A i \in D : f[i] \in Int
      /\ \A i \in E : g[i] \in Int
      /\ \A i \in D : f[i] = g[i]
  OBVIOUS
<1> HIDE DEF D, E
<1>3. Sum(f) = Sums(f)[D] /\ Sum(g) = Sums(g)[E]
  BY <1>1, SumIsLast
<1>4. Sums(g)[E] = g[n + 1] + Sums(g)[D]
  <2>1. E \in SUBSET DOMAIN g /\ IsFiniteSet(DOMAIN g) /\ \A i \in DOMAIN g : g[i] \in Int
    BY <1>1, <1>2
  <2>2. \A x \in E : Sums(g)[E] = g[x] + Sums(g)[E \ {x}]
    BY <2>1, SumsPick, Zenon
  <2> QED
    BY <1>1, <2>2
<1>5. Sums(f)[D] = Sums(g)[D]
  BY <1>1, <1>2, SumsAgree
<1>6. Sums(f)[D] \in Int /\ g[n + 1] \in Int
  BY <1>1, <1>2, SumsPick
<1> QED
  BY <1>3, <1>4, <1>5, <1>6

----------------------------------------------------------------------------

Receipt == [tx : Tx, gasUsed : Nat]
Candidates == [state : States, receipts : Seq(Receipt), gasUsed : 0 .. MaxGasPerBlock]

\* A transaction that fails leaves a state in which no balance has wrapped.  It
\* is the one before, or one with the sender's nonce counted up.
LEMMA FailureMeans ==
    ASSUME NEW s \in States, NEW used \in Nat, NEW t \in Tx,
           ~ExecuteTransaction(s, used, t).ok
    PROVE  /\ ExecuteTransaction(s, used, t).state \in States
           /\ Refused(s, used, t) => ExecuteTransaction(s, used, t).state = s
           /\ ~Refused(s, used, t) =>
                 \A a \in Address :
                    ExecuteTransaction(s, used, t).state.nonce[a]
                       = IF a = From[t] THEN s.nonce[a] + 1 ELSE s.nonce[a]
<1>result. PICK result : result = ExecuteTransaction(s, used, t)
  OBVIOUS
<1>1. CASE Refused(s, used, t)
  BY <1>result, <1>1 DEF ExecuteTransaction
<1>2. CASE ~Refused(s, used, t)
  <2>1. PICK paid, called : paid = Credited(s, t) /\ called = Called(paid, t)
    OBVIOUS
  <2>2. /\ s.balance \in [Address -> 0 .. MaxU256] /\ s.nonce \in [Address -> Nat]
        /\ s.code \in [Address -> Programs] /\ s.slot \in [Address -> Nat]
    BY DEF States
  <2>3. /\ From[t] \in Address /\ Recipient(t) \in Address /\ MaxU256 \in Nat
        /\ Value[t] \in Nat /\ Total(t) \in Nat /\ Value[t] <= Total(t)
    BY Fields
  <2>4. Total(t) <= s.balance[From[t]]
    BY <1>2, <2>2, <2>3 DEF Refused
  <2>5. CASE result.state = Charged(s, t)
    <3>1. [a \in Address |-> IF a = From[t] THEN s.balance[a] - Total(t) ELSE s.balance[a]]
             \in [Address -> 0 .. MaxU256]
      BY <2>2, <2>3, <2>4
    <3>2. [a \in Address |-> IF a = From[t] THEN s.nonce[a] + 1 ELSE s.nonce[a]]
             \in [Address -> Nat]
      BY <2>2
    <3> QED
      BY <1>result, <1>2, <2>2, <2>5, <3>1, <3>2, ChargedShape DEF States
  <2>6. CASE result.state = called /\ Fits(paid.balance[Recipient(t)])
    <3>1. PICK slot \in [Address -> Nat] :
             called = [balance |-> paid.balance, nonce |-> paid.nonce,
                       code |-> paid.code, slot |-> slot]
      BY <2>1, CalledShape
    <3>2. /\ paid.balance = [a \in Address |->
               (IF a = From[t] THEN s.balance[a] - Total(t) ELSE s.balance[a])
               + (IF a = Recipient(t) THEN Value[t] ELSE 0)]
          /\ paid.nonce = [a \in Address |-> IF a = From[t] THEN s.nonce[a] + 1 ELSE s.nonce[a]]
          /\ paid.code = [a \in Address |->
               IF a = Recipient(t) /\ To[t] = NoAddress THEN CodeOf[t] ELSE s.code[a]]
      BY <2>1, CreditedShape
    <3>3. paid.balance \in [Address -> 0 .. MaxU256]
      <4>1. ASSUME NEW a \in Address PROVE paid.balance[a] \in 0 .. MaxU256
        BY <2>2, <2>3, <2>4, <2>6, <3>2 DEF Fits
      <4> QED
        BY <3>2, <4>1
    <3>4. paid.nonce \in [Address -> Nat]
      BY <2>2, <3>2
    <3>5. paid.code \in [Address -> Programs]
      BY <2>2, <3>2, ExecutorAssumption
    <3> QED
      BY <1>result, <1>2, <2>6, <3>1, <3>2, <3>3, <3>4, <3>5 DEF States
  <2> QED
    BY <1>result, <1>2, <2>1, <2>5, <2>6 DEF ExecuteTransaction
<1> QED
  BY <1>1, <1>2

\* What produce_block does with one transaction.
LEMMA TryMeans ==
    ASSUME NEW c \in Candidates, NEW t \in Tx,
           NEW result, result = ExecuteTransaction(c.state, c.gasUsed, t)
    PROVE  /\ Try(c, t) \in Candidates
           /\ result.ok => /\ Try(c, t) = Include(c, t, result)
                           /\ Try(c, t).state = result.state
                           /\ Try(c, t).receipts
                                = Append(c.receipts, [tx |-> t, gasUsed |-> result.gasUsed])
                           /\ result.gasUsed \in Nat
           /\ ~result.ok => /\ Try(c, t).receipts = c.receipts
                            /\ Try(c, t).state = result.state
           /\ Refused(c.state, c.gasUsed, t) => Try(c, t) = c
<1>1. /\ c.state \in States /\ c.receipts \in Seq(Receipt) /\ c.gasUsed \in 0 .. MaxGasPerBlock
      /\ c = [state |-> c.state, receipts |-> c.receipts, gasUsed |-> c.gasUsed]
      /\ MaxGasPerBlock \in Nat /\ c.gasUsed \in Nat
  BY Fields DEF Candidates
<1>2. CASE result.ok
  <2>1. Try(c, t) = Include(c, t, result) /\ ~Refused(c.state, c.gasUsed, t)
    BY <1>2 DEF Try, ExecuteTransaction
  <2>2. /\ result.state \in States /\ result.gasUsed \in Intrinsic(t) .. Gas[t]
        /\ c.gasUsed + result.gasUsed <= MaxGasPerBlock
    BY <1>1, <1>2, TransactionExact, Zenon
  <2>3. result.gasUsed \in Nat
    BY <2>2, Fields
  <2>4. [tx |-> t, gasUsed |-> result.gasUsed] \in Receipt
    BY <2>3 DEF Receipt
  <2>5. Append(c.receipts, [tx |-> t, gasUsed |-> result.gasUsed]) \in Seq(Receipt)
    BY <1>1, <2>4
  <2>6. c.gasUsed + result.gasUsed \in 0 .. MaxGasPerBlock
    BY <1>1, <2>2, <2>3
  <2>7. Try(c, t) = [state    |-> result.state,
                     receipts |-> Append(c.receipts, [tx |-> t, gasUsed |-> result.gasUsed]),
                     gasUsed  |-> c.gasUsed + result.gasUsed]
    BY <2>1 DEF Include
  <2>8. Try(c, t) \in Candidates
    BY <2>2, <2>5, <2>6, <2>7 DEF Candidates
  <2> QED
    BY <1>2, <2>1, <2>3, <2>7, <2>8
<1>3. CASE ~result.ok
  <2>1. Try(c, t) = [c EXCEPT !.state = result.state]
    BY <1>3 DEF Try
  <2>2. result.state \in States /\ (Refused(c.state, c.gasUsed, t) => result.state = c.state)
    <3>1. PICK s, used : s = c.state /\ used = c.gasUsed
      OBVIOUS
    <3>2. s \in States /\ used \in Nat /\ result = ExecuteTransaction(s, used, t)
      BY <1>1, <3>1
    <3>3. result.state \in States /\ (Refused(s, used, t) => result.state = s)
      BY <1>3, <3>2, FailureMeans
    <3> QED
      BY <3>1, <3>3
  <2>3. PICK d : d = Try(c, t)
    OBVIOUS
  <2>4. d = [state |-> result.state, receipts |-> c.receipts, gasUsed |-> c.gasUsed]
    BY <1>1, <2>1, <2>3
  <2>5. d \in Candidates
    BY <1>1, <2>2, <2>4 DEF Candidates
  <2>6. Refused(c.state, c.gasUsed, t) => d = c
    BY <1>1, <2>2, <2>4, Zenon
  <2> QED
    BY <1>3, <2>3, <2>4, <2>5, <2>6
<1> QED
  BY <1>2, <1>3

\* The stages of a block, one after the other.
LEMMA StagesMeans ==
    ASSUME NEW s, NEW txs \in Seq(Tx), NEW stage, stage = Stages(s, txs)
    PROVE  /\ stage[0] = Candidate(s)
           /\ \A i \in 1 .. Len(txs) : stage[i] = Try(stage[i - 1], txs[i])
<1> DEFINE n == Len(txs)
           Solves(m, f) ==
              f = [i \in 0 .. m |-> IF i = 0 THEN Candidate(s) ELSE Try(f[i - 1], txs[i])]
           T == {m \in 0 .. n : \E f : Solves(m, f)}
<1>1. n \in Nat
  OBVIOUS
<1>2. stage = CHOOSE f : Solves(n, f)
  BY DEF Stages
<1> HIDE DEF n
<1>3. 0 \in T
  <2>1. Solves(0, [i \in 0 .. 0 |-> Candidate(s)])
    OBVIOUS
  <2> HIDE DEF Solves
  <2> QED
    BY <1>1, <2>1
<1>4. ASSUME NEW m \in 0 .. n - 1, m \in T PROVE m + 1 \in T
  <2>1. PICK f : Solves(m, f)
    BY <1>4
  <2> DEFINE g == [i \in 0 .. m + 1 |-> IF i = m + 1 THEN Try(f[m], txs[m + 1]) ELSE f[i]]
  <2>2. ASSUME NEW i \in 0 .. m + 1
        PROVE  g[i] = IF i = 0 THEN Candidate(s) ELSE Try(g[i - 1], txs[i])
    <3>1. CASE i = m + 1
      <4>1. g[i] = Try(f[m], txs[m + 1]) /\ g[i - 1] = f[m] /\ i # 0
        BY <1>1, <3>1
      <4> HIDE DEF g
      <4> QED
        BY <3>1, <4>1
    <3>2. CASE i # m + 1
      <4>1. g[i] = f[i] /\ (i # 0 => g[i - 1] = f[i - 1]) /\ i \in 0 .. m
        BY <1>1, <3>2
      <4> HIDE DEF g
      <4>2. f[i] = IF i = 0 THEN Candidate(s) ELSE Try(f[i - 1], txs[i])
        BY <2>1, <4>1
      <4> QED
        BY <4>1, <4>2
    <3> QED
      BY <3>1, <3>2
  <2>3. Solves(m + 1, g)
    BY <2>2
  <2> HIDE DEF Solves, g
  <2> QED
    BY <1>1, <2>3
<1>5. n \in T
  <2>1. \A m \in 0 .. n - 1 : m \in T => m + 1 \in T
    BY <1>4
  <2> HIDE DEF T
  <2>2. 0 .. n \subseteq T
    BY <1>1, <1>3, <2>1, SetInduction
  <2> QED
    BY <1>1, <2>2
<1>6. Solves(n, stage)
  BY <1>2, <1>5, Zenon
<1> HIDE DEF T
<1> QED
  BY <1>1, <1>6 DEF n

\* ... are blocks under construction.
LEMMA StagesType ==
    ASSUME NEW s \in States, NEW txs \in Seq(Tx), NEW i \in 0 .. Len(txs)
    PROVE  Stages(s, txs)[i] \in Candidates
<1> DEFINE n == Len(txs)
           stage == Stages(s, txs)
           T == {j \in 0 .. n : stage[j] \in Candidates}
<1>1. n \in Nat /\ \A j \in 1 .. n : txs[j] \in Tx
  OBVIOUS
<1>2. stage[0] = Candidate(s) /\ \A j \in 1 .. n : stage[j] = Try(stage[j - 1], txs[j])
  BY StagesMeans
<1> HIDE DEF n, stage
<1>3. 0 \in T
  <2>1. Candidate(s) \in Candidates
    BY Fields, ExecutorAssumption DEF Candidate, Candidates
  <2> QED
    BY <1>1, <1>2, <2>1
<1>4. ASSUME NEW j \in 0 .. n - 1, j \in T PROVE j + 1 \in T
  <2>1. j + 1 \in 1 .. n /\ (j + 1) - 1 = j
    BY <1>1
  <2>2. stage[j + 1] = Try(stage[j], txs[j + 1]) /\ txs[j + 1] \in Tx
    BY <1>1, <1>2, <2>1
  <2>3. stage[j + 1] \in Candidates
    BY <1>4, <2>2, TryMeans, Zenon
  <2> QED
    BY <1>1, <2>3
<1>5. 0 .. n \subseteq T
  <2>1. \A j \in 0 .. n - 1 : j \in T => j + 1 \in T
    BY <1>4
  <2> HIDE DEF T
  <2> QED
    BY <1>1, <1>3, <2>1, SetInduction
<1> QED
  BY <1>5 DEF n, stage

\* No two transactions of the set have the same sender and nonce.
Distinct(S) == \A t, u \in S : From[t] = From[u] /\ Nonce[t] = Nonce[u] => t = u

Before(S, t) == {u \in S : InOrder(u, t)}

\* The order of produce_block is a strict total order on such a set.
LEMMA OrderTotal ==
    ASSUME NEW S \in SUBSET Tx, Distinct(S)
    PROVE  /\ \A t \in S : ~InOrder(t, t)
           /\ \A t, u \in S : t # u => InOrder(t, u) \/ InOrder(u, t)
           /\ \A t, u, v \in S : InOrder(t, u) /\ InOrder(u, v) => InOrder(t, v)
           /\ \A t, u \in S : ~(InOrder(t, u) /\ InOrder(u, t))
<1>1. \A t \in S : From[t] \in Nat /\ Nonce[t] \in Nat
  BY ExecutorAssumption, Zenon
<1> QED
  BY <1>1 DEF InOrder, Distinct

\* A transaction that is earlier has fewer before it.
LEMMA RankGrows ==
    ASSUME NEW S \in SUBSET Tx, IsFiniteSet(S), Distinct(S), NEW t \in S, NEW u \in S
    PROVE  /\ Cardinality(Before(S, t)) \in 0 .. Cardinality(S) - 1
           /\ IsFiniteSet(Before(S, t))
           /\ InOrder(t, u) => Cardinality(Before(S, t)) < Cardinality(Before(S, u))
           /\ Cardinality(Before(S, t)) = Cardinality(Before(S, u)) => t = u
<1>1. ASSUME NEW v \in S
      PROVE  /\ IsFiniteSet(Before(S, v)) /\ Cardinality(Before(S, v)) \in Nat
             /\ Before(S, v) \in SUBSET S
  <2>1. Before(S, v) \in SUBSET S
    BY DEF Before
  <2> QED
    BY <2>1, FS_Subset, FS_CardinalityType
<1>2. Cardinality(Before(S, t)) < Cardinality(S)
  <2>1. t \notin Before(S, t)
    BY OrderTotal DEF Before
  <2>2. Cardinality(Before(S, t)) <= Cardinality(S) /\ Cardinality(Before(S, t)) # Cardinality(S)
    BY <1>1, <2>1, FS_Subset
  <2>3. Cardinality(S) \in Nat
    BY FS_CardinalityType
  <2> QED
    BY <1>1, <2>2, <2>3
<1>3. ASSUME NEW v \in S, NEW w \in S, InOrder(v, w)
      PROVE  Cardinality(Before(S, v)) < Cardinality(Before(S, w))
  <2>1. Before(S, v) \in SUBSET Before(S, w)
    BY <1>3, OrderTotal DEF Before
  <2>2. v \in Before(S, w) /\ v \notin Before(S, v)
    BY <1>3, OrderTotal DEF Before
  <2>3. /\ Cardinality(Before(S, v)) <= Cardinality(Before(S, w))
        /\ Cardinality(Before(S, v)) # Cardinality(Before(S, w))
    BY <1>1, <2>1, <2>2, FS_Subset
  <2> QED
    BY <1>1, <2>3
<1>4. Cardinality(Before(S, t)) = Cardinality(Before(S, u)) => t = u
  BY <1>1, <1>3, OrderTotal
<1>5. Cardinality(S) \in Nat
  BY FS_CardinalityType
<1> QED
  BY <1>1, <1>2, <1>3, <1>4, <1>5

\* Sorting yields each transaction once, at the place that the number of
\* those before it gives.
LEMMA SortedMeans ==
    ASSUME NEW S \in SUBSET Tx, IsFiniteSet(S), Distinct(S)
    PROVE  /\ Cardinality(S) \in Nat
           /\ Sorted(S) \in Seq(S) /\ Len(Sorted(S)) = Cardinality(S)
           /\ \A i \in 1 .. Cardinality(S) :
                 Sorted(S)[i] \in S /\ Cardinality(Before(S, Sorted(S)[i])) = i - 1
           /\ \A t \in S : /\ Cardinality(Before(S, t)) + 1 \in 1 .. Cardinality(S)
                           /\ Sorted(S)[Cardinality(Before(S, t)) + 1] = t
<1> DEFINE n == Cardinality(S)
           rank == [t \in S |-> Cardinality(Before(S, t))]
<1>1. n \in Nat
  BY FS_CardinalityType
<1>2. \A t \in S : Cardinality(Before(S, t)) \in 0 .. n - 1
  BY RankGrows
<1>3. rank \in Injection(S, 0 .. n - 1)
  <2>1. rank \in [S -> 0 .. n - 1]
    BY <1>2
  <2>2. \A t, u \in S : rank[t] = rank[u] => t = u
    BY RankGrows
  <2> HIDE DEF rank
  <2> QED
    BY <2>1, <2>2 DEF Injection, IsInjective
<1>4. Cardinality(0 .. n - 1) = n /\ IsFiniteSet(0 .. n - 1)
  BY <1>1, FS_Interval
<1> HIDE DEF n
<1>5. rank \in Surjection(S, 0 .. n - 1)
  <2> HIDE DEF rank
  <2> QED
    BY <1>3, <1>4, FS_Injection DEF n
<1>6. ASSUME NEW i \in 1 .. n PROVE \E t \in S : Cardinality(Before(S, t)) = i - 1
  <2>1. i - 1 \in 0 .. n - 1
    BY <1>1
  <2> QED
    BY <1>5, <2>1, Zenon DEF Surjection
<1>7. Sorted(S) = [i \in 1 .. n |-> CHOOSE t \in S : Cardinality(Before(S, t)) = i - 1]
  BY DEF Sorted, Before, n
<1>8. \A i \in 1 .. n : Sorted(S)[i] \in S /\ Cardinality(Before(S, Sorted(S)[i])) = i - 1
  BY <1>6, <1>7
<1>9. Sorted(S) \in Seq(S) /\ Len(Sorted(S)) = n
  <2>1. Sorted(S) \in [1 .. n -> S]
    BY <1>7, <1>8
  <2> QED
    BY <1>1, <2>1
<1>10. ASSUME NEW t \in S
       PROVE  /\ Cardinality(Before(S, t)) + 1 \in 1 .. n
              /\ Sorted(S)[Cardinality(Before(S, t)) + 1] = t
  <2> DEFINE i == Cardinality(Before(S, t)) + 1
  <2>1. i \in 1 .. n /\ Cardinality(Before(S, t)) = i - 1
    BY <1>1, <1>2
  <2>2. Sorted(S)[i] \in S /\ Cardinality(Before(S, Sorted(S)[i])) = Cardinality(Before(S, t))
    BY <1>8, <2>1
  <2> QED
    BY <2>1, <2>2, RankGrows
<1> QED
  BY <1>1, <1>8, <1>9, <1>10 DEF n

\* What comes before a transaction is sorted in the same way.
LEMMA SortedPrefix ==
    ASSUME NEW S \in SUBSET Tx, IsFiniteSet(S), Distinct(S), NEW t \in S,
           NEW i \in 1 .. Cardinality(Before(S, t))
    PROVE  Sorted(Before(S, t))[i] = Sorted(S)[i]
<1> DEFINE B == Before(S, t)
           u == Sorted(S)[i]
<1>1. B \in SUBSET Tx /\ IsFiniteSet(B) /\ Distinct(B) /\ B \subseteq S /\ Cardinality(B) \in Nat
  <2>1. B \subseteq S
    BY DEF Before
  <2>2. Distinct(B)
    BY <2>1 DEF Distinct
  <2> QED
    BY <2>1, <2>2, FS_Subset, FS_CardinalityType
<1>2. Cardinality(B) \in 0 .. Cardinality(S) - 1 /\ Cardinality(S) \in Nat
  BY RankGrows, FS_CardinalityType
<1> HIDE DEF B
<1>3. i \in 1 .. Cardinality(S)
  BY <1>1, <1>2 DEF B
<1>4. u \in S /\ Cardinality(Before(S, u)) = i - 1
  BY <1>3, SortedMeans
<1> HIDE DEF u
<1>5. InOrder(u, t)
  <2>1. Cardinality(Before(S, u)) < Cardinality(Before(S, t))
    BY <1>1, <1>4 DEF B
  <2>2. u # t
    BY <1>1, <2>1 DEF B
  <2>3. ~InOrder(t, u)
    <3>1. InOrder(t, u) => Cardinality(Before(S, t)) < Cardinality(Before(S, u))
      BY <1>4, RankGrows
    <3> QED
      BY <1>1, <1>4, <2>1, <3>1 DEF B
  <2> QED
    BY <1>4, <2>2, <2>3, OrderTotal
<1>6. u \in B /\ Before(B, u) = Before(S, u)
  BY <1>4, <1>5, OrderTotal DEF B, Before
<1>7. Sorted(B)[Cardinality(Before(B, u)) + 1] = u
  BY <1>1, <1>6, SortedMeans
<1> QED
  BY <1>4, <1>6, <1>7 DEF u, B

\* The stages only depend on the transactions so far.
LEMMA StagesAgree ==
    ASSUME NEW s, NEW txs \in Seq(Tx), NEW us \in Seq(Tx),
           NEW n \in 0 .. Len(txs), n <= Len(us), \A i \in 1 .. n : us[i] = txs[i]
    PROVE  Stages(s, us)[n] = Stages(s, txs)[n]
<1>1. PICK f, g : f = Stages(s, txs) /\ g = Stages(s, us)
  OBVIOUS
<1>2. n \in Nat /\ Len(txs) \in Nat /\ Len(us) \in Nat
  OBVIOUS
<1>3. f[0] = Candidate(s) /\ \A i \in 1 .. n : f[i] = Try(f[i - 1], txs[i])
  BY <1>1, <1>2, StagesMeans
<1>4. g[0] = Candidate(s) /\ \A i \in 1 .. n : g[i] = Try(g[i - 1], us[i])
  BY <1>1, <1>2, StagesMeans
<1> DEFINE T == {i \in 0 .. n : g[i] = f[i]}
<1>5. 0 \in T
  BY <1>2, <1>3, <1>4
<1>6. ASSUME NEW i \in 0 .. n - 1, i \in T PROVE i + 1 \in T
  <2>1. i + 1 \in 1 .. n /\ (i + 1) - 1 = i
    BY <1>2
  <2> QED
    BY <1>3, <1>4, <1>6, <2>1
<1>7. 0 .. n \subseteq T
  <2>1. \A i \in 0 .. n - 1 : i \in T => i + 1 \in T
    BY <1>6
  <2> HIDE DEF T
  <2> QED
    BY <1>2, <1>5, <2>1, SetInduction, Zenon
<1> QED
  BY <1>1, <1>2, <1>7

\* What a list of transactions makes of a state.
Run(s, txs) == Stages(s, txs)[Len(txs)]

\* One more transaction is tried on the block of the others.
LEMMA RunAppend ==
    ASSUME NEW s, NEW txs \in Seq(Tx), NEW t \in Tx
    PROVE  Run(s, Append(txs, t)) = Try(Run(s, txs), t)
<1> DEFINE us == Append(txs, t)
           n == Len(txs)
<1>1. us \in Seq(Tx) /\ Len(us) = n + 1 /\ us[n + 1] = t /\ n \in Nat
  OBVIOUS
<1>2. \A i \in 1 .. n : us[i] = txs[i]
  OBVIOUS
<1> HIDE DEF us, n
<1>3. Stages(s, us)[n + 1] = Try(Stages(s, us)[n], us[n + 1])
  <2>1. n + 1 \in 1 .. Len(us) /\ (n + 1) - 1 = n
    BY <1>1
  <2>2. PICK f : f = Stages(s, us)
    OBVIOUS
  <2>3. \A i \in 1 .. Len(us) : f[i] = Try(f[i - 1], us[i])
    BY <1>1, <2>2, StagesMeans
  <2> QED
    BY <2>1, <2>2, <2>3
<1>4. Stages(s, us)[n] = Stages(s, txs)[n]
  <2>1. n \in 0 .. Len(txs) /\ n <= Len(us)
    BY <1>1 DEF n
  <2> QED
    BY <1>1, <1>2, <2>1, StagesAgree
<1> QED
  BY <1>1, <1>3, <1>4 DEF Run, us, n

\* A run yields a block within its gas limit.
LEMMA RunType ==
    ASSUME NEW s \in States, NEW txs \in Seq(Tx)
    PROVE  Run(s, txs) \in Candidates
<1>1. Len(txs) \in 0 .. Len(txs)
  OBVIOUS
<1> QED
  BY <1>1, StagesType DEF Run

\* The transactions of a list of receipts.
LEMMA TxsMeans ==
    ASSUME NEW rs \in Seq(Receipt)
    PROVE  /\ Txs(rs) \in Seq(Tx) /\ Len(Txs(rs)) = Len(rs)
           /\ \A i \in 1 .. Len(rs) : Txs(rs)[i] = rs[i].tx
           /\ \A r \in Receipt : Txs(Append(rs, r)) = Append(Txs(rs), r.tx)
<1>1. \A i \in 1 .. Len(rs) : rs[i] \in Receipt /\ rs[i].tx \in Tx
  <2>1. \A i \in 1 .. Len(rs) : rs[i] \in Receipt
    OBVIOUS
  <2> QED
    BY <2>1 DEF Receipt
<1>2. Txs(rs) = [i \in 1 .. Len(rs) |-> rs[i].tx]
  BY DEF Txs
<1>3. Txs(rs) \in Seq(Tx) /\ Len(Txs(rs)) = Len(rs)
  <2>1. Txs(rs) \in [1 .. Len(rs) -> Tx] /\ Len(rs) \in Nat
    BY <1>1, <1>2
  <2> QED
    BY <2>1
<1>4. ASSUME NEW r \in Receipt PROVE Txs(Append(rs, r)) = Append(Txs(rs), r.tx)
  <2>1. Txs(Append(rs, r)) = [i \in 1 .. Len(rs) + 1 |-> Append(rs, r)[i].tx]
    BY DEF Txs
  <2>2. Append(Txs(rs), r.tx)
          = [i \in 1 .. Len(rs) + 1 |-> IF i = Len(rs) + 1 THEN r.tx ELSE Txs(rs)[i]]
    BY <1>3
  <2>3. ASSUME NEW i \in 1 .. Len(rs) + 1
        PROVE  Append(rs, r)[i].tx = IF i = Len(rs) + 1 THEN r.tx ELSE Txs(rs)[i]
    BY <1>2
  <2> QED
    BY <2>1, <2>2, <2>3
<1> QED
  BY <1>2, <1>3, <1>4, Zenon

\* The number of receipts of a sender.
LEMMA SentMeans ==
    ASSUME NEW rs \in Seq(Receipt), NEW a, NEW r \in Receipt
    PROVE  /\ Cardinality(Sent(rs, a, Len(rs))) \in Nat
           /\ Cardinality(Sent(Append(rs, r), a, Len(rs) + 1))
                = Cardinality(Sent(rs, a, Len(rs))) + (IF From[r.tx] = a THEN 1 ELSE 0)
           /\ \A i \in 0 .. Len(rs) : Sent(Append(rs, r), a, i) = Sent(rs, a, i)
<1> DEFINE n == Len(rs)
           S == Sent(rs, a, n)
<1>1. n \in Nat
  OBVIOUS
<1>2. S \in SUBSET (1 .. n) /\ IsFiniteSet(1 .. n)
  BY <1>1, FS_Interval DEF Sent
<1>3. IsFiniteSet(S) /\ Cardinality(S) \in Nat
  BY <1>2, FS_Subset, FS_CardinalityType
<1>4. ASSUME NEW i \in 0 .. n PROVE Sent(Append(rs, r), a, i) = Sent(rs, a, i)
  <2>1. \A j \in 1 .. i : Append(rs, r)[j] = rs[j]
    OBVIOUS
  <2> QED
    BY <2>1 DEF Sent
<1>5. Sent(Append(rs, r), a, n + 1) = IF From[r.tx] = a THEN S \cup {n + 1} ELSE S
  <2>1. /\ \A j \in 1 .. n : Append(rs, r)[j] = rs[j]
        /\ Append(rs, r)[n + 1] = r
    OBVIOUS
  <2>2. 1 .. n + 1 = (1 .. n) \cup {n + 1}
    BY <1>1
  <2> HIDE DEF n
  <2> QED
    BY <1>1, <2>1, <2>2, Zenon DEF Sent
<1>6. n + 1 \notin S
  BY <1>1 DEF Sent
<1>7. Cardinality(S \cup {n + 1}) = Cardinality(S) + 1
  BY <1>3, <1>6, FS_AddElement, Zenon
<1> QED
  BY <1>3, <1>4, <1>5, <1>7

\* The nonces of a block count at least the transactions that it includes.
CountsSent(s, c) ==
    \A a \in Address :
        c.state.nonce[a] >= s.nonce[a] + Cardinality(Sent(c.receipts, a, Len(c.receipts)))

CountsOnlySent(s, c) ==
    \A a \in Address :
        c.state.nonce[a] = s.nonce[a] + Cardinality(Sent(c.receipts, a, Len(c.receipts)))

\* What trying t after c does to the nonce of a (c.state before, d.state after)
\* and to the number of a's transactions among the receipts (k before, l after).
Counted(s, c, t, a, result, d, k, l) ==
    /\ k \in Nat /\ l \in Nat
    /\ c.state.nonce[a] \in Nat /\ d.state.nonce[a] \in Nat /\ s.nonce[a] \in Nat
    /\ result.ok => d.state.nonce[a] - l = c.state.nonce[a] - k
    /\ ~result.ok /\ ~Refused(c.state, c.gasUsed, t) =>
          /\ l = k
          /\ d.state.nonce[a] = c.state.nonce[a] + (IF a = From[t] THEN 1 ELSE 0)
    /\ Refused(c.state, c.gasUsed, t) => d = c /\ ~result.ok

\* What one transaction does to that count.
LEMMA TryCounts ==
    ASSUME NEW s \in States, NEW c \in Candidates, NEW t \in Tx, NEW a \in Address,
           NEW result, result = ExecuteTransaction(c.state, c.gasUsed, t),
           NEW d, d = Try(c, t),
           NEW k, k = Cardinality(Sent(c.receipts, a, Len(c.receipts))),
           NEW l, l = Cardinality(Sent(d.receipts, a, Len(d.receipts)))
    PROVE  Counted(s, c, t, a, result, d, k, l)
<1> SUFFICES /\ k \in Nat /\ l \in Nat
             /\ c.state.nonce[a] \in Nat /\ d.state.nonce[a] \in Nat /\ s.nonce[a] \in Nat
             /\ result.ok => d.state.nonce[a] - l = c.state.nonce[a] - k
             /\ ~result.ok /\ ~Refused(c.state, c.gasUsed, t) =>
                   /\ l = k
                   /\ d.state.nonce[a] = c.state.nonce[a] + (IF a = From[t] THEN 1 ELSE 0)
             /\ Refused(c.state, c.gasUsed, t) => d = c /\ ~result.ok
  BY Zenon DEF Counted
<1>1. /\ d \in Candidates
      /\ result.ok => /\ d.state = result.state /\ result.gasUsed \in Nat
                      /\ d.receipts = Append(c.receipts, [tx |-> t, gasUsed |-> result.gasUsed])
      /\ ~result.ok => d.receipts = c.receipts /\ d.state = result.state
      /\ Refused(c.state, c.gasUsed, t) => d = c
  BY TryMeans
<1>2. /\ c.state \in States /\ d.state \in States /\ c.gasUsed \in Nat
      /\ c.receipts \in Seq(Receipt) /\ d.receipts \in Seq(Receipt)
  BY <1>1, Fields DEF Candidates
<1>3. c.state.nonce[a] \in Nat /\ d.state.nonce[a] \in Nat /\ s.nonce[a] \in Nat
  BY <1>2 DEF States
<1>4. PICK r \in Receipt : r = [tx |-> t, gasUsed |-> 0]
  BY Zenon DEF Receipt
<1>5. k \in Nat /\ l \in Nat
  BY <1>2, <1>4, SentMeans
<1>6. CASE result.ok
  <2>1. PICK q \in Receipt : q = [tx |-> t, gasUsed |-> result.gasUsed]
    BY <1>1, <1>6 DEF Receipt
  <2>2. d.receipts = Append(c.receipts, q) /\ q.tx = t /\ Len(d.receipts) = Len(c.receipts) + 1
    BY <1>1, <1>2, <1>6, <2>1
  <2>3. l = k + (IF From[t] = a THEN 1 ELSE 0)
    BY <1>2, <2>2, SentMeans
  <2>4. /\ c.state.nonce[From[t]] = Nonce[t]
        /\ result.state.nonce[a] = IF a = From[t] THEN Nonce[t] + 1 ELSE c.state.nonce[a]
    <3>1. PICK u, used : u = c.state /\ used = c.gasUsed
      OBVIOUS
    <3>2. u \in States /\ used \in Nat /\ result = ExecuteTransaction(u, used, t)
      BY <1>2, <3>1
    <3>3. /\ u.nonce[From[t]] = Nonce[t]
          /\ result.state.nonce = [b \in Address |-> IF b = From[t] THEN Nonce[t] + 1
                                                                     ELSE u.nonce[b]]
      BY <1>6, <3>2, TransactionExact
    <3> QED
      BY <3>1, <3>3
  <2>5. d.state.nonce[a] = c.state.nonce[a] + (IF From[t] = a THEN 1 ELSE 0)
    BY <1>1, <1>3, <1>6, <2>4
  <2>6. ~Refused(c.state, c.gasUsed, t)
    BY <1>6 DEF ExecuteTransaction
  <2> QED
    BY <1>3, <1>5, <1>6, <2>3, <2>5, <2>6
<1>7. CASE ~result.ok
  <2>1. l = k
    BY <1>1, <1>7
  <2>2. ~Refused(c.state, c.gasUsed, t) =>
           d.state.nonce[a] = c.state.nonce[a] + (IF a = From[t] THEN 1 ELSE 0)
    <3>1. PICK u, used : u = c.state /\ used = c.gasUsed
      OBVIOUS
    <3>2. u \in States /\ used \in Nat /\ ~ExecuteTransaction(u, used, t).ok
      BY <1>2, <1>7, <3>1
    <3>3. ~Refused(u, used, t) =>
             ExecuteTransaction(u, used, t).state.nonce[a]
                = IF a = From[t] THEN u.nonce[a] + 1 ELSE u.nonce[a]
      BY <3>2, FailureMeans
    <3> QED
      BY <1>1, <1>3, <1>7, <3>1, <3>3
  <2> QED
    BY <1>1, <1>3, <1>5, <1>7, <2>1, <2>2
<1> QED
  BY <1>6, <1>7

\* A transaction that is included counts the nonce of its sender up.
LEMMA IncludedCounts ==
    ASSUME NEW s \in States, NEW c \in Candidates, NEW t \in Tx,
           NEW result, result = ExecuteTransaction(c.state, c.gasUsed, t), result.ok,
           NEW d, d = Try(c, t), CountsOnlySent(s, c)
    PROVE  CountsOnlySent(s, d)
<1>1. ASSUME NEW a \in Address
      PROVE  d.state.nonce[a] = s.nonce[a] + Cardinality(Sent(d.receipts, a, Len(d.receipts)))
  <2>1. PICK k, l : /\ k = Cardinality(Sent(c.receipts, a, Len(c.receipts)))
                    /\ l = Cardinality(Sent(d.receipts, a, Len(d.receipts)))
    OBVIOUS
  <2>2. /\ k \in Nat /\ l \in Nat
        /\ c.state.nonce[a] \in Nat /\ d.state.nonce[a] \in Nat /\ s.nonce[a] \in Nat
        /\ result.ok => d.state.nonce[a] - l = c.state.nonce[a] - k
    <3>1. Counted(s, c, t, a, result, d, k, l)
      BY <2>1, TryCounts, Zenon
    <3> QED
      BY <3>1, Zenon DEF Counted
  <2>3. c.state.nonce[a] = s.nonce[a] + k
    BY <2>1, Zenon DEF CountsOnlySent
  <2>4. PICK x, y, z \in Nat : x = c.state.nonce[a] /\ y = d.state.nonce[a] /\ z = s.nonce[a]
    BY <2>2
  <2>5. y - l = x - k /\ x = z + k
    BY <2>2, <2>3, <2>4, Zenon
  <2>6. y = z + l
    BY <2>2, <2>5
  <2> QED
    BY <2>1, <2>4, <2>6
<1> QED
  BY <1>1 DEF CountsOnlySent

----------------------------------------------------------------------------
Replays(s, c) == Run(s, Txs(c.receipts)) = c

\* Executing the transactions of a block again yields the block, unless one
\* that is not included has counted a nonce up.
LEMMA ReplayOrCounted ==
    ASSUME NEW s \in States, NEW txs \in Seq(Tx), NEW i \in 0 .. Len(txs)
    PROVE  /\ CountsSent(s, Stages(s, txs)[i])
           /\ Replays(s, Stages(s, txs)[i]) \/ ~CountsOnlySent(s, Stages(s, txs)[i])
<1> DEFINE n == Len(txs)
           stage == Stages(s, txs)
           Good(c) == CountsSent(s, c) /\ (Replays(s, c) \/ ~CountsOnlySent(s, c))
           T == {j \in 0 .. n : Good(stage[j])}
<1>1. n \in Nat /\ \A j \in 1 .. n : txs[j] \in Tx
  OBVIOUS
<1>2. stage[0] = Candidate(s) /\ \A j \in 1 .. n : stage[j] = Try(stage[j - 1], txs[j])
  BY StagesMeans
<1>3. \A j \in 0 .. n : stage[j] \in Candidates
  BY StagesType
<1> HIDE DEF n, stage
<1>4. Good(Candidate(s))
  <2>1. Candidate(s).receipts = <<>> /\ Candidate(s).state = s
    BY DEF Candidate
  <2>2. ASSUME NEW a \in Address PROVE Cardinality(Sent(<<>>, a, 0)) = 0 /\ s.nonce[a] \in Nat
    BY FS_EmptySet DEF Sent, States
  <2>3. CountsSent(s, Candidate(s))
    BY <2>1, <2>2 DEF CountsSent
  <2>4. Replays(s, Candidate(s))
    <3>1. Txs(<<>>) = <<>> /\ <<>> \in Seq(Tx) /\ Len(<<>>) = 0
      BY DEF Txs
    <3>2. Stages(s, <<>>)[0] = Candidate(s)
      BY <3>1, StagesMeans, Zenon
    <3> QED
      BY <2>1, <3>1, <3>2 DEF Replays, Run
  <2> QED
    BY <2>3, <2>4
<1>5. ASSUME NEW c \in Candidates, NEW t \in Tx, Good(c) PROVE Good(Try(c, t))
  <2>1. PICK d, result : d = Try(c, t) /\ result = ExecuteTransaction(c.state, c.gasUsed, t)
    OBVIOUS
  <2> DEFINE k == [a \in Address |-> Cardinality(Sent(c.receipts, a, Len(c.receipts)))]
             l == [a \in Address |-> Cardinality(Sent(d.receipts, a, Len(d.receipts)))]
             x == [a \in Address |-> c.state.nonce[a]]
             y == [a \in Address |-> d.state.nonce[a]]
             z == [a \in Address |-> s.nonce[a]]
  <2>2. ASSUME NEW a \in Address
        PROVE  /\ k[a] \in Nat /\ l[a] \in Nat /\ x[a] \in Nat /\ y[a] \in Nat /\ z[a] \in Nat
               /\ result.ok => y[a] - l[a] = x[a] - k[a]
               /\ ~result.ok /\ ~Refused(c.state, c.gasUsed, t) =>
                     l[a] = k[a] /\ y[a] = x[a] + (IF a = From[t] THEN 1 ELSE 0)
               /\ Refused(c.state, c.gasUsed, t) => d = c /\ ~result.ok
    <3>1. /\ k[a] = Cardinality(Sent(c.receipts, a, Len(c.receipts)))
          /\ l[a] = Cardinality(Sent(d.receipts, a, Len(d.receipts)))
          /\ x[a] = c.state.nonce[a] /\ y[a] = d.state.nonce[a] /\ z[a] = s.nonce[a]
      BY Zenon
    <3> HIDE DEF k, l, x, y, z
    <3>2. Counted(s, c, t, a, result, d, k[a], l[a])
      BY <2>1, <3>1, TryCounts, Zenon
    <3> QED
      BY <3>1, <3>2, Zenon DEF Counted
  <2>3. /\ CountsSent(s, c) <=> \A a \in Address : x[a] >= z[a] + k[a]
        /\ CountsSent(s, d) <=> \A a \in Address : y[a] >= z[a] + l[a]
        /\ CountsOnlySent(s, c) <=> \A a \in Address : x[a] = z[a] + k[a]
        /\ CountsOnlySent(s, d) <=> \A a \in Address : y[a] = z[a] + l[a]
    BY Zenon DEF CountsSent, CountsOnlySent
  <2> HIDE DEF k, l, x, y, z
  <2>4. CASE Refused(c.state, c.gasUsed, t)
    <3>1. From[t] \in Address
      BY Fields
    <3>2. d = c
      BY <2>2, <2>4, <3>1
    <3> QED
      BY <1>5, <2>1, <3>2
  <2>5. CASE result.ok
    <3>1. \A a \in Address :
             /\ k[a] \in Nat /\ l[a] \in Nat /\ x[a] \in Nat /\ y[a] \in Nat /\ z[a] \in Nat
             /\ y[a] - l[a] = x[a] - k[a]
      BY <2>2, <2>5, Zenon
    <3>2. CountsSent(s, d) /\ (CountsOnlySent(s, d) => CountsOnlySent(s, c))
      <4>1. \A a \in Address : x[a] >= z[a] + k[a]
        BY <1>5, <2>3
      <4>2. \A a \in Address : y[a] >= z[a] + l[a] /\ (y[a] = z[a] + l[a] => x[a] = z[a] + k[a])
        BY <3>1, <4>1
      <4> QED
        BY <2>3, <4>2
    <3>3. Replays(s, c) => Replays(s, d)
      <4>1. PICK r \in Receipt : d.receipts = Append(c.receipts, r) /\ r.tx = t
        <5>1. /\ d.receipts = Append(c.receipts, [tx |-> t, gasUsed |-> result.gasUsed])
              /\ result.gasUsed \in Nat
          BY <2>1, <2>5, TryMeans
        <5> QED
          BY <5>1 DEF Receipt
      <4>2. c.receipts \in Seq(Receipt)
        BY DEF Candidates
      <4>3. Txs(c.receipts) \in Seq(Tx) /\ Txs(d.receipts) = Append(Txs(c.receipts), t)
        BY <4>1, <4>2, TxsMeans
      <4>4. Run(s, Txs(d.receipts)) = Try(Run(s, Txs(c.receipts)), t)
        BY <4>3, RunAppend
      <4> QED
        BY <2>1, <4>4 DEF Replays
    <3> QED
      BY <1>5, <2>1, <3>2, <3>3
  <2>6. CASE ~result.ok /\ ~Refused(c.state, c.gasUsed, t)
    <3>1. \A a \in Address :
             /\ k[a] \in Nat /\ l[a] \in Nat /\ x[a] \in Nat /\ y[a] \in Nat /\ z[a] \in Nat
             /\ l[a] = k[a] /\ y[a] = x[a] + (IF a = From[t] THEN 1 ELSE 0)
      BY <2>2, <2>6, Zenon
    <3>2. CountsSent(s, d) /\ ~CountsOnlySent(s, d)
      <4>1. \A a \in Address : x[a] >= z[a] + k[a]
        BY <1>5, <2>3
      <4>2. \A a \in Address : y[a] >= z[a] + l[a] /\ (a = From[t] => y[a] # z[a] + l[a])
        BY <3>1, <4>1
      <4>3. From[t] \in Address
        BY Fields
      <4> QED
        BY <2>3, <4>2, <4>3
    <3> QED
      BY <2>1, <3>2
  <2> QED
    BY <2>4, <2>5, <2>6
<1> HIDE DEF Good
<1>6. 0 \in T
  BY <1>1, <1>2, <1>4
<1>7. ASSUME NEW j \in 0 .. n - 1, j \in T PROVE j + 1 \in T
  <2>1. j + 1 \in 1 .. n /\ (j + 1) - 1 = j /\ j \in 0 .. n
    BY <1>1
  <2>2. stage[j + 1] = Try(stage[j], txs[j + 1]) /\ txs[j + 1] \in Tx /\ stage[j] \in Candidates
    BY <1>1, <1>2, <1>3, <2>1
  <2>3. Good(stage[j + 1])
    BY <1>5, <1>7, <2>2
  <2> QED
    BY <1>1, <2>3
<1>8. 0 .. n \subseteq T
  <2>1. \A j \in 0 .. n - 1 : j \in T => j + 1 \in T
    BY <1>7
  <2> HIDE DEF T
  <2> QED
    BY <1>1, <1>6, <2>1, SetInduction
<1> QED
  BY <1>8 DEF n, stage, Good

\* A list whose run has a receipt for each of its transactions has executed
\* them all.
LEMMA AllIncluded ==
    ASSUME NEW s \in States, NEW us \in Seq(Tx), Len(Run(s, us).receipts) = Len(us),
           NEW c, NEW i \in 1 .. Len(us), c = Stages(s, us)[i - 1]
    PROVE  ExecuteTransaction(c.state, c.gasUsed, us[i]).ok
<1> DEFINE n == Len(us)
           stage == Stages(s, us)
           len == [j \in 0 .. n |-> Len(stage[j].receipts)]
           Up == {j \in 0 .. n : len[j] <= j}
           Down == {k \in 0 .. n : len[n - k] = n - k}
<1>1. n \in Nat /\ \A j \in 1 .. n : us[j] \in Tx
  OBVIOUS
<1>2. stage[0] = Candidate(s) /\ \A j \in 1 .. n : stage[j] = Try(stage[j - 1], us[j])
  BY StagesMeans
<1>3. \A j \in 0 .. n : stage[j] \in Candidates
  BY StagesType
<1>4. len[n] = n
  BY <1>1 DEF Run
<1> HIDE DEF n, stage
<1>5. \A j \in 0 .. n : len[j] \in Nat
  BY <1>3 DEF Candidates
<1>6. len[0] = 0
  BY <1>1, <1>2 DEF Candidate
<1>7. ASSUME NEW j \in 1 .. n
      PROVE  /\ len[j] = len[j - 1] \/ len[j] = len[j - 1] + 1
             /\ len[j] = len[j - 1] + 1 =>
                   ExecuteTransaction(stage[j - 1].state, stage[j - 1].gasUsed, us[j]).ok
  <2>1. j - 1 \in 0 .. n /\ j \in 0 .. n
    BY <1>1
  <2>2. PICK d, e, result : /\ d = stage[j - 1] /\ e = stage[j]
                            /\ result = ExecuteTransaction(d.state, d.gasUsed, us[j])
    OBVIOUS
  <2>3. d \in Candidates /\ e = Try(d, us[j]) /\ us[j] \in Tx
    BY <1>1, <1>2, <1>3, <2>1, <2>2
  <2>4. /\ result.ok => e.receipts = Append(d.receipts, [tx |-> us[j], gasUsed |-> result.gasUsed])
        /\ ~result.ok => e.receipts = d.receipts
    <3>1. PICK t \in Tx : t = us[j]
      BY <2>3
    <3>2. result = ExecuteTransaction(d.state, d.gasUsed, t) /\ e = Try(d, t)
      BY <2>2, <2>3, <3>1, Zenon
    <3>3. /\ result.ok => Try(d, t).receipts
                            = Append(d.receipts, [tx |-> t, gasUsed |-> result.gasUsed])
          /\ ~result.ok => Try(d, t).receipts = d.receipts
      BY <2>3, <3>2, TryMeans, Zenon
    <3> QED
      BY <3>1, <3>2, <3>3, Zenon
  <2>5. d.receipts \in Seq(Receipt)
    BY <2>3 DEF Candidates
  <2>6. /\ result.ok => Len(e.receipts) = Len(d.receipts) + 1
        /\ ~result.ok => Len(e.receipts) = Len(d.receipts)
        /\ Len(d.receipts) \in Nat
    BY <2>4, <2>5
  <2>7. Len(e.receipts) = len[j] /\ Len(d.receipts) = len[j - 1]
    BY <2>1, <2>2
  <2>8. Len(e.receipts) # Len(d.receipts) => result.ok
    BY <2>6
  <2> HIDE DEF len
  <2> QED
    BY <2>2, <2>6, <2>7, <2>8
<1> HIDE DEF len
<1>8. 0 .. n \subseteq Up
  <2>1. 0 \in Up
    BY <1>1, <1>6
  <2>2. ASSUME NEW j \in 0 .. n - 1, j \in Up PROVE j + 1 \in Up
    <3>1. j + 1 \in 1 .. n /\ (j + 1) - 1 = j /\ j \in 0 .. n /\ j + 1 \in 0 .. n
      BY <1>1
    <3>2. len[j + 1] = len[j] \/ len[j + 1] = len[j] + 1
      BY <1>7, <3>1
    <3>3. len[j] \in Nat /\ len[j] <= j
      BY <1>5, <2>2, <3>1
    <3> QED
      BY <3>1, <3>2, <3>3
  <2>3. \A j \in 0 .. n - 1 : j \in Up => j + 1 \in Up
    BY <2>2
  <2> HIDE DEF Up
  <2> QED
    BY <1>1, <2>1, <2>3, SetInduction, Zenon
<1>9. 0 .. n \subseteq Down
  <2>1. 0 \in Down
    BY <1>1, <1>4
  <2>2. ASSUME NEW k \in 0 .. n - 1, k \in Down PROVE k + 1 \in Down
    <3>1. PICK j \in 1 .. n : j = n - k /\ j - 1 = n - (k + 1) /\ j - 1 \in 0 .. n
      BY <1>1
    <3>2. len[j] = len[j - 1] \/ len[j] = len[j - 1] + 1
      BY <1>7
    <3>3. len[j] = j /\ len[j - 1] \in Nat /\ len[j - 1] <= j - 1
      BY <1>5, <1>8, <2>2, <3>1
    <3>4. len[j - 1] = j - 1
      BY <1>1, <3>2, <3>3
    <3> QED
      BY <1>1, <3>1, <3>4
  <2>3. \A k \in 0 .. n - 1 : k \in Down => k + 1 \in Down
    BY <2>2
  <2> HIDE DEF Down
  <2> QED
    BY <1>1, <2>1, <2>3, SetInduction, Zenon
<1>10. ASSUME NEW j \in 0 .. n PROVE len[j] = j
  <2>1. n - j \in 0 .. n /\ n - (n - j) = j
    BY <1>1
  <2> QED
    BY <1>9, <2>1
<1>11. i \in 1 .. n /\ i - 1 \in 0 .. n /\ i \in 0 .. n
  BY <1>1 DEF n
<1>12. len[i] = i /\ len[i - 1] = i - 1
  BY <1>10, <1>11
<1> QED
  BY <1>7, <1>11, <1>12 DEF stage

----------------------------------------------------------------------------
\* A state of accounts and the receipts that led to it.
Ledger(s, rs) ==
    /\ s \in States /\ rs \in Seq(Receipt)
    /\ InNonceOrder(s, rs)
    /\ Conserved(s, rs)

\* A transaction takes its fee from the sum of the balances.
LEMMA TransactionSum ==
    ASSUME NEW s \in States, NEW used \in Nat, NEW t \in Tx,
           NEW result, result = ExecuteTransaction(s, used, t), result.ok
    PROVE  /\ Sum(s.balance) \in Int
           /\ result.gasUsed * GasPrice[t] \in Nat
           /\ Sum(result.state.balance) = Sum(s.balance) - result.gasUsed * GasPrice[t]
<1> DEFINE fee == result.gasUsed * GasPrice[t]
           b == s.balance
           c == result.state.balance
<1>1. /\ result.state \in States /\ result.gasUsed \in Intrinsic(t) .. Gas[t]
      /\ \A a \in Address :
            c[a] = b[a] - (IF a = From[t] THEN Value[t] + fee ELSE 0)
                        + (IF a = Recipient(t) THEN Value[t] ELSE 0)
  <2>1. /\ result.state \in States /\ result.gasUsed \in Intrinsic(t) .. Gas[t]
        /\ Moves(s, result.state, t, result.gasUsed * GasPrice[t])
    BY TransactionExact, Zenon
  <2> QED
    BY <2>1, Zenon DEF Moves
<1>2. /\ From[t] \in Address /\ Recipient(t) \in Address /\ Value[t] \in Nat
      /\ GasPrice[t] \in Nat /\ Intrinsic(t) \in Nat /\ Gas[t] \in Nat /\ MaxU256 \in Nat
  BY Fields
<1>3. fee \in Nat
  <2>1. result.gasUsed \in Nat
    BY <1>1, <1>2
  <2> QED
    BY <1>2, <2>1, ProductNat
<1>4. b \in [Address -> Int] /\ c \in [Address -> Int]
  BY <1>1, <1>2 DEF States
<1> HIDE DEF fee, b, c
<1>5. IsFiniteSet(Address)
  BY ExecutorAssumption
<1> DEFINE m == [a \in Address |-> b[a] - (IF a = From[t] THEN Value[t] + fee ELSE 0)]
<1>6. /\ m \in [Address -> Int] /\ m[From[t]] = b[From[t]] - (Value[t] + fee)
      /\ \A a \in Address \ {From[t]} : m[a] = b[a]
  BY <1>2, <1>3, <1>4
<1>7. /\ c[Recipient(t)] = m[Recipient(t)] + Value[t]
      /\ \A a \in Address \ {Recipient(t)} : c[a] = m[a]
  BY <1>1, <1>2, <1>3, <1>4
<1> HIDE DEF m
<1>8. Sum(b) \in Int /\ Sum(m) = Sum(b) + (m[From[t]] - b[From[t]])
  BY <1>2, <1>4, <1>5, <1>6, SumUpdate
<1>9. Sum(m) \in Int /\ Sum(c) = Sum(m) + (c[Recipient(t)] - m[Recipient(t)])
  BY <1>2, <1>4, <1>5, <1>6, <1>7, SumUpdate
<1>10. b[From[t]] \in Int /\ m[Recipient(t)] \in Int
  BY <1>2, <1>4, <1>6
<1>11. Sum(c) = Sum(b) - fee
  BY <1>2, <1>3, <1>6, <1>7, <1>8, <1>9, <1>10
<1> QED
  BY <1>3, <1>8, <1>11 DEF fee, b, c

\* Executing a transaction carries the ledger on.
LEMMA LedgerStep ==
    ASSUME NEW s, NEW rs, Ledger(s, rs), NEW used \in Nat, NEW t \in Tx,
           NEW result, result = ExecuteTransaction(s, used, t), result.ok,
           NEW r, r = [tx |-> t, gasUsed |-> result.gasUsed]
    PROVE  Ledger(result.state, Append(rs, r))
<1> DEFINE n == Len(rs)
           qs == Append(rs, r)
<1>1. s \in States /\ rs \in Seq(Receipt) /\ n \in Nat
  BY DEF Ledger
<1>2. /\ s.nonce[From[t]] = Nonce[t] /\ result.state \in States
      /\ result.gasUsed \in Intrinsic(t) .. Gas[t]
      /\ result.state.nonce = [a \in Address |-> IF a = From[t] THEN Nonce[t] + 1
                                                                ELSE s.nonce[a]]
  BY <1>1, TransactionExact
<1>3. result.gasUsed \in Nat /\ From[t] \in Address /\ GasPrice[t] \in Nat
  BY <1>2, Fields
<1>4. r \in Receipt /\ r.tx = t /\ r.gasUsed = result.gasUsed
  BY <1>3 DEF Receipt
<1>5. /\ qs \in Seq(Receipt) /\ Len(qs) = n + 1 /\ qs[n + 1] = r
      /\ \A i \in 1 .. n : qs[i] = rs[i]
      /\ DOMAIN qs = 1 .. n + 1 /\ DOMAIN rs = 1 .. n
  BY <1>1, <1>4
<1>6. /\ \A i \in 1 .. n : Nonce[rs[i].tx] = Cardinality(Sent(rs, From[rs[i].tx], i - 1))
      /\ \A a \in Address : s.nonce[a] = Cardinality(Sent(rs, a, n))
  BY <1>5 DEF Ledger, InNonceOrder
<1>7. \A a : /\ Cardinality(Sent(rs, a, n)) \in Nat
             /\ Cardinality(Sent(qs, a, n + 1))
                   = Cardinality(Sent(rs, a, n)) + (IF From[t] = a THEN 1 ELSE 0)
             /\ \A i \in 0 .. n : Sent(qs, a, i) = Sent(rs, a, i)
  BY <1>1, <1>4, SentMeans
<1>8. Conserved(s, rs)
  BY DEF Ledger
<1> HIDE DEF n, qs
<1>9. InNonceOrder(result.state, qs)
  <2>1. ASSUME NEW i \in 1 .. n + 1
        PROVE  Nonce[qs[i].tx] = Cardinality(Sent(qs, From[qs[i].tx], i - 1))
    <3>1. i - 1 \in 0 .. n
      BY <1>1
    <3>2. Sent(qs, From[qs[i].tx], i - 1) = Sent(rs, From[qs[i].tx], i - 1)
      BY <1>7, <3>1
    <3>3. CASE i = n + 1
      <4>1. Sent(rs, From[t], i - 1) = Sent(rs, From[t], n) /\ qs[i].tx = t
        BY <1>1, <1>4, <1>5, <3>3
      <4> QED
        BY <1>2, <1>3, <1>6, <3>2, <4>1
    <3>4. CASE i # n + 1
      <4>1. i \in 1 .. n /\ qs[i] = rs[i]
        BY <1>1, <1>5, <3>4
      <4> QED
        BY <1>6, <3>2, <4>1, Zenon
    <3> QED
      BY <3>3, <3>4
  <2>2. ASSUME NEW a \in Address
        PROVE  result.state.nonce[a] = Cardinality(Sent(qs, a, Len(qs)))
    <3>1. PICK k, l : k = Cardinality(Sent(rs, a, n)) /\ l = Cardinality(Sent(qs, a, n + 1))
      OBVIOUS
    <3>2. s.nonce[a] = k
      BY <1>6, <3>1, Zenon
    <3>3. k \in Nat
      BY <1>7, <3>1, Zenon
    <3>4. l = k + (IF From[t] = a THEN 1 ELSE 0)
      BY <1>7, <3>1, Zenon
    <3>5. result.state.nonce[a] = IF a = From[t] THEN s.nonce[a] + 1 ELSE s.nonce[a]
      BY <1>2
    <3>6. result.state.nonce[a] = l
      BY <3>2, <3>3, <3>4, <3>5
    <3> QED
      BY <1>5, <3>1, <3>6, Zenon
  <2> QED
    BY <1>5, <2>1, <2>2 DEF InNonceOrder
<1>10. Conserved(result.state, qs)
  <2> DEFINE f == [i \in 1 .. n |-> Price(rs[i])]
             g == [i \in 1 .. n + 1 |-> Price(qs[i])]
  <2>1. ASSUME NEW q \in Receipt PROVE Price(q) \in Int
    <3>1. q.tx \in Tx /\ q.gasUsed \in Nat
      BY DEF Receipt
    <3>2. GasPrice[q.tx] \in Nat
      BY <3>1, Fields
    <3> QED
      BY <3>1, <3>2, ProductNat DEF Price
  <2>2. f \in [1 .. n -> Int]
    <3>1. \A i \in 1 .. n : rs[i] \in Receipt
      BY <1>1, <1>5
    <3> QED
      BY <2>1, <3>1
  <2>3. g \in [1 .. n + 1 -> Int]
    <3>1. \A i \in 1 .. n + 1 : qs[i] \in Receipt
      BY <1>1, <1>5
    <3> QED
      BY <2>1, <3>1
  <2>4. (\A i \in 1 .. n : g[i] = f[i]) /\ g[n + 1] = result.gasUsed * GasPrice[t]
    BY <1>1, <1>4, <1>5 DEF Price
  <2>5. /\ Sum(s.balance) + Sum(f) = Sum(Alloc)
        /\ Conserved(result.state, qs) <=> Sum(result.state.balance) + Sum(g) = Sum(Alloc)
    BY <1>5, <1>8, Zenon DEF Conserved
  <2> HIDE DEF f, g
  <2>6. Sum(f) \in Int /\ Sum(g) = Sum(f) + g[n + 1]
    BY <1>1, <2>2, <2>3, <2>4, SumAppend, Zenon
  <2>7. PICK fee \in Nat : /\ fee = result.gasUsed * GasPrice[t]
                           /\ Sum(s.balance) \in Int
                           /\ Sum(result.state.balance) = Sum(s.balance) - fee
    BY <1>1, TransactionSum
  <2> QED
    BY <2>4, <2>5, <2>6, <2>7
<1> QED
  BY <1>2, <1>5, <1>9, <1>10, Zenon DEF Ledger, qs

\* Appending to the second of two sequences appends to both.
LEMMA ConcatAppend ==
    ASSUME NEW S, NEW p \in Seq(S), NEW q \in Seq(S), NEW x \in S
    PROVE  p \o Append(q, x) = Append(p \o q, x) /\ p \o <<>> = p
  OBVIOUS

\* Executing a list of transactions, all of which succeed, carries it on too.
LEMMA LedgerRun ==
    ASSUME NEW s, NEW rs, Ledger(s, rs), NEW us \in Seq(Tx),
           Len(Run(s, us).receipts) = Len(us)
    PROVE  /\ Ledger(Run(s, us).state, rs \o Run(s, us).receipts)
           /\ CountsOnlySent(s, Run(s, us))
           /\ Txs(Run(s, us).receipts) = us
<1> DEFINE n == Len(us)
           stage == Stages(s, us)
           Good(j, c) == /\ Ledger(c.state, rs \o c.receipts)
                         /\ CountsOnlySent(s, c)
                         /\ Len(c.receipts) = j
                         /\ \A i \in 1 .. j : c.receipts[i].tx = us[i]
           T == {j \in 0 .. n : Good(j, stage[j])}
<1>1. n \in Nat /\ (\A j \in 1 .. n : us[j] \in Tx) /\ s \in States /\ rs \in Seq(Receipt)
  BY DEF Ledger
<1>2. stage[0] = Candidate(s) /\ \A j \in 1 .. n : stage[j] = Try(stage[j - 1], us[j])
  BY StagesMeans
<1>3. \A j \in 0 .. n : stage[j] \in Candidates
  BY <1>1, StagesType
<1>4. \A j \in 1 .. n : ExecuteTransaction(stage[j - 1].state, stage[j - 1].gasUsed, us[j]).ok
  BY <1>1, AllIncluded
<1>5. Run(s, us) = stage[n]
  BY DEF Run
<1> HIDE DEF n, stage
<1>6. Good(0, stage[0])
  <2>1. stage[0].receipts = <<>> /\ stage[0].state = s
    BY <1>2 DEF Candidate
  <2>2. ASSUME NEW a \in Address PROVE Cardinality(Sent(<<>>, a, 0)) = 0 /\ s.nonce[a] \in Nat
    BY <1>1, FS_EmptySet DEF Sent, States
  <2>3. CountsOnlySent(s, stage[0])
    BY <2>1, <2>2 DEF CountsOnlySent
  <2>4. rs \o <<>> = rs
    BY <1>1
  <2> QED
    BY <2>1, <2>3, <2>4
<1>7. ASSUME NEW j \in 0 .. n - 1, Good(j, stage[j]) PROVE Good(j + 1, stage[j + 1])
  <2>1. j + 1 \in 1 .. n /\ (j + 1) - 1 = j /\ j \in 0 .. n /\ j + 1 \in 0 .. n
    BY <1>1
  <2>2. PICK c, d, t : c = stage[j] /\ d = stage[j + 1] /\ t = us[j + 1]
    OBVIOUS
  <2>3. PICK result : result = ExecuteTransaction(c.state, c.gasUsed, t)
    OBVIOUS
  <2>4. c \in Candidates /\ t \in Tx /\ d = Try(c, t) /\ result.ok
    BY <1>1, <1>2, <1>3, <1>4, <2>1, <2>2, <2>3
  <2>5. c.receipts \in Seq(Receipt) /\ c.gasUsed \in Nat /\ c.state \in States
    BY <2>4, Fields DEF Candidates
  <2>6. PICK r : r = [tx |-> t, gasUsed |-> result.gasUsed]
    BY Zenon
  <2>7. /\ d.receipts = Append(c.receipts, r) /\ d.state = result.state
        /\ result.gasUsed \in Nat
    BY <2>3, <2>4, <2>6, TryMeans
  <2>8. r \in Receipt /\ r.tx = t
    BY <2>4, <2>6, <2>7 DEF Receipt
  <2>9. Ledger(d.state, rs \o d.receipts)
    <3>1. PICK u, used, ps : u = c.state /\ used = c.gasUsed /\ ps = rs \o c.receipts
      BY Zenon
    <3>2. Ledger(u, ps) /\ used \in Nat /\ result = ExecuteTransaction(u, used, t)
      BY <1>7, <2>2, <2>3, <2>5, <3>1
    <3>3. Ledger(result.state, Append(ps, r))
      BY <2>4, <2>6, <3>2, LedgerStep
    <3>4. rs \o d.receipts = Append(ps, r)
      BY <1>1, <2>5, <2>7, <2>8, <3>1, ConcatAppend
    <3> QED
      BY <2>7, <3>3, <3>4
  <2>10. CountsOnlySent(s, d)
    <3>1. CountsOnlySent(s, c) /\ s \in States
      BY <1>1, <1>7, <2>2
    <3> QED
      BY <2>3, <2>4, <3>1, IncludedCounts, Zenon
  <2>11. Len(d.receipts) = j + 1 /\ \A i \in 1 .. j + 1 : d.receipts[i].tx = us[i]
    <3>1. Len(c.receipts) = j /\ \A i \in 1 .. j : c.receipts[i].tx = us[i]
      BY <1>7, <2>2
    <3>2. /\ Len(d.receipts) = j + 1 /\ d.receipts[j + 1] = r
          /\ \A i \in 1 .. j : d.receipts[i] = c.receipts[i]
      BY <2>5, <2>7, <2>8, <3>1
    <3> QED
      BY <2>2, <2>8, <3>1, <3>2
  <2> QED
    BY <2>2, <2>9, <2>10, <2>11
<1> HIDE DEF Good
<1>8. 0 .. n \subseteq T
  <2>1. 0 \in T
    BY <1>1, <1>6
  <2>2. \A j \in 0 .. n - 1 : j \in T => j + 1 \in T
    BY <1>1, <1>7
  <2> HIDE DEF T
  <2> QED
    BY <1>1, <2>1, <2>2, SetInduction
<1>9. Good(n, stage[n])
  BY <1>1, <1>8
<1>10. Txs(stage[n].receipts) = us
  <2>1. PICK c : c = stage[n]
    OBVIOUS
  <2>2. c.receipts \in Seq(Receipt)
    BY <1>1, <1>3, <2>1 DEF Candidates
  <2>3. Len(c.receipts) = n /\ \A i \in 1 .. n : c.receipts[i].tx = us[i]
    BY <1>9, <2>1 DEF Good
  <2>4. Txs(c.receipts) = [i \in 1 .. n |-> us[i]]
    BY <2>2, <2>3 DEF Txs
  <2>5. us = [i \in 1 .. n |-> us[i]]
    BY DEF n
  <2> QED
    BY <2>1, <2>4, <2>5
<1> QED
  BY <1>5, <1>9, <1>10 DEF Good

\* A block whose import succeeds is exactly what its own transactions yield:
\* none that is not in it has left a trace.
LEMMA ImportsExact ==
    ASSUME NEW s, NEW rs, Ledger(s, rs), NEW txs \in Seq(Tx), NEW block, block = Run(s, txs),
           NEW replay, replay = Run(s, Txs(block.receipts)),
           Len(replay.receipts) = Len(block.receipts), replay.state = block.state
    PROVE  replay = block /\ Ledger(block.state, rs \o block.receipts)
<1>1. s \in States /\ block \in Candidates
  BY RunType DEF Ledger
<1>2. block.receipts \in Seq(Receipt)
  BY <1>1 DEF Candidates
<1>3. PICK us \in Seq(Tx) : us = Txs(block.receipts) /\ Len(us) = Len(block.receipts)
  BY <1>2, TxsMeans
<1>4. /\ Ledger(replay.state, rs \o replay.receipts)
      /\ CountsOnlySent(s, replay)
      /\ Txs(replay.receipts) = us
  BY <1>3, LedgerRun
<1>5. CountsOnlySent(s, block)
  <2>1. replay \in Candidates
    BY <1>1, <1>3, RunType
  <2>2. replay.receipts \in Seq(Receipt)
    BY <2>1 DEF Candidates
  <2>3. \A i \in 1 .. Len(us) : replay.receipts[i].tx = us[i] /\ block.receipts[i].tx = us[i]
    BY <1>2, <1>3, <1>4, <2>2, TxsMeans
  <2>4. \A a : Sent(replay.receipts, a, Len(us)) = Sent(block.receipts, a, Len(us))
    BY <2>3 DEF Sent
  <2> QED
    BY <1>3, <1>4, <2>4 DEF CountsOnlySent
<1>6. Replays(s, block)
  <2>1. Len(txs) \in 0 .. Len(txs)
    OBVIOUS
  <2> QED
    BY <1>1, <1>5, <2>1, ReplayOrCounted DEF Run
<1>7. replay = block
  BY <1>6 DEF Replays
<1> QED
  BY <1>4, <1>7

----------------------------------------------------------------------------
\* A run includes only what it is given.
LEMMA ReceiptsFrom ==
    ASSUME NEW s \in States, NEW S \in SUBSET Tx, NEW txs \in Seq(S),
           NEW i \in 1 .. Len(Run(s, txs).receipts)
    PROVE  Run(s, txs).receipts[i].tx \in S
<1> DEFINE n == Len(txs)
           stage == Stages(s, txs)
           Good(c) == \A k \in 1 .. Len(c.receipts) : c.receipts[k].tx \in S
           T == {j \in 0 .. n : Good(stage[j])}
<1>1. n \in Nat /\ (\A j \in 1 .. n : txs[j] \in S) /\ txs \in Seq(Tx)
  OBVIOUS
<1>2. stage[0] = Candidate(s) /\ \A j \in 1 .. n : stage[j] = Try(stage[j - 1], txs[j])
  BY <1>1, StagesMeans
<1>3. \A j \in 0 .. n : stage[j] \in Candidates
  BY <1>1, StagesType
<1> HIDE DEF n, stage
<1>4. 0 \in T
  <2>1. stage[0].receipts = <<>>
    BY <1>2 DEF Candidate
  <2> QED
    BY <1>1, <2>1
<1>5. ASSUME NEW j \in 0 .. n - 1, j \in T PROVE j + 1 \in T
  <2>1. j + 1 \in 1 .. n /\ (j + 1) - 1 = j /\ j \in 0 .. n /\ j + 1 \in 0 .. n
    BY <1>1
  <2>2. PICK c, d, t, result : /\ c = stage[j] /\ d = stage[j + 1] /\ t = txs[j + 1]
                               /\ result = ExecuteTransaction(c.state, c.gasUsed, t)
    OBVIOUS
  <2>3. c \in Candidates /\ t \in S /\ t \in Tx /\ d = Try(c, t)
    BY <1>1, <1>2, <1>3, <2>1, <2>2
  <2>4. c.receipts \in Seq(Receipt)
    BY <2>3 DEF Candidates
  <2>5. \/ d.receipts = Append(c.receipts, [tx |-> t, gasUsed |-> result.gasUsed])
        \/ d.receipts = c.receipts
    BY <2>2, <2>3, TryMeans
  <2>6. Good(c)
    BY <1>5, <2>2
  <2>7. Good(d)
    <3>1. PICK r : r = [tx |-> t, gasUsed |-> result.gasUsed]
      BY Zenon
    <3>2. CASE d.receipts = c.receipts
      BY <2>6, <3>2
    <3>3. CASE d.receipts = Append(c.receipts, r)
      <4>1. PICK rs, es : rs = c.receipts /\ es = d.receipts
        OBVIOUS
      <4>2. rs \in Seq(Receipt) /\ es = Append(rs, r) /\ r.tx \in S
        BY <2>3, <2>4, <3>1, <3>3, <4>1
      <4>3. \A k \in 1 .. Len(es) : es[k] = r \/ (k \in 1 .. Len(rs) /\ es[k] = rs[k])
        BY <4>2
      <4>4. \A k \in 1 .. Len(rs) : rs[k].tx \in S
        BY <2>6, <4>1
      <4>5. \A k \in 1 .. Len(es) : es[k].tx \in S
        BY <4>2, <4>3, <4>4, Zenon
      <4> QED
        BY <4>1, <4>5
    <3> QED
      BY <2>5, <3>1, <3>2, <3>3
  <2> HIDE DEF Good
  <2> QED
    BY <2>1, <2>2, <2>7
<1>6. 0 .. n \subseteq T
  <2>1. \A j \in 0 .. n - 1 : j \in T => j + 1 \in T
    BY <1>5, Zenon
  <2> HIDE DEF T
  <2> QED
    BY <1>1, <1>4, <2>1, SetInduction, Zenon
<1> HIDE DEF Good
<1>7. Good(stage[n])
  BY <1>1, <1>6
<1> QED
  BY <1>7 DEF Run, Good, n, stage

\* A block without a late failure replays.
LEMMA NoneLateReplays ==
    ASSUME NEW s \in States, NEW txs \in Seq(Tx),
           \A i \in 1 .. Len(txs) :
              ~FailsLate(Stages(s, txs)[i - 1].state, Stages(s, txs)[i - 1].gasUsed, txs[i])
    PROVE  Replays(s, Run(s, txs))
<1> DEFINE n == Len(txs)
           stage == Stages(s, txs)
           T == {j \in 0 .. n : CountsOnlySent(s, stage[j])}
<1>1. n \in Nat /\ \A j \in 1 .. n : txs[j] \in Tx
  OBVIOUS
<1>2. stage[0] = Candidate(s) /\ \A j \in 1 .. n : stage[j] = Try(stage[j - 1], txs[j])
  BY StagesMeans
<1>3. \A j \in 0 .. n : stage[j] \in Candidates
  BY StagesType
<1>4. \A j \in 1 .. n : ~FailsLate(stage[j - 1].state, stage[j - 1].gasUsed, txs[j])
  OBVIOUS
<1>5. Replays(s, stage[n]) \/ ~CountsOnlySent(s, stage[n])
  <2>1. n \in 0 .. Len(txs)
    BY <1>1
  <2> QED
    BY <2>1, ReplayOrCounted
<1>6. Run(s, txs) = stage[n]
  BY DEF Run
<1> HIDE DEF n, stage
<1>7. 0 \in T
  <2>1. stage[0].receipts = <<>> /\ stage[0].state = s
    BY <1>2 DEF Candidate
  <2>2. ASSUME NEW a \in Address PROVE Cardinality(Sent(<<>>, a, 0)) = 0 /\ s.nonce[a] \in Nat
    BY FS_EmptySet DEF Sent, States
  <2>3. CountsOnlySent(s, stage[0])
    BY <2>1, <2>2 DEF CountsOnlySent
  <2> QED
    BY <1>1, <2>3
<1>8. ASSUME NEW j \in 0 .. n - 1, j \in T PROVE j + 1 \in T
  <2>1. j + 1 \in 1 .. n /\ (j + 1) - 1 = j /\ j \in 0 .. n /\ j + 1 \in 0 .. n
    BY <1>1
  <2>2. PICK c, d, t, result : /\ c = stage[j] /\ d = stage[j + 1] /\ t = txs[j + 1]
                               /\ result = ExecuteTransaction(c.state, c.gasUsed, t)
    OBVIOUS
  <2>3. c \in Candidates /\ t \in Tx /\ d = Try(c, t) /\ ~FailsLate(c.state, c.gasUsed, t)
    BY <1>1, <1>2, <1>3, <1>4, <2>1, <2>2
  <2>4. Refused(c.state, c.gasUsed, t) \/ result.ok
    BY <2>2, <2>3 DEF FailsLate
  <2>5. CountsOnlySent(s, c)
    BY <1>8, <2>2
  <2>6. CASE Refused(c.state, c.gasUsed, t)
    <3>1. d = c
      BY <2>2, <2>3, <2>6, TryMeans, Zenon
    <3> QED
      BY <2>1, <2>2, <2>5, <3>1, Zenon
  <2>7. CASE result.ok
    <3>1. CountsOnlySent(s, d)
      BY <2>2, <2>3, <2>5, <2>7, IncludedCounts
    <3> QED
      BY <2>1, <2>2, <3>1
  <2> QED
    BY <2>4, <2>6, <2>7
<1>9. 0 .. n \subseteq T
  <2>1. \A j \in 0 .. n - 1 : j \in T => j + 1 \in T
    BY <1>8
  <2> HIDE DEF T
  <2> QED
    BY <1>1, <1>7, <2>1, SetInduction, Zenon
<1> QED
  BY <1>1, <1>5, <1>6, <1>9

\* The nonces of a sender's transactions are those below the account's.
LEMMA NonceRange ==
    ASSUME NEW s, NEW rs, Ledger(s, rs), NEW a \in Address
    PROVE  /\ s.nonce[a] \in Nat
           /\ {Nonce[rs[i].tx] : i \in Sent(rs, a, Len(rs))} = 0 .. s.nonce[a] - 1
<1> DEFINE n == Len(rs)
           S(i) == Sent(rs, a, i)
           k == [i \in 0 .. n |-> Cardinality(S(i))]
           nonce == [i \in 1 .. n |-> Nonce[rs[i].tx]]
           Seen(i) == {nonce[j] : j \in S(i)}
           T == {i \in 0 .. n : 0 .. k[i] - 1 = Seen(i)}
<1>1. n \in Nat /\ s.nonce[a] = k[n]
  BY DEF Ledger, InNonceOrder
<1>2. ASSUME NEW i \in 0 .. n
      PROVE  IsFiniteSet(S(i)) /\ k[i] \in Nat /\ S(i) \subseteq 1 .. i
  <2>1. S(i) \in SUBSET (1 .. i) /\ IsFiniteSet(1 .. i)
    BY <1>1, FS_Interval DEF Sent
  <2> QED
    BY <2>1, FS_Subset, FS_CardinalityType
<1>3. ASSUME NEW i \in 0 .. n - 1
      PROVE  \/ S(i + 1) = S(i) /\ k[i + 1] = k[i]
             \/ S(i + 1) = S(i) \cup {i + 1} /\ k[i + 1] = k[i] + 1 /\ nonce[i + 1] = k[i]
  <2>1. i \in 0 .. n /\ i + 1 \in 0 .. n /\ i + 1 \in 1 .. n /\ (i + 1) - 1 = i
    BY <1>1
  <2>2. CASE From[rs[i + 1].tx] = a
    <3>1. S(i + 1) = S(i) \cup {i + 1} /\ i + 1 \notin S(i)
      BY <1>1, <2>1, <2>2 DEF Sent
    <3>2. Cardinality(S(i) \cup {i + 1}) = Cardinality(S(i)) + 1
      BY <1>2, <2>1, <3>1, FS_AddElement, Zenon
    <3>3. nonce[i + 1] = Cardinality(S(i))
      BY <2>1, <2>2 DEF Ledger, InNonceOrder
    <3> HIDE DEF S
    <3> QED
      BY <2>1, <3>1, <3>2, <3>3, Zenon
  <2>3. CASE From[rs[i + 1].tx] # a
    <3>1. S(i + 1) = S(i)
      BY <1>1, <2>1, <2>3 DEF Sent
    <3> HIDE DEF S
    <3> QED
      BY <2>1, <3>1
  <2> QED
    BY <2>2, <2>3, Zenon
<1>4. S(0) = {} /\ k[0] = 0
  BY <1>1, FS_EmptySet DEF Sent
<1> HIDE DEF n, S, k, nonce
<1>5. 0 \in T
  BY <1>1, <1>4
<1>6. ASSUME NEW i \in 0 .. n - 1, i \in T PROVE i + 1 \in T
  <2>1. i \in 0 .. n /\ i + 1 \in 0 .. n /\ k[i] \in Nat
    BY <1>1, <1>2
  <2>2. CASE S(i + 1) = S(i) /\ k[i + 1] = k[i]
    BY <1>6, <2>1, <2>2
  <2>3. CASE S(i + 1) = S(i) \cup {i + 1} /\ k[i + 1] = k[i] + 1 /\ nonce[i + 1] = k[i]
    <3>1. Seen(i + 1) = Seen(i) \cup {k[i]}
      BY <2>3
    <3>2. 0 .. k[i + 1] - 1 = (0 .. k[i] - 1) \cup {k[i]}
      BY <2>1, <2>3
    <3> QED
      BY <1>6, <2>1, <3>1, <3>2
  <2> QED
    BY <1>3, <2>2, <2>3
<1>7. n \in T
  <2>1. \A i \in 0 .. n - 1 : i \in T => i + 1 \in T
    BY <1>6
  <2> HIDE DEF T
  <2>2. 0 .. n \subseteq T
    BY <1>1, <1>5, <2>1, SetInduction
  <2> QED
    BY <1>1, <2>2
<1>8. n \in 0 .. n /\ k[n] \in Nat
  BY <1>1, <1>2
<1>9. \A i \in S(n) : nonce[i] = Nonce[rs[i].tx]
  <2>1. S(n) \subseteq 1 .. n
    BY <1>2, <1>8
  <2> QED
    BY <2>1 DEF nonce
<1>10. Seen(n) = {Nonce[rs[i].tx] : i \in S(n)}
  BY <1>9
<1> QED
  BY <1>1, <1>7, <1>8, <1>10, Zenon DEF S, n

\* What get_pending returns is part of the pool.
LEMMA GetPendingMeans ==
    ASSUME pool.pending \in SUBSET Tx, IsFiniteSet(pool.pending), Distinct(pool.pending),
           NEW chosen \in GetPending
    PROVE  /\ chosen \subseteq pool.pending /\ chosen \in SUBSET Tx
           /\ IsFiniteSet(chosen) /\ Distinct(chosen)
           /\ Sorted(chosen) \in Seq(chosen) /\ Sorted(chosen) \in Seq(Tx)
           /\ ProduceBlock(chosen) = Run(state, Sorted(chosen))
<1>1. chosen \subseteq pool.pending
  BY DEF GetPending, kSubset
<1>2. chosen \in SUBSET Tx /\ IsFiniteSet(chosen) /\ Distinct(chosen)
  BY <1>1, FS_Subset DEF Distinct
<1>3. Sorted(chosen) \in Seq(chosen)
  BY <1>2, SortedMeans
<1>4. Sorted(chosen) \in Seq(Tx)
  BY <1>2, <1>3
<1> QED
  BY <1>1, <1>2, <1>3, <1>4 DEF ProduceBlock, Execute, Run

\* A block whose transactions do not fail late is imported.
LEMMA UnspoiledReplays ==
    ASSUME NEW chosen \in SUBSET Tx, IsFiniteSet(chosen), Distinct(chosen),
           state \in States, ~Spoiled(chosen)
    PROVE  Replays(state, ProduceBlock(chosen))
<1> DEFINE txs == Sorted(chosen)
           stage == Stages(state, txs)
<1>1. txs \in Seq(Tx) /\ Len(txs) = Cardinality(chosen) /\ Len(txs) \in Nat
  <2>1. txs \in Seq(chosen) /\ Len(txs) = Cardinality(chosen) /\ Cardinality(chosen) \in Nat
    BY SortedMeans
  <2> QED
    BY <2>1
<1>2. ASSUME NEW i \in 1 .. Len(txs)
      PROVE  ~FailsLate(stage[i - 1].state, stage[i - 1].gasUsed, txs[i])
  <2>1. PICK t \in chosen : t = txs[i] /\ Cardinality(Before(chosen, t)) = i - 1
    BY <1>1, SortedMeans
  <2>2. PICK B \in SUBSET Tx : B = Before(chosen, t)
    BY Zenon DEF Before
  <2>3. IsFiniteSet(B) /\ Distinct(B)
    <3>1. B \in SUBSET chosen
      BY <2>2 DEF Before
    <3> QED
      BY <3>1, FS_Subset DEF Distinct
  <2>4. PICK us \in Seq(Tx) : us = Sorted(B) /\ Len(us) = i - 1
    <3>1. Sorted(B) \in Seq(B) /\ Len(Sorted(B)) = i - 1
      BY <2>1, <2>2, <2>3, SortedMeans
    <3>2. Sorted(B) \in Seq(Tx)
      BY <3>1
    <3> QED
      BY <3>1, <3>2
  <2>5. \A j \in 1 .. i - 1 : us[j] = txs[j]
    BY <2>1, <2>2, <2>4, SortedPrefix
  <2>6. Stages(state, us)[i - 1] = stage[i - 1]
    <3>1. i - 1 \in 0 .. Len(txs) /\ i - 1 <= Len(us)
      BY <1>1, <2>4
    <3> HIDE DEF txs
    <3> QED
      BY <1>1, <2>5, <3>1, StagesAgree
  <2>7. ProduceBlock(B) = stage[i - 1]
    BY <2>4, <2>6 DEF ProduceBlock, Execute
  <2>8. ~FailsLate(ProduceBlock(B).state, ProduceBlock(B).gasUsed, t)
    BY <2>2, Zenon DEF Spoiled, Before
  <2> QED
    BY <2>1, <2>7, <2>8
<1>3. Replays(state, Run(state, txs))
  <2> HIDE DEF txs
  <2> QED
    BY <1>1, <1>2, NoneLateReplays
<1> QED
  BY <1>3 DEF ProduceBlock, Execute, Run

----------------------------------------------------------------------------
\* The lemmas about the mempool, for the pool of the producer.
PoolProofs == INSTANCE TxPoolProofs WITH admitted <- {}

\* Their assumption holds here.
LEMMA PoolProofsApply == PoolProofs!TxPoolAssumption
  BY ExecutorAssumption, ProducerAssumption DEF PoolProofs!TxPoolAssumption

\* What the operations of the mempool do to a sound pool.
LEMMA PoolMeans ==
    ASSUME NEW p, PoolProofs!Sound(p)
    PROVE  /\ p.pending \in SUBSET Tx /\ IsFiniteSet(p.pending)
           /\ p.nextNonce \in [Address -> Nat]
           /\ \A t \in Tx : PoolProofs!Sound(Pool!AddTransaction(p, t))
           /\ \A txs \in Seq(Tx) :
                 /\ PoolProofs!Sound(Pool!RemoveAll(p, txs))
                 /\ Pool!RemoveAll(p, txs).pending = p.pending \ {txs[i] : i \in 1 .. Len(txs)}
                 /\ Pool!RemoveAll(p, txs).nextNonce = p.nextNonce
<1>1. p \in PoolProofs!Pools
  BY DEF PoolProofs!Sound
<1>2. p.pending \in SUBSET Tx /\ IsFiniteSet(p.pending) /\ p.nextNonce \in [Address -> Nat]
  <2>1. IsFiniteSet(p.pending)
    BY DEF PoolProofs!Sound, PoolProofs!IsFiniteSet, IsFiniteSet
  <2>2. Sender = Address
    BY ProducerAssumption
  <2> QED
    BY <1>1, <2>1, <2>2 DEF PoolProofs!Pools
<1>3. ASSUME NEW t \in Tx PROVE PoolProofs!Sound(Pool!AddTransaction(p, t))
  <2>1. PoolProofs!Sound(PoolProofs!AddTransaction(p, t))
    BY PoolProofsApply, PoolProofs!AddSound
  <2>2. Pool!AddTransaction(p, t) = PoolProofs!AddTransaction(p, t)
    <3>1. Pool!Cardinality(p.pending) = PoolProofs!Cardinality(p.pending)
      BY DEF Pool!Cardinality, PoolProofs!Cardinality
    <3>2. Pool!Admissible(p, t) <=> PoolProofs!Admissible(p, t)
      BY <3>1 DEF Pool!Admissible, PoolProofs!Admissible
    <3> QED
      BY <3>2 DEF Pool!AddTransaction, PoolProofs!AddTransaction
  <2> QED
    BY <2>1, <2>2
<1>4. ASSUME NEW txs \in Seq(Tx)
      PROVE  /\ PoolProofs!Sound(Pool!RemoveAll(p, txs))
             /\ Pool!RemoveAll(p, txs).pending = p.pending \ {txs[i] : i \in 1 .. Len(txs)}
             /\ Pool!RemoveAll(p, txs).nextNonce = p.nextNonce
  <2>1. /\ PoolProofs!Sound(PoolProofs!RemoveAll(p, txs))
        /\ PoolProofs!RemoveAll(p, txs).pending = p.pending \ {txs[i] : i \in 1 .. Len(txs)}
        /\ PoolProofs!RemoveAll(p, txs).nextNonce = p.nextNonce
    BY <1>1, PoolProofsApply, PoolProofs!RemoveAllMeans
  <2>2. Pool!RemoveAll(p, txs) = PoolProofs!RemoveAll(p, txs)
    BY DEF Pool!RemoveAll, PoolProofs!RemoveAll, Pool!RemoveTransaction, PoolProofs!RemoveTransaction,
           Pool!SaturatingDec, PoolProofs!SaturatingDec
  <2> QED
    BY <2>1, <2>2
<1> QED
  BY <1>2, <1>3, <1>4

\* An empty pool is sound.
LEMMA EmptyPoolMeans ==
    /\ PoolProofs!Sound(Pool!EmptyPool)
    /\ Pool!EmptyPool.pending = {} /\ Pool!EmptyPool.nextNonce = [a \in Address |-> 0]
<1>1. [a \in Address |-> 0] \in [Address -> Nat] /\ Sender = Address
  BY ProducerAssumption
<1>2. Pool!EmptyPool = [pending |-> {}, nextNonce |-> [a \in Address |-> 0],
                        perSender |-> [a \in Address |-> 0]]
  BY <1>1 DEF Pool!EmptyPool
<1>3. PoolProofs!Sound(Pool!EmptyPool)
  BY <1>1, <1>2, PoolProofsApply, PoolProofs!EmptySound
<1> QED
  BY <1>2, <1>3

\* The pending transactions of each account have the nonces from the account's
\* up to the one that the pool expects.
Tracks(s, p) ==
    \A a \in Address :
        /\ s.nonce[a] <= p.nextNonce[a]
        /\ {Nonce[t] : t \in Pool!PendingOf(p, a)} = s.nonce[a] .. p.nextNonce[a] - 1

\* Below the nonce that the pool expects, it holds a nonce of a sender once.
Ordered(p) == Distinct(p.pending) /\ \A t \in p.pending : Nonce[t] < p.nextNonce[From[t]]

\* A block of pending transactions, and their removal, keep Tracks.
LEMMA BlockTracks ==
    ASSUME NEW s, NEW rs, Ledger(s, rs), NEW es, NEW s2, Ledger(s2, rs \o es),
           es \in Seq(Receipt), NEW p, PoolProofs!Sound(p), Ordered(p), Tracks(s, p),
           \A i \in 1 .. Len(es) : es[i].tx \in p.pending
    PROVE  Tracks(s2, Pool!RemoveAll(p, Txs(rs \o es)))
<1> DEFINE all == rs \o es
           q == Pool!RemoveAll(p, Txs(all))
<1>1. rs \in Seq(Receipt) /\ all \in Seq(Receipt) /\ Len(rs) \in Nat /\ Len(all) \in Nat
  BY DEF Ledger
<1>2. /\ \A i \in 1 .. Len(rs) : i \in 1 .. Len(all) /\ all[i] = rs[i]
      /\ \A i \in 1 .. Len(all) : i \in 1 .. Len(rs) \/ all[i].tx \in p.pending
  <2>1. \A i \in 1 .. Len(all) : i \notin 1 .. Len(rs) =>
            i - Len(rs) \in 1 .. Len(es) /\ all[i] = es[i - Len(rs)]
    BY <1>1
  <2>2. \A i \in 1 .. Len(rs) : i \in 1 .. Len(all) /\ all[i] = rs[i]
    BY <1>1
  <2> QED
    BY <2>1, <2>2
<1>3. q.pending = p.pending \ {all[i].tx : i \in 1 .. Len(all)} /\ q.nextNonce = p.nextNonce
  <2>1. Txs(all) \in Seq(Tx) /\ Len(Txs(all)) = Len(all)
        /\ \A i \in 1 .. Len(all) : Txs(all)[i] = all[i].tx
    BY <1>1, TxsMeans, Zenon
  <2>2. /\ q.pending = p.pending \ {Txs(all)[i] : i \in 1 .. Len(Txs(all))}
        /\ q.nextNonce = p.nextNonce
    BY <2>1, PoolMeans, Zenon
  <2>3. {Txs(all)[i] : i \in 1 .. Len(Txs(all))} = {all[i].tx : i \in 1 .. Len(all)}
    BY <2>1
  <2> QED
    BY <2>2, <2>3, Zenon
<1>4. p.pending \in SUBSET Tx /\ p.nextNonce \in [Address -> Nat]
  BY PoolMeans
<1> HIDE DEF all, q
<1> SUFFICES ASSUME NEW a \in Address
             PROVE  /\ s2.nonce[a] <= q.nextNonce[a]
                    /\ {Nonce[t] : t \in Pool!PendingOf(q, a)}
                         = s2.nonce[a] .. q.nextNonce[a] - 1
  BY DEF Tracks, q, all
<1>5. PICK n, m, x \in Nat : n = s.nonce[a] /\ m = s2.nonce[a] /\ x = p.nextNonce[a]
  BY <1>4, NonceRange DEF all
<1>6. /\ {Nonce[rs[i].tx] : i \in Sent(rs, a, Len(rs))} = 0 .. n - 1
      /\ {Nonce[all[i].tx] : i \in Sent(all, a, Len(all))} = 0 .. m - 1
  BY <1>5, NonceRange, Zenon DEF all
<1>7. \A i \in 1 .. Len(rs) : From[rs[i].tx] = a => Nonce[rs[i].tx] \in 0 .. n - 1
  BY <1>6 DEF Sent
<1>8. \A i \in 1 .. Len(all) : From[all[i].tx] = a => Nonce[all[i].tx] \in 0 .. m - 1
  BY <1>6 DEF Sent
<1>9. \A k \in 0 .. n - 1 : k \in 0 .. m - 1
  <2>1. ASSUME NEW k \in 0 .. n - 1
        PROVE  \E i \in 1 .. Len(rs) : From[rs[i].tx] = a /\ Nonce[rs[i].tx] = k
    BY <1>6, Zenon DEF Sent
  <2> QED
    BY <1>2, <1>8, <2>1, Zenon
<1>10. /\ n <= x
       /\ {Nonce[t] : t \in Pool!PendingOf(p, a)} = n .. x - 1
  BY <1>5 DEF Tracks
<1>11. \A t \in p.pending : From[t] = a => Nonce[t] \in n .. x - 1
  BY <1>10 DEF Pool!PendingOf
<1>12. ASSUME NEW k \in n .. m - 1
       PROVE  /\ k \in n .. x - 1
              /\ \E i \in 1 .. Len(all) : From[all[i].tx] = a /\ Nonce[all[i].tx] = k
                                          /\ all[i].tx \in p.pending
  <2>1. PICK i \in 1 .. Len(all) : From[all[i].tx] = a /\ Nonce[all[i].tx] = k
    BY <1>5, <1>6, SMTT(30) DEF Sent
  <2>2. i \notin 1 .. Len(rs)
    <3>1. ASSUME i \in 1 .. Len(rs) PROVE k \in 0 .. n - 1
      <4>1. all[i] = rs[i]
        BY <1>2, <3>1
      <4> QED
        BY <1>7, <2>1, <3>1, <4>1, Zenon
    <3>2. k \notin 0 .. n - 1
      BY <1>5
    <3> QED
      BY <3>1, <3>2
  <2> QED
    BY <1>2, <1>11, <2>1, <2>2, Zenon
<1>13. n <= m
  BY <1>5, <1>9
<1>14. m <= x
  <2>1. CASE n < m
    <3>1. m - 1 \in n .. m - 1
      BY <1>5, <2>1
    <3> QED
      BY <1>5, <1>12, <3>1
  <2> QED
    BY <1>5, <1>10, <1>13, <2>1
<1>15. ASSUME NEW t \in p.pending, From[t] = a
       PROVE  (t \in q.pending) <=> (Nonce[t] \in m .. x - 1)
  <2>1. Nonce[t] \in n .. x - 1
    BY <1>11, <1>15
  <2>2. CASE Nonce[t] \in n .. m - 1
    <3>1. PICK i \in 1 .. Len(all) : From[all[i].tx] = a /\ Nonce[all[i].tx] = Nonce[t]
                                     /\ all[i].tx \in p.pending
      BY <1>12, <2>2
    <3>2. all[i].tx = t
      BY <1>15, <3>1 DEF Ordered, Distinct
    <3> QED
      BY <1>3, <1>5, <2>2, <3>2
  <2>3. CASE Nonce[t] \in m .. x - 1
    <3>1. ASSUME NEW i \in 1 .. Len(all), all[i].tx = t PROVE FALSE
      BY <1>5, <1>8, <1>15, <2>3, <3>1
    <3> QED
      BY <1>3, <2>3, <3>1
  <2> QED
    BY <1>5, <1>13, <2>1, <2>2, <2>3
<1>16. {Nonce[t] : t \in Pool!PendingOf(q, a)} = m .. x - 1
  <2>1. q.pending \subseteq p.pending
    BY <1>3
  <2>2. \A k \in m .. x - 1 : \E t \in p.pending : From[t] = a /\ Nonce[t] = k
    <3>1. \A k \in m .. x - 1 : k \in n .. x - 1
      BY <1>5, <1>13
    <3> QED
      BY <1>10, <3>1, Zenon DEF Pool!PendingOf
  <2> QED
    BY <1>15, <2>1, <2>2 DEF Pool!PendingOf
<1> QED
  BY <1>3, <1>5, <1>14, <1>16

----------------------------------------------------------------------------
\* The chain is a ledger, the pool is sound, and until a restart the pool and
\* the accounts agree.
Inv ==
    /\ Ledger(state, receipts)
    /\ PoolProofs!Sound(pool)
    /\ Ordered(pool)
    /\ ~restarted => Tracks(state, pool)

\* The sum of integers is one.
LEMMA SumType ==
    ASSUME NEW D, IsFiniteSet(D), NEW f \in [D -> Int]
    PROVE  Sum(f) \in Int /\ (D = {} => Sum(f) = 0)
<1>1. DOMAIN f = D /\ \A x \in DOMAIN f : f[x] \in Int
  OBVIOUS
<1>2. Sums(f)[{}] = 0 /\ Sums(f)[D] \in Int
  BY <1>1, SumsPick
<1> QED
  BY <1>1, <1>2, SumIsLast

\* The genesis allocation is a ledger without receipts.
LEMMA GenesisLedger == Ledger(GenesisState, <<>>)
<1>1. GenesisState \in States
  <2>1. NoCode \in Programs /\ Alloc \in [Address -> 0 .. MaxU256]
    BY ProducerAssumption DEF Programs, NoCode
  <2> QED
    BY <2>1 DEF GenesisState, States
<1>2. <<>> \in Seq(Receipt) /\ Len(<<>>) = 0
  OBVIOUS
<1>3. InNonceOrder(GenesisState, <<>>)
  <2>1. \A a \in Address : Sent(<<>>, a, 0) = {} /\ GenesisState.nonce[a] = 0
    BY DEF Sent, GenesisState
  <2> QED
    BY <1>2, <2>1, FS_EmptySet DEF InNonceOrder
<1>4. Conserved(GenesisState, <<>>)
  <2>1. Sum([i \in DOMAIN <<>> |-> Price(<<>>[i])]) = 0
    <3>1. PICK f : f = [i \in DOMAIN <<>> |-> Price(<<>>[i])]
      OBVIOUS
    <3>2. f \in [{} -> Int]
      BY <3>1
    <3> QED
      BY <3>1, <3>2, FS_EmptySet, SumType, Zenon
  <2>2. Sum(Alloc) \in Int
    <3>1. Alloc \in [Address -> Int] /\ IsFiniteSet(Address)
      BY ExecutorAssumption, ProducerAssumption
    <3> QED
      BY <3>1, SumType
  <2> QED
    BY <2>1, <2>2 DEF Conserved, GenesisState
<1> QED
  BY <1>1, <1>2, <1>3, <1>4 DEF Ledger

\* Submit keeps the invariant.
LEMMA SubmitInv == ASSUME Inv, NEW t \in Tx, Submit(t) PROVE Inv'
<1>1. CASE pool' = pool
  BY <1>1 DEF Inv, Submit
<1>2. CASE pool' # pool
  <2>1. PICK p, q : p = pool /\ q = pool'
    OBVIOUS
  <2>2. /\ Pool!Admissible(p, t)
        /\ q = [pending   |-> p.pending \cup {t},
                nextNonce |-> [p.nextNonce EXCEPT ![From[t]] = @ + 1],
                perSender |-> [p.perSender EXCEPT ![From[t]] = @ + 1]]
    BY <1>2, <2>1 DEF Submit, Pool!AddTransaction
  <2>3. /\ PoolProofs!Sound(p) /\ PoolProofs!Sound(q)
        /\ p.pending \in SUBSET Tx /\ p.nextNonce \in [Address -> Nat]
    BY <2>1, PoolMeans, Zenon DEF Inv, Submit
  <2>4. /\ From[t] \in Address /\ Nonce[t] = p.nextNonce[From[t]] /\ q.pending = p.pending \cup {t}
        /\ \A a \in Address : q.nextNonce[a] = p.nextNonce[a] + (IF a = From[t] THEN 1 ELSE 0)
    BY <2>2, <2>3, Fields DEF Pool!Admissible
  <2>5. \A u \in p.pending :
           From[u] \in Address /\ Nonce[u] \in Nat /\ Nonce[u] < p.nextNonce[From[u]]
    BY <2>1, <2>3, ExecutorAssumption, Zenon DEF Inv, Ordered
  <2>6. Ordered(q)
    <3>1. Distinct(q.pending)
      <4>1. Distinct(p.pending)
        BY <2>1 DEF Inv, Ordered
      <4>2. \A u \in p.pending : From[u] = From[t] => Nonce[u] # Nonce[t]
        BY <2>3, <2>4, <2>5
      <4> QED
        BY <2>4, <4>1, <4>2, Zenon DEF Distinct
    <3>2. ASSUME NEW u \in q.pending PROVE Nonce[u] < q.nextNonce[From[u]]
      <4>1. CASE u = t
        BY <2>3, <2>4, <4>1
      <4>2. CASE u \in p.pending
        BY <2>3, <2>4, <2>5, <4>2
      <4> QED
        BY <2>4, <4>1, <4>2
    <3> QED
      BY <3>1, <3>2 DEF Ordered
  <2>7. ASSUME ~restarted PROVE Tracks(state, q)
    <3> SUFFICES ASSUME NEW a \in Address
                 PROVE  /\ state.nonce[a] <= q.nextNonce[a]
                        /\ {Nonce[u] : u \in Pool!PendingOf(q, a)}
                             = state.nonce[a] .. q.nextNonce[a] - 1
      BY DEF Tracks
    <3>1. PICK n, x \in Nat : n = state.nonce[a] /\ x = p.nextNonce[a]
      BY <2>3, Zenon DEF Inv, Ledger, States
    <3>2. n <= x /\ {Nonce[u] : u \in Pool!PendingOf(p, a)} = n .. x - 1
      BY <2>1, <2>7, <3>1 DEF Inv, Tracks
    <3>3. CASE a = From[t]
      <4>1. {Nonce[u] : u \in Pool!PendingOf(q, a)}
              = {Nonce[u] : u \in Pool!PendingOf(p, a)} \cup {x}
        BY <2>4, <3>1, <3>3 DEF Pool!PendingOf
      <4>2. q.nextNonce[a] = x + 1
        BY <2>4, <3>1, <3>3
      <4>3. (n .. x - 1) \cup {x} = n .. (x + 1) - 1
        BY <3>1, <3>2
      <4>4. n <= x + 1
        BY <3>1, <3>2
      <4> QED
        BY <3>1, <3>2, <4>1, <4>2, <4>3, <4>4, Zenon
    <3>4. CASE a # From[t]
      <4>1. Pool!PendingOf(q, a) = Pool!PendingOf(p, a)
        BY <2>4, <3>4 DEF Pool!PendingOf
      <4>2. q.nextNonce[a] = x
        BY <2>4, <3>1, <3>4
      <4> QED
        BY <3>1, <3>2, <4>1, <4>2
    <3> QED
      BY <3>3, <3>4
  <2> QED
    BY <2>1, <2>3, <2>6, <2>7 DEF Inv, Submit
<1> QED
  BY <1>1, <1>2

\* A block is imported and its chain leaves the pool.
LEMMA TickInv == ASSUME Inv, Tick PROVE Inv'
<1>1. PICK chosen \in GetPending :
         /\ Imports(ProduceBlock(chosen))
         /\ state' = ProduceBlock(chosen).state
         /\ receipts' = receipts \o ProduceBlock(chosen).receipts
         /\ pool' = Pool!RemoveAll(pool, Txs(receipts'))
         /\ restarted' = restarted
  BY Zenon DEF Tick
<1>2. PICK block : block = ProduceBlock(chosen)
  OBVIOUS
<1>3. pool.pending \in SUBSET Tx /\ IsFiniteSet(pool.pending) /\ Distinct(pool.pending)
  BY PoolMeans DEF Inv, Ordered
<1>4. PICK txs \in Seq(Tx) : txs = Sorted(chosen)
  BY <1>3, GetPendingMeans
<1>5. /\ chosen \subseteq pool.pending /\ chosen \in SUBSET Tx /\ txs \in Seq(chosen)
      /\ block = Run(state, txs)
  BY <1>2, <1>3, <1>4, GetPendingMeans
<1>6. Ledger(state', receipts')
  <2>1. PICK replay : replay = Run(state, Txs(block.receipts))
    OBVIOUS
  <2>2. Len(replay.receipts) = Len(block.receipts) /\ replay.state = block.state
    BY <1>1, <1>2, <2>1 DEF Imports, Execute, Run
  <2>3. Ledger(state, receipts)
    BY DEF Inv
  <2>4. Ledger(block.state, receipts \o block.receipts)
    BY <1>5, <2>1, <2>2, <2>3, ImportsExact
  <2> QED
    BY <1>1, <1>2, <2>4
<1>7. state \in States /\ block \in Candidates /\ block.receipts \in Seq(Receipt)
  <2>1. state \in States
    BY DEF Inv, Ledger
  <2> QED
    BY <1>5, <2>1, RunType DEF Candidates
<1>8. \A i \in 1 .. Len(block.receipts) : block.receipts[i].tx \in pool.pending
  BY <1>5, <1>7, ReceiptsFrom
<1>9. PICK us \in Seq(Tx) : us = Txs(receipts')
  <2>1. receipts' \in Seq(Receipt)
    BY <1>6 DEF Ledger
  <2> QED
    BY <2>1, TxsMeans
<1>10. /\ PoolProofs!Sound(pool') /\ pool'.nextNonce = pool.nextNonce
       /\ pool'.pending \subseteq pool.pending
  <2>1. PoolProofs!Sound(pool)
    BY DEF Inv
  <2> QED
    BY <1>1, <1>9, <2>1, PoolMeans
<1>11. Ordered(pool')
  BY <1>10 DEF Inv, Ordered, Distinct
<1>12. ASSUME ~restarted PROVE Tracks(state', pool')
  BY <1>1, <1>2, <1>6, <1>7, <1>8, <1>12, BlockTracks, Zenon DEF Inv
<1> QED
  BY <1>1, <1>6, <1>10, <1>11, <1>12, Zenon DEF Inv

\* The invariant holds initially and is kept by every step.
LEMMA Invariance == Spec => []Inv
<1>1. Init => Inv
  <2> SUFFICES ASSUME Init PROVE Inv
    OBVIOUS
  <2>1. pool.pending = {} /\ pool.nextNonce = [a \in Address |-> 0] /\ PoolProofs!Sound(pool)
    BY EmptyPoolMeans DEF Init
  <2>2. Ledger(state, receipts)
    BY GenesisLedger DEF Init
  <2>3. Ordered(pool)
    BY <2>1 DEF Ordered, Distinct
  <2>4. Tracks(state, pool)
    <3> SUFFICES ASSUME NEW a \in Address
                 PROVE  /\ state.nonce[a] <= pool.nextNonce[a]
                        /\ {Nonce[t] : t \in Pool!PendingOf(pool, a)}
                             = state.nonce[a] .. pool.nextNonce[a] - 1
      BY DEF Tracks
    <3>1. state.nonce[a] = 0 /\ pool.nextNonce[a] = 0
      BY <2>1 DEF Init, GenesisState
    <3>2. Pool!PendingOf(pool, a) = {}
      BY <2>1 DEF Pool!PendingOf
    <3> QED
      BY <3>1, <3>2
  <2> QED
    BY <2>1, <2>2, <2>3, <2>4 DEF Inv
<1>2. Inv /\ [Next]_vars => Inv'
  <2> SUFFICES ASSUME Inv, [Next]_vars PROVE Inv'
    OBVIOUS
  <2>1. ASSUME NEW t \in Tx, Submit(t) PROVE Inv'
    BY <2>1, SubmitInv
  <2>2. CASE Tick
    BY <2>2, TickInv
  <2>3. CASE Restart
    <3>1. /\ pool'.pending = {} /\ PoolProofs!Sound(pool')
          /\ restarted' = TRUE /\ state' = state /\ receipts' = receipts
      BY <2>3, EmptyPoolMeans DEF Restart
    <3>2. Ordered(pool')
      BY <3>1 DEF Ordered, Distinct
    <3> QED
      BY <3>1, <3>2 DEF Inv
  <2>4. CASE UNCHANGED vars
    BY <2>4 DEF Inv, vars
  <2> QED
    BY <2>1, <2>2, <2>3, <2>4 DEF Next
<1> QED
  BY <1>1, <1>2, PTL DEF Spec

\* In every reachable state, after any imported blocks and restarts, the
\* balances and the gas that the receipts charge for add up to the genesis
\* allocation, and no balance leaves 256 bits (execute_transaction,
\* import_and_apply).
THEOREM SupplyConservedAlways == Spec => []SupplyConserved
<1>1. Inv => SupplyConserved
  BY DEF Inv, Ledger, SupplyConserved, States
<1> QED
  BY <1>1, Invariance, PTL

\* In every reachable state the chain holds the transactions of each sender in
\* the order of their nonces, without a gap or a repetition, and the account
\* nonce is their number (the nonce check of execute_transaction), also when
\* the restarted pool takes in again what the chain has.
THEOREM NoReplayAlways == Spec => []NoReplay
<1>1. Inv => NoReplay
  BY DEF Inv, Ledger, NoReplay
<1> QED
  BY <1>1, Invariance, PTL

\* Whichever pending transactions get_pending returns, the gas of the block
\* that produce_block makes of them is within max_gas_per_block.
THEOREM BlockGasBoundedAlways == Spec => []BlockGasBounded
<1>1. ASSUME Inv, NEW chosen \in GetPending
      PROVE  ProduceBlock(chosen).gasUsed <= MaxGasPerBlock
  <2>1. pool.pending \in SUBSET Tx /\ IsFiniteSet(pool.pending) /\ Distinct(pool.pending)
    BY <1>1, PoolMeans, Zenon DEF Inv, Ordered
  <2>2. Sorted(chosen) \in Seq(Tx) /\ ProduceBlock(chosen) = Run(state, Sorted(chosen))
    BY <2>1, GetPendingMeans
  <2>3. state \in States
    BY <1>1 DEF Inv, Ledger
  <2>4. ProduceBlock(chosen) \in Candidates
    BY <2>2, <2>3, RunType
  <2>5. MaxGasPerBlock \in Nat
    BY ExecutorAssumption
  <2> QED
    BY <2>4, <2>5 DEF Candidates
<1>2. Inv => BlockGasBounded
  BY <1>1 DEF BlockGasBounded
<1> QED
  BY <1>2, Invariance, PTL

\* Whatever get_pending returns, the block that produce_block makes of it is
\* executed by import_and_apply with the same receipts and state, unless a
\* transaction failed after it had changed the state, and is then imported
\* unless it is above the gas limit of genesis.
THEOREM OwnBlocksImportAlways == Spec => []OwnBlocksImport
<1>1. ASSUME Inv, NEW chosen \in GetPending, ~Spoiled(chosen),
             ~(ProduceBlock(chosen).gasUsed > BlockGasLimit)
      PROVE  Imports(ProduceBlock(chosen))
  <2>1. pool.pending \in SUBSET Tx /\ IsFiniteSet(pool.pending) /\ Distinct(pool.pending)
    BY <1>1, PoolMeans, Zenon DEF Inv, Ordered
  <2>2. /\ chosen \in SUBSET Tx /\ IsFiniteSet(chosen) /\ Distinct(chosen)
        /\ Sorted(chosen) \in Seq(Tx) /\ ProduceBlock(chosen) = Run(state, Sorted(chosen))
    BY <2>1, GetPendingMeans
  <2>3. state \in States
    BY <1>1 DEF Inv, Ledger
  <2>4. PICK block : block = ProduceBlock(chosen)
    OBVIOUS
  <2>5. Execute(Txs(block.receipts)) = block
    BY <1>1, <2>2, <2>3, <2>4, UnspoiledReplays DEF Replays, Execute, Run
  <2>6. block.gasUsed <= BlockGasLimit
    <3>1. block \in Candidates /\ MaxGasPerBlock \in Nat /\ BlockGasLimit \in Nat
      BY <2>2, <2>3, <2>4, RunType, ExecutorAssumption, ProducerAssumption
    <3>2. PICK g \in Nat : g = block.gasUsed
      BY <3>1 DEF Candidates
    <3> QED
      BY <1>1, <2>4, <3>1, <3>2
  <2> QED
    BY <2>4, <2>5, <2>6 DEF Imports
<1>2. Inv => OwnBlocksImport
  BY <1>1 DEF OwnBlocksImport
<1> QED
  BY <1>2, Invariance, PTL

\* Until a restart, the nonce that the pool expects of a sender is the account's
\* plus the sender's pending transactions (add_transaction, and the removals of
\* apply_head_change): an imported block takes them out in the order in which
\* it raises the account nonce.
THEOREM PoolTracksAccountsAlways == Spec => []PoolTracksAccounts
<1>1. ASSUME Inv, ~restarted, NEW a \in Address
      PROVE  pool.nextNonce[a] = state.nonce[a] + Cardinality(Pool!PendingOf(pool, a))
  <2>1. PICK n, x \in Nat : n = state.nonce[a] /\ x = pool.nextNonce[a]
    BY <1>1, PoolMeans, Zenon DEF Inv, Ledger, States
  <2>2. PICK S : S = Pool!PendingOf(pool, a)
    OBVIOUS
  <2>3. n <= x /\ {Nonce[t] : t \in S} = n .. x - 1
    BY <1>1, <2>1, <2>2 DEF Inv, Tracks
  <2>4. \A t, u \in S : Nonce[t] = Nonce[u] => t = u
    BY <1>1, <2>2 DEF Inv, Ordered, Distinct, Pool!PendingOf
  <2> DEFINE f == [t \in S |-> Nonce[t]]
  <2>5. f \in Bijection(S, n .. x - 1)
    BY <2>3, <2>4 DEF Bijection, Injection, Surjection, IsInjective
  <2>6. IsFiniteSet(S)
    <3>1. S \in SUBSET pool.pending /\ IsFiniteSet(pool.pending)
      BY <1>1, <2>2, PoolMeans DEF Inv, Pool!PendingOf
    <3> QED
      BY <3>1, FS_Subset
  <2>7. Cardinality(n .. x - 1) = Cardinality(S)
    <3>1. ExistsBijection(S, n .. x - 1)
      BY <2>5 DEF ExistsBijection
    <3> QED
      BY <2>6, <3>1, FS_Bijection
  <2>8. Cardinality(n .. x - 1) = x - n
    <3>1. n \in Int /\ x - 1 \in Int
      BY <2>1
    <3>2. Cardinality(n .. x - 1) = IF n > x - 1 THEN 0 ELSE (x - 1) - n + 1
      BY <3>1, FS_Interval
    <3> QED
      BY <2>1, <2>3, <3>2
  <2> QED
    BY <2>1, <2>2, <2>3, <2>7, <2>8
<1>2. Inv => PoolTracksAccounts
  BY <1>1 DEF PoolTracksAccounts
<1> QED
  BY <1>2, Invariance, PTL

\* In every reachable state eth_estimateGas is exact (call.rs, executor.rs
\* simulate and execute_transaction), as long as the default gas of a
\* simulation is not exactly the intrinsic gas of a transaction.
THEOREM EstimateExactAlways ==
    ASSUME \A t \in Tx : Intrinsic(t) # DefaultFuel
    PROVE  Spec => []EstimateExact
<1>1. Inv => EstimateExact
  BY EstimateExactOnStates DEF Inv, Ledger
<1> QED
  BY <1>1, Invariance, PTL
============================================================================
