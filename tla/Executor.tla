------------------------------ MODULE Executor ------------------------------
(***************************************************************************)
(* Executor::execute_transaction (crates/ivory-executor), with the gas     *)
(* meter, execute_call and what it needs of the WASM machine.  A StateDB   *)
(* is a record of total functions: a missing account, slot or code reads   *)
(* as empty.  Each contract has one storage slot.                          *)
(*                                                                         *)
(* execute_transaction works on the StateDB in place.  Its result here is  *)
(* the state it leaves, whether it returned Ok, and the gas it used: an    *)
(* error does not undo what was written before it.                         *)
(* Executor::simulate answers a call on a fork that is then dropped.       *)
(***************************************************************************)
EXTENDS Integers, Sequences, FiniteSets

CONSTANTS
    Tx,             \* transactions; the functions below are their fields
    Address,        \* account addresses, ordered as their bytes
    From, To, Value, Gas, GasPrice, Nonce, DataLen,
    NoAddress,      \* To[t] of a contract creation
    CodeOf,         \* program in the data of a contract creation
    Create(_, _),   \* Address::create
    TxGasCost, DataGasCost, MaxGasPerBlock,     \* GasConfig
    DefaultFuel,    \* fuel of a machine, and gas of a simulation, given none
    MaxU256         \* largest balance

\* A program burns fuel; it may write its slot, and may then trap.  Code that
\* is no valid module, or has a wrong export, traps without a write.
Programs == [fuel : Nat, write : Nat, traps : BOOLEAN]
NoCode == [fuel |-> 0, write |-> 0, traps |-> FALSE]

ASSUME ExecutorAssumption ==
    /\ Address \subseteq Nat /\ IsFiniteSet(Address)
    /\ From \in [Tx -> Address]
    /\ To \in [Tx -> Address \cup {NoAddress}]
    /\ \A f \in {Value, Gas, GasPrice, Nonce, DataLen} : f \in [Tx -> Nat]
    /\ \A t \in Tx : To[t] = NoAddress =>
           Create(From[t], Nonce[t]) \in Address /\ CodeOf[t] \in Programs
    /\ {TxGasCost, DataGasCost, MaxGasPerBlock, DefaultFuel, MaxU256} \subseteq Nat

States == [balance : [Address -> 0 .. MaxU256],
           nonce   : [Address -> Nat],
           code    : [Address -> Programs],
           slot    : [Address -> Nat]]

Fits(n) == n <= MaxU256
----------------------------------------------------------------------------
Intrinsic(t) == TxGasCost + DataLen[t] * DataGasCost
Remaining(t) == Gas[t] - Intrinsic(t)
Total(t) == Value[t] + Gas[t] * GasPrice[t]
Recipient(t) == IF To[t] = NoAddress THEN Create(From[t], Nonce[t]) ELSE To[t]

RefusedButNonce(s, used, t) ==
    \/ Intrinsic(t) > Gas[t]
    \/ ~Fits(Total(t)) \/ s.balance[From[t]] < Total(t)
    \/ used + Gas[t] > MaxGasPerBlock

RefusedByGasUsed(s, used, t) ==
    \/ s.nonce[From[t]] # Nonce[t]
    \/ Intrinsic(t) > Gas[t]
    \/ ~Fits(Total(t)) \/ s.balance[From[t]] < Total(t)
    \/ used > MaxGasPerBlock

RefusedButBalance(s, used, t) ==
    \/ s.nonce[From[t]] # Nonce[t]
    \/ Intrinsic(t) > Gas[t]
    \/ ~Fits(Total(t))
    \/ used + Gas[t] > MaxGasPerBlock

\* the errors that come before anything is written
Refused(s, used, t) ==
    \/ s.nonce[From[t]] # Nonce[t]
    \/ Intrinsic(t) > Gas[t]
    \/ ~Fits(Total(t)) \/ s.balance[From[t]] < Total(t)
    \/ used + Gas[t] > MaxGasPerBlock

Charged(s, t) ==
    [s EXCEPT !.balance[From[t]] = @ - Total(t), !.nonce[From[t]] = @ + 1]

Credited(s, t) ==
    [Charged(s, t) EXCEPT
        !.balance[Recipient(t)] = @ + Value[t],
        !.code[Recipient(t)] = IF To[t] = NoAddress THEN CodeOf[t] ELSE @]

\* execute_call runs the code of the recipient of a call
Callee(s, t) == IF To[t] = NoAddress THEN NoCode ELSE s.code[To[t]]
Fuel(left) == IF left = 0 THEN DefaultFuel ELSE left
CallFails(s, t, left) == Callee(s, t).traps \/ Callee(s, t).fuel > Fuel(left)

\* the machine writes to the StateDB itself
Called(s, t) ==
    IF Callee(s, t).write = 0 THEN s
    ELSE [s EXCEPT !.slot[To[t]] = Callee(s, t).write]

\* a machine that was given no gas reports none as used
CallGas(s, t, left) == IF left = 0 THEN 0 ELSE Callee(s, t).fuel

RefundOfLimit(s, t) == (Gas[t] - CallGas(s, t, Remaining(t))) * GasPrice[t]

Refund(s, t) == (Remaining(t) - CallGas(s, t, Remaining(t))) * GasPrice[t]

ExecuteTransaction(s, used, t) ==
    LET err(left) == [state |-> left, ok |-> FALSE, gasUsed |-> 0]
        paid      == Credited(s, t)
        called    == Called(paid, t)
    IN  IF Refused(s, used, t)                              THEN err(s)
        ELSE IF ~Fits(paid.balance[Recipient(t)])           THEN err(Charged(s, t))
        ELSE IF CallFails(paid, t, Remaining(t))            THEN err(called)
        ELSE IF ~Fits(called.balance[From[t]] + Refund(paid, t)) THEN err(called)
        ELSE [state   |-> [called EXCEPT !.balance[From[t]] = @ + Refund(paid, t)],
              ok      |-> TRUE,
              gasUsed |-> Intrinsic(t) + CallGas(paid, t, Remaining(t))]

----------------------------------------------------------------------------
(* Executor::simulate, for eth_call and eth_estimateGas, with the fields of*)
(* t as the request: no nonce, no price, and a gas limit of its own.       *)

\* a creation is at the address of the account's nonce, not of a request's
Transferred(s, t) ==
    LET to == IF To[t] = NoAddress THEN Create(From[t], s.nonce[From[t]]) ELSE To[t]
        debited == [s EXCEPT !.balance[From[t]] = @ - Value[t]]
    IN  [debited EXCEPT !.balance[to] = @ + Value[t],
                        !.code[to] = IF To[t] = NoAddress THEN CodeOf[t] ELSE @]

SimulateFrom(s, t, gas) ==
    LET moved == Transferred(s, t)
        left  == gas - Intrinsic(t)
        ok    == /\ Intrinsic(t) <= gas
                 /\ Value[t] <= s.balance[From[t]]
                 /\ \A a \in Address : Fits(moved.balance[a])
                 /\ ~CallFails(moved, t, left)
    IN  [ok |-> ok, gasUsed |-> IF ok THEN Intrinsic(t) + CallGas(moved, t, left) ELSE 0]

\* a request without gas, or with zero, simulates with the default
RequestGas(gas) == IF gas = 0 THEN DefaultFuel ELSE gas

\* Mutant: only what the machine burnt.
SimulateCall(s, t, gas) ==
    [SimulateFrom(s, t, RequestGas(gas)) EXCEPT !.gasUsed = @ - Intrinsic(t)]

Simulate(s, t, gas) == SimulateFrom(s, t, RequestGas(gas))

\* eth_estimateGas; no result is an error
EstimateGas(s, t, gas) ==
    LET out == Simulate(s, t, gas) IN IF out.ok THEN {out.gasUsed} ELSE {}

\* The transaction is refused only after the state was written.
FailsLate(s, used, t) == ~Refused(s, used, t) /\ ~ExecuteTransaction(s, used, t).ok
=============================================================================
