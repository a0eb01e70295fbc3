----------------------------- MODULE MCProducer -----------------------------
(* Accounts 1 and 2 send; 3 and 4 are the contracts that 1 can create with *)
(* its nonces 0 and 1: 3 traps after a write, 4 writes and burns 2 fuel.   *)
(* Both begin with the largest balance there is, so that a credit can fail. *)
EXTENDS Producer

MCTx == {"trap3", "self", "new4", "pay2", "call3", "call4", "free4", "dear"}
MCAddress == 1 .. 4
MCSender == MCAddress
MCFrom == [t \in MCTx |-> IF t \in {"call3", "call4", "free4", "dear"} THEN 2 ELSE 1]
MCTo == [t \in MCTx |-> CASE t \in {"trap3", "new4"}  -> 0
                          [] t = "self"               -> 1
                          [] t = "pay2"               -> 2
                          [] t \in {"call3", "dear"}  -> 3
                          [] t \in {"call4", "free4"} -> 4]
MCNonce == [t \in MCTx |-> CASE t \in {"trap3", "self", "call3", "call4"} -> 0
                             [] t \in {"new4", "free4", "dear"}           -> 1
                             [] t = "pay2"                                -> 2]
MCValue == [t \in MCTx |-> CASE t = "dear" -> 16 [] t \in {"self", "pay2"} -> 3 [] OTHER -> 1]
MCGas == [t \in MCTx |-> CASE t = "free4" -> 2 [] t = "trap3" -> 3 [] OTHER -> 4]
MCGasPrice == [t \in MCTx |-> IF t = "pay2" THEN 2 ELSE 1]
MCDataLen == [t \in MCTx |-> IF t \in {"trap3", "new4"} THEN 1 ELSE 0]
MCCodeOf == [t \in {"trap3", "new4"} |->
                [fuel |-> 2, write |-> 7, traps |-> t = "trap3"]]
MCCreate(a, n) == IF a = 1 THEN 3 + n ELSE 4
MCVerified == MCTx
MCAlloc == [a \in MCAddress |-> IF a <= 2 THEN 20 ELSE 0]
=============================================================================
