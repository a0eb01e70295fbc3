---------------------------- MODULE MCTxPoolTasks ----------------------------
(* Sender a has two rival transactions for nonce 0; x does not verify.      *)
EXTENDS TxPoolTasks

MCTx == {"a0", "a0x", "a1", "b0", "x"}
MCSender == {"a", "b"}
MCFrom == [t \in MCTx |-> IF t = "b0" THEN "b" ELSE "a"]
MCNonce == [t \in MCTx |-> IF t = "a1" THEN 1 ELSE 0]
MCVerified == MCTx \ {"x"}
=============================================================================
