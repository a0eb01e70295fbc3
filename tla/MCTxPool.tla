------------------------------ MODULE MCTxPool ------------------------------
(* Two senders; a has two rival transactions for nonces 0 and 1, and x is   *)
(* a transaction whose signature does not verify.                          *)
EXTENDS TxPool

MCTx == {"a0", "a0x", "a1", "a1x", "a2", "b0", "b1", "x"}
MCSender == {"a", "b"}
MCFrom == [t \in MCTx |-> IF t \in {"b0", "b1"} THEN "b" ELSE "a"]
MCNonce == [t \in MCTx |-> CASE t \in {"a0", "a0x", "b0", "x"} -> 0
                             [] t \in {"a1", "a1x", "b1"}      -> 1
                             [] t = "a2"                       -> 2]
MCVerified == MCTx \ {"x"}
=============================================================================
