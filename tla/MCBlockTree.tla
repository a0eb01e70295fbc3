---------------------------- MODULE MCBlockTree ----------------------------
(***************************************************************************)
(* A small block tree with rival branches, used by several runs.           *)
(*                                                                         *)
(*    50 --- 30 [t0 v0] --- 60 [t1] --- 10 []                              *)
(*       \-- 20 [u0]    --- 40 [t1]                                        *)
(*                                                                         *)
(* Hashes make both equal-height choices go to the lower branch.  t0 and   *)
(* u0 are rivals for nonce 0 of sender a.  Blocks 1..6 must never be       *)
(* accepted: unsealed, wrong number, wrong root, body that fails           *)
(* validation, nonce gap, child of a bad block.                            *)
(***************************************************************************)
EXTENDS BlockTree, SequencesExt

MCTx == {"t0", "u0", "t1", "v0"}
MCSender == {"a", "b"}
MCFrom == [t \in MCTx |-> IF t = "v0" THEN "b" ELSE "a"]
MCNonce == [t \in MCTx |-> IF t = "t1" THEN 1 ELSE 0]

Fork == {50, 30, 60, 10, 20, 40}
Bad == 1 .. 6
MCBlock == Fork \cup Bad
MCGenesis == 50

MCParent == 50 :> 0 @@ 30 :> 50 @@ 60 :> 30 @@ 10 :> 60 @@ 20 :> 50 @@ 40 :> 20
            @@ 1 :> 50 @@ 2 :> 30 @@ 3 :> 50 @@ 4 :> 50 @@ 5 :> 50 @@ 6 :> 3
MCNumber == 50 :> 0 @@ 30 :> 1 @@ 60 :> 2 @@ 10 :> 3 @@ 20 :> 1 @@ 40 :> 2
            @@ 1 :> 1 @@ 2 :> 3 @@ 3 :> 1 @@ 4 :> 1 @@ 5 :> 1 @@ 6 :> 2
MCTxsOf == 30 :> <<"t0", "v0">> @@ 60 :> <<"t1">> @@ 20 :> <<"u0">> @@ 40 :> <<"t1">>
           @@ 5 :> <<"t1">> @@ [b \in {50, 10, 1, 2, 3, 4, 6} |-> <<>>]

MCValidHeader == MCBlock \ {1}
MCValidBody == MCBlock \ {4}

(* A state: the next nonce of each account and its last transaction.       *)
MCState == [nonce : [MCSender -> 0 .. 4], last : [MCSender -> MCTx \cup {"none"}]]
MCGenesisState == [nonce |-> [s \in MCSender |-> 0], last |-> [s \in MCSender |-> "none"]]

ExecuteOne(s, t) ==
    IF s = ExecError \/ MCNonce[t] # s.nonce[MCFrom[t]] THEN ExecError
    ELSE [nonce |-> [s.nonce EXCEPT ![MCFrom[t]] = @ + 1],
          last  |-> [s.last EXCEPT ![MCFrom[t]] = t]]
MCExecute(s, txs) == FoldLeft(ExecuteOne, s, txs)
MCRootOf(s) == <<s.nonce, s.last>>

PostOf[b \in MCBlock] ==
    IF b = MCGenesis THEN MCGenesisState ELSE MCExecute(PostOf[MCParent[b]], MCTxsOf[b])
MCStateRoot ==
    [b \in MCBlock |-> IF b = 3 \/ PostOf[b] = ExecError THEN <<"wrong">>
                       ELSE MCRootOf(PostOf[b])]
=============================================================================
