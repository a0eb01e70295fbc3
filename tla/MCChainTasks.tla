---------------------------- MODULE MCChainTasks ----------------------------
(* The tree of MCBlockTree without its last block, and with one bad block. *)
EXTENDS ChainTasks, MCBlockTree

Small == {50, 30, 60, 20, 40, 3}
SmallParent == Restrict(MCParent, Small)
SmallNumber == Restrict(MCNumber, Small)
SmallStateRoot == Restrict(MCStateRoot, Small)
SmallTxsOf == Restrict(MCTxsOf, Small)
TaskSymmetry == Permutations(Task)
=============================================================================
