------------------------------ MODULE MCChain ------------------------------
EXTENDS Chain, MCBlockTree
=============================================================================
